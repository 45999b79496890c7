--------------------------- MODULE RequestTextProofs ---------------------------
(***************************************************************************)
(* Proofs about RequestText: the buffer of a string that is parsed, where  *)
(* the head of a request ends, and the tokenizer's hash table, for every   *)
(* vocabulary and every hash function.                                     *)
(***************************************************************************)
EXTENDS RequestText, FiniteSetTheorems, WellFoundedInduction, TLAPS

-----------------------------------------------------------------------------
(* The buffer of a string.                                                 *)

\* parse_string()'s buffer: its terminator fits, and it was never smaller than
\* at first, so one doubling makes room for a character of three bytes.
StrInv ==
    /\ str.bytes \in Seq(Int)
    /\ str.cap \in Nat /\ str.cap >= StringCap
    /\ Len(str.bytes) < str.cap

LEMMA CapAtFirst == StringCap \in Nat /\ StringCap >= 4
  BY JsonAssumption

\* The two growths of the buffer make room for up to three bytes.
LEMMA GrowthFits ==
  ASSUME NEW m \in Nat, NEW n \in 1 .. 3, NEW cap \in Nat, cap >= 4, m < cap
  PROVE  LET mid == IF n = 1 THEN cap ELSE Grown(m, n, cap)
             end == Grown(m + n - 1, 1, mid)
         IN end \in Nat /\ end >= cap /\ m + n < end
  BY DEF Grown

LEMMA Utf8Length ==
  ASSUME NEW code \in Nat
  PROVE  Utf8(code) \in Seq(Int) /\ Len(Utf8(code)) \in 1 .. 3
  <1>1. CASE code < 128
    BY <1>1 DEF Utf8
  <1>2. CASE 128 <= code /\ code < 2048
    BY <1>2 DEF Utf8
  <1>3. CASE 2048 <= code
    BY <1>3 DEF Utf8
  <1> QED BY <1>1, <1>2, <1>3

LEMMA PutBytesKeeps ==
  ASSUME StrInv, NEW p, NEW bs \in Seq(Int), Len(bs) \in 1 .. 3, PutBytes(p, bs)
  PROVE  StrInv'
  <1> DEFINE n == Len(str.bytes)
             mid == IF Len(bs) = 1 THEN str.cap ELSE Grown(n, Len(bs), str.cap)
             end == Grown(n + Len(bs) - 1, 1, mid)
  <1>1. str' = [bytes |-> str.bytes \o bs, cap |-> end]
    BY DEF PutBytes
  <1>2. n \in Nat /\ n < str.cap /\ str.cap \in Nat /\ str.cap >= 4
    BY CapAtFirst DEF StrInv
  <1>3. end \in Nat /\ end >= str.cap /\ n + Len(bs) < end
    BY <1>2, GrowthFits
  <1>4. str'.bytes \in Seq(Int) /\ Len(str'.bytes) = n + Len(bs)
    BY <1>1 DEF StrInv
  <1>5. str'.cap = end
    BY <1>1
  <1>6. end >= StringCap
    BY <1>2, <1>3, CapAtFirst DEF StrInv
  <1> QED BY <1>3, <1>4, <1>5, <1>6 DEF StrInv

LEMMA StartStringKeeps == ASSUME NEW p, StartString(p) PROVE StrInv'
  <1>1. str' = [bytes |-> <<>>, cap |-> StringCap]
    BY DEF StartString
  <1> QED BY <1>1, CapAtFirst DEF StrInv

LEMMA SameStr == ASSUME StrInv, str' = str PROVE StrInv'
  BY DEF StrInv

LEMMA HexRange == ASSUME NEW c PROVE HexValue(c) \in -1 .. 15
  <1>1. CASE c \in Digit
    BY <1>1 DEF HexValue, Digit
  <1>2. CASE c \notin Digit /\ c \in 97 .. 102
    BY <1>2 DEF HexValue
  <1>3. CASE c \notin Digit /\ c \notin 97 .. 102 /\ c \in 65 .. 70
    BY <1>3 DEF HexValue
  <1>4. CASE c \notin Digit /\ c \notin 97 .. 102 /\ c \notin 65 .. 70
    BY <1>4 DEF HexValue
  <1> QED BY <1>1, <1>2, <1>3, <1>4

LEMMA EscapeKeeps == ASSUME StrInv, UnicodeEscape PROVE StrInv'
  <1> DEFINE h(i) == HexValue(text[pos + 2 + i])
             code == 4096 * h(1) + 256 * h(2) + 16 * h(3) + h(4)
  <1>1. CASE Len(text) - pos < 6 \/ \E i \in 1 .. 4 : h(i) = -1
    BY <1>1, SameStr DEF UnicodeEscape, Reject
  <1>2. CASE ~(Len(text) - pos < 6 \/ \E i \in 1 .. 4 : h(i) = -1)
    <2>1. PutBytes(pos + 6, Utf8(code))
      BY <1>2 DEF UnicodeEscape
    <2>2. \A i \in 1 .. 4 : h(i) \in -1 .. 15 /\ h(i) # -1
      BY <1>2, HexRange
    <2> HIDE DEF h
    <2>3. code \in Nat
      <3>1. h(1) \in Nat /\ h(2) \in Nat /\ h(3) \in Nat /\ h(4) \in Nat
        BY <2>2
      <3> QED BY <3>1
    <2> HIDE DEF code
    <2> QED BY <2>1, <2>3, Utf8Length, PutBytesKeeps
  <1> QED BY <1>1, <1>2

LEMMA ParseStringKeeps == ASSUME StrInv, ParseString PROVE StrInv'
  <1> DEFINE c == text[pos + 1]
  <1>1. CASE ~NextIs(pos, Byte \ Control)
    BY <1>1, SameStr DEF ParseString, Reject
  <1>2. CASE NextIs(pos, Byte \ Control)
    <2>1. c \in Int
      <3>1. text[pos + 1] \in Byte \ Control
        BY <1>2, Zenon DEF NextIs
      <3>2. \A b \in Byte \ Control : b \in Int
        BY DEF Byte
      <3> QED BY <3>1, <3>2
    <2>2. CASE CloseString(pos + 1)
      BY <2>2, SameStr DEF CloseString, Give, Reject
    <2>3. CASE PutBytes(pos + 1, <<c>>)
      <3>1. <<c>> \in Seq(Int) /\ Len(<<c>>) = 1
        BY <2>1
      <3> QED BY <2>3, <3>1, PutBytesKeeps
    <2>4. CASE \E i \in DOMAIN Escapes : PutBytes(pos + 2, <<EscapeMeans[i]>>)
      <3>1. PICK i \in DOMAIN Escapes : PutBytes(pos + 2, <<EscapeMeans[i]>>)
        BY <2>4
      <3>2. i \in 1 .. 8
        BY DEF Escapes
      <3>3. EscapeMeans[i] \in Int
        BY <3>2 DEF EscapeMeans
      <3>4. \A b \in Int : <<b>> \in Seq(Int) /\ Len(<<b>>) \in 1 .. 3
        OBVIOUS
      <3> DEFINE bs == <<EscapeMeans[i]>>
      <3>5. bs \in Seq(Int) /\ Len(bs) \in 1 .. 3
        BY <3>3, <3>4
      <3>6. PutBytes(pos + 2, bs)
        BY <3>1
      <3> HIDE DEF bs
      <3> QED BY <3>5, <3>6, PutBytesKeeps
    <2>5. CASE UnicodeEscape
      BY <2>5, EscapeKeeps
    <2>6. CASE Reject
      BY <2>6, SameStr DEF Reject
    <2>7. \/ CloseString(pos + 1) \/ PutBytes(pos + 1, <<c>>)
          \/ \E i \in DOMAIN Escapes : PutBytes(pos + 2, <<EscapeMeans[i]>>)
          \/ UnicodeEscape \/ Reject
      <3>1. json = "string" /\ IF ~NextIs(pos, Byte \ Control) THEN Reject ELSE
              \/ c = Quote /\ CloseString(pos + 1)
              \/ c \notin {Quote, Backslash} /\ PutBytes(pos + 1, <<c>>)
              \/ c = Backslash /\ \E i \in DOMAIN Escapes :
                    NextIs(pos + 1, {Escapes[i]}) /\ PutBytes(pos + 2, <<EscapeMeans[i]>>)
              \/ c = Backslash /\ NextIs(pos + 1, {117}) /\ UnicodeEscape
              \/ c = Backslash /\ ~NextIs(pos + 1, Range(Escapes) \cup {117}) /\ Reject
        BY Zenon DEF ParseString
      <3> HIDE DEF c
      <3> QED BY <1>2, <3>1, Zenon
    <2> HIDE DEF c
    <2> QED BY <2>2, <2>3, <2>4, <2>5, <2>6, <2>7, Zenon
  <1> QED BY <1>1, <1>2

LEMMA ParseKeeps == ASSUME StrInv, Parse PROVE StrInv'
  <1>1. CASE ParseString
    BY <1>1, ParseStringKeeps
  <1>2. CASE ParseKey
    BY <1>2, StartStringKeeps, SameStr DEF ParseKey, Reject
  <1>3. CASE ParseGiven
    BY <1>3, SameStr DEF ParseGiven, Give, Reject
  <1>4. CASE ParseValue
    <2> DEFINE p == SkipWs(pos)
    <2>1. CASE StartString(p)
      BY <2>1, StartStringKeeps
    <2>2. CASE ~StartString(p)
      <3>1. str' = str
        BY <1>4, <2>2 DEF ParseValue, OpenContainer, Literal, Give, Reject
      <3> QED BY <3>1, SameStr
    <2> QED BY <2>1, <2>2
  <1> QED BY <1>1, <1>2, <1>3, <1>4 DEF Parse

\* All but the reader leave its string alone.
LEMMA StrStep == ASSUME StrInv, [TextNext]_textVarsAll PROVE StrInv'
  <1>1. CASE Parsing
    BY <1>1, ParseKeeps DEF Parsing
  <1>2. CASE Handling /\ ~Parsing
    <2>1. str' = str
      BY <1>2 DEF Handling, ParseBody, Serialize, Reparse, TakeState, Writing, StartParse,
                  Write, WriteStep, WriteFails, WriteEnd, readerVars
    <2> QED BY <2>1, SameStr
  <1>3. CASE Loading \/ Arriving \/ Receiving \/ ParseFile \/ EncodeDump \/ EncodeQuestion
             \/ Encoding \/ Respond \/ ClientReads
    <2>1. str' = str
      BY <1>3 DEF Loading, Arriving, Receiving, ParseFile, StartParse, EncodeDump,
                  EncodeQuestion, Encoding, Respond, ClientReads, jsonVars
    <2> QED BY <2>1, SameStr
  <1>4. CASE UNCHANGED textVarsAll
    <2>1. str' = str
      BY <1>4 DEF textVarsAll, jsonVars
    <2> QED BY <2>1, SameStr
  <1> QED BY <1>1, <1>2, <1>3, <1>4 DEF TextNext

\* parse_string() never writes behind its buffer, in whatever document.
THEOREM StringsFit == TextSpec => []StringFits
  <1>1. TextInit => StrInv
    BY CapAtFirst DEF TextInit, JsonInit, StrInv
  <1>2. StrInv /\ [TextNext]_textVarsAll => StrInv'
    BY StrStep
  <1>3. StrInv => StringFits
    BY DEF StrInv, StringFits
  <1> QED BY <1>1, <1>2, <1>3, PTL DEF TextSpec

-----------------------------------------------------------------------------
(* Where the head of a request ends.                                       *)

LEMMA MinExists ==
  ASSUME NEW S, S \subseteq Nat, S # {}
  PROVE  Min(S) \in S /\ \A n \in S : Min(S) <= n
  <1> DEFINE R == {ss \in Nat \X Nat : ss[1] < ss[2]}
  <1>1. IsWellFoundedOn(R, Nat)
    BY NatLessThanWellFounded, Zenon DEF OpToRel
  <1>2. PICK m \in S : \A n \in S : ~(<<n, m>> \in R)
    <2> HIDE DEF R
    <2> QED BY <1>1, WFMin, Zenon
  <1>3. ASSUME NEW n \in S, n < m PROVE FALSE
    <2>1. <<n, m>> \in R
      BY <1>3
    <2> QED BY <1>2, <2>1, Zenon
  <1>4. \A n \in S : m <= n
    BY <1>3
  <1> QED BY <1>4, Zenon DEF Min

\* The first of the elements up to t is the first of all.
LEMMA MinOfFirst ==
  ASSUME NEW S, S \subseteq Nat, NEW t \in Nat, {n \in S : n <= t} # {}
  PROVE  Min({n \in S : n <= t}) = Min(S)
  <1> DEFINE T == {n \in S : n <= t}
  <1>1. T \subseteq Nat /\ S # {}
    OBVIOUS
  <1>2. Min(T) \in T /\ \A n \in T : Min(T) <= n
    BY <1>1, MinExists
  <1>3. Min(S) \in S /\ \A n \in S : Min(S) <= n
    BY <1>1, MinExists
  <1> HIDE DEF T
  <1>4. Min(S) \in T
    <2>1. PICK n \in S : n <= t
      OBVIOUS
    <2>2. Min(S) \in Nat /\ n \in Nat /\ Min(S) <= n
      BY <1>3, <2>1
    <2>3. Min(S) <= t
      BY <2>1, <2>2
    <2> QED BY <1>3, <2>3 DEF T
  <1>5. Min(T) \in S
    BY <1>2 DEF T
  <1> DEFINE a == Min(T)
             b == Min(S)
  <1>6. a \in Nat /\ b \in Nat /\ a <= b /\ b <= a
    BY <1>2, <1>3, <1>4, <1>5
  <1> HIDE DEF a, b
  <1>7. a = b
    BY <1>6
  <1> QED BY <1>7 DEF a, b, T

LEMMA ParticularElements ==
  ASSUME NEW s, s \in Seq(Bytes), NEW t \in 0 .. Len(s), NEW i \in 1 .. t
  PROVE  /\ Len(SubSeq(s, 1, t)) = t /\ SubSeq(s, 1, t) \in Seq(Bytes)
         /\ SubSeq(s, 1, t)[i] = s[i]
  OBVIOUS

LEMMA FourBytes ==
  ASSUME NEW p \in Seq(Bytes), NEW i \in 4 .. Len(p)
  PROVE  SubSeq(p, i - 3, i) = <<Cr, Lf, Cr, Lf>>
           <=> p[i - 3] = Cr /\ p[i - 2] = Lf /\ p[i - 1] = Cr /\ p[i] = Lf
  <1> DEFINE q == SubSeq(p, i - 3, i)
  <1>1. q \in Seq(Bytes) /\ Len(q) = 4
    OBVIOUS
  <1>2. q[1] = p[i - 3] /\ q[2] = p[i - 2] /\ q[3] = p[i - 1] /\ q[4] = p[i]
    OBVIOUS
  <1> HIDE DEF q
  <1>3. q = <<Cr, Lf, Cr, Lf>> <=> q[1] = Cr /\ q[2] = Lf /\ q[3] = Cr /\ q[4] = Lf
    BY <1>1
  <1> QED BY <1>2, <1>3 DEF q

LEMMA TwoBytes ==
  ASSUME NEW p \in Seq(Bytes), NEW i \in 2 .. Len(p), SubSeq(p, i - 1, i) = <<Lf, Lf>>
  PROVE  p[i - 1] = Lf /\ p[i] = Lf
  <1> DEFINE q == SubSeq(p, i - 1, i)
  <1>1. q[1] = p[i - 1] /\ q[2] = p[i]
    OBVIOUS
  <1>2. q = <<Lf, Lf>>
    OBVIOUS
  <1> HIDE DEF q
  <1>3. q[1] = Lf /\ q[2] = Lf
    BY <1>2
  <1> QED BY <1>1, <1>3

\* Once it is found, the end of a head of CR LF lines is that of its empty line.
LEMMA HeadEndsOnce ==
  ASSUME msg.bytes \in Seq(Bytes), NEW t \in 0 .. Len(msg.bytes),
         HeaderEnd(Taken(t)) # 0, CrLfHead
  PROVE  HeaderEnd(Taken(t)) = Min(EmptyLines)
  <1> DEFINE p == Taken(t)
  <1>1. p \in Seq(Bytes) /\ Len(p) = t /\ \A i \in 1 .. t : p[i] = msg.bytes[i]
    BY ParticularElements DEF Taken
  <1> HIDE DEF p
  <1>2. CrLfEnds(p) = {i \in EmptyLines : i <= t}
    <2>1. ASSUME NEW i \in 4 .. t
          PROVE  SubSeq(p, i - 3, i) = <<Cr, Lf, Cr, Lf>> <=> LineEnds(i) /\ LineEnds(i - 2)
      <3>1. SubSeq(p, i - 3, i) = <<Cr, Lf, Cr, Lf>>
              <=> p[i - 3] = Cr /\ p[i - 2] = Lf /\ p[i - 1] = Cr /\ p[i] = Lf
        BY <1>1, FourBytes
      <3>2. p[i - 3] = msg.bytes[i - 3] /\ p[i - 2] = msg.bytes[i - 2]
            /\ p[i - 1] = msg.bytes[i - 1] /\ p[i] = msg.bytes[i]
        BY <1>1
      <3>3. i - 2 - 1 = i - 3
        OBVIOUS
      <3> QED BY <3>1, <3>2, <3>3 DEF LineEnds
    <2>2. \A i : i \in 4 .. Len(msg.bytes) /\ i <= t <=> i \in 4 .. t
      OBVIOUS
    <2> QED BY <1>1, <2>1, <2>2 DEF CrLfEnds, EmptyLines
  <1>3. EmptyLines \subseteq Nat /\ EmptyLines # {}
    BY DEF EmptyLines, CrLfHead
  <1>4. CASE CrLfEnds(p) # {}
    <2>1. HeaderEnd(p) = Min(CrLfEnds(p))
      BY <1>4 DEF HeaderEnd
    <2>2. Min({i \in EmptyLines : i <= t}) = Min(EmptyLines)
      <3>1. t \in Nat
        OBVIOUS
      <3>2. {i \in EmptyLines : i <= t} # {}
        BY <1>2, <1>4, Zenon
      <3> QED BY <1>3, <3>1, <3>2, MinOfFirst, Zenon
    <2>3. HeaderEnd(p) = Min(EmptyLines)
      BY <1>2, <2>1, <2>2
    <2> QED BY <2>3 DEF p
  <1>5. CASE CrLfEnds(p) = {}
    <2>1. LfEnds(p) # {}
      BY <1>5 DEF HeaderEnd, p
    <2>2. PICK i \in 2 .. t : SubSeq(p, i - 1, i) = <<Lf, Lf>>
      BY <1>1, <2>1 DEF LfEnds
    <2>3. msg.bytes[i - 1] = Lf /\ msg.bytes[i] = Lf
      <3>1. p[i - 1] = Lf /\ p[i] = Lf
        BY <1>1, <2>2, TwoBytes
      <3> QED BY <1>1, <3>1
    <2> DEFINE e == Min(EmptyLines)
    <2>4. e \in EmptyLines
      BY <1>3, MinExists
    <2> HIDE DEF e
    <2>5. e \in Nat /\ ~(e <= t) /\ t \in Nat
      BY <1>2, <1>3, <1>5, <2>4
    <2>6. i \in 1 .. e
      BY <2>2, <2>5
    <2>7. LineEnds(i)
      BY <2>3, <2>6 DEF CrLfHead, e
    <2> QED BY <2>3, <2>7 DEF LineEnds, Cr, Lf
  <1> QED BY <1>4, <1>5

\* What has arrived, what has been read of it, and where its head ends.
HeadInv ==
    /\ msg.bytes \in Seq(Bytes) /\ msg.declared \in Int /\ remaining \in Int
    /\ sent \in Nat /\ taken \in Nat /\ taken <= sent /\ sent <= Len(msg.bytes)
    /\ pc = "accept" => msg.bytes = <<>>
    /\ pc \in {"parse", "body", "ok"} /\ CrLfHead => hend = Min(EmptyLines)
    /\ pc = "ok" => body = SubSeq(msg.bytes, hend + 1, hend + ClampedLength)

LEMMA RecvMoves ==
  ASSUME HeadInv, NEW limit \in Int, Recv(limit)
  PROVE  taken' \in Nat /\ taken' <= sent
  <1>1. PICK n \in 1 .. Smaller(limit, sent - taken) : taken' = taken + n
    BY DEF Recv
  <1>2. taken \in Nat /\ sent \in Nat
    BY DEF HeadInv
  <1>3. n \in 1 .. sent - taken
    BY <1>1, <1>2 DEF Smaller
  <1> QED BY <1>1, <1>2, <1>3

LEMMA ChunksAreInt == HeadChunk \in Int /\ BodyChunk \in Int /\ DrainChunk \in Int
  BY ReadAssumption

LEMMA LengthIsInt == ASSUME HeadInv PROVE ClampedLength \in Int
  BY DEF HeadInv, ClampedLength, Declared

LEMMA SameHead ==
  ASSUME msg' = msg, hend' = hend
  PROVE  /\ (CrLfHead' <=> CrLfHead) /\ EmptyLines' = EmptyLines
         /\ ClampedLength' = ClampedLength
  BY DEF CrLfHead, EmptyLines, LineEnds, ClampedLength, Declared

LEMMA HttpKeeps == ASSUME HeadInv, Next PROVE HeadInv'
  <1>1. CASE Accept
    BY <1>1, ReadAssumption DEF Accept, HeadInv, MessageOK
  <1>2. CASE Arrive
    BY <1>2, SameHead DEF Arrive, HeadInv
  <1>3. CASE ReadHead
    <2>1. taken' \in Nat /\ taken' <= sent /\ UNCHANGED <<msg, sent, remaining, body>>
      BY <1>3, RecvMoves, ChunksAreInt DEF ReadHead
    <2>2. pc' \in {"parse", "400", "head"} /\ (pc' = "parse" => hend' # 0) /\ hend' = HeaderEnd(Taken(taken'))
      BY <1>3, Zenon DEF ReadHead
    <2>3. taken' \in 0 .. Len(msg.bytes)
      BY <2>1 DEF HeadInv
    <2>4. pc' = "parse" /\ CrLfHead => hend' = Min(EmptyLines)
      BY <2>2, <2>3, HeadEndsOnce DEF HeadInv
    <2>5. (CrLfHead' <=> CrLfHead) /\ EmptyLines' = EmptyLines
      BY <2>1 DEF CrLfHead, EmptyLines, LineEnds
    <2> QED BY <2>1, <2>2, <2>4, <2>5 DEF HeadInv
  <1>4. CASE ParseHead
    <2>1. UNCHANGED <<msg, sent, taken, hend>> /\ pc = "parse"
      BY <1>4 DEF ParseHead
    <2>2. pc' = "ok" => body' = SubSeq(msg.bytes, hend + 1, hend + ClampedLength)
      BY <1>4 DEF ParseHead, Deliver
    <2>3. pc' \in {"400", "drain", "ok", "body"}
      BY <1>4 DEF ParseHead, Deliver
    <2>4. remaining' \in Int
      BY <1>4, LengthIsInt DEF ParseHead, HeadInv
    <2> QED BY <2>1, <2>2, <2>3, <2>4, SameHead DEF HeadInv
  <1>5. CASE ReadBody
    <2>1. UNCHANGED <<msg, sent, hend, remaining>> /\ pc = "body"
      BY <1>5 DEF ReadBody
    <2>2. taken' \in Nat /\ taken' <= sent
      BY <1>5, RecvMoves, ChunksAreInt DEF ReadBody
    <2>3. /\ pc' \in {"ok", "body"}
          /\ pc' = "ok" => body' = SubSeq(msg.bytes, hend + 1, hend + ClampedLength)
      BY <1>5 DEF ReadBody, Deliver
    <2> QED BY <2>1, <2>2, <2>3, SameHead DEF HeadInv
  <1>6. CASE Drain
    <2>1. UNCHANGED <<msg, sent, hend>> /\ pc' \in {"413", "drain"}
      BY <1>6 DEF Drain
    <2>2. Smaller(DrainChunk, remaining) \in Int
      BY ChunksAreInt DEF Smaller, HeadInv
    <2>3. taken' \in Nat /\ taken' <= sent
      BY <1>6, <2>2, RecvMoves DEF Drain
    <2>4. remaining' \in Int
      BY <1>6, <2>3 DEF Drain, HeadInv
    <2> QED BY <2>1, <2>3, <2>4 DEF HeadInv
  <1>7. CASE RecvFails
    BY <1>7 DEF RecvFails, HeadInv
  <1> QED BY <1>1, <1>2, <1>3, <1>4, <1>5, <1>6, <1>7 DEF Next, Server

LEMMA HttpStays == ASSUME HeadInv, UNCHANGED vars PROVE HeadInv'
  BY SameHead DEF HeadInv, vars

\* The body of a request is what it declares, however its bytes were split.
THEOREM BodiesAreDeclared == TextSpec => []BodyIsDeclared
  <1>1. TextInit => HeadInv
    BY DEF TextInit, Init, HeadInv, NoMessage
  <1>2. HeadInv /\ [TextNext]_textVarsAll => HeadInv'
    <2>1. [TextNext]_textVarsAll => Next \/ UNCHANGED vars
      BY DEF TextNext, textVarsAll, Loading, Arriving, Receiving, ParseFile, Handling, ParseBody,
             Parsing, Serialize, Reparse, TakeState, Writing, EncodeDump, EncodeQuestion,
             Encoding, Respond, ClientReads, Next
    <2> QED BY <2>1, HttpKeeps, HttpStays
  <1>3. HeadInv => BodyIsDeclared
    <2> SUFFICES ASSUME HeadInv, pc = "ok", CrLfHead
                 PROVE  LET end == Min(EmptyLines)
                        IN body = SubSeq(msg.bytes, end + 1, end + DeclaredBody)
      BY DEF BodyIsDeclared
    <2>1. hend = Min(EmptyLines) /\ body = SubSeq(msg.bytes, hend + 1, hend + ClampedLength)
      BY DEF HeadInv
    <2>2. ClampedLength = DeclaredBody
      BY <2>1 DEF ClampedLength, DeclaredBody, Declared, HeadInv
    <2> QED BY <2>1, <2>2
  <1> QED BY <1>1, <1>2, <1>3, PTL DEF TextSpec

-----------------------------------------------------------------------------
(* The hash table.                                                         *)

\* Where the search for a string comes in k steps, and whether it ends there.
Slot(cap, s, k) == (Hash(s) + k) % cap
Ends(t, i, s) == t[i] = NoSlot \/ t[i].s = s
FirstEnd(t, cap, s, k) ==
    /\ k \in 0 .. cap - 1 /\ Ends(t, Slot(cap, s, k), s)
    /\ \A j \in 0 .. k - 1 : ~Ends(t, Slot(cap, s, j), s)

\* The entries of a table are the ones that the search for their strings
\* finds, and there is room for one more.
Entries(t, cap) ==
    \A i \in Used(t) : t[i].id \in Nat /\ Hash(t[i].s) \in Nat /\ Probe(t, t[i].s) = i
Table(t, cap) ==
    /\ cap \in Nat \ 0 .. 1 /\ DOMAIN t = 0 .. cap - 1 /\ Entries(t, cap)
    /\ Cardinality(Used(t)) < cap
Finds(t, s, id) == Probe(t, s) \in Used(t) /\ t[Probe(t, s)].id = id

LEMMA CapIs ==
  ASSUME NEW t, NEW cap \in Nat, DOMAIN t = 0 .. cap - 1
  PROVE  Cardinality(DOMAIN t) = cap
  <1>1. Cardinality(0 .. cap - 1) = cap
    BY FS_Interval
  <1> QED BY <1>1

LEMMA UsedFinite ==
  ASSUME NEW t, NEW cap \in Nat, DOMAIN t = 0 .. cap - 1
  PROVE  IsFiniteSet(Used(t)) /\ Cardinality(Used(t)) \in Nat /\ Cardinality(Used(t)) <= cap
  <1>1. IsFiniteSet(0 .. cap - 1) /\ Cardinality(0 .. cap - 1) = cap
    BY FS_Interval
  <1>2. Used(t) \in SUBSET (0 .. cap - 1)
    BY DEF Used
  <1> QED BY <1>1, <1>2, FS_Subset, FS_CardinalityType

\* A table that is not full has an empty slot.
LEMMA EmptySlot ==
  ASSUME NEW t, NEW cap \in Nat, DOMAIN t = 0 .. cap - 1, Cardinality(Used(t)) < cap
  PROVE  \E i \in 0 .. cap - 1 : t[i] = NoSlot
  <1>1. SUFFICES ASSUME \A i \in 0 .. cap - 1 : t[i] # NoSlot PROVE FALSE
    OBVIOUS
  <1>2. Used(t) = 0 .. cap - 1
    BY <1>1 DEF Used
  <1>3. Cardinality(0 .. cap - 1) = cap
    BY FS_Interval
  <1> QED BY <1>2, <1>3

LEMMA Mod ==
  ASSUME NEW h \in Nat, NEW cap \in Nat \ {0}, NEW i \in 0 .. cap - 1
  PROVE  \E k \in 0 .. cap - 1 : (h + k) % cap = i
  <1>1. PICK m : m = h % cap
    OBVIOUS
  <1>2. PICK d : d = h \div cap
    OBVIOUS
  <1>3. m \in 0 .. cap - 1 /\ d \in Nat /\ h = cap * d + m
    BY <1>1, <1>2
  <1>4. CASE i >= m
    <2>1. i - m \in 0 .. cap - 1 /\ h + (i - m) = cap * d + i
      BY <1>3, <1>4
    <2>2. (cap * d + i) % cap = i
      BY <1>3
    <2> QED BY <2>1, <2>2
  <1>5. CASE i < m
    <2>1. i - m + cap \in 0 .. cap - 1 /\ h + (i - m + cap) = cap * (d + 1) + i
      BY <1>3, <1>5
    <2>2. (cap * (d + 1) + i) % cap = i
      BY <1>3
    <2> QED BY <2>1, <2>2
  <1> QED BY <1>3, <1>4, <1>5

LEMMA SlotIn ==
  ASSUME NEW cap \in Nat \ {0}, NEW s, Hash(s) \in Nat, NEW k \in Nat
  PROVE  Slot(cap, s, k) \in 0 .. cap - 1
  <1>1. \A n \in Nat : n % cap \in 0 .. cap - 1
    OBVIOUS
  <1>2. Hash(s) + k \in Nat
    OBVIOUS
  <1> QED BY <1>1, <1>2 DEF Slot

\* A search ends at one place.
LEMMA EndsOnce ==
  ASSUME NEW t, NEW cap \in Nat, NEW s, NEW k, FirstEnd(t, cap, s, k)
  PROVE  (CHOOSE n \in 0 .. cap - 1 : Ends(t, Slot(cap, s, n), s) /\ \A j \in 0 .. n - 1 : ~Ends(t, Slot(cap, s, j), s)) = k
  <1>1. \A n \in 0 .. cap - 1 :
           Ends(t, Slot(cap, s, n), s) /\ (\A j \in 0 .. n - 1 : ~Ends(t, Slot(cap, s, j), s)) => n = k
    <2> SUFFICES ASSUME NEW n \in 0 .. cap - 1, Ends(t, Slot(cap, s, n), s),
                        \A j \in 0 .. n - 1 : ~Ends(t, Slot(cap, s, j), s)
                 PROVE  n = k
      OBVIOUS
    <2>1. k \in 0 .. cap - 1 /\ Ends(t, Slot(cap, s, k), s) /\ \A j \in 0 .. k - 1 : ~Ends(t, Slot(cap, s, j), s)
      BY DEF FirstEnd
    <2>2. ~(n \in 0 .. k - 1) /\ ~(k \in 0 .. n - 1)
      BY <2>1
    <2> QED BY <2>1, <2>2
  <1> QED BY <1>1 DEF FirstEnd

LEMMA ProbeIs ==
  ASSUME NEW t, NEW cap \in Nat, DOMAIN t = 0 .. cap - 1, NEW s, NEW k, FirstEnd(t, cap, s, k)
  PROVE  Probe(t, s) = Slot(cap, s, k)
  <1>1. Cardinality(DOMAIN t) = cap
    BY CapIs
  <1>2. Probe(t, s) = Slot(cap, s, CHOOSE n \in 0 .. cap - 1 : Ends(t, Slot(cap, s, n), s)
                                      /\ \A j \in 0 .. n - 1 : ~Ends(t, Slot(cap, s, j), s))
    BY <1>1 DEF Probe, Slot, Ends
  <1> QED BY <1>2, EndsOnce

LEMMA EndExists ==
  ASSUME NEW t, NEW cap \in Nat \ {0}, NEW s, Hash(s) \in Nat, NEW i \in 0 .. cap - 1, t[i] = NoSlot
  PROVE  \E k : FirstEnd(t, cap, s, k)
  <1> DEFINE Ks == {k \in 0 .. cap - 1 : Ends(t, Slot(cap, s, k), s)}
  <1>1. PICK n \in 0 .. cap - 1 : Slot(cap, s, n) = i
    BY Mod DEF Slot
  <1>2. n \in Ks
    BY <1>1 DEF Ends
  <1>3. Ks \subseteq Nat /\ Ks # {}
    BY <1>2
  <1>4. PICK k : k \in Ks /\ \A j \in Ks : k <= j
    <2> HIDE DEF Ks
    <2> QED BY <1>3, MinExists
  <1>5. k \in 0 .. cap - 1 /\ Ends(t, Slot(cap, s, k), s)
    BY <1>4
  <1>6. \A j \in 0 .. k - 1 : ~Ends(t, Slot(cap, s, j), s)
    <2> SUFFICES ASSUME NEW j \in 0 .. k - 1, Ends(t, Slot(cap, s, j), s) PROVE FALSE
      OBVIOUS
    <2>1. j \in Ks
      BY <1>5
    <2> QED BY <1>4, <1>5, <2>1
  <1> QED BY <1>5, <1>6 DEF FirstEnd

\* What the search for a string finds: it, or an empty slot.
LEMMA ProbeEnds ==
  ASSUME NEW t, NEW cap, Table(t, cap), NEW s, Hash(s) \in Nat
  PROVE  \E k : FirstEnd(t, cap, s, k) /\ Probe(t, s) = Slot(cap, s, k) /\ Probe(t, s) \in 0 .. cap - 1
  <1>1. cap \in Nat \ {0} /\ DOMAIN t = 0 .. cap - 1 /\ Cardinality(Used(t)) < cap
    BY DEF Table
  <1>2. PICK i \in 0 .. cap - 1 : t[i] = NoSlot
    BY <1>1, EmptySlot
  <1>3. PICK k : FirstEnd(t, cap, s, k)
    BY <1>1, <1>2, EndExists
  <1>4. Probe(t, s) = Slot(cap, s, k)
    BY <1>1, <1>3, ProbeIs
  <1>5. k \in Nat
    BY <1>1, <1>3 DEF FirstEnd
  <1>6. Slot(cap, s, k) \in 0 .. cap - 1
    BY <1>1, <1>5, SlotIn
  <1> QED BY <1>3, <1>4, <1>6

\* Putting an entry changes the search for its own string only.
LEMMA PutFinds ==
  ASSUME NEW t, NEW cap, Table(t, cap), NEW s, Hash(s) \in Nat, NEW id \in Nat,
         NEW e, e.s = s, e.id = id, NEW u, u = PutSlot(t, e)
  PROVE  /\ DOMAIN u = 0 .. cap - 1 /\ Entries(u, cap)
         /\ Cardinality(Used(u)) <= Cardinality(Used(t)) + 1
         /\ Finds(u, s, id)
         /\ \A x : \A n : Hash(x) \in Nat /\ x # s /\ Finds(t, x, n) => Finds(u, x, n)
  <1>1. PICK p : p = Probe(t, s)
    OBVIOUS
  <1>2. e.s = s /\ e.id = id /\ e # NoSlot
    <2>1. NoSlot.id = -1
      BY DEF NoSlot
    <2> QED BY <2>1
  <1>3. cap \in Nat \ {0} /\ DOMAIN t = 0 .. cap - 1 /\ Entries(t, cap)
    BY DEF Table
  <1>4. PICK k : FirstEnd(t, cap, s, k) /\ p = Slot(cap, s, k) /\ p \in 0 .. cap - 1
    BY <1>1, ProbeEnds
  <1>5. u = [t EXCEPT ![p] = e]
    BY <1>1, <1>2 DEF PutSlot
  <1>6. /\ DOMAIN u = 0 .. cap - 1 /\ u[p] = e
        /\ \A i \in 0 .. cap - 1 : i # p => u[i] = t[i]
    BY <1>3, <1>4, <1>5
  <1>7. \A j \in 0 .. k - 1 : Slot(cap, s, j) # p
    BY <1>4 DEF FirstEnd
  <1>8. k \in 0 .. cap - 1 /\ \A j \in 0 .. k - 1 : j \in Nat
    BY <1>4 DEF FirstEnd
  <1>9. FirstEnd(u, cap, s, k)
    <2>1. Ends(u, Slot(cap, s, k), s)
      BY <1>2, <1>4, <1>6 DEF Ends
    <2>2. ASSUME NEW j \in 0 .. k - 1 PROVE ~Ends(u, Slot(cap, s, j), s)
      <3>1. Slot(cap, s, j) \in 0 .. cap - 1
        BY <1>3, <1>8, SlotIn
      <3>2. u[Slot(cap, s, j)] = t[Slot(cap, s, j)]
        BY <1>6, <1>7, <3>1
      <3> QED BY <1>4, <3>2 DEF Ends, FirstEnd
    <2> QED BY <1>8, <2>1, <2>2 DEF FirstEnd
  <1>10. Probe(u, s) = p
    BY <1>3, <1>4, <1>6, <1>9, ProbeIs
  <1>11. Finds(u, s, id)
    BY <1>2, <1>4, <1>6, <1>10 DEF Finds, Used
  <1>12. ASSUME NEW x, Hash(x) \in Nat, x # s, Probe(t, x) \in Used(t)
         PROVE  Probe(u, x) = Probe(t, x) /\ Probe(t, x) # p
    <2>1. PICK q : q = Probe(t, x)
      OBVIOUS
    <2>2. PICK m : FirstEnd(t, cap, x, m) /\ q = Slot(cap, x, m) /\ q \in 0 .. cap - 1
      BY <1>12, <2>1, ProbeEnds
    <2>3. t[q] # NoSlot /\ t[q].s = x
      BY <1>12, <2>1, <2>2 DEF FirstEnd, Ends, Used
    <2>4. q # p
      BY <1>4, <1>12, <2>3 DEF FirstEnd, Ends
    <2>5. FirstEnd(u, cap, x, m)
      <3>1. m \in 0 .. cap - 1 /\ \A j \in 0 .. m - 1 : j \in Nat
        BY <2>2 DEF FirstEnd
      <3>2. Ends(u, Slot(cap, x, m), x)
        BY <1>6, <2>2, <2>3, <2>4 DEF Ends
      <3>3. ASSUME NEW j \in 0 .. m - 1 PROVE ~Ends(u, Slot(cap, x, j), x)
        <4>1. PICK i : i = Slot(cap, x, j)
          OBVIOUS
        <4>2. i \in 0 .. cap - 1
          BY <1>3, <1>12, <3>1, <4>1, SlotIn
        <4>3. ~Ends(t, i, x)
          BY <2>2, <4>1 DEF FirstEnd
        <4>4. CASE i = p
          BY <1>2, <1>6, <1>12, <4>1, <4>4 DEF Ends
        <4>5. CASE i # p
          BY <1>6, <4>1, <4>2, <4>3, <4>5 DEF Ends
        <4> QED BY <4>4, <4>5
      <3> QED BY <3>1, <3>2, <3>3 DEF FirstEnd
    <2>6. Probe(u, x) = q
      BY <1>3, <1>6, <2>2, <2>5, ProbeIs
    <2> QED BY <2>1, <2>4, <2>6
  <1>13. \A x : \A n : Hash(x) \in Nat /\ x # s /\ Finds(t, x, n) => Finds(u, x, n)
    <2> SUFFICES ASSUME NEW x, NEW n, Hash(x) \in Nat, x # s, Finds(t, x, n) PROVE Finds(u, x, n)
      OBVIOUS
    <2>1. Probe(t, x) \in Used(t) /\ t[Probe(t, x)].id = n
      BY DEF Finds
    <2>2. Probe(u, x) = Probe(t, x) /\ Probe(t, x) # p
      BY <1>12, <2>1
    <2>3. Probe(t, x) \in 0 .. cap - 1 /\ t[Probe(t, x)] # NoSlot
      BY <1>3, <2>1 DEF Used
    <2>4. u[Probe(t, x)] = t[Probe(t, x)]
      BY <1>6, <2>2, <2>3
    <2> QED BY <1>6, <2>1, <2>2, <2>3, <2>4 DEF Finds, Used
  <1>14. Used(u) \subseteq Used(t) \cup {p}
    BY <1>3, <1>6 DEF Used
  <1>15. Cardinality(Used(u)) <= Cardinality(Used(t)) + 1
    <2>1. IsFiniteSet(Used(t)) /\ Cardinality(Used(t)) \in Nat
      BY <1>3, UsedFinite
    <2>2. IsFiniteSet(Used(t) \cup {p}) /\ Cardinality(Used(t) \cup {p}) <= Cardinality(Used(t)) + 1
      <3>1. PICK S : S = Used(t)
        OBVIOUS
      <3>2. /\ IsFiniteSet(S \cup {p})
            /\ Cardinality(S \cup {p}) = IF p \in S THEN Cardinality(S) ELSE Cardinality(S) + 1
        BY ONLY <2>1, <3>1, FS_AddElement
      <3> QED BY ONLY <2>1, <3>1, <3>2
    <2>3. Cardinality(Used(u)) <= Cardinality(Used(t) \cup {p})
      BY <1>14, <2>2, FS_Subset
    <2>4. Cardinality(Used(u)) \in Nat /\ Cardinality(Used(t) \cup {p}) \in Nat
      BY <1>3, <1>6, <2>2, UsedFinite, FS_CardinalityType
    <2> QED BY <2>1, <2>2, <2>3, <2>4
  <1>16. Entries(u, cap)
    <2> SUFFICES ASSUME NEW i \in Used(u)
                 PROVE  u[i].id \in Nat /\ Hash(u[i].s) \in Nat /\ Probe(u, u[i].s) = i
      BY DEF Entries
    <2>1. CASE i = p
      BY <1>2, <1>6, <1>10, <2>1
    <2>2. CASE i # p
      <3>1. i \in 0 .. cap - 1 /\ u[i] = t[i] /\ i \in Used(t)
        BY <1>3, <1>6, <2>2 DEF Used
      <3>2. t[i].id \in Nat /\ Hash(t[i].s) \in Nat /\ Probe(t, t[i].s) = i
        BY <1>3, <3>1 DEF Entries
      <3>3. t[i].s # s
        BY <1>1, <2>2, <3>2
      <3>4. Probe(u, t[i].s) = i
        BY <1>12, <3>1, <3>2, <3>3
      <3> QED BY <3>1, <3>2, <3>4
    <2> QED BY <2>1, <2>2
  <1> QED BY <1>6, <1>11, <1>13, <1>15, <1>16

-----------------------------------------------------------------------------
(* A table that grows.                                                     *)

\* What one slot of the old table makes of the new one.
Moved(t, v, n) == IF t[n] = NoSlot THEN v ELSE PutSlot(v, t[n])
\* The first n slots have been put again.
MovedTo(t, cap, v, n) ==
    /\ DOMAIN v = 0 .. 2 * cap - 1 /\ Entries(v, 2 * cap) /\ Cardinality(Used(v)) <= n
    /\ \A i \in 0 .. n - 1 : i \in Used(t) => Finds(v, t[i].s, t[i].id)

LEMMA MoveSlot ==
  ASSUME NEW t, NEW cap, Table(t, cap), NEW n \in 0 .. cap - 1, NEW v, MovedTo(t, cap, v, n)
  PROVE  MovedTo(t, cap, Moved(t, v, n), n + 1)
  <1>1. PICK c : c = 2 * cap
    OBVIOUS
  <1>2. /\ cap \in Nat /\ cap > 1 /\ c \in Nat \ 0 .. 1 /\ n \in Nat /\ n < cap /\ n + 1 < c
        /\ DOMAIN t = 0 .. cap - 1 /\ Entries(t, cap)
    BY <1>1 DEF Table
  <1>3. /\ DOMAIN v = 0 .. c - 1 /\ Entries(v, c) /\ Cardinality(Used(v)) <= n
        /\ \A i \in 0 .. n - 1 : i \in Used(t) => Finds(v, t[i].s, t[i].id)
    BY <1>1 DEF MovedTo
  <1>4. Cardinality(Used(v)) \in Nat
    BY <1>2, <1>3, UsedFinite
  <1>5. Table(v, c)
    <2>1. Cardinality(Used(v)) < c
      BY <1>2, <1>3, <1>4
    <2> QED BY <1>2, <1>3, <2>1 DEF Table
  <1>6. CASE t[n] = NoSlot
    <2>1. Moved(t, v, n) = v /\ n \notin Used(t)
      BY <1>6 DEF Moved, Used
    <2>2. Cardinality(Used(v)) <= n + 1
      BY <1>2, <1>3, <1>4
    <2>3. \A i \in 0 .. (n + 1) - 1 : i = n \/ i \in 0 .. n - 1
      BY <1>2
    <2> QED BY <1>1, <1>3, <2>1, <2>2, <2>3 DEF MovedTo
  <1>7. CASE t[n] # NoSlot
    <2>1. n \in Used(t)
      BY <1>2, <1>7 DEF Used
    <2>2. t[n].id \in Nat /\ Hash(t[n].s) \in Nat /\ Probe(t, t[n].s) = n
      BY <1>2, <2>1 DEF Entries
    <2>3. PICK e, s, id, u : e = t[n] /\ s = e.s /\ id = e.id /\ u = PutSlot(v, e)
      OBVIOUS
    <2>4. /\ DOMAIN u = 0 .. c - 1 /\ Entries(u, c)
          /\ Cardinality(Used(u)) <= Cardinality(Used(v)) + 1
          /\ Finds(u, s, id)
          /\ \A x : \A k : Hash(x) \in Nat /\ x # s /\ Finds(v, x, k) => Finds(u, x, k)
      BY <1>5, <2>2, <2>3, PutFinds
    <2>5. Moved(t, v, n) = u
      BY <1>7, <2>3 DEF Moved
    <2>6. Cardinality(Used(u)) \in Nat
      BY <1>2, <2>4, UsedFinite
    <2>7. Cardinality(Used(u)) <= n + 1
      BY <1>2, <1>3, <1>4, <2>4, <2>6
    <2>8. ASSUME NEW i \in 0 .. (n + 1) - 1, i \in Used(t)
          PROVE  Finds(u, t[i].s, t[i].id)
      <3>1. CASE i = n
        BY <2>3, <2>4, <3>1
      <3>2. CASE i # n
        <4>1. i \in 0 .. n - 1
          BY <1>2, <3>2
        <4>2. Hash(t[i].s) \in Nat /\ Probe(t, t[i].s) = i
          BY <1>2, <2>8 DEF Entries
        <4>3. t[i].s # s
          BY <2>2, <2>3, <3>2, <4>2
        <4>4. Finds(v, t[i].s, t[i].id)
          BY <1>3, <2>8, <4>1
        <4> QED BY <2>4, <4>2, <4>3, <4>4
      <3> QED BY <3>1, <3>2
    <2> QED BY <1>1, <2>4, <2>5, <2>7, <2>8 DEF MovedTo
  <1> QED BY <1>6, <1>7

LEMMA NothingMoved ==
  ASSUME NEW t, NEW cap, Table(t, cap)
  PROVE  MovedTo(t, cap, EmptyTable(2 * cap), 0)
  <1>1. PICK v : v = EmptyTable(2 * cap)
    OBVIOUS
  <1>2. v = [i \in 0 .. 2 * cap - 1 |-> NoSlot]
    BY <1>1 DEF EmptyTable
  <1>3. DOMAIN v = 0 .. 2 * cap - 1 /\ Used(v) = {}
    BY <1>2 DEF Used
  <1>4. Cardinality(Used(v)) = 0
    BY <1>3, FS_EmptySet
  <1>5. \A i \in 0 .. 0 - 1 : FALSE
    OBVIOUS
  <1> QED BY <1>1, <1>3, <1>4, <1>5 DEF MovedTo, Entries

\* The recursive function of Rehashed() as far as k, and that what it gives is right.
MovesTo(t, cap, g, k) ==
    g = [n \in 0 .. k |-> IF n = 0 THEN EmptyTable(2 * cap) ELSE Moved(t, g[n - 1], n - 1)]

LEMMA MovesRight ==
  ASSUME NEW t, NEW cap, Table(t, cap), NEW k \in 0 .. cap, NEW g, MovesTo(t, cap, g, k)
  PROVE  MovedTo(t, cap, g[k], k)
  <1> DEFINE Bad == {n \in 0 .. k : ~MovedTo(t, cap, g[n], n)}
  <1>1. SUFFICES ASSUME Bad # {} PROVE FALSE
    <2>1. k \in 0 .. k
      OBVIOUS
    <2> QED BY <2>1
  <1>2. Bad \subseteq Nat
    OBVIOUS
  <1>3. PICK n : n \in Bad /\ \A m \in Bad : n <= m
    <2> HIDE DEF Bad
    <2> QED BY <1>1, <1>2, MinExists
  <1>4. n \in 0 .. k /\ ~MovedTo(t, cap, g[n], n)
    BY <1>3
  <1>5. g[n] = IF n = 0 THEN EmptyTable(2 * cap) ELSE Moved(t, g[n - 1], n - 1)
    BY <1>4 DEF MovesTo
  <1>6. CASE n = 0
    BY <1>4, <1>5, <1>6, NothingMoved
  <1>7. CASE n # 0
    <2>1. PICK m : m = n - 1
      OBVIOUS
    <2>2. m \in 0 .. k /\ m \in 0 .. cap - 1 /\ m + 1 = n /\ ~(n <= m) /\ cap \in Nat
      BY <1>4, <1>7, <2>1 DEF Table
    <2>3. MovedTo(t, cap, g[m], m)
      BY <1>3, <2>2
    <2>4. MovedTo(t, cap, Moved(t, g[m], m), m + 1)
      BY <2>2, <2>3, MoveSlot
    <2> QED BY <1>4, <1>5, <1>7, <2>1, <2>2, <2>4
  <1> QED BY <1>6, <1>7

LEMMA MovesExist ==
  ASSUME NEW t, NEW cap \in Nat, NEW k \in Nat
  PROVE  \E g : MovesTo(t, cap, g, k)
  <1> DEFINE Bad == {n \in Nat : ~\E g : MovesTo(t, cap, g, n)}
  <1>1. SUFFICES ASSUME Bad # {} PROVE FALSE
    OBVIOUS
  <1>2. PICK n : n \in Bad /\ \A m \in Bad : n <= m
    <2>1. Bad \subseteq Nat
      OBVIOUS
    <2> HIDE DEF Bad
    <2> QED BY <1>1, <2>1, MinExists
  <1>3. n \in Nat /\ ~\E g : MovesTo(t, cap, g, n)
    BY <1>2
  <1>4. CASE n = 0
    <2> DEFINE h == [i \in 0 .. 0 |-> EmptyTable(2 * cap)]
    <2>1. h = [i \in 0 .. 0 |-> IF i = 0 THEN EmptyTable(2 * cap) ELSE Moved(t, h[i - 1], i - 1)]
      OBVIOUS
    <2> HIDE DEF h
    <2> QED BY <1>3, <1>4, <2>1 DEF MovesTo
  <1>5. CASE n # 0
    <2>1. n - 1 \in Nat /\ n - 1 \notin Bad
      <3>1. n - 1 \in Nat /\ ~(n <= n - 1)
        BY <1>3, <1>5
      <3> HIDE DEF Bad
      <3> QED BY <1>2, <3>1
    <2>2. PICK g : MovesTo(t, cap, g, n - 1)
      <3>1. ~~\E g : MovesTo(t, cap, g, n - 1)
        BY <2>1, Zenon
      <3> QED BY <3>1
    <2> DEFINE h == [i \in 0 .. n |-> IF i \in 0 .. n - 1 THEN g[i] ELSE Moved(t, g[n - 1], n - 1)]
    <2>3. \A i \in 0 .. n - 1 : g[i] = IF i = 0 THEN EmptyTable(2 * cap) ELSE Moved(t, g[i - 1], i - 1)
      BY <2>2 DEF MovesTo
    <2>4. ASSUME NEW i \in 0 .. n
          PROVE  h[i] = IF i = 0 THEN EmptyTable(2 * cap) ELSE Moved(t, h[i - 1], i - 1)
      <3>1. CASE i = 0
        <4>1. 0 \in 0 .. n - 1
          BY <1>3, <1>5
        <4> QED BY <2>3, <3>1, <4>1
      <3>2. CASE i # 0
        <4>1. i - 1 \in 0 .. n - 1 /\ i - 1 \in 0 .. n
          BY <1>3, <3>2
        <4>2. h[i - 1] = g[i - 1]
          BY <4>1
        <4>3. CASE i = n
          <5>1. i \notin 0 .. n - 1
            BY <1>3, <4>3
          <5> QED BY <3>2, <4>2, <4>3, <5>1
        <4>4. CASE i # n
          <5>1. i \in 0 .. n - 1
            BY <1>3, <4>4
          <5> QED BY <2>3, <3>2, <4>2, <5>1
        <4> QED BY <4>3, <4>4
      <3> QED BY <3>1, <3>2
    <2>5. h = [i \in 0 .. n |-> IF i = 0 THEN EmptyTable(2 * cap) ELSE Moved(t, h[i - 1], i - 1)]
      <3>1. DOMAIN h = 0 .. n
        OBVIOUS
      <3>2. h = [i \in 0 .. n |-> h[i]]
        BY Zenon
      <3> HIDE DEF h
      <3> QED BY <2>4, <3>2
    <2> HIDE DEF h
    <2> QED BY <1>3, <2>5 DEF MovesTo
  <1> QED BY <1>4, <1>5

\* A table that has grown is one, with every entry in it.
LEMMA RehashKeeps ==
  ASSUME NEW t, NEW cap, Table(t, cap)
  PROVE  MovedTo(t, cap, Rehashed(t), cap)
  <1>1. cap \in Nat /\ DOMAIN t = 0 .. cap - 1
    BY DEF Table
  <1>2. Cardinality(DOMAIN t) = cap
    BY <1>1, CapIs
  <1> DEFINE first == CHOOSE g : g = [n \in 0 .. cap |->
                         IF n = 0 THEN EmptyTable(2 * cap)
                         ELSE IF t[n - 1] = NoSlot THEN g[n - 1] ELSE PutSlot(g[n - 1], t[n - 1])]
  <1>3. Rehashed(t) = first[cap]
    BY <1>2 DEF Rehashed
  <1>4. MovesTo(t, cap, first, cap)
    <2>1. \E g : g = [n \in 0 .. cap |->
                         IF n = 0 THEN EmptyTable(2 * cap)
                         ELSE IF t[n - 1] = NoSlot THEN g[n - 1] ELSE PutSlot(g[n - 1], t[n - 1])]
      BY <1>1, MovesExist DEF MovesTo, Moved
    <2>2. first = [n \in 0 .. cap |->
                      IF n = 0 THEN EmptyTable(2 * cap)
                      ELSE IF t[n - 1] = NoSlot THEN first[n - 1] ELSE PutSlot(first[n - 1], t[n - 1])]
      BY <2>1, Zenon
    <2> HIDE DEF first
    <2> QED BY <2>2 DEF MovesTo, Moved
  <1>5. cap \in 0 .. cap
    BY <1>1
  <1> HIDE DEF first
  <1> QED BY <1>3, <1>4, <1>5, MovesRight

\* addv() keeps a table, finds the new id, and all that it found for other strings.
LEMMA AddedKeeps ==
  ASSUME NEW t, NEW cap, Table(t, cap), NEW s, Hash(s) \in Nat, NEW id \in Nat,
         NEW u, u = Added(t, s, id)
  PROVE  /\ \E c : Table(u, c)
         /\ Finds(u, s, id)
         /\ \A x : \A n : Hash(x) \in Nat /\ x # s /\ Finds(t, x, n) => Finds(u, x, n)
  <1>1. PICK e : e = [s |-> s, id |-> id]
    OBVIOUS
  <1>2. e.s = s /\ e.id = id
    BY <1>1
  <1>3. cap \in Nat /\ cap > 1 /\ DOMAIN t = 0 .. cap - 1 /\ Entries(t, cap) /\ Cardinality(Used(t)) < cap
    BY DEF Table
  <1>4. Cardinality(DOMAIN t) = cap /\ Cardinality(Used(t)) \in Nat
    BY <1>3, CapIs, UsedFinite
  <1>5. ASSUME NEW r, NEW c, Table(r, c), u = PutSlot(r, e), Cardinality(Used(r)) + 1 < c,
               \A x : \A n : Hash(x) \in Nat /\ Finds(t, x, n) => Finds(r, x, n)
        PROVE  /\ Table(u, c) /\ Finds(u, s, id)
               /\ \A x : \A n : Hash(x) \in Nat /\ x # s /\ Finds(t, x, n) => Finds(u, x, n)
    <2>1. /\ DOMAIN u = 0 .. c - 1 /\ Entries(u, c)
          /\ Cardinality(Used(u)) <= Cardinality(Used(r)) + 1
          /\ Finds(u, s, id)
          /\ \A x : \A n : Hash(x) \in Nat /\ x # s /\ Finds(r, x, n) => Finds(u, x, n)
      BY <1>2, <1>5, PutFinds
    <2>2. c \in Nat \ 0 .. 1 /\ DOMAIN r = 0 .. c - 1
      BY <1>5 DEF Table
    <2>3. Cardinality(Used(u)) \in Nat /\ Cardinality(Used(r)) \in Nat
      BY <2>1, <2>2, UsedFinite
    <2>4. Cardinality(Used(u)) < c
      BY <1>5, <2>1, <2>2, <2>3
    <2>5. Table(u, c)
      BY <2>1, <2>2, <2>4 DEF Table
    <2> QED BY <1>5, <2>1, <2>5
  <1>6. CASE 2 * Cardinality(Used(t)) >= Cardinality(DOMAIN t)
    <2>1. PICK r, c : r = Rehashed(t) /\ c = 2 * cap
      OBVIOUS
    <2>2. u = PutSlot(r, e)
      BY <1>1, <1>6, <2>1 DEF Added
    <2>3. /\ DOMAIN r = 0 .. c - 1 /\ Entries(r, c) /\ Cardinality(Used(r)) <= cap
          /\ \A i \in 0 .. cap - 1 : i \in Used(t) => Finds(r, t[i].s, t[i].id)
      BY <2>1, RehashKeeps DEF MovedTo
    <2>4. c \in Nat \ 0 .. 1 /\ cap + 1 < c
      BY <1>3, <2>1
    <2>5. Cardinality(Used(r)) \in Nat
      BY <2>3, <2>4, UsedFinite
    <2>6. Cardinality(Used(r)) + 1 < c
      BY <1>3, <2>3, <2>4, <2>5
    <2>7. Table(r, c)
      BY <2>3, <2>4, <2>5, <2>6 DEF Table
    <2>8. ASSUME NEW x, NEW n, Hash(x) \in Nat, Finds(t, x, n)
          PROVE  Finds(r, x, n)
      <3>1. PICK i, k : i = Probe(t, x) /\ FirstEnd(t, cap, x, k) /\ i = Slot(cap, x, k) /\ i \in 0 .. cap - 1
        BY <2>8, ProbeEnds
      <3>2. i \in Used(t) /\ t[i].id = n
        BY <2>8, <3>1 DEF Finds
      <3>3. t[i].s = x
        BY <3>1, <3>2 DEF FirstEnd, Ends, Used
      <3> QED BY <2>3, <3>1, <3>2, <3>3
    <2> QED BY <1>5, <2>2, <2>6, <2>7, <2>8
  <1>7. CASE ~(2 * Cardinality(Used(t)) >= Cardinality(DOMAIN t))
    <2>1. u = PutSlot(t, e)
      BY <1>1, <1>7 DEF Added
    <2>2. Cardinality(Used(t)) + 1 < cap
      BY <1>3, <1>4, <1>7
    <2> QED BY <1>5, <2>1, <2>2
  <1> QED BY <1>6, <1>7

-----------------------------------------------------------------------------
(* The vocabulary.                                                         *)

\* The table that has been filled so far finds the last id of every string.
LastOne(ts, i) == \A j \in i + 1 .. Len(ts) : ts[j] # ts[i]
TokenInv ==
    /\ given \in Vocabularies /\ tokens \in Seq(Seq(Nat))
    /\ \E cap : Table(slots, cap)
    /\ \A i \in 1 .. Len(tokens) :
          Hash(tokens[i]) \in Nat /\ (LastOne(tokens, i) => Finds(slots, tokens[i], i - 1))

LEMMA TokenInit == TokInit => TokenInv
  <1> SUFFICES ASSUME TokInit PROVE TokenInv
    OBVIOUS
  <1>1. PICK cap : cap = FirstCap
    OBVIOUS
  <1>2. cap \in Nat \ 0 .. 1
    BY <1>1, TokenizerAssumption
  <1>3. slots = [i \in 0 .. cap - 1 |-> NoSlot] /\ tokens = <<>> /\ given \in Vocabularies
    BY <1>1 DEF TokInit, EmptyTable
  <1>4. DOMAIN slots = 0 .. cap - 1 /\ Used(slots) = {}
    BY <1>3 DEF Used
  <1>5. Cardinality(Used(slots)) = 0
    BY <1>4, FS_EmptySet
  <1>6. Table(slots, cap)
    BY <1>2, <1>4, <1>5 DEF Table, Entries
  <1>7. tokens \in Seq(Seq(Nat)) /\ Len(tokens) = 0
    BY <1>3
  <1> QED BY <1>3, <1>6, <1>7 DEF TokenInv

LEMMA TokenLoads == ASSUME TokenInv, LoadToken PROVE TokenInv'
  <1>1. PICK n, s : n = Len(tokens) /\ s = given.tokens[Len(tokens) + 1]
    OBVIOUS
  <1>2. PICK cap : Table(slots, cap)
    BY DEF TokenInv
  <1>3. /\ tokens' = Append(tokens, s) /\ slots' = Added(slots, s, n) /\ given' = given
        /\ n < Len(given.tokens)
    BY <1>1 DEF LoadToken
  <1>4. /\ given \in Vocabularies /\ tokens \in Seq(Seq(Nat)) /\ n \in Nat
        /\ given.tokens \in Seq(Seq(Nat))
        /\ \A i \in DOMAIN given.tokens : Hash(given.tokens[i]) \in Nat
    BY <1>1, TokenizerAssumption DEF TokenInv, VocabularyOK
  <1>5. n + 1 \in DOMAIN given.tokens
    BY <1>3, <1>4
  <1>6. s \in Seq(Nat) /\ Hash(s) \in Nat
    <2>1. \A S : \A x \in Seq(S) : \A i \in DOMAIN x : x[i] \in S
      OBVIOUS
    <2> QED BY <1>1, <1>4, <1>5, <2>1
  <1>7. /\ \E c : Table(slots', c)
        /\ Finds(slots', s, n)
        /\ \A x : \A k : Hash(x) \in Nat /\ x # s /\ Finds(slots, x, k) => Finds(slots', x, k)
    BY <1>2, <1>3, <1>4, <1>6, AddedKeeps
  <1>8. /\ tokens' \in Seq(Seq(Nat)) /\ Len(tokens') = n + 1 /\ tokens'[n + 1] = s
        /\ \A i \in 1 .. n : tokens'[i] = tokens[i]
    BY <1>1, <1>3, <1>4, <1>6
  <1>9. ASSUME NEW i \in 1 .. n + 1
        PROVE  Hash(tokens'[i]) \in Nat /\ (LastOne(tokens', i) => Finds(slots', tokens'[i], i - 1))
    <2>1. CASE i = n + 1
      <3>1. i - 1 = n
        BY <1>4, <2>1
      <3> QED BY <1>6, <1>7, <1>8, <2>1, <3>1
    <2>2. CASE i # n + 1
      <3>1. i \in 1 .. n /\ n + 1 \in i + 1 .. n + 1
        BY <1>4, <2>2
      <3>2. Hash(tokens[i]) \in Nat /\ (LastOne(tokens, i) => Finds(slots, tokens[i], i - 1))
        BY <1>1, <3>1 DEF TokenInv
      <3>3. ASSUME LastOne(tokens', i) PROVE Finds(slots', tokens'[i], i - 1)
        <4>1. \A j \in i + 1 .. n + 1 : tokens'[j] # tokens'[i]
          BY <1>8, <3>3 DEF LastOne
        <4>2. tokens[i] # s
          BY <1>8, <3>1, <4>1
        <4>3. \A j \in i + 1 .. n : j \in 1 .. n /\ j \in i + 1 .. n + 1
          BY <1>4, <3>1
        <4>4. LastOne(tokens, i)
          BY <1>1, <1>8, <3>1, <4>1, <4>3 DEF LastOne
        <4> QED BY <1>7, <1>8, <3>1, <3>2, <4>2, <4>4
      <3> QED BY <1>8, <3>1, <3>2, <3>3
    <2> QED BY <2>1, <2>2
  <1> QED BY <1>3, <1>4, <1>7, <1>8, <1>9 DEF TokenInv

LEMMA TokenStays == ASSUME TokenInv, UNCHANGED <<given, tokens, slots>> PROVE TokenInv'
  BY DEF TokenInv

LEMMA TokenNext == ASSUME TokenInv, [TextNext]_textVarsAll PROVE TokenInv'
  <1>1. LoadToken \/ UNCHANGED <<given, tokens, slots>>
    <2>1. CASE Loading
      BY <2>1 DEF Loading, LoadTables, LoadSpecials
    <2>2. CASE Arriving \/ Receiving \/ ParseFile \/ ParseBody \/ Parsing \/ Serialize \/ Reparse
               \/ Writing \/ Respond \/ ClientReads
      BY <2>2 DEF Arriving, Receiving, ParseFile, ParseBody, Parsing, Serialize, Reparse, Writing,
                  Respond, ClientReads, tokVars
    <2>3. CASE TakeState \/ EncodeDump \/ EncodeQuestion
      BY <2>3 DEF TakeState, EncodeDump, EncodeQuestion, StartEncode, tokVars, tableVars
    <2>4. CASE Encoding
      BY <2>4 DEF Encoding, Encode, NextSpecial, NextPiece, Merge, EmitToken, tableVars
    <2>5. CASE UNCHANGED textVarsAll
      BY <2>5 DEF textVarsAll, tokVars
    <2> QED BY <2>1, <2>2, <2>3, <2>4, <2>5 DEF TextNext, Handling
  <1> QED BY <1>1, TokenLoads, TokenStays

\* The last place of a string.
LEMMA LastExists ==
  ASSUME NEW S, NEW ts \in Seq(S), NEW i \in 1 .. Len(ts)
  PROVE  \E m \in 1 .. Len(ts) : ts[m] = ts[i] /\ LastOne(ts, m)
  <1> DEFINE Back == {Len(ts) - j : j \in {j \in 1 .. Len(ts) : ts[j] = ts[i]}}
  <1>1. Back \subseteq Nat /\ Len(ts) - i \in Back
    OBVIOUS
  <1>2. PICK b : b \in Back /\ \A c \in Back : b <= c
    <2> HIDE DEF Back
    <2> QED BY <1>1, MinExists
  <1>3. PICK m \in 1 .. Len(ts) : ts[m] = ts[i] /\ b = Len(ts) - m
    BY <1>2
  <1>4. LastOne(ts, m)
    <2> SUFFICES ASSUME NEW j \in m + 1 .. Len(ts), ts[j] = ts[m] PROVE FALSE
      BY DEF LastOne
    <2>1. j \in 1 .. Len(ts)
      OBVIOUS
    <2>2. Len(ts) - j \in Back
      BY <1>3, <2>1
    <2>3. Len(ts) - m <= Len(ts) - j
      BY <1>2, <1>3, <2>2
    <2> QED BY <1>3, <2>1, <2>3
  <1> QED BY <1>3, <1>4

LEMMA MaxIs ==
  ASSUME NEW S, S \subseteq Int, NEW m \in S, \A n \in S : n <= m
  PROVE  Max(S) = m
  <1>1. \A n \in S : (\A y \in S : n >= y) => n = m
    OBVIOUS
  <1> QED BY <1>1 DEF Max

\* A token string finds its last id, however often the table has grown and
\* whatever collides, for every vocabulary and every hash function.
THEOREM LookupsAreLast == TextSpec => []LookupIsLast
  <1>1. TextInit => TokenInv
    BY TokenInit DEF TextInit
  <1>2. TokenInv /\ [TextNext]_textVarsAll => TokenInv'
    BY TokenNext
  <1>3. TokenInv => LookupIsLast
    <2> SUFFICES ASSUME TokenInv, NEW s \in ToSet(tokens)
                 PROVE  Lookup(s) = Max({id \in 0 .. Len(tokens) - 1 : tokens[id + 1] = s})
      BY DEF LookupIsLast
    <2>1. tokens \in Seq(Seq(Nat)) /\ DOMAIN tokens = 1 .. Len(tokens) /\ Len(tokens) \in Nat
      BY DEF TokenInv
    <2>2. PICK i \in 1 .. Len(tokens) : tokens[i] = s
      BY <2>1 DEF ToSet
    <2>3. PICK m \in 1 .. Len(tokens) : tokens[m] = s /\ LastOne(tokens, m)
      BY <2>1, <2>2, LastExists
    <2>4. Finds(slots, s, m - 1)
      BY <2>3 DEF TokenInv
    <2>5. Lookup(s) = m - 1
      BY <2>4 DEF Finds, Lookup
    <2> DEFINE S == {id \in 0 .. Len(tokens) - 1 : tokens[id + 1] = s}
    <2>6. m - 1 \in S /\ S \subseteq Int
      BY <2>1, <2>3
    <2>7. ASSUME NEW n \in S PROVE n <= m - 1
      <3>1. n \in 0 .. Len(tokens) - 1 /\ tokens[n + 1] = s
        OBVIOUS
      <3>2. ~(n + 1 \in m + 1 .. Len(tokens))
        BY <2>3, <3>1 DEF LastOne
      <3> QED BY <2>1, <3>1, <3>2
    <2> HIDE DEF S
    <2>8. Max(S) = m - 1
      BY <2>6, <2>7, MaxIs
    <2> QED BY <2>5, <2>8 DEF S
  <1> QED BY <1>1, <1>2, <1>3, PTL DEF TextSpec
================================================================================
