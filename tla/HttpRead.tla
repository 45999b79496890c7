------------------------------ MODULE HttpRead ------------------------------
(***************************************************************************)
(* read_http_request() (src/server/q3_server.c): one request is read from  *)
(* a stream whose bytes arrive in pieces of any size.                      *)
(*                                                                         *)
(* A byte of the model is a byte, or one of the texts of the request line, *)
(* of a Content-Length field and of a document, which nothing looks into   *)
(* here.                                                                   *)
(* recv() may fail at any time: the peer closed or reset the connection,   *)
(* or sent nothing for Q3_SERVER_IO_TIMEOUT_SEC.  EINTR is retried.        *)
(***************************************************************************)
EXTENDS Integers, Sequences, FiniteSetsExt

CONSTANTS Messages,      \* what a client may send: see MessageOK
          MaxHeader,     \* Q3_SERVER_MAX_HEADER_BYTES
          MaxBody,       \* g_cfg.max_body
          HeadChunk, BodyChunk, DrainChunk   \* the sizes of the three tmp[]

Cr == 13
Lf == 10
LineText == 256
LengthText == 257
Document == 258
Bytes == 0 .. 258

\* "declared" is the value of its Content-Length fields; -1: not a number.
\* "text" is the document in its body, if it has one.
MessageOK(m) == m.bytes \in Seq(Bytes) /\ m.declared \in Int /\ m.declared >= -1 /\ m.text \in Seq(Nat)

ASSUME ReadAssumption ==
    /\ MaxHeader \in Nat \ {0} /\ MaxBody \in Nat
    /\ {HeadChunk, BodyChunk, DrainChunk} \subseteq Nat \ {0}
    /\ \A m \in Messages : MessageOK(m)

VARIABLES
    msg,        \* the client's message
    sent,       \* how much of it has arrived at the socket
    taken,      \* how much of it recv() has returned
    len,        \* b.len: how much of it is in the buffer
    hend,       \* where the head ends; 0 (the code's -1) before it is known
    remaining,  \* what the drain still expects
    body,       \* r->body
    pc          \* "ok", or the response: "400" or "413"

vars == <<msg, sent, taken, len, hend, remaining, body, pc>>

NoMessage == [bytes |-> <<>>, declared |-> 0, text |-> <<>>]

Init ==
    /\ msg = NoMessage /\ sent = 0
    /\ taken = 0 /\ len = 0 /\ hend = 0 /\ remaining = 0 /\ body = <<>>
    /\ pc = "accept"

Smaller(x, y) == IF x < y THEN x ELSE y
Taken(n) == SubSeq(msg.bytes, 1, n)

-----------------------------------------------------------------------------

\* header_end(): an empty line that ends in CR LF is looked for first.
CrLfEnds(p) == {i \in 4 .. Len(p) : SubSeq(p, i - 3, i) = <<Cr, Lf, Cr, Lf>>}
LfEnds(p)   == {i \in 2 .. Len(p) : SubSeq(p, i - 1, i) = <<Lf, Lf>>}

\* MUTANT: an empty line that ends in LF is looked for first.
HeaderEndLf(p) ==
    IF LfEnds(p) # {} THEN Min(LfEnds(p))
    ELSE IF CrLfEnds(p) # {} THEN Min(CrLfEnds(p)) ELSE 0
HeaderEnd(p) ==
    IF CrLfEnds(p) # {} THEN Min(CrLfEnds(p))
    ELSE IF LfEnds(p) # {} THEN Min(LfEnds(p)) ELSE 0

\* content_length() of the head: -1 when there is none or it is no number.
Declared ==
    IF \E i \in 1 .. hend : msg.bytes[i] = LengthText /\ (i = 1 \/ msg.bytes[i - 1] = Lf)
    THEN msg.declared ELSE -1

ClampedLength == IF Declared < 0 THEN 0 ELSE Declared

\* The first line must have a method and a path.
RequestLine == \E i \in 1 .. hend :
                  msg.bytes[i] = LineText /\ \A j \in 1 .. i : msg.bytes[j] # Lf

-----------------------------------------------------------------------------

\* A client connects.
Accept ==
    /\ pc = "accept" /\ pc' = "head" /\ msg' \in Messages
    /\ UNCHANGED <<sent, taken, len, hend, remaining, body>>

\* The client goes on sending.
Arrive ==
    /\ sent < Len(msg.bytes)
    /\ \E n \in sent + 1 .. Len(msg.bytes) : sent' = n
    /\ UNCHANGED <<msg, taken, len, hend, remaining, body, pc>>

\* recv() returns some of what has arrived.
Recv(limit) == \E n \in 1 .. Smaller(limit, sent - taken) : taken' = taken + n

ReadHead ==
    /\ pc = "head"
    /\ Recv(HeadChunk)
    /\ len' = taken'
    /\ hend' = HeaderEnd(Taken(taken'))
    /\ pc' = CASE hend' # 0 -> "parse" [] len' >= MaxHeader -> "400" [] OTHER -> "head"
    /\ UNCHANGED <<msg, sent, remaining, body>>

Complete(n) == n >= hend + ClampedLength

\* r->body, once the buffer has n bytes.
Deliver(n) ==
    IF Complete(n)
    THEN pc' = "ok" /\ body' = SubSeq(msg.bytes, hend + 1, hend + ClampedLength)
    ELSE pc' = "body" /\ UNCHANGED body

TooLarge == ClampedLength > MaxBody

\* The drain expects the whole body, whatever came with the head.
ParseHead ==
    /\ pc = "parse"
    /\ \/ ~RequestLine /\ pc' = "400" /\ UNCHANGED <<remaining, body>>
       \/ RequestLine /\ TooLarge /\ pc' = "drain" /\ remaining' = ClampedLength
          /\ UNCHANGED body
       \/ RequestLine /\ ~TooLarge /\ Deliver(len) /\ UNCHANGED remaining
    /\ UNCHANGED <<msg, sent, taken, len, hend>>

ReadBody ==
    /\ pc = "body"
    /\ Recv(BodyChunk)
    /\ len' = taken'
    /\ Deliver(len')
    /\ UNCHANGED <<msg, sent, hend, remaining>>

Drain ==
    /\ pc = "drain"
    /\ Recv(Smaller(DrainChunk, remaining))
    /\ remaining' = remaining - (taken' - taken)
    /\ pc' = IF remaining' = 0 THEN "413" ELSE "drain"
    /\ UNCHANGED <<msg, sent, len, hend, body>>

\* MUTANT: the drain tries again when recv() fails.
RecvFailsDrainOn ==
    /\ pc \in {"head", "body"} /\ pc' = "400"
    /\ UNCHANGED <<msg, sent, taken, len, hend, remaining, body>>
RecvFails ==
    /\ \/ pc \in {"head", "body"} /\ pc' = "400"
       \/ pc = "drain" /\ pc' = "413"
    /\ UNCHANGED <<msg, sent, taken, len, hend, remaining, body>>

Server == ReadHead \/ ParseHead \/ ReadBody \/ Drain \/ RecvFails
Next == Accept \/ Arrive \/ Server

-----------------------------------------------------------------------------
(* Properties.                                                             *)

\* Where the head of a request in CR LF lines ends: after its empty line.
LineEnds(i) == msg.bytes[i] = Lf /\ msg.bytes[i - 1] = Cr
EmptyLines == {i \in 4 .. Len(msg.bytes) : LineEnds(i) /\ LineEnds(i - 2)}
CrLfHead == /\ EmptyLines # {}
            /\ \A i \in 1 .. Min(EmptyLines) : msg.bytes[i] = Lf => i > 1 /\ LineEnds(i)
DeclaredBody ==
    IF msg.declared >= 0 /\ \E i \in 1 .. Min(EmptyLines) :
                              msg.bytes[i] = LengthText /\ (i = 1 \/ msg.bytes[i - 1] = Lf)
    THEN msg.declared ELSE 0

\* However the bytes of a request were split on their way, and whatever its
\* body looks like, its body is the declared bytes behind the empty line.
BodyIsDeclared ==
    pc = "ok" /\ CrLfHead =>
        LET end == Min(EmptyLines) IN body = SubSeq(msg.bytes, end + 1, end + DeclaredBody)
=============================================================================
