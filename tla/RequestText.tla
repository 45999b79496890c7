----------------------------- MODULE RequestText -----------------------------
(***************************************************************************)
(* What becomes of the bytes of one request: the server reads them from    *)
(* the connection, parses them, and writes the state out again; its worker *)
(* parses what was written, and q3_systemone_run() makes the state a text  *)
(* and then tokens; the text of a question follows.  The command line      *)
(* parses a file for q3_systemone_run() instead.  The response is written  *)
(* by the server, and read by the client.  Before that, at start, the      *)
(* tokenizer's tables are loaded.                                          *)
(***************************************************************************)
EXTENDS HttpRead, JsonText, Tokenizer

CONSTANTS StateKey,    \* the key "state"
          FileTexts,   \* what the file of q3_cmd_bench_decisions() may hold
          Questions,   \* a question's instructions and the labels of its options
          Results      \* what q3_systemone_run() may return: see ResultOK

ASSUME QuestionsAssumption ==
    Questions \subseteq [instructions : Seq(1 .. 255), labels : Seq(Seq(1 .. 255))]

-----------------------------------------------------------------------------
(* q3_build_decision_suffix(): the text of a question.                     *)

Mask == <<91, 77, 65, 83, 75, 93>>                      \* [MASK]
\* so_mask_to_space()
MaskToSpace(s) ==
    LET masks(i) == i \in 1 .. Len(s) - 5 /\ SubSeq(s, i, i + 5) = Mask
    IN FlattenSeq([i \in DOMAIN s |-> IF masks(i) THEN <<32>>
                                     ELSE IF \E k \in 1 .. 5 : masks(i - k) THEN <<>>
                                     ELSE <<s[i]>>])

Decimal(n) == IF n < 10 THEN <<48 + n>> ELSE <<48 + n \div 10, 48 + (n % 10)>>
QuestionHead == <<81, 85, 69, 83, 84, 73, 79, 78, 58, 10>>          \* QUESTION:
OptionsHead == <<10, 10, 79, 80, 84, 73, 79, 78, 83, 58, 10>>       \* OPTIONS:
Cue == <<10, 65, 78, 83, 87, 69, 82, 58, 32>>                       \* ANSWER:
Option(i, label) == Decimal(i) \o <<46, 32>> \o label \o <<10>>

SuffixCap(q) == Len(MaskToSpace(q.instructions)) + 64
                + FoldLeft(LAMBDA n, label : n + Len(label) + 24, 0, q.labels)
SuffixText(q) ==
    QuestionHead \o MaskToSpace(q.instructions) \o OptionsHead
    \o FlattenSeq([i \in DOMAIN q.labels |-> Option(i, q.labels[i])]) \o Cue
\* snprintf() leaves out what does not fit.
Suffix(q) == IF Len(SuffixText(q)) < SuffixCap(q) THEN SuffixText(q)
             ELSE SubSeq(SuffixText(q), 1, SuffixCap(q) - 1)

-----------------------------------------------------------------------------

(* systemone_body(): the response.                                         *)

\* A result of a question, with the question's name and criteria; "choice" is
\* the number of the option chosen, "score" stands for noul too.  A number is
\* its text, NotFinite for what is none.
NotFinite == <<>>
ResultOK(r) ==
    /\ r.type \in {"choice", "score", "noul"} /\ r.choice \in Int
    /\ Len(r.options) = Len(r.probs) /\ Len(r.labels) = Len(r.options)
ASSUME ResultsAssumption == \A rs \in Results : \A i \in DOMAIN rs : ResultOK(rs[i])

\* The names of the response's fields, one letter each.
Letter1 == [model |-> 109, answers |-> 97, type |-> 116, choice |-> 99, score |-> 115,
            noul |-> 110, legend |-> 108, probabilities |-> 112, confidence |-> 102, usage |-> 117]
Named(name) == <<Quote, Letter1[name], Quote, Colon>>
TypeIs(type) == Named("type") \o <<Quote, Letter1[type], Quote, Comma>> \o Named(type)
ServedModel == <<113>>

\* emit_f32()
EmitF32(x) == Verbatim(IF x = NotFinite THEN NullText ELSE x)
\* The parts of a list, with a comma before all but the first.
Listed(parts) ==
    FlattenSeq([i \in DOMAIN parts |->
                  (IF i = 1 THEN <<>> ELSE <<Verbatim(<<Comma>>)>>) \o parts[i]])
Pairs(keys, values) ==
    Listed([k \in DOMAIN keys |-> <<Str(keys[k]), Verbatim(<<Colon>>), values[k]>>])

Chosen(r) == IF r.choice \in DOMAIN r.options THEN r.options[r.choice] ELSE <<>>
Legend(r, k) == IF k \in DOMAIN r.criteria THEN r.criteria[k] ELSE Str(r.labels[k])
Probabilities(r) ==
    <<Verbatim(<<Comma>> \o Named("probabilities") \o <<123>>)>>
    \o Pairs(r.options, [k \in DOMAIN r.probs |-> EmitF32(r.probs[k])])
    \o <<Verbatim(<<125, Comma>> \o Named("confidence")), EmitF32(r.confidence)>>

\* emit_answers(), for one question.
Answer(r) ==
    <<Str(r.name), Verbatim(<<Colon, 123>> \o TypeIs(r.type))>>
    \o (CASE r.type = "choice" -> <<Str(Chosen(r))>> \o Probabilities(r)
         [] r.type = "score" ->
              <<EmitF32(r.score), Verbatim(<<Comma>> \o Named("legend") \o <<123>>)>>
              \o Pairs(r.options, [k \in DOMAIN r.options |-> Legend(r, k)])
              \o <<Verbatim(<<125>>)>> \o Probabilities(r)
         [] OTHER -> <<EmitF32(r.score)>>)
    \o <<Verbatim(<<125>>)>>
SystemOneBody(rs) ==
    <<Verbatim(<<123>> \o Named("model")), Str(ServedModel),
      Verbatim(<<Comma>> \o Named("answers") \o <<123>>)>>
    \o Listed([i \in DOMAIN rs |-> Answer(rs[i])])
    \o <<Verbatim(<<125, Comma>> \o Named("usage") \o <<49, 125>>)>>

-----------------------------------------------------------------------------

VARIABLE served   \* the state that the server has accepted, then the results

textVarsAll == <<vars, jsonVars, tokVars, served>>

TextInit == Init /\ JsonInit /\ TokInit /\ served = <<>>

Loading == LoadTables /\ UNCHANGED <<vars, jsonVars, served>>

\* What the client still sends once its request is complete is never read.
Reading == pc \notin {"ok", "400", "413"} /\ tok = "ready" /\ json = "idle"
Arriving == Reading /\ (Accept \/ Arrive) /\ UNCHANGED <<jsonVars, tokVars, served>>
Receiving == Reading /\ Server /\ UNCHANGED <<jsonVars, tokVars, served>>

\* q3_cmd_bench_decisions() has no connection.
ParseFile ==
    /\ pc = "accept" /\ tok = "ready" /\ json = "idle"
    /\ \E t \in FileTexts : StartParse(t)
    /\ UNCHANGED <<vars, tokVars, served>>

\* handle_systemone()
ParseBody ==
    /\ pc = "ok" /\ json = "idle"
    /\ StartParse(IF body = <<Document>> THEN msg.text ELSE body)
    /\ UNCHANGED <<vars, tokVars, served>>
Parsing == Parse /\ UNCHANGED <<vars, tokVars, served>>

\* validate_state(), and serialize_runtime_request() of what it accepts; the
\* questions are written like the state.
HasState(kinds) == HasField(val, StateKey) /\ Field(val, StateKey).t \in kinds
Serialize ==
    /\ pc = "ok" /\ json = "parsed" /\ served = <<>>
    /\ IF HasState({"str", "arr", "obj"})
       THEN /\ served' = <<Field(val, StateKey)>>
            /\ StartEmit(<<Verbatim(<<123, Quote>> \o StateKey \o <<Quote, Colon>>),
                           Field(val, StateKey), Verbatim(<<125>>)>>)
       ELSE json' = "rejected" /\ UNCHANGED <<served, writerVars>>
    /\ UNCHANGED <<vars, tokVars, text, pos, frames, str, val>>
\* job_run()
Reparse == json = "emitted" /\ Len(served) = 1 /\ StartParse(dump) /\ UNCHANGED <<vars, tokVars, served>>

\* q3_systemone_run(): a string passes through, anything else is dumped.
TakeState ==
    /\ json = "parsed" /\ (pc = "ok" => Len(served) = 1)
    /\ UNCHANGED <<vars, text, pos, frames, str, val, served>>
    /\ IF ~HasField(val, StateKey) \/ HasState({"null"})
       THEN json' = "rejected" /\ UNCHANGED <<writerVars, tokVars>>
       ELSE LET state == Field(val, StateKey) IN
            IF state.t = "str"
            THEN json' = "taken" /\ StartEncode(state.s) /\ UNCHANGED writerVars
            ELSE StartDump(state) /\ UNCHANGED tokVars
Writing == Write /\ UNCHANGED <<vars, tokVars, served>>
EncodeDump ==
    /\ json = "dumped" /\ json' = "taken" /\ StartEncode(CString(dump))
    /\ UNCHANGED <<vars, text, pos, frames, str, val, writerVars, served>>
\* One of the questions; what they share is in SystemOneRun.
EncodeQuestion ==
    /\ json = "taken" /\ tok = "encoded" /\ json' = "asked"
    /\ \E q \in Questions : StartEncode(Suffix(q))
    /\ UNCHANGED <<vars, text, pos, frames, str, val, writerVars, served>>
\* The results are there: all of the questions have been encoded and decided.
Respond ==
    /\ pc = "ok" /\ json = "asked" /\ tok = "encoded"
    /\ \E rs \in Results : StartEmit(SystemOneBody(rs)) /\ served' = Append(served, rs)
    /\ UNCHANGED <<vars, text, pos, frames, str, val, tokVars>>
ClientReads ==
    /\ json = "emitted" /\ Len(served) = 2 /\ StartParse(dump)
    /\ UNCHANGED <<vars, tokVars, served>>
Encoding == Encode /\ UNCHANGED <<vars, jsonVars, served>>

Handling == ParseBody \/ Parsing \/ Serialize \/ Reparse \/ TakeState \/ Writing
TextNext == \/ Loading \/ Arriving \/ Receiving \/ ParseFile \/ Handling
            \/ EncodeDump \/ EncodeQuestion \/ Encoding \/ Respond \/ ClientReads

\* The threads go on, and recv() returns; nothing makes a client connect or
\* send.
TextSpec == TextInit /\ [][TextNext]_textVarsAll /\ WF_textVarsAll(Receiving \/ Handling)

-----------------------------------------------------------------------------
(* Properties.                                                             *)

\* Every request comes to an end: it is refused, or its state is a text.  No
\* client keeps the thread for ever, and no document the reader or the writer.
TextEnds ==
    pc = "head" ~> (\/ pc \in {"400", "413"}
                    \/ json \in {"rejected", "large", "dumped", "taken", "asked"})
=============================================================================
