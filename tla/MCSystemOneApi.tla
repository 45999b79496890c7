---------------------------- MODULE MCSystemOneApi ----------------------------
(* Instances of SystemOneApi small enough for TLC. *)
EXTENDS SystemOneApi

\* n options that are right, but for the k-th (none when k = 0).
Options(n, k, odd) ==
    [i \in 1 .. n |-> IF i = k THEN odd ELSE [key |-> "name", value |-> "text"]]
NoulOptions(odd) ==
    <<odd, [key |-> "true", value |-> "text"]>>
Fine == [key |-> "name", value |-> "text"]

Asks(type, shape, options, tokens) ==
    [id |-> "name", object |-> TRUE, type |-> type, shape |-> shape,
     options |-> options, tokens |-> tokens]

\* Questions of every number of options, and with one odd option.
Sized == {Asks(ty, sh, Options(n, 0, Fine), 1) :
             ty \in {"choice", "score"}, sh \in {"absent", "object", "array", "other"},
             n \in {0, 1, 2, 9, 10, 11, 12, 13}}
Odd   == {Asks(sh[1], sh[2], Options(3, 2, o), 1) :
             sh \in {<<"choice", "object">>, <<"score", "array">>},
             o \in [key : Keys, value : Values]}
         \cup {Asks("noul", "object", NoulOptions(o), 1) : o \in [key : Keys, value : Values]}
Noul  == {Asks("noul", sh, <<>>, to) : sh \in {"absent", "object", "array", "other"},
                                       to \in 1 .. MaxSuffix + 1}
Wrong == {[Asks("noul", "absent", <<>>, 1) EXCEPT !.id = "empty"],
          [Asks("noul", "absent", <<>>, 1) EXCEPT !.object = FALSE],
          Asks("other", "object", Options(2, 0, Fine), 1)}

Easy == Asks("noul", "absent", <<>>, 1)
Batches == {<<x>> : x \in Sized \cup Odd \cup Noul \cup Wrong}
           \cup {<<Easy, x>> : x \in Wrong \cup Noul}
           \cup {[i \in 1 .. n |-> Asks("noul", "absent", <<>>, MaxSuffix)] :
                    n \in 0 .. MaxQ + 1}

Good == [json |-> TRUE, huge |-> FALSE, model |-> "served", state |-> "string",
         stateTokens |-> 1, questionsAre |-> "object", questions |-> <<Easy>>]
Post(body) == [method |-> "POST", path |-> "/v1/systemone", key |-> "right",
               contentType |-> "json", body |-> body]

\* Every way to route the good body, and every odd body on the right route.
Routes == [method : Methods, path : Paths, key : {"none", "wrong", "right"},
           contentType : {"none", "json", "other"}, body : {Good}]
Bodies == {b \in [json : BOOLEAN, huge : BOOLEAN, model : Models,
                      state : Run!StateKinds,
                      stateTokens : {0, 1, PrefixCapacity, PrefixCapacity + 1},
                      questionsAre : {"absent", "object", "other"},
                      questions : {<<Easy>>, <<>>}] :
              b.huge => b.state \in {"container", "oversized"}}
Asking == {[Good EXCEPT !.questions = b, !.stateTokens = n] :
              b \in Batches, n \in {1, PrefixCapacity}}

AllRequests == Routes \cup {Post(b) : b \in Bodies \cup Asking}

(* What a file may hold for the runtime alone: questions of every type, well *)
(* formed and not, alone and in batches of up to one more than MaxQ.         *)
Bare(ty, sh, n, to) == Asks(ty, sh, Options(n, 0, Fine), to)
Questions ==
    {Bare(ty, sh, n, to) : ty \in {"choice", "score"}, sh \in {"object", "array"},
                           n \in {1, 2, 9, 10, 12, 13}, to \in {1, MaxSuffix}}
    \cup {Bare("noul", "absent", 0, to) : to \in 1 .. MaxSuffix + 1} \cup Wrong
Right == {Bare("choice", "object", 2, MaxSuffix), Bare("score", "array", 9, 1),
          Bare("noul", "absent", 0, MaxSuffix)}
FileBatches == {<<x>> : x \in Questions}
               \cup UNION {[1 .. n -> Right] : n \in 0 .. MaxQ + 1}
               \cup {<<x, y>> : x \in Right, y \in Questions}

Asked(state, tokens, batches) ==
    {[state |-> state, stateTokens |-> tokens, questions |-> b] : b \in batches}
AllFiles ==
    UNION {Asked(s, 1, {<<Easy>>}) : s \in Run!StateKinds}
    \cup UNION {Asked("string", n, FileBatches) : n \in {0, 1, PrefixCapacity, PrefixCapacity + 1}}
=============================================================================
