----------------------------- MODULE MCPrograms ------------------------------
(* Instances of Programs small enough for TLC. *)
EXTENDS Programs

\* Every line of up to three of these, one for each command, and some more.
Words == {"--platform", "--inspect", "--forward", "--help", "--batch", "1,5,9", "0"}
MCPlanLine == <<"--memory-plan", "f">>
MCArguments ==
    UNION {[1 .. n -> Words] : n \in 0 .. 3}
    \cup {<<m, "f">> : m \in ModeOptions}
    \cup {<<"--forward", "f", "--candidate-token-ids", "c">>,
          <<"--json", "--forward", "f", "--tokens", "t", "--workload", "x">>,
          <<"--forward", "f", "--tokens", "t">>,
          <<"--forward", "--tokens", "--tokens", "--forward">>,
          <<"--bench-q4-linear", "f", "--batch", "1,5,9">>}
    \cup {<<"--bench-q4-linear", "f", "--batch", n>> : n \in {"3", "7"}}
MCListOf ==
    [v \in Words \cup {"f", "3", "7"} |->
        CASE v = "3" -> <<3>> [] v = "7" -> <<7>> [] v = "1,5,9" -> <<1, 5, 9>>
          [] v = "0" -> <<0>> [] OTHER -> <<>>]

\* Every file of four bytes with up to three tensors, which may be empty,
\* overlap, or end behind the file.
FileSize == 4
ATensor == {t \in [offset : 0 .. FileSize, bytes : 0 .. 3, ple : BOOLEAN] :
              t.offset + t.bytes <= FileSize + 1}
MCModels ==
    {[size |-> FileSize, tensors |-> ts] : ts \in UNION {[1 .. n -> ATensor] : n \in 0 .. 3}}

\* Tiles of up to two by three elements, on up to five multiprocessors.
MCProducts ==
    {p \in [rows : {1, 4, 5, 7}, cols : {3, 7}, blocks : {2, 6}, sms : 2 .. 5] : Tiles(p) <= 7}
=============================================================================
