------------------------------ MODULE Tokenizer ------------------------------
(***************************************************************************)
(* The byte-level BPE tokenizer (src/q3_tokenizer.c): its tables are       *)
(* loaded from the model's metadata, then one text is encoded.             *)
(*                                                                         *)
(* A text is a sequence of bytes.  A token of the vocabulary is a sequence *)
(* of symbols, code points that stand for one byte each (bmap()).          *)
(***************************************************************************)
EXTENDS Integers, SequencesExt, FiniteSetsExt

CONSTANTS Vocabularies,  \* the metadata a model may have: see VocabularyOK
          Hash(_),       \* hs()
          FirstCap,      \* the slots addv() allocates first: 2^19
          Required,      \* q3_required_specials: aliases and their ids
          Needed,        \* need[]: special texts looked for in the vocabulary
          Shortcut       \* the bytes encode_piece() knows the token of

\* "kinds" is tokenizer.ggml.token_type, which may be shorter.
VocabularyOK(v) ==
    /\ v.tokens \in Seq(Seq(Nat)) /\ v.merges \in Seq(Seq(Nat) \X Seq(Nat))
    /\ v.kinds \in Seq(Nat) /\ Len(v.kinds) <= Len(v.tokens)
    \* A special text is in ASCII and not empty.
    /\ \A i \in DOMAIN v.tokens :
          (i \in DOMAIN v.kinds /\ v.kinds[i] \in {3, 4}) \/ (\E r \in ToSet(Required) : r.id = i - 1)
          => v.tokens[i] # <<>> /\ ToSet(v.tokens[i]) \subseteq 0 .. 127

ASSUME TokenizerAssumption ==
    /\ FirstCap \in Nat \ 0 .. 1
    /\ \A v \in Vocabularies : VocabularyOK(v) /\ \A i \in DOMAIN v.tokens : Hash(v.tokens[i]) \in Nat

VARIABLES
    given,     \* the metadata
    tokens,    \* id_to_token: token i of the model is tokens[i + 1]
    slots,     \* vocab[]: the hash table from strings to ids
    specials,  \* special_text[] and special_id[]
    norm,      \* what normalize_nfc() returned
    at,        \* how much of it has been encoded
    chars,     \* what is left of the text up to the next special token
    syms,      \* a[]: the symbols of the piece that is being encoded
    out,       \* the batch of token ids
    tok        \* "load", "specials", "ready"; "special", "text", "merge",
               \* "emit"; "encoded", "unknown"; "invalid"

tokVars == <<given, tokens, slots, specials, norm, at, chars, syms, out, tok>>
tableVars == <<given, tokens, slots, specials>>
textVars == <<norm, at, chars, syms, out>>

-----------------------------------------------------------------------------
(* Bytes, symbols and code points.                                         *)

Kept == 33 .. 126 \cup 161 .. 172 \cup 174 .. 255

\* bmap(): a byte that is no visible character gets a code point above 255.
ByteMap(b) == IF b \in Kept THEN b ELSE 256 + Cardinality({x \in 0 .. b - 1 : x \notin Kept})
\* byte_for_codepoint(); -1 when there is none
ByteFor(cp) ==
    IF cp \in Kept THEN cp
    ELSE IF \E b \in 0 .. 255 \ Kept : ByteMap(b) = cp
         THEN CHOOSE b \in 0 .. 255 \ Kept : ByteMap(b) = cp ELSE -1

ByteLevel(s) == [i \in DOMAIN s |-> ByteMap(s[i])]
Decoded(symbols) == [i \in DOMAIN symbols |-> ByteFor(symbols[i])]

\* utf8_cp(): how many bytes the character at position i has; a byte that
\* starts none is one of its own.
CharLength(s, i) ==
    LET more(n) == i + n <= Len(s) /\ \A k \in 1 .. n : s[i + k] \in 128 .. 191 IN
    CASE s[i] \in 194 .. 223 /\ more(1) -> 2
      [] s[i] \in 224 .. 239 /\ more(2) -> 3
      [] s[i] \in 240 .. 244 /\ more(3) -> 4
      [] OTHER -> 1
CodePoint(b) ==
    CASE Len(b) = 1 -> b[1]
      [] Len(b) = 2 -> 64 * (b[1] % 32) + (b[2] % 64)
      [] Len(b) = 3 -> 4096 * (b[1] % 16) + 64 * (b[2] % 64) + (b[3] % 64)
      [] OTHER -> 262144 * (b[1] % 8) + 4096 * (b[2] % 64) + 64 * (b[3] % 64) + (b[4] % 64)
\* The characters of a text: their code points and their bytes.
Chars(s) ==
    LET from[i \in 1 .. Len(s) + 1] ==
            IF i > Len(s) THEN <<>>
            ELSE LET b == SubSeq(s, i, i + CharLength(s, i) - 1)
                 IN <<[c |-> CodePoint(b), b |-> b]>> \o from[i + Len(b)]
    IN from[1]

Letter == 65 .. 90 \cup 97 .. 122 \cup 192 .. 767 \cup 880 .. 8191
          \cup 12352 .. 44031 \cup 44032 .. 55215
Mark == 768 .. 879 \cup 6832 .. 6911 \cup 7616 .. 7679 \cup 65056 .. 65071
Number == 48 .. 57 \cup 1632 .. 1641 \cup 1776 .. 1785
Space == 9 .. 13 \cup {32, 133, 160} \cup 8192 .. 8202
Newline == {10, 13}
Blank == Space \ Newline
Wordish == Letter \cup Mark

\* normalize_nfc(): a letter and a combining acute accent are composed.
Acute == [c \in {97, 101, 105, 111, 117, 65, 69, 73, 79, 85} |->
            CASE c = 97 -> 161 [] c = 101 -> 169 [] c = 105 -> 173 [] c = 111 -> 179
              [] c = 117 -> 186 [] c = 65 -> 129 [] c = 69 -> 137 [] c = 73 -> 141
              [] c = 79 -> 147 [] OTHER -> 154]
Composes(s, i) == /\ i \in 1 .. Len(s) - 2 /\ s[i] \in DOMAIN Acute
                  /\ s[i + 1] = 204 /\ s[i + 2] = 129
NormalizeNfc(s) ==
    FlattenSeq([i \in DOMAIN s |-> IF Composes(s, i) THEN <<195, Acute[s[i]]>>
                                   ELSE IF Composes(s, i - 1) \/ Composes(s, i - 2) THEN <<>>
                                   ELSE <<s[i]>>])

-----------------------------------------------------------------------------
(* The tables.                                                             *)

NoSlot == [id |-> -1]
EmptyTable(cap) == [i \in 0 .. cap - 1 |-> NoSlot]
Used(t) == {i \in DOMAIN t : t[i] # NoSlot}

\* The slot of a string: its own, or the first empty one from its hash on.
Probe(t, s) ==
    LET cap == Cardinality(DOMAIN t)
        slot(k) == (Hash(s) + k) % cap
        ends(k) == t[slot(k)] = NoSlot \/ t[slot(k)].s = s
    IN slot(CHOOSE k \in 0 .. cap - 1 : ends(k) /\ \A j \in 0 .. k - 1 : ~ends(j))
PutSlot(t, e) == [t EXCEPT ![Probe(t, e.s)] = e]

\* MUTANT: the table grows and the entries stay where they are.
RehashedInPlace(t) ==
    [i \in 0 .. 2 * Cardinality(DOMAIN t) - 1 |-> IF i \in DOMAIN t THEN t[i] ELSE NoSlot]
\* Every entry is put again in the order of the old slots.
Rehashed(t) ==
    LET cap == Cardinality(DOMAIN t)
        first[n \in 0 .. cap] ==
            IF n = 0 THEN EmptyTable(2 * cap)
            ELSE LET done == first[n - 1]
                 IN IF t[n - 1] = NoSlot THEN done ELSE PutSlot(done, t[n - 1])
    IN first[cap]

\* addv(): a string that is there already gets the new id.
Added(t, s, id) ==
    LET room == IF 2 * Cardinality(Used(t)) >= Cardinality(DOMAIN t) THEN Rehashed(t) ELSE t
    IN PutSlot(room, [s |-> s, id |-> id])

\* lookup(); -1: not there
Lookup(s) == slots[Probe(slots, s)].id

\* mrank(): the first merge of the two; -1: there is none
Rank(a, b) == IF Contains(given.merges, <<a, b>>)
              THEN SelectInSeq(given.merges, LAMBDA m : m = <<a, b>>) ELSE -1

-----------------------------------------------------------------------------
(* q3_tokenizer_init_gguf()                                                *)

TokInit ==
    /\ given \in Vocabularies
    /\ tokens = <<>> /\ slots = EmptyTable(FirstCap) /\ specials = <<>>
    /\ norm = <<>> /\ at = 0 /\ chars = <<>> /\ syms = <<>> /\ out = <<>> /\ tok = "load"

LoadToken ==
    /\ tok = "load" /\ Len(tokens) < Len(given.tokens)
    /\ LET id == Len(tokens)  s == given.tokens[id + 1]
       IN tokens' = Append(tokens, s) /\ slots' = Added(slots, s, id)
    /\ UNCHANGED <<given, specials, textVars, tok>>

\* The tokens of kind 3 and 4, in the order of their ids.
MarkedSpecials ==
    LET ids == SelectSeq([i \in DOMAIN given.kinds |-> i - 1],
                         LAMBDA id : given.kinds[id + 1] \in {3, 4})
    IN [k \in DOMAIN ids |-> [s |-> tokens[ids[k] + 1], id |-> ids[k]]]

HasText(list, s) == \E k \in DOMAIN list : list[k].s = s
\* add_special_text()
WithText(list, s, id) == IF HasText(list, s) THEN list ELSE Append(list, [s |-> s, id |-> id])

\* token_string(): a special text of that id, or the token.
TokenString(list, id) ==
    LET k == SelectInSeq(list, LAMBDA e : e.id = id)
    IN IF k # 0 THEN list[k].s ELSE tokens[id + 1]
\* need[]: a text that no special has yet gets the first id that spells it.
Recovered(list, s) ==
    LET ids == {id \in 0 .. Len(tokens) - 1 : TokenString(list, id) = s}
    IN IF HasText(list, s) \/ ids = {} THEN list ELSE Append(list, [s |-> s, id |-> Min(ids)])

\* q3_tokenizer_verify_specials(): the model's spelling, then the template's.
Verified(list) ==
    FoldLeft(LAMBDA acc, r : WithText(WithText(acc, tokens[r.id + 1], r.id), r.alias, r.id),
             list, Required)

LoadSpecials ==
    /\ tok = "load" /\ Len(tokens) = Len(given.tokens)
    /\ LET found == FoldLeft(Recovered, MarkedSpecials, Needed) IN
       IF \E k \in DOMAIN Required : Required[k].id >= Len(tokens)
       THEN tok' = "invalid" /\ UNCHANGED specials
       ELSE tok' = "ready" /\ specials' = Verified(found)
    /\ UNCHANGED <<given, tokens, slots, textVars>>

LoadTables == LoadToken \/ LoadSpecials

-----------------------------------------------------------------------------
(* q3_tokenizer_encode()                                                   *)

StartEncode(s) ==
    /\ norm' = NormalizeNfc(s) /\ at' = 0 /\ chars' = <<>> /\ syms' = <<>> /\ out' = <<>>
    /\ tok' = "special" /\ UNCHANGED tableVars

Occurs(s, i) == i + Len(s) <= Len(norm) /\ SubSeq(norm, i + 1, i + Len(s)) = s
Ahead(a, b) == a.i < b.i \/ (a.i = b.i /\ Len(a.e.s) > Len(b.e.s))
\* The special texts that are left in the text, each where it occurs first.
Found ==
    LET occurs(e) == {i \in at .. Len(norm) : Occurs(e.s, i)}
    IN [k \in {k \in DOMAIN specials : occurs(specials[k]) # {}} |->
            [e |-> specials[k], i |-> Min(occurs(specials[k]))]]
Best == Found[CHOOSE k \in DOMAIN Found : \A j \in DOMAIN Found \ {k} :
                 Ahead(Found[k], Found[j]) \/ (~Ahead(Found[j], Found[k]) /\ k < j)]

\* encode_special(): the text up to the next special token is split, then
\* that token is pushed.
TextUpTo(end) ==
    tok' = "text" /\ chars' = Chars(SubSeq(norm, at + 1, end)) /\ UNCHANGED <<at, out>>
NextSpecial ==
    /\ tok = "special" /\ UNCHANGED <<tableVars, norm, syms>>
    /\ IF at = Len(norm) THEN tok' = "encoded" /\ UNCHANGED <<at, chars, out>>
       ELSE IF DOMAIN Found = {} THEN TextUpTo(Len(norm))
       ELSE IF Best.i > at THEN TextUpTo(Best.i)
       ELSE /\ at' = at + Len(Best.e.s) /\ out' = Append(out, Best.e.id)
            /\ UNCHANGED <<chars, tok>>

\* encode_text(): how many of the characters make the next piece.
PieceEnd ==
    LET n == Len(chars)
        c(i) == IF i <= n THEN chars[i].c ELSE 0
        run(i, set) == CHOOSE j \in i - 1 .. n : /\ \A k \in i .. j : c(k) \in set
                                                 /\ j < n => c(j + 1) \notin set
        blanks == run(2, {32})
        text == Space \cup Wordish \cup Number
        others(i) == LET j == CHOOSE j \in i - 1 .. n : /\ \A k \in i .. j : c(k) \notin text
                                                        /\ j < n => c(j + 1) \in text
                     IN run(j + 1, Newline)
    IN CASE c(1) \in {39, 8217} /\ n > 1 ->                         \* 's 're 'll
              IF c(2) \in {115, 116, 109, 100, 83, 84, 77, 68} THEN 2
              ELSE IF \/ (c(2) \in {114, 118, 82, 86} /\ c(3) = 101)
                      \/ (c(2) = 108 /\ c(3) = 108) THEN 3 ELSE 1
         [] c(1) \in Wordish -> run(2, Wordish)
         [] c(1) \in Number \ Wordish -> 1
         [] c(1) \in Newline -> run(2, Newline)
         [] c(1) \in Blank /\ n > 1 ->
              IF c(1) \in {32, 9} /\ c(2) \in Wordish THEN run(3, Wordish)
              ELSE IF c(2) \notin Space \cup Number THEN others(3)
              ELSE IF c(1) = 32 /\ blanks > 1 /\ c(blanks + 1) \in Wordish THEN 1
              ELSE run((IF c(1) = 32 THEN blanks ELSE 1) + 1, Blank)
         [] c(1) \in Blank /\ n = 1 -> 1
         [] OTHER ->
              IF c(1) = 61 /\ c(2) \in Wordish THEN run(run(2, Wordish) + 1, Newline)
              ELSE IF c(1) = 92 /\ c(2) \in {110, 114, 116, 98, 102, 34, 92, 47, 117}
                   THEN others(3) ELSE others(2)

\* A piece of one byte may have a known token.
NextPiece ==
    /\ tok = "text" /\ UNCHANGED <<tableVars, norm>>
    /\ IF chars = <<>> THEN tok' = "special" /\ UNCHANGED <<at, chars, syms, out>>
       ELSE LET s == FlattenSeq([i \in 1 .. PieceEnd |-> chars[i].b])
            IN /\ at' = at + Len(s) /\ chars' = SubSeq(chars, PieceEnd + 1, Len(chars))
               /\ IF Len(s) = 1 /\ s[1] \in DOMAIN Shortcut
                  THEN out' = Append(out, Shortcut[s[1]]) /\ UNCHANGED <<syms, tok>>
                  ELSE /\ tok' = "merge" /\ UNCHANGED out
                       /\ syms' = [i \in DOMAIN s |-> <<ByteMap(s[i])>>]

\* The pairs that some merge joins; the merge of the lowest rank comes first,
\* at its first place.
Mergeable == {i \in 1 .. Len(syms) - 1 : Rank(syms[i], syms[i + 1]) >= 0}
RankAt(i) == Rank(syms[i], syms[i + 1])
Merge ==
    /\ tok = "merge" /\ UNCHANGED <<tableVars, norm, at, chars, out>>
    /\ IF Mergeable = {} THEN tok' = "emit" /\ UNCHANGED syms
       ELSE LET i == CHOOSE i \in Mergeable : \A j \in Mergeable \ {i} :
                        RankAt(i) < RankAt(j) \/ (RankAt(i) = RankAt(j) /\ i < j)
            IN /\ syms' = SubSeq(syms, 1, i - 1) \o <<syms[i] \o syms[i + 1]>>
                          \o SubSeq(syms, i + 2, Len(syms))
               /\ UNCHANGED tok

\* MUTANT: only its first symbol is emitted.
FallbackFirst(s) == IF Lookup(s) >= 0 THEN <<s>> ELSE <<<<s[1]>>>>
\* A merged symbol that is no token is emitted symbol by symbol.
Fallback(s) == IF Lookup(s) >= 0 THEN <<s>> ELSE [i \in DOMAIN s |-> <<s[i]>>]
EmitToken ==
    /\ tok = "emit" /\ UNCHANGED <<tableVars, norm, at, chars>>
    /\ IF syms = <<>> THEN tok' = "text" /\ UNCHANGED <<syms, out>>
       ELSE LET parts == Fallback(Head(syms)) IN
            IF \E i \in DOMAIN parts : Lookup(parts[i]) < 0
            THEN tok' = "unknown" /\ out' = <<>> /\ UNCHANGED syms
            ELSE /\ out' = out \o [i \in DOMAIN parts |-> Lookup(parts[i])]
                 /\ syms' = Tail(syms) /\ UNCHANGED tok

Encode == NextSpecial \/ NextPiece \/ Merge \/ EmitToken

-----------------------------------------------------------------------------
(* Properties.                                                             *)

\* A token string finds its last id, however often the table has grown and
\* whatever collides: two ids may have the same string.
LookupIsLast ==
    tok = "load" => \A s \in ToSet(tokens) : Lookup(s) = Max({id \in 0 .. Len(tokens) - 1 : tokens[id + 1] = s})

\* What a token may stand for: its special texts, or its bytes.
Spellings(id) ==
    LET texts == {specials[k].s : k \in {k \in DOMAIN specials : specials[k].id = id}}
    IN IF texts = {} THEN {Decoded(tokens[id + 1])} ELSE texts
SpelledBy(ids) ==
    FoldLeft(LAMBDA acc, id : {a \o t : a \in acc, t \in Spellings(id)}, {<<>>}, ids)

\* However a text is cut into special tokens, pieces, merged symbols and
\* single ones, the tokens spell it: nothing is lost, doubled or moved.
NothingLost ==
    tok \in {"special", "text", "merge", "emit", "encoded"} =>
        \E a \in SpelledBy(out) :
            a \o Decoded(FlattenSeq(syms)) \o SubSeq(norm, at + 1, Len(norm)) = norm
=============================================================================
