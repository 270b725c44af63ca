---------------------------- MODULE SensitiveData ----------------------------
(***************************************************************************)
(* What a request loses before it goes upstream (relay/sensitive_data.go): *)
(* values that look like passwords, tokens or personal data are replaced   *)
(* by placeholders, which the answer gets back (module RelayStream).       *)
(*                                                                         *)
(* A body is the sequence of its leaves in the order they are visited; a   *)
(* leaf is [key, listed, text]: the words of its normalised field name,    *)
(* whether it stands in an array, and its text cut into pieces.  A piece   *)
(* is [shapes, value]: the patterns that match it; matches that overlap    *)
(* in part only are left out.  A placeholder is a piece that nothing       *)
(* matches, with a number for its value.                                   *)
(***************************************************************************)
EXTENDS Integers, Sequences, FiniteSets, SequencesExt

\* Digits of a base 26 number, the last one first.
Digits26[value \in Nat] == IF value < 26 THEN <<value>> ELSE <<value % 26>> \o Digits26[value \div 26]

AlphabeticID(value) == Reverse(Digits26[value])

-----------------------------------------------------------------------------
(* Names of fields. *)

\* Numbers of tokens are not tokens.
Counted == {"max", "input", "output", "cached", "total", "prompt", "completion", "reasoning"}

IsPasswordField(key) == "password" \in Range(key) \/ key \in {<<"passwd">>, <<"pwd">>}

IsTokenField(key) ==
    LET Ends(tail) == IsSuffix(tail, key)
    IN  \/ key \in {<<"authorization">>, <<"auth">>, <<"cookie">>, <<"private", "key">>}
        \/ Ends(<<"secret">>) \/ Ends(<<"secret", "key">>)
        \/ Ends(<<"api", "key">>) \/ Ends(<<"access", "key">>)
        \/ Ends(<<"token">>) /\ Head(key) \notin Counted

IsPersonalField(key) ==
    \/ {"email", "phone", "mobile", "identity"} \cap Range(key) # {}
    \/ \E i \in 1 .. Len(key) - 1 : SubSeq(key, i, i + 1) \in {<<"id", "card">>, <<"bank", "card">>}

\* An array under such a name is not a scalar.
SensitiveFieldShouldRedact(leaf, settings) ==
    /\ ~leaf.listed
    /\ \/ settings.password /\ IsPasswordField(leaf.key)
       \/ settings.token /\ IsTokenField(leaf.key)
       \/ settings.personal /\ IsPersonalField(leaf.key)

-----------------------------------------------------------------------------
(* Check digits. *)

Sum(f) == FoldLeft(LAMBDA total, x : total + x, 0, f)

\* 17 digits and a check digit, 10 for an X.
ValidChineseID(id) ==
    LET weights == <<7, 9, 10, 5, 8, 4, 2, 1, 6, 3, 7, 9, 10, 5, 8, 4, 2>>
        checks == <<1, 0, 10, 9, 8, 7, 6, 5, 4, 3, 2>>
    IN  /\ Len(id) = 18
        /\ \A i \in 1 .. 17 : id[i] \in 0 .. 9
        /\ id[18] = checks[(Sum([i \in 1 .. 17 |-> id[i] * weights[i]]) % 11) + 1]

\* Every second digit from the right counts twice, less 9 from 10 on.
ValidBankCard(digits) ==
    LET n == Len(digits)
        Twice(d) == IF 2 * d > 9 THEN 2 * d - 9 ELSE 2 * d
    IN  /\ n \in 13 .. 19
        /\ Sum([i \in 1 .. n |-> IF (n - i) % 2 = 1 THEN Twice(digits[i]) ELSE digits[i]]) % 10 = 0

-----------------------------------------------------------------------------
(* Replacing. *)

\* The patterns, in the order they are tried.
Patterns(settings) ==
    (IF settings.password THEN <<"password", "chinesePassword", "basicAuth">> ELSE << >>)
    \o (IF settings.token THEN <<"privateKey", "tokenField", "bearer", "common">> ELSE << >>)
    \o (IF settings.personal THEN <<"email", "chineseID", "bankCard", "phone">> ELSE << >>)

Placeholder(n) == [shapes |-> {}, value |-> n]

\* done: what has been written, and the replaced values, by placeholder.
Redact(done, value) ==
    [text |-> Append(done.text, Placeholder(Len(done.values) + 1)),
     values |-> Append(done.values, value)]

RedactPattern(pattern, done) ==
    FoldLeft(LAMBDA d, piece : IF pattern \in piece.shapes THEN Redact(d, <<piece>>)
                               ELSE [d EXCEPT !.text = Append(@, piece)],
             [text |-> << >>, values |-> done.values], done.text)

RedactSensitiveText(text, values, settings) ==
    FoldLeft(LAMBDA done, pattern : RedactPattern(pattern, done),
             [text |-> text, values |-> values], Patterns(settings))

\* A field with such a name is replaced whole, whatever it holds.
RedactLeaf(leaf, values, settings) ==
    IF SensitiveFieldShouldRedact(leaf, settings)
    THEN Redact([text |-> << >>, values |-> values], leaf.text)
    ELSE RedactSensitiveText(leaf.text, values, settings)

RedactSensitiveData(body, settings) ==
    FoldLeft(LAMBDA done, leaf :
                LET r == RedactLeaf(leaf, done.values, settings)
                IN  [body |-> Append(done.body, [leaf EXCEPT !.text = r.text]), values |-> r.values],
             [body |-> << >>, values |-> << >>], IF settings.enabled THEN body ELSE << >>)

\* Without a replaced value the request goes out as it came.
UpstreamBody(body, settings) ==
    LET done == RedactSensitiveData(body, settings)
    IN  IF done.values = << >> THEN body ELSE done.body

\* The placeholders of a text, replaced by what they stand for. One round is enough: no
\* pattern matches a placeholder, so a replaced value holds none.
Restored(text, values) ==
    FoldLeft(LAMBDA done, piece :
                done \o (IF piece.shapes = {} /\ piece.value \in DOMAIN values THEN values[piece.value]
                         ELSE <<piece>>), << >>, text)
=============================================================================
