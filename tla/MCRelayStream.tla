---------------------------- MODULE MCRelayStream ----------------------------
(* Each pair of protocols with the content that exercises it, and two tool   *)
(* calls of two arguments each.                                              *)
EXTENDS RelayStream, SensitiveData

Conf(convert, kind, gpt, streamOnly) ==
    [convert |-> convert, kind |-> kind, gpt |-> gpt, streamOnly |-> streamOnly]
Plain == Conf(TRUE, "any", FALSE, FALSE)
Gpt == Conf(TRUE, "any", TRUE, FALSE)
Locked == Conf(FALSE, "any", TRUE, FALSE)
ChatOnly == Conf(TRUE, "chatOnly", TRUE, TRUE)
Native == Conf(TRUE, "responses", FALSE, FALSE)
Messages == Conf(TRUE, "messages", FALSE, FALSE)

Scene(endpoint, stream, redacted, notice, words, parts, channels) ==
    [endpoint |-> endpoint, stream |-> stream, redacted |-> redacted, notice |-> notice,
     words |-> words, parts |-> parts, channels |-> channels, priced |-> ~stream]

MCArgs == [i \in 0 .. 1 |-> IF i = 0 THEN <<"a", "b">> ELSE <<"c", "d">>]

Passing == {
    Scene("chat", TRUE, TRUE, TRUE, {"t", "p", "q"}, {"text", "reason"}, <<Locked, Native>>),
    Scene("chat", TRUE, FALSE, TRUE, {"t", "w", "m", "k"}, {"text"}, <<Plain, Plain>>),
    Scene("chat", TRUE, TRUE, FALSE, {"m", "w"}, {"text", "tools", "noise"}, <<Plain>>),
    Scene("chat", TRUE, TRUE, TRUE, {"t", "p"}, {"text", "tools"}, <<Gpt>>),
    Scene("chat", TRUE, FALSE, TRUE, {"t"}, {"text", "reason", "noise"}, <<Native, ChatOnly>>),
    Scene("responses", TRUE, TRUE, TRUE, {"t", "p"}, {"text", "reason", "tools"}, <<ChatOnly>>),
    Scene("responses", TRUE, TRUE, TRUE, {"t", "p", "q"}, {"text"}, <<Locked>>),
    Scene("chat", TRUE, TRUE, TRUE, {"t", "p", "q"}, {"text", "tools", "noise"}, <<Messages>>),
    Scene("responses", TRUE, FALSE, TRUE, {"t"}, {"text", "reason", "tools"}, <<Messages>>),
    Scene("chat", FALSE, TRUE, TRUE, {"t", "p", "q"}, {"text", "tools"}, <<ChatOnly, Plain>>),
    Scene("responses", FALSE, FALSE, TRUE, {"t"}, {}, <<Native, Plain>>)}

MCPiece(shapes) == [shapes |-> shapes, value |-> 0]
MCPieces == {MCPiece(x) : x \in {{}, {"password"}, {"tokenField", "common"}, {"email"}, {"bankCard", "phone"}}}
MCLeaf(key, listed, text) == [key |-> key, listed |-> listed, text |-> text]
MCLeaves == {MCLeaf(key, listed, <<first, second>>) :
                key \in {<<"content">>, <<"user", "password">>, <<"max", "token">>, <<"api", "key">>},
                listed \in BOOLEAN, first \in {MCPiece({}), MCPiece({"email"})}, second \in MCPieces}
MCPrivacy == [enabled : BOOLEAN, password : BOOLEAN, token : BOOLEAN, personal : BOOLEAN]

\* relay/sensitive_data.go:41 and :138: nothing that an enabled rule recognises is sent
\* upstream, neither under its name nor in a text, each replaced value has a
\* placeholder of its own, and restoring what was sent gives the request back.
ASSUME NothingSensitiveIsSent ==
    \A settings \in MCPrivacy, first, second \in MCLeaves :
        LET body == <<first, second>>
            sent == UpstreamBody(body, settings)
            values == RedactSensitiveData(body, settings).values
        IN  \A i \in DOMAIN body :
              /\ settings.enabled =>
                   /\ \A piece \in Range(sent[i].text) : piece.shapes \cap Range(Patterns(settings)) = {}
                   /\ SensitiveFieldShouldRedact(sent[i], settings) => Len(sent[i].text) = 1
              /\ Restored(sent[i].text, values) = body[i].text
              /\ \A j \in DOMAIN body : \A m \in DOMAIN sent[i].text, n \in DOMAIN sent[j].text :
                    sent[i].text[m] = sent[j].text[n] /\ sent[i].text[m].value # 0 => <<i, m>> = <<j, n>>

\* relay/sensitive_data.go:83: no two values of a request share a placeholder's name.
ASSUME PlaceholdersDiffer == Cardinality({AlphabeticID(n) : n \in 0 .. 800}) = 801

\* relay/sensitive_data.go:262 and :278: a number with one wrong digit is neither an
\* identity number nor a bank card.
ASSUME WrongDigitsAreFound ==
    LET id == <<1, 1, 0, 1, 0, 5, 1, 9, 4, 9, 1, 2, 3, 1, 0, 0, 2, 10>>
        card == <<6, 2, 2, 8, 4, 8, 0, 4, 0, 2, 5, 6, 4, 8, 9, 0, 0, 1, 8>>
    IN  /\ ValidChineseID(id)
        /\ \A i \in 1 .. 17, d \in 0 .. 9 : ValidChineseID([id EXCEPT ![i] = d]) => d = id[i]
        /\ ValidBankCard(card)
        /\ \A i \in 1 .. 19, d \in 0 .. 9 : ValidBankCard([card EXCEPT ![i] = d]) => d = card[i]
=============================================================================
