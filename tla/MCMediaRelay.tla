---------------------------- MODULE MCMediaRelay ----------------------------
(* Two channels, one with two keys at the start and one with a key that is   *)
(* created later.                                                            *)
EXTENDS MediaRelay, TLC

CONSTANTS c1, c2, c3, ch1, ch2, r1, r2

MCChannelOf == (c1 :> ch1) @@ (c2 :> ch1) @@ (c3 :> ch2)
MCVideoAdapter == (ch1 :> "minimax") @@ (ch2 :> "ark")
MCAuth == (ch1 :> "channel_key") @@ (ch2 :> "management_key")
MCAudioAdapter == (ch1 :> "openai") @@ (ch2 :> "chat")
MCInitial == {[c \in Creds |-> IF c = c2 THEN s ELSE "on"] : s \in {"new", "on", "auto"}}
Mix(first, second, list) == [kind |-> (r1 :> first) @@ (r2 :> second), candidates |-> list]
MCMixes == {Mix("speech", "image", <<ch1>>), Mix("talk", "idle", <<ch1, ch2>>),
            Mix("chat", "idle", <<ch1>>), Mix("image", "idle", <<ch1, ch2>>),
            Mix("transcription", "idle", <<ch1, ch2>>), Mix("video", "idle", <<ch1, ch2>>)}
=============================================================================
