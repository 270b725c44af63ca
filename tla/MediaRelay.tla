----------------------------- MODULE MediaRelay -----------------------------
(***************************************************************************)
(* The callers of SelectCredential: the handlers of speech, transcription, *)
(* image edits and video in src/internal/logic/relay/{audio,images_edit,   *)
(* video}.go, which try each candidate channel once with the key they are  *)
(* given, and the chat handler, of which only the retries with other keys  *)
(* are kept (RelayRequest has the rest).                                   *)
(*                                                                         *)
(* A video is a task of the upstream: the answer of the creation names it, *)
(* and a Redis route (24 h) remembers the channel and key for later calls. *)
(***************************************************************************)
EXTENDS CredentialPool, Sequences

CONSTANTS
    Mixes,          \* the combinations of requests a run looks at: their kinds, and
                    \* the candidate channels in order
    VideoAdapter,   \* [Channels -> {"openai", "minimax", "ark"}]
    AudioAdapter,   \* [Channels -> {"openai", "chat"}]
    Auth,           \* [Channels -> {"none", "channel_key", "management_key"}]: what
                    \* requests of the channel's type are authorized with
    Management,     \* the management key of a channel
    Tasks           \* the identifiers upstreams give to video tasks

ASSUME MediaAssumption ==
    /\ \A m \in Mixes :
          /\ m.kind \in [Requests -> {"chat", "talk", "speech", "transcription", "image",
                                     "video", "idle"}]
          /\ m.candidates \in Seq(Channels) /\ m.candidates # <<>>
    /\ VideoAdapter \in [Channels -> {"openai", "minimax", "ark"}]
    /\ AudioAdapter \in [Channels -> {"openai", "chat"}]
    /\ Auth \in [Channels -> {"none", "channel_key", "management_key"}]
    /\ None \notin Creds /\ Management \notin Creds

VARIABLES
    candidates, \* the channels the request may use, in order
    job,        \* per request: where its handler stands
    creator,    \* who had a task of this identifier made, and at which account:
                \* upstreams do not agree on identifiers
    route,      \* aiferry:video-task:<id>
    poll        \* one later call about a task

mediaVars == <<candidates, job, creator, route, poll>>
vars == <<poolVars, mediaVars>>

NoResult == [status |-> "none", error |-> FALSE, handled |-> FALSE, wrote |-> FALSE]
NoRow == [key |-> None, status |-> "none", attempts |-> 0]
NoPoll == [pc |-> "idle", task |-> None, by |-> None, route |-> None, used |-> None]

Init ==
    /\ PoolInit
    /\ \E m \in Mixes : \E mode \in {"legacy", "openai"} :
         /\ mode = "legacy" \/ \E r \in Requests : m.kind[r] = "video"
         /\ candidates = m.candidates
         /\ job = [r \in Requests |->
                 [kind |-> m.kind[r], mode |-> mode,
                  pc |-> IF m.kind[r] = "idle" THEN "end" ELSE "start", index |-> 1,
                  key |-> None, excluded |-> {}, attempts |-> 0, reason |-> "",
                  last |-> NoResult, lastKey |-> None, answeredBy |-> None, row |-> NoRow]]
    /\ creator = [t \in Tasks |-> {}]
    /\ route = [t \in Tasks |-> None]
    /\ poll = NoPoll

-----------------------------------------------------------------------------
(* Reading the request and choosing a key. *)

\* The endpoint an adapter sends a request to, or "bad" where it may find the
\* client's body unusable: what was sent decides, so both are possible.
SpeechBody(ch) ==
    {IF AudioAdapter[ch] = "chat" THEN "/chat/completions" ELSE "/audio/speech", "bad"}

TranscriptionBody(ch) ==
    {IF AudioAdapter[ch] = "chat" THEN "/chat/completions" ELSE "/audio/transcriptions", "bad"}

ImagesEditBody == {"/images/edits", "bad"}

VideoBody(ch) ==
    CASE VideoAdapter[ch] = "minimax" -> {"/v2/video_generation", "bad"}
      [] VideoAdapter[ch] = "ark"     -> {"/contents/generations/tasks"}
      [] VideoAdapter[ch] = "openai"  -> {"/videos"}

UpstreamBody(kind, ch) ==
    CASE kind = "speech"        -> SpeechBody(ch)
      [] kind = "transcription" -> TranscriptionBody(ch)
      [] kind = "image"         -> ImagesEditBody

Selecting(r, i, excluded) ==
    LET kind == job[r].kind
        chat == kind \in {"chat", "talk"}
    IN  \E anyModel \in (IF kind = "chat" THEN BOOLEAN ELSE {FALSE}) :
            call' = [call EXCEPT ![r] = SelectCredential(candidates[i], kind = "talk", ~chat,
                                                         excluded, anyModel)]

Refused(r) ==
    /\ job[r].pc = "start"
    /\ job' = [job EXCEPT ![r].pc = "end"]
    /\ UNCHANGED <<poolVars, candidates, creator, route, poll>>

\* What ends a request before a channel is tried: a body that is too large or
\* cannot be read, no model, no channel, an empty balance ...
RejectAudio(r) == job[r].kind \in {"speech", "transcription"} /\ Refused(r)

\* ... and for an edit a missing image or a sensitive word.
RejectImagesEdit(r) == job[r].kind = "image" /\ Refused(r)

RejectVideo(r) == job[r].kind = "video" /\ Refused(r)

AcceptRequest(r) ==
    /\ job[r].pc = "start"
    /\ job' = [job EXCEPT ![r].pc = "select"]
    /\ Selecting(r, 1, {})
    /\ UNCHANGED <<envVars, pool, memory, binding, bindingCache, candidates, creator, route, poll>>

\* The next candidate, or the end of the loop.
NextCandidate(r, changed) ==
    IF job[r].index < Len(candidates)
    THEN /\ job' = [job EXCEPT ![r] = [changed EXCEPT !.pc = "select", !.index = @ + 1]]
         /\ Selecting(r, job[r].index + 1, changed.excluded)
    ELSE /\ job' = [job EXCEPT ![r] = [changed EXCEPT !.pc = "finish"]]
         /\ call' = [call EXCEPT ![r] = Idle]

\* No key: the failure becomes the last result, whatever came before it.
SkipCandidate(r) ==
    /\ job[r].pc = "select"
    /\ call[r].pc \in {"none", "failed"}
    /\ NextCandidate(r, [job[r] EXCEPT !.last = [NoResult EXCEPT !.error = TRUE],
                                       !.lastKey = None,
                                       !.reason = IF call[r].pc = "none"
                                                  THEN UnavailableReason(r) ELSE "failed"])
    /\ UNCHANGED <<envVars, pool, memory, binding, bindingCache, candidates, creator, route, poll>>

\* The key the handler goes on with.
Key(r) == call[r].pick
Picked(r) == job[r].pc = "select" /\ call[r].pc = "chosen"

-----------------------------------------------------------------------------
(* Audio and images: the answer is written to the client by the attempt. *)

\* What an attempt can end in: no answer, an error, an answer that cannot be
\* read (or, through a chat endpoint, holds no recording), one the client does
\* not take, success.
AudioResults(path) ==
    IF path = "bad" THEN {[NoResult EXCEPT !.error = TRUE]}
    ELSE {[status |-> "none", error |-> TRUE, handled |-> FALSE, wrote |-> FALSE],
          [status |-> "bad", error |-> TRUE, handled |-> FALSE, wrote |-> FALSE],
          [status |-> "ok", error |-> TRUE, handled |-> FALSE, wrote |-> FALSE],
          [status |-> "ok", error |-> TRUE, handled |-> TRUE, wrote |-> FALSE],
          [status |-> "ok", error |-> FALSE, handled |-> TRUE, wrote |-> TRUE]}

\* An edit has no recording to decode; the outcomes are the same.
ImagesEditResults(path) == AudioResults(path)

\* Bug: the candidate is only remembered with a failure.
MutAttempted(r, result) ==
    [job[r] EXCEPT !.attempts = @ + 1, !.last = result,
                   !.lastKey = IF result.error THEN Key(r) ELSE @,
                   !.answeredBy = IF result.wrote THEN Key(r) ELSE @]

\* The result of an attempt and the candidate it belongs to.
Attempted(r, result) ==
    [job[r] EXCEPT !.attempts = @ + 1, !.last = result, !.lastKey = Key(r),
                   !.answeredBy = IF result.wrote THEN Key(r) ELSE @]

LeaveLoop(r, changed) ==
    /\ job' = [job EXCEPT ![r] = [changed EXCEPT !.pc = "finish"]]
    /\ call' = [call EXCEPT ![r] = Idle]

\* Audio stops at the first 2xx, readable or not ...
AttemptAudio(r) ==
    /\ Picked(r) /\ job[r].kind \in {"speech", "transcription"}
    /\ \E path \in UpstreamBody(job[r].kind, candidates[job[r].index]) :
         \E result \in AudioResults(path) :
            IF result.status = "ok" THEN LeaveLoop(r, Attempted(r, result))
            ELSE NextCandidate(r, Attempted(r, result))
    /\ UNCHANGED <<envVars, pool, memory, binding, bindingCache, candidates, creator, route, poll>>

\* ... an image edit once the answer was handed to the client.
AttemptImagesEdit(r) ==
    /\ Picked(r) /\ job[r].kind = "image"
    /\ \E path \in ImagesEditBody : \E result \in ImagesEditResults(path) :
            IF result.handled THEN LeaveLoop(r, Attempted(r, result))
            ELSE NextCandidate(r, Attempted(r, result))
    /\ UNCHANGED <<envVars, pool, memory, binding, bindingCache, candidates, creator, route, poll>>

Recorded(r, row) ==
    /\ job[r].pc = "finish"
    /\ job' = [job EXCEPT ![r].pc = "end", ![r].last = NoResult, ![r].lastKey = None,
                          ![r].reason = "", ![r].attempts = 0, ![r].index = 1,
                          ![r].row = row]
    /\ UNCHANGED <<poolVars, candidates, creator, route, poll>>

\* One usage row for the request, named after the last candidate.
Row(r) == [key |-> job[r].lastKey, status |-> job[r].last.status, attempts |-> job[r].attempts]

\* A row of an audio request that cannot be written is only logged.
RecordAudioUsage(r) ==
    /\ job[r].kind \in {"speech", "transcription"}
    /\ \E row \in {Row(r), NoRow} : Recorded(r, row)

\* For an edit the failure reaches the client unless the answer already did.
RecordImagesEdit(r) ==
    /\ job[r].kind = "image"
    /\ \E row \in {Row(r), NoRow} : Recorded(r, row)

-----------------------------------------------------------------------------
(* Chat: another key of the channel after a failure, then the next channel. *)

AttemptChat(r) ==
    LET me == job[r]
    IN  /\ Picked(r) /\ me.kind \in {"chat", "talk"}
        /\ \/ /\ job' = [job EXCEPT ![r].pc = "end", ![r].excluded = {}, ![r].index = 1]
              /\ call' = [call EXCEPT ![r] = Idle]
           \/ LET excluded == me.excluded \cup {Key(r)}
              IN  /\ job' = [job EXCEPT ![r].pc = "select", ![r].excluded = excluded]
                  /\ Selecting(r, me.index, excluded)
        /\ UNCHANGED <<envVars, pool, memory, binding, bindingCache, candidates, creator, route, poll>>

EndChat(r) ==
    /\ job[r].pc = "finish" /\ job[r].kind \in {"chat", "talk", "video"}
    /\ job' = [job EXCEPT ![r].pc = "end"]
    /\ UNCHANGED <<poolVars, candidates, creator, route, poll>>

-----------------------------------------------------------------------------
(* Video tasks. *)

\* Where a request for channel ch goes and what authorizes it there, if the
\* handler holds key c.
Account(ch, c) == [channel |-> ch, key |-> CASE Auth[ch] = "none"           -> None
                                             [] Auth[ch] = "channel_key"    -> c
                                             [] Auth[ch] = "management_key" -> Management]

\* The upstream makes a task of a request it received, with an identifier it
\* has not given before; the answer may be lost. A request that failed goes to
\* the next candidate.
CreateVideo(r) ==
    LET me == job[r]
        ch == candidates[me.index]
        here == [by |-> r, account |-> Account(ch, Key(r))]
        failed == [me EXCEPT !.last = [NoResult EXCEPT !.error = TRUE], !.lastKey = Key(r)]
    IN  /\ Picked(r) /\ me.kind = "video"
        /\ \E path \in VideoBody(ch) :
             \/ NextCandidate(r, failed) /\ UNCHANGED creator
             \/ /\ path # "bad"
                /\ \E t \in Tasks :
                     /\ \A a \in creator[t] : a.account.channel # ch
                     /\ creator' = [creator EXCEPT ![t] = @ \cup {here}]
                     /\ \/ NextCandidate(r, failed)
                        \/ /\ job' = [job EXCEPT ![r].pc = "store", ![r].key = Key(r),
                                              ![r].answeredBy = t]
                           /\ call' = [call EXCEPT ![r] = Idle]
                        \/ /\ job' = [job EXCEPT ![r].pc = "end"]  \* an answer without an identifier
                           /\ call' = [call EXCEPT ![r] = Idle]
        /\ UNCHANGED <<envVars, pool, memory, binding, bindingCache, candidates, route, poll>>

\* Bug: the route is stored with the candidate as it was before a key was chosen.
MutStoreVideoTaskRoute(r) ==
    /\ job[r].pc = "store"
    /\ route' = [route EXCEPT ![job[r].answeredBy] =
                    [by |-> r, mode |-> job[r].mode, channel |-> candidates[job[r].index],
                     key |-> None, url |-> "none"]]
    /\ job' = [job EXCEPT ![r].pc = "end"]
    /\ UNCHANGED <<poolVars, candidates, creator, poll>>

\* A route that cannot be stored fails the request: the task is then lost.
StoreVideoTaskRoute(r) ==
    /\ job[r].pc = "store"
    /\ \/ route' = [route EXCEPT ![job[r].answeredBy] =
                       [by |-> r, mode |-> job[r].mode, channel |-> candidates[job[r].index],
                        key |-> job[r].key, url |-> "none"]]
       \/ UNCHANGED route
    /\ job' = [job EXCEPT ![r].pc = "end"]
    /\ UNCHANGED <<poolVars, candidates, creator, poll>>

\* A later call: the route must exist and belong to the same API key.
LoadVideoTaskRoute(r, t, content) ==
    /\ poll.pc = "idle"
    /\ route[t] # None
    /\ route[t].by = r
    /\ poll' = [pc |-> IF content THEN "content" ELSE "query", task |-> t, by |-> r,
                route |-> route[t], used |-> None]
    /\ UNCHANGED <<poolVars, candidates, job, creator, route>>

\* The channel's own address with what authorizes the channel's requests.
Query == [poll EXCEPT !.used = Account(poll.route.channel, poll.route.key)]

\* Asking for the state of a task.  The private protocols answer with the
\* address of the file once there is one; a legacy call keeps it in the route,
\* which starts the 24 h again.
QueryTaskOnUpstream ==
    LET private == VideoAdapter[poll.route.channel] # "openai"
    IN  /\ poll.pc = "query"
        /\ \/ poll' = [Query EXCEPT !.pc = "answered"]
           \/ /\ private /\ poll.route.mode = "legacy"
              /\ \E origin \in {"own", "other"} :
                   poll' = [Query EXCEPT !.pc = "keep", !.route.url = origin]
        /\ UNCHANGED <<poolVars, candidates, job, creator, route>>

KeepResourceURL ==
    /\ poll.pc = "keep"
    /\ \/ route' = [route EXCEPT ![poll.task] = poll.route]
       \/ UNCHANGED route
    /\ poll' = [poll EXCEPT !.pc = "answered"]
    /\ UNCHANGED <<poolVars, candidates, job, creator>>

\* Fetching the file: from the channel, or from the address the upstream named,
\* asked for first when the route has none. For another origin the candidate
\* loses its key, organization, project and proxy, but not the management key.
DownloadAdapterVideo ==
    LET private == VideoAdapter[poll.route.channel] # "openai"
        origins == IF ~private THEN {"own"}
                   ELSE IF poll.route.url # "none" THEN {poll.route.url}
                   ELSE {"none", "own", "other"}
    IN  /\ poll.pc = "content"
        /\ \E origin \in origins :
             poll' = CASE origin = "own"   -> [Query EXCEPT !.pc = "answered"]
                       [] origin = "other" -> [poll EXCEPT !.pc = "fetched",
                                                             !.used = Account(poll.route.channel, None)]
                       [] origin = "none"  -> [Query EXCEPT !.pc = "answered"]
        /\ UNCHANGED <<poolVars, candidates, job, creator, route>>

EndPoll ==
    /\ poll.pc \in {"answered", "fetched"}
    /\ poll' = NoPoll
    /\ UNCHANGED <<poolVars, candidates, job, creator, route>>

RouteExpires(t) ==
    /\ route[t] # None
    /\ route' = [route EXCEPT ![t] = None]
    /\ UNCHANGED <<poolVars, candidates, job, creator, poll>>

-----------------------------------------------------------------------------
Handler(r) ==
    \/ RejectAudio(r) \/ RejectImagesEdit(r) \/ RejectVideo(r)
    \/ AcceptRequest(r) \/ SkipCandidate(r)
    \/ AttemptAudio(r) \/ AttemptImagesEdit(r) \/ RecordAudioUsage(r) \/ RecordImagesEdit(r)
    \/ AttemptChat(r) \/ EndChat(r)
    \/ CreateVideo(r) \/ StoreVideoTaskRoute(r)

Polling ==
    \/ \E r \in Requests, t \in Tasks, content \in BOOLEAN : LoadVideoTaskRoute(r, t, content)
    \/ QueryTaskOnUpstream \/ KeepResourceURL \/ DownloadAdapterVideo \/ EndPoll
    \/ \E t \in Tasks : RouteExpires(t)

Next ==
    \/ \E r \in Requests : Handler(r)
    \/ \E r \in Requests : Selection(r) /\ UNCHANGED mediaVars
    \/ Environment /\ UNCHANGED mediaVars
    \/ Polling

Spec == Init /\ [][Next]_vars

\* Redis drops an entry at the end of its time; the handlers may stop anywhere.
FairSpec ==
    Spec /\ \A ch \in Channels, v \in 0..MaxChanges :
               WF_vars(PoolExpires(ch, v) /\ UNCHANGED mediaVars)

-----------------------------------------------------------------------------
\* Two calls that use the API key on a channel for the first time get the same
\* key: the loser of the insert takes the winner's.  A chat request, which names
\* the keys it excludes, replaces the binding, as does a change of a key.
FirstUseAgrees ==
    (changes = 0 /\ \A r \in Requests : job[r].kind \notin {"chat", "talk"})
    => \A r, s \in Requests :
          (call[r].pc = "chosen" /\ call[s].pc = "chosen" /\ call[r].channel = call[s].channel)
          => call[r].pick = call[s].pick

\* The usage row of a request that was answered names the key that answered,
\* with a 2xx status, whatever failed before it.
RowNamesTheAnswerer ==
    \A r \in Requests :
        (job[r].row # NoRow /\ job[r].answeredBy # None)
        => job[r].row.key = job[r].answeredBy /\ job[r].row.status = "ok"

\* A call about a video goes to an account at which the caller had a task of this
\* identifier made, also when the first candidates failed, the route was
\* rewritten or another upstream gave the same identifier; an address of another
\* origin never gets a key of the pool. The management key is not cleared
\* (video.go:295-302): it goes there too if the channel's type uses it.
TaskReachesItsAccount ==
    /\ poll.pc \in {"answered", "keep"}
         => [by |-> poll.by, account |-> poll.used] \in creator[poll.task]
    /\ poll.pc = "fetched" => poll.used.key \notin Creds
=============================================================================
