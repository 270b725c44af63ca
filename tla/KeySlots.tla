------------------------------ MODULE KeySlots ------------------------------
(***************************************************************************)
(* The concurrency limit of a channel (relay/concurrency.go).  Every       *)
(* upstream key has a counter of the requests that use it; a request that  *)
(* finds every key of its channel full waits until some key is given back, *)
(* its window ends or its client leaves.  The counters live in a map from  *)
(* which idle ones are swept, and a holder gives its slot back through the *)
(* pointer it was granted with.                                            *)
(*                                                                         *)
(* One action is one critical section of keySlots.mu or one step of        *)
(* acquireKeySlotWith between two of them.  Choosing a key                 *)
(* (channel.SelectCredential) is an arbitrary choice among the keys that   *)
(* are neither excluded nor cooling down.                                  *)
(***************************************************************************)
EXTENDS Integers, Sequences, FiniteSets

CONSTANTS
    Requests,    \* goroutines that relay a request
    Channels,
    Creds,       \* upstream keys; a key belongs to one channel
    CredsOf,     \* channel -> its keys
    Calls,       \* the arguments acquireKeySlotWith is called with
    MaxEntries   \* bound: counters allocated per key

\* The arguments of acquireKeySlotWith.  The limit is the caller's copy of the
\* channel's setting, 0 for none; wait says that the window is not empty (the last
\* candidate); bypass that combination cooldowns are ignored.
Call == [channel: Channels, limit: Nat, wait: BOOLEAN, excluded: SUBSET Creds,
         bypass: BOOLEAN]

ASSUME SlotsAssumption ==
    /\ IsFiniteSet(Requests)
    /\ CredsOf \in [Channels -> SUBSET Creds]
    /\ Calls # {} /\ Calls \subseteq Call
    /\ Creds # {}
    /\ MaxEntries \in Nat \ {0}

VARIABLES
    entries,    \* key -> active counts of the counters ever allocated for it
    current,    \* key -> index of its counter in the map, 0 if it has none
    cooling,    \* keys in combination cooldown
    pc,         \* request -> where it is in acquireKeySlotWith
    call,       \* request -> its arguments
    woken,      \* request -> the channel it got from Notify has been closed
    expired,    \* request -> its deadline has passed
    cancelled,  \* request -> its client has left
    saturated,  \* request -> keys it found full since it last woke
    key,        \* request -> the key picked
    slot        \* request -> index of the counter it holds, 0 for none

slots   == <<entries, current>>
caller  == <<call, expired, cancelled>>
vars    == <<slots, cooling, pc, caller, woken, saturated, key, slot>>

Acquiring == {"notify", "pick", "try", "full", "wait"}
States    == Acquiring \cup {"idle", "held", "nokey", "exhausted", "cancelled"}

\* The requests that hold a counted slot of key c.
Holders(c) == {r \in Requests : pc[r] = "held" /\ slot[r] # 0 /\ key[r] = c}

\* The arguments and the key of a request that is not acquiring or holding.
NoCall == CHOOSE a \in Calls : TRUE
NoKey  == CHOOSE c \in Creds : TRUE

Init ==
    /\ entries = [c \in Creds |-> <<>>]
    /\ current = [c \in Creds |-> 0]
    /\ cooling = {}
    /\ pc = [r \in Requests |-> "idle"]
    /\ call = [r \in Requests |-> NoCall]
    /\ woken = [r \in Requests |-> FALSE]
    /\ expired = [r \in Requests |-> FALSE]
    /\ cancelled = [r \in Requests |-> FALSE]
    /\ saturated = [r \in Requests |-> {}]
    /\ key = [r \in Requests |-> NoKey]
    /\ slot = [r \in Requests |-> 0]

-----------------------------------------------------------------------------
(* acquireKeySlotWith *)

\* Without a limit only a key is picked; an empty window has already ended.
Acquire(r, a) ==
    /\ pc[r] = "idle"
    /\ call' = [call EXCEPT ![r] = a]
    /\ expired' = [expired EXCEPT ![r] = ~a.wait]
    /\ saturated' = [saturated EXCEPT ![r] = {}]
    /\ pc' = [pc EXCEPT ![r] = IF a.limit = 0 THEN "pick" ELSE "notify"]
    /\ UNCHANGED <<slots, cooling, cancelled, woken, key, slot>>

\* The wake-up channel is taken before any key is tried.
Notify(r) ==
    /\ pc[r] = "notify"
    /\ woken' = [woken EXCEPT ![r] = FALSE]
    /\ pc' = [pc EXCEPT ![r] = "pick"]
    /\ UNCHANGED <<slots, cooling, caller, saturated, key, slot>>

\* What SelectCredential may return: saturated keys are merged into the
\* excluded ones, and bypass drops the cooldown filter.
Usable(r) ==
    LET a == call[r]
    IN  (CredsOf[a.channel] \ (a.excluded \cup saturated[r]))
            \ (IF a.bypass THEN {} ELSE cooling)

PickKey(r) ==
    /\ pc[r] = "pick"
    /\ \E c \in Usable(r) : key' = [key EXCEPT ![r] = c]
    /\ slot' = [slot EXCEPT ![r] = 0]
    /\ pc' = [pc EXCEPT ![r] = IF call[r].limit = 0 THEN "held" ELSE "try"]
    /\ UNCHANGED <<slots, cooling, caller, woken, saturated>>

\* No key is left, or the lookup failed because the client has gone.  It is an
\* error of the channel only if no key was found full.
PickNone(r) ==
    /\ pc[r] = "pick"
    /\ Usable(r) = {} \/ cancelled[r]
    /\ pc' = [pc EXCEPT ![r] = IF saturated[r] = {} THEN "nokey" ELSE "full"]
    /\ UNCHANGED <<slots, cooling, caller, woken, saturated, key, slot>>

\* Mutant: sweeping looks at the age of a counter only.
MutIdle(c) == current[c] # 0

\* A counter that sweep may remove: it is in the map and nobody is counted.
Idle(c) == current[c] # 0 /\ entries[c][current[c]] = 0

\* Mutant: a key with exactly limit holders has room for one more.
MutHasRoom(active, limit) == active =< limit

HasRoom(active, limit) == active < limit

\* TryAcquire under the mutex: sweep the counters S that have been idle for
\* long, find or create the key's counter, take a slot unless it is full.
TryAcquire(r, S) ==
    LET c      == key[r]
        swept  == [k \in Creds |-> IF k \in S THEN 0 ELSE current[k]]
        fresh  == swept[c] = 0
        count  == IF fresh THEN Append(entries[c], 0) ELSE entries[c]
        entry  == IF fresh THEN Len(count) ELSE swept[c]
        room   == HasRoom(count[entry], call[r].limit)
    IN  /\ pc[r] = "try"
        /\ \A k \in S : Idle(k) /\ Len(entries[k]) < MaxEntries
        /\ current' = [swept EXCEPT ![c] = entry]
        /\ entries' = [entries EXCEPT ![c] =
                         [count EXCEPT ![entry] = @ + IF room THEN 1 ELSE 0]]
        /\ slot' = [slot EXCEPT ![r] = IF room THEN entry ELSE 0]
        /\ pc' = [pc EXCEPT ![r] = IF room THEN "held" ELSE "pick"]
        /\ saturated' = [saturated EXCEPT ![r] = IF room THEN @ ELSE @ \cup {c}]
        /\ UNCHANGED <<cooling, caller, woken, key>>

\* Mutant: the wake-up channel is taken when the waiting starts.
MutFull(r) ==
    /\ pc[r] = "full"
    /\ pc' = [pc EXCEPT ![r] = IF expired[r] THEN "exhausted" ELSE "wait"]
    /\ woken' = [woken EXCEPT ![r] = FALSE]
    /\ UNCHANGED <<slots, cooling, caller, saturated, key, slot>>

\* Every key is full: give up if the window has ended, else wait.
Full(r) ==
    /\ pc[r] = "full"
    /\ pc' = [pc EXCEPT ![r] = IF expired[r] THEN "exhausted" ELSE "wait"]
    /\ UNCHANGED <<slots, cooling, caller, woken, saturated, key, slot>>

\* The select: a slot was given back, the client left, or the timer fired.
Wake(r) ==
    /\ pc[r] = "wait" /\ woken[r]
    /\ saturated' = [saturated EXCEPT ![r] = {}]
    /\ pc' = [pc EXCEPT ![r] = "notify"]
    /\ UNCHANGED <<slots, cooling, caller, woken, key, slot>>

WaitCancelled(r) ==
    /\ pc[r] = "wait" /\ cancelled[r]
    /\ pc' = [pc EXCEPT ![r] = "cancelled"]
    /\ UNCHANGED <<slots, cooling, caller, woken, saturated, key, slot>>

\* Mutant: the timer is not one of the cases of the select.
MutTimeout(r) ==
    /\ pc[r] = "wait" /\ expired[r] /\ cancelled[r]
    /\ pc' = [pc EXCEPT ![r] = "exhausted"]
    /\ UNCHANGED <<slots, cooling, caller, woken, saturated, key, slot>>

Timeout(r) ==
    /\ pc[r] = "wait" /\ expired[r]
    /\ pc' = [pc EXCEPT ![r] = "exhausted"]
    /\ UNCHANGED <<slots, cooling, caller, woken, saturated, key, slot>>

\* The locals and the context of a call end with it.
Finish(r) ==
    /\ pc' = [pc EXCEPT ![r] = "idle"]
    /\ call' = [call EXCEPT ![r] = NoCall]
    /\ expired' = [expired EXCEPT ![r] = FALSE]
    /\ saturated' = [saturated EXCEPT ![r] = {}]
    /\ key' = [key EXCEPT ![r] = NoKey]
    /\ slot' = [slot EXCEPT ![r] = 0]
    /\ cancelled' = [cancelled EXCEPT ![r] = FALSE]
    /\ UNCHANGED <<current, cooling>>

\* release: the counter the slot came from, whatever the map holds now; then
\* every wake-up channel handed out so far is closed.
Release(r) ==
    /\ pc[r] = "held"
    /\ IF slot[r] = 0
         THEN UNCHANGED <<entries, woken>>
         ELSE /\ entries' = [entries EXCEPT ![key[r]][slot[r]] =
                               IF @ > 0 THEN @ - 1 ELSE @]
              /\ woken' = [q \in Requests |-> pc[q] \in Acquiring]
    /\ Finish(r)

\* The caller has seen the error.
Return(r) ==
    /\ pc[r] \in {"nokey", "exhausted", "cancelled"}
    /\ woken' = [woken EXCEPT ![r] = FALSE]
    /\ UNCHANGED entries
    /\ Finish(r)

-----------------------------------------------------------------------------
(* The environment *)

Expire(r) ==
    /\ pc[r] \in Acquiring /\ ~expired[r]
    /\ expired' = [expired EXCEPT ![r] = TRUE]
    /\ UNCHANGED <<slots, cooling, pc, call, cancelled, woken, saturated, key, slot>>

Cancel(r) ==
    /\ pc[r] # "idle" /\ ~cancelled[r]
    /\ cancelled' = [cancelled EXCEPT ![r] = TRUE]
    /\ UNCHANGED <<slots, cooling, pc, call, expired, woken, saturated, key, slot>>

\* A key enters or leaves its combination cooldown.
Cool(c) ==
    /\ cooling' = IF c \in cooling THEN cooling \ {c} ELSE cooling \cup {c}
    /\ UNCHANGED <<slots, pc, caller, woken, saturated, key, slot>>

AcquireStep(r) ==
    \/ Notify(r) \/ PickKey(r) \/ PickNone(r) \/ Full(r)
    \/ Wake(r) \/ WaitCancelled(r) \/ Timeout(r)
    \/ \E S \in SUBSET Creds : TryAcquire(r, S)

Next ==
    \/ \E r \in Requests :
         \/ AcquireStep(r) \/ Release(r) \/ Return(r) \/ Expire(r) \/ Cancel(r)
         \/ \E a \in Calls : Acquire(r, a)
    \/ \E c \in Creds : Cool(c)

Spec == Init /\ [][Next]_vars

\* A goroutine that can run does run, and timers fire.  Nothing is assumed of
\* the upstream, which may keep a slot for ever.
Fairness == \A r \in Requests : WF_vars(AcquireStep(r)) /\ WF_vars(Expire(r))

FairSpec == Spec /\ Fairness

-----------------------------------------------------------------------------
(* Properties *)

\* Every variable keeps its type; a counter never goes below zero and the map
\* points to a counter that exists.
TypeOK ==
    /\ entries \in [Creds -> Seq(Nat)]
    /\ current \in [Creds -> Nat]
    /\ \A c \in Creds : current[c] \in 0..Len(entries[c])
    /\ cooling \subseteq Creds
    /\ pc \in [Requests -> States]
    /\ call \in [Requests -> Calls]
    /\ woken \in [Requests -> BOOLEAN]
    /\ expired \in [Requests -> BOOLEAN]
    /\ cancelled \in [Requests -> BOOLEAN]
    /\ saturated \in [Requests -> SUBSET Creds]
    /\ key \in [Requests -> Creds]
    /\ slot \in [Requests -> Nat]

\* No slot is lost or invented: the counter in the map counts exactly the
\* requests that hold the key, and each of them will give its slot back to
\* that counter, whatever was swept in between.
SlotsAccounted ==
    \A c \in Creds :
        /\ \A r \in Holders(c) : slot[r] = current[c]
        /\ current[c] # 0 => entries[c][current[c]] = Cardinality(Holders(c))

\* A granted slot never takes a key beyond the limit the request was given,
\* counting the requests that really use the key.
GrantsWithinLimit ==
    [][\A r \in Requests : pc[r] = "try" /\ pc'[r] = "held" =>
          Cardinality(Holders(key[r])') =< call[r].limit]_vars

\* No wake-up is missed: while a waiter's channel is open, every key it found
\* full is still full, so there is nothing it could have taken.
NoMissedWakeup ==
    \A r \in Requests :
        pc[r] \in {"full", "wait"} /\ ~woken[r] =>
            \A c \in saturated[r] : Cardinality(Holders(c)) >= call[r].limit

\* What a request remembers as full is full from the moment it is found so
\* until the next release, in every phase of the loop.
Remembered(r) ==
    /\ pc[r] = "notify" => saturated[r] = {}
    /\ pc[r] \in Acquiring /\ ~woken[r] =>
         \A c \in saturated[r] : Cardinality(Holders(c)) >= call[r].limit

\* The inductive invariant behind the properties above.  A waiter starts every
\* round with nothing remembered as full, so that a key given back is tried.
SlotsInv == TypeOK /\ SlotsAccounted /\ \A r \in Requests : Remembered(r)

\* A request never waits for a slot without end, even if none is given back.
EveryAcquireReturns ==
    \A r \in Requests : pc[r] \in Acquiring ~> pc[r] \notin Acquiring
=============================================================================
