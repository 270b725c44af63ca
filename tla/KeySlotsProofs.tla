--------------------------- MODULE KeySlotsProofs ---------------------------
(***************************************************************************)
(* The concurrency limit of a channel is accounted for exactly, for every  *)
(* number of requests, keys and channels and every limit.                  *)
(***************************************************************************)
EXTENDS KeySlots, FiniteSetTheorems, SequenceTheorems, TLAPS

\* Only finitely many requests hold a key.
LEMMA HoldersFinite ==
    ASSUME NEW c
    PROVE  IsFiniteSet(Holders(c)) /\ Cardinality(Holders(c)) \in Nat
BY FS_Subset, FS_CardinalityType, SlotsAssumption DEF Holders

\* The same in the next state.
LEMMA HoldersFiniteNext ==
    ASSUME NEW c
    PROVE  IsFiniteSet(Holders(c)') /\ Cardinality(Holders(c)') \in Nat
BY FS_Subset, FS_CardinalityType, SlotsAssumption DEF Holders

\* Writing one counter of a key's counters.
LEMMA WriteCounter ==
    ASSUME NEW s \in Seq(Nat), NEW i \in 1..Len(s), NEW v \in Nat
    PROVE  /\ [s EXCEPT ![i] = v] \in Seq(Nat)
           /\ Len([s EXCEPT ![i] = v]) = Len(s)
           /\ [s EXCEPT ![i] = v][i] = v
BY ExceptSeq

\* Allocating a counter.
LEMMA NewCounter ==
    ASSUME NEW s \in Seq(Nat)
    PROVE  /\ Append(s, 0) \in Seq(Nat)
           /\ Len(Append(s, 0)) = Len(s) + 1
           /\ Len(Append(s, 0)) \in 1..Len(Append(s, 0))
           /\ Append(s, 0)[Len(Append(s, 0))] = 0
BY AppendProperties, LenProperties

\* The arguments of a call are well typed.
LEMMA CallType ==
    ASSUME NEW a \in Calls
    PROVE  a.limit \in Nat /\ a.wait \in BOOLEAN /\ a.channel \in Channels
BY SlotsAssumption DEF Call

\* The placeholders are values of their types.
LEMMA NoneType == NoCall \in Calls /\ NoKey \in Creds
BY SlotsAssumption DEF NoCall, NoKey

\* A counter that is swept, or that does not exist yet, has no holder.
LEMMA IdleHasNoHolders ==
    ASSUME SlotsInv, NEW c \in Creds, current[c] = 0 \/ Idle(c)
    PROVE  Holders(c) = {}
<1>1. CASE current[c] = 0
  BY <1>1 DEF SlotsInv, SlotsAccounted, Holders
<1>2. CASE Idle(c)
  <2>1. Cardinality(Holders(c)) = 0
    BY <1>2 DEF Idle, SlotsInv, SlotsAccounted
  <2> QED BY <2>1, HoldersFinite, FS_EmptySet
<1> QED BY <1>1, <1>2

\* What TryAcquire does to the key it tries.
LEMMA TryAcquireKey ==
    ASSUME SlotsInv, NEW r \in Requests, NEW S \in SUBSET Creds, TryAcquire(r, S)
    PROVE  LET c == key[r] IN
           /\ entries' \in [Creds -> Seq(Nat)]
           /\ current' \in [Creds -> Nat]
           /\ current'[c] \in 1..Len(entries'[c])
           /\ \A k \in Creds \ {c} :
                /\ entries'[k] = entries[k]
                /\ current'[k] = IF k \in S THEN 0 ELSE current[k]
           /\ Holders(c) # {} => current'[c] = current[c]
           /\ \/ /\ Cardinality(Holders(c)) < call[r].limit
                 /\ entries'[c][current'[c]] = Cardinality(Holders(c)) + 1
                 /\ slot' = [slot EXCEPT ![r] = current'[c]]
                 /\ pc' = [pc EXCEPT ![r] = "held"]
                 /\ saturated' = saturated
              \/ /\ Cardinality(Holders(c)) >= call[r].limit
                 /\ entries'[c][current'[c]] = Cardinality(Holders(c))
                 /\ slot' = [slot EXCEPT ![r] = 0]
                 /\ pc' = [pc EXCEPT ![r] = "pick"]
                 /\ saturated' = [saturated EXCEPT ![r] = @ \cup {c}]
<1> DEFINE c      == key[r]
           swept  == [k \in Creds |-> IF k \in S THEN 0 ELSE current[k]]
           fresh  == swept[c] = 0
           count  == IF fresh THEN Append(entries[c], 0) ELSE entries[c]
           entry  == IF fresh THEN Len(count) ELSE swept[c]
           room   == HasRoom(count[entry], call[r].limit)
           value  == count[entry] + IF room THEN 1 ELSE 0
<1>1. /\ c \in Creds
      /\ entries[c] \in Seq(Nat)
      /\ current \in [Creds -> Nat]
      /\ current[c] \in 0..Len(entries[c])
      /\ call[r].limit \in Nat
  BY CallType DEF SlotsInv, TypeOK
<1>2. /\ count \in Seq(Nat)
      /\ entry \in 1..Len(count)
  <2>1. CASE fresh
    BY <2>1, <1>1, NewCounter
  <2>2. CASE ~fresh
    BY <2>2, <1>1
  <2> QED BY <2>1, <2>2
<1>3. count[entry] = Cardinality(Holders(c))
  <2>1. CASE fresh
    <3>1. current[c] = 0 \/ Idle(c)
      BY <2>1, <1>1 DEF TryAcquire
    <3>2. Holders(c) = {}
      BY <3>1, <1>1, IdleHasNoHolders
    <3>3. count[entry] = 0
      BY <2>1, <1>1, NewCounter
    <3> QED BY <3>2, <3>3, FS_EmptySet
  <2>2. CASE ~fresh
    BY <2>2, <1>1 DEF SlotsInv, SlotsAccounted
  <2> QED BY <2>1, <2>2
<1>4. Holders(c) # {} => entry = current[c]
  <2>1. CASE c \in S
    BY <2>1, <1>1, IdleHasNoHolders DEF TryAcquire
  <2>2. CASE current[c] = 0
    BY <2>2, <1>1, IdleHasNoHolders
  <2>3. CASE c \notin S /\ current[c] # 0
    BY <2>3, <1>1
  <2> QED BY <2>1, <2>2, <2>3
<1>5. /\ entry \in Nat
      /\ swept \in [Creds -> Nat]
      /\ value \in Nat
  <2>1. swept \in [Creds -> Nat]
    BY <1>1
  <2>2. entry \in Nat
    BY <1>2
  <2>3. count[entry] \in Nat
    <3> HIDE DEF count, entry
    <3> QED BY <1>2
  <2>4. value \in Nat
    <3> HIDE DEF count, entry, room
    <3> QED BY <2>3
  <2> QED BY <2>1, <2>2, <2>4
<1>6. /\ current' = [swept EXCEPT ![c] = entry]
      /\ entries' = [entries EXCEPT ![c] = [count EXCEPT ![entry] = value]]
      /\ slot' = [slot EXCEPT ![r] = IF room THEN entry ELSE 0]
      /\ pc' = [pc EXCEPT ![r] = IF room THEN "held" ELSE "pick"]
      /\ saturated' = [saturated EXCEPT ![r] = IF room THEN @ ELSE @ \cup {c}]
  BY DEF TryAcquire
<1>7. room <=> Cardinality(Holders(c)) < call[r].limit
  BY <1>3 DEF HasRoom
<1>8. /\ [count EXCEPT ![entry] = value] \in Seq(Nat)
      /\ Len([count EXCEPT ![entry] = value]) = Len(count)
      /\ [count EXCEPT ![entry] = value][entry] = value
  <2> HIDE DEF count, entry, value
  <2> QED BY <1>2, <1>5, WriteCounter
<1>9. \A k \in Creds \ {c} : swept[k] = IF k \in S THEN 0 ELSE current[k]
  OBVIOUS
<1>10. value = Cardinality(Holders(c)) + IF room THEN 1 ELSE 0
  BY <1>3
<1>11. entries \in [Creds -> Seq(Nat)] /\ saturated \in [Requests -> SUBSET Creds]
  BY DEF SlotsInv, TypeOK
<1> HIDE DEF swept, count, entry, room, value
<1>12. /\ entries' \in [Creds -> Seq(Nat)]
       /\ current' \in [Creds -> Nat]
       /\ current'[c] = entry
       /\ entries'[c] = [count EXCEPT ![entry] = value]
       /\ \A k \in Creds \ {c} :
            /\ entries'[k] = entries[k]
            /\ current'[k] = IF k \in S THEN 0 ELSE current[k]
  BY <1>1, <1>5, <1>6, <1>8, <1>9, <1>11
<1>13. current'[c] \in 1..Len(entries'[c])
  BY <1>2, <1>8, <1>12
<1>14. entries'[c][current'[c]] = value
  BY <1>8, <1>12
<1>15. CASE room
  <2>1. saturated' = saturated
    BY <1>15, <1>6, <1>11
  <2>2. value = Cardinality(Holders(c)) + 1
    BY <1>15, <1>10, HoldersFinite
  <2> QED
    BY <1>15, <2>1, <2>2, <1>4, <1>6, <1>7, <1>12, <1>13, <1>14
<1>16. CASE ~room
  <2>1. Cardinality(Holders(c)) >= call[r].limit
    BY <1>16, <1>7, <1>1, HoldersFinite
  <2>2. value = Cardinality(Holders(c))
    BY <1>16, <1>10, HoldersFinite
  <2> QED
    BY <1>16, <2>1, <2>2, <1>4, <1>6, <1>7, <1>12, <1>13, <1>14
<1> QED BY <1>15, <1>16

-----------------------------------------------------------------------------
(* Type correctness *)

\* An idle gateway is well typed.
LEMMA InitTypeOK == Init => TypeOK
<1> SUFFICES ASSUME Init PROVE TypeOK
  OBVIOUS
<1>1. \A c \in Creds : entries[c] = <<>> /\ current[c] = 0 /\ Len(<<>>) = 0
  BY DEF Init
<1>2. <<>> \in Seq(Nat)
  OBVIOUS
<1> QED
  BY <1>1, <1>2, NoneType DEF Init, TypeOK, States

\* Taking a slot keeps the types.
LEMMA TryAcquireTypeOK ==
    ASSUME SlotsInv, NEW r \in Requests, NEW S \in SUBSET Creds, TryAcquire(r, S)
    PROVE  TypeOK'
<1>1. UNCHANGED <<cooling, call, expired, cancelled, woken, key>>
  BY DEF TryAcquire, caller
<1>2. \A k \in Creds : current'[k] \in 0..Len(entries'[k])
  <2> TAKE k \in Creds
  <2>1. CASE k = key[r]
    BY <2>1, TryAcquireKey
  <2>2. CASE k # key[r]
    <3>1. current[k] \in 0..Len(entries[k]) /\ Len(entries[k]) \in Nat
      BY LenProperties DEF SlotsInv, TypeOK
    <3>2. /\ entries'[k] = entries[k]
          /\ current'[k] = IF k \in S THEN 0 ELSE current[k]
      BY <2>2, TryAcquireKey
    <3> QED BY <3>1, <3>2
  <2> QED BY <2>1, <2>2
<1>3. entries' \in [Creds -> Seq(Nat)] /\ current' \in [Creds -> Nat]
  BY TryAcquireKey
<1>4. /\ pc' \in [Requests -> States]
      /\ slot' \in [Requests -> Nat]
      /\ saturated' \in [Requests -> SUBSET Creds]
  <2>1. key[r] \in Creds /\ current'[key[r]] \in Nat
    BY <1>3 DEF SlotsInv, TypeOK
  <2>2. \/ /\ slot' = [slot EXCEPT ![r] = current'[key[r]]]
           /\ pc' = [pc EXCEPT ![r] = "held"]
           /\ saturated' = saturated
        \/ /\ slot' = [slot EXCEPT ![r] = 0]
           /\ pc' = [pc EXCEPT ![r] = "pick"]
           /\ saturated' = [saturated EXCEPT ![r] = @ \cup {key[r]}]
    BY TryAcquireKey
  <2>3. /\ pc \in [Requests -> States] /\ slot \in [Requests -> Nat]
        /\ saturated \in [Requests -> SUBSET Creds]
        /\ "held" \in States /\ "pick" \in States
    BY DEF SlotsInv, TypeOK, States, Acquiring
  <2> QED BY <2>1, <2>2, <2>3
<1> QED
  BY <1>1, <1>2, <1>3, <1>4 DEF SlotsInv, TypeOK

\* Giving a slot back keeps the types: the counter it came from exists.
LEMMA ReleaseTypeOK ==
    ASSUME SlotsInv, NEW r \in Requests, Release(r)
    PROVE  TypeOK'
<1> DEFINE c == key[r]
           s == entries[c]
           v == IF s[slot[r]] > 0 THEN s[slot[r]] - 1 ELSE s[slot[r]]
<1>1. /\ c \in Creds /\ s \in Seq(Nat)
      /\ entries \in [Creds -> Seq(Nat)]
      /\ current[c] \in 0..Len(s)
  BY DEF SlotsInv, TypeOK
<1>2. entries' \in [Creds -> Seq(Nat)] /\ \A k \in Creds : Len(entries'[k]) = Len(entries[k])
  <2>1. CASE slot[r] = 0
    BY <2>1, <1>1 DEF Release
  <2>2. CASE slot[r] # 0
    <3>1. slot[r] = current[c]
      BY <2>2, <1>1 DEF Release, Holders, SlotsInv, SlotsAccounted
    <3>2. slot[r] \in 1..Len(s)
      BY <2>2, <3>1, <1>1
    <3>3. s[slot[r]] \in Nat
      BY <3>2, <1>1, ElementOfSeq
    <3>4. v \in Nat
      BY <3>3
    <3>5. entries' = [entries EXCEPT ![c] = [s EXCEPT ![slot[r]] = v]]
      BY <2>2, Zenon DEF Release
    <3> HIDE DEF v, s
    <3>6. /\ [s EXCEPT ![slot[r]] = v] \in Seq(Nat)
          /\ Len([s EXCEPT ![slot[r]] = v]) = Len(s)
      BY <1>1, <3>2, <3>4, WriteCounter
    <3> QED BY <3>5, <3>6, <1>1 DEF s
  <2> QED BY <2>1, <2>2
<1>3. woken' \in [Requests -> BOOLEAN]
  <2>1. CASE slot[r] = 0
    BY <2>1 DEF Release, SlotsInv, TypeOK
  <2>2. CASE slot[r] # 0
    <3>1. woken' = [q \in Requests |-> pc[q] \in Acquiring]
      BY <2>2, Zenon DEF Release
    <3>2. \A q \in Requests : (pc[q] \in Acquiring) \in BOOLEAN
      OBVIOUS
    <3> QED BY <3>1, <3>2
  <2> QED BY <2>1, <2>2
<1>4. \A k \in Creds : current'[k] \in 0..Len(entries'[k])
  BY <1>2 DEF Release, Finish, SlotsInv, TypeOK
<1> QED
  BY <1>2, <1>3, <1>4, NoneType DEF Release, Finish, SlotsInv, TypeOK, States

\* Every other step of a request keeps the types.
LEMMA RequestTypeOK ==
    ASSUME SlotsInv, NEW r \in Requests,
           \/ Notify(r) \/ PickKey(r) \/ PickNone(r) \/ Full(r) \/ Wake(r)
           \/ WaitCancelled(r) \/ Timeout(r) \/ Return(r) \/ Expire(r) \/ Cancel(r)
           \/ \E a \in Calls : Acquire(r, a)
    PROVE  TypeOK'
<1> USE DEF SlotsInv, TypeOK, slots, caller, States, Acquiring
<1>1. CASE Notify(r)
  BY <1>1 DEF Notify
<1>2. CASE PickKey(r)
  <2>1. Usable(r) \subseteq Creds
    BY CallType, SlotsAssumption DEF Usable
  <2> QED BY <1>2, <2>1 DEF PickKey
<1>3. CASE PickNone(r)
  BY <1>3 DEF PickNone
<1>4. CASE Full(r)
  BY <1>4 DEF Full
<1>5. CASE Wake(r)
  BY <1>5 DEF Wake
<1>6. CASE WaitCancelled(r)
  BY <1>6 DEF WaitCancelled
<1>7. CASE Timeout(r)
  BY <1>7 DEF Timeout
<1>8. CASE Return(r)
  BY <1>8, NoneType DEF Return, Finish
<1>9. CASE Expire(r)
  BY <1>9 DEF Expire
<1>10. CASE Cancel(r)
  BY <1>10 DEF Cancel
<1>11. ASSUME NEW a \in Calls, Acquire(r, a) PROVE TypeOK'
  BY <1>11, CallType DEF Acquire
<1> QED
  BY <1>1, <1>2, <1>3, <1>4, <1>5, <1>6, <1>7, <1>8, <1>9, <1>10, <1>11

-----------------------------------------------------------------------------
(* Accounting *)

\* The steps of a request r that take no slot and give none back: who holds
\* what is unchanged, and so is what the others remember.
Quiet(r) ==
    /\ UNCHANGED slots
    /\ \A c \in Creds : /\ Holders(c)' = Holders(c)
                         /\ \A q \in Holders(c) : slot'[q] = slot[q]
    /\ \A q \in Requests \ {r} :
         /\ pc'[q] = pc[q] /\ woken'[q] = woken[q]
         /\ saturated'[q] = saturated[q] /\ call'[q] = call[q]

\* A quiet step keeps the accounts, and the invariant if r's own memory is right.
LEMMA QuietKeepsAccounts ==
    ASSUME SlotsInv, TypeOK', NEW r \in Requests, Quiet(r), Remembered(r)'
    PROVE  SlotsInv'
<1>1. SlotsAccounted'
  BY DEF SlotsInv, SlotsAccounted, Quiet, slots
<1>2. ASSUME NEW q \in Requests \ {r} PROVE Remembered(q)'
  <2>1. Remembered(q)
    BY DEF SlotsInv
  <2>2. saturated[q] \subseteq Creds
    BY DEF SlotsInv, TypeOK
  <2> QED BY <2>1, <2>2 DEF Remembered, Quiet
<1> QED
  BY <1>1, <1>2 DEF SlotsInv

\* The steps that neither take a slot nor give one back are quiet.
LEMMA RequestIsQuiet ==
    ASSUME SlotsInv, NEW r \in Requests,
           \/ Notify(r) \/ PickKey(r) \/ PickNone(r) \/ Full(r) \/ Wake(r)
           \/ WaitCancelled(r) \/ Timeout(r) \/ Return(r) \/ Expire(r) \/ Cancel(r)
           \/ \E a \in Calls : Acquire(r, a)
           \/ Release(r) /\ slot[r] = 0
    PROVE  Quiet(r)
<1>1. TypeOK
  BY DEF SlotsInv
<1> USE <1>1 DEF TypeOK, Quiet, slots, caller, Holders, Acquiring
<1>2. CASE Notify(r)
  BY <1>2 DEF Notify
<1>3. CASE PickKey(r)
  BY <1>3 DEF PickKey
<1>4. CASE PickNone(r)
  BY <1>4 DEF PickNone
<1>5. CASE Full(r)
  BY <1>5 DEF Full
<1>6. CASE Wake(r)
  BY <1>6 DEF Wake
<1>7. CASE WaitCancelled(r)
  BY <1>7 DEF WaitCancelled
<1>8. CASE Timeout(r)
  BY <1>8 DEF Timeout
<1>9. CASE Return(r)
  BY <1>9 DEF Return, Finish
<1>10. CASE Expire(r)
  BY <1>10 DEF Expire
<1>11. CASE Cancel(r)
  BY <1>11 DEF Cancel
<1>12. CASE \E a \in Calls : Acquire(r, a)
  BY <1>12 DEF Acquire
<1>13. CASE Release(r) /\ slot[r] = 0
  BY <1>13 DEF Release, Finish
<1> QED
  BY <1>2, <1>3, <1>4, <1>5, <1>6, <1>7, <1>8, <1>9, <1>10, <1>11, <1>12, <1>13

\* In a quiet step the request itself remembers only keys that are full.
LEMMA RequestRemembers ==
    ASSUME SlotsInv, NEW r \in Requests, Quiet(r),
           \/ Notify(r) \/ PickKey(r) \/ PickNone(r) \/ Full(r) \/ Wake(r)
           \/ WaitCancelled(r) \/ Timeout(r) \/ Return(r) \/ Expire(r) \/ Cancel(r)
           \/ \E a \in Calls : Acquire(r, a)
           \/ Release(r) /\ slot[r] = 0
    PROVE  Remembered(r)'
<1>1. Remembered(r) /\ \A c \in saturated[r] : Holders(c)' = Holders(c)
  BY DEF SlotsInv, TypeOK, Quiet
<1>2. /\ pc \in [Requests -> States] /\ woken \in [Requests -> BOOLEAN]
      /\ saturated \in [Requests -> SUBSET Creds]
  BY DEF SlotsInv, TypeOK
<1> USE <1>1, <1>2 DEF Remembered, caller, Acquiring
<1>3. CASE Notify(r)
  BY <1>3 DEF Notify
<1>4. CASE PickKey(r)
  BY <1>4 DEF PickKey
<1>5. CASE PickNone(r)
  BY <1>5 DEF PickNone
<1>6. CASE Full(r)
  BY <1>6 DEF Full
<1>7. CASE Wake(r)
  BY <1>7 DEF Wake
<1>8. CASE WaitCancelled(r) \/ Timeout(r)
  BY <1>8 DEF WaitCancelled, Timeout
<1>9. CASE Return(r) \/ Release(r)
  BY <1>9 DEF Return, Release, Finish
<1>10. CASE Expire(r) \/ Cancel(r)
  BY <1>10 DEF Expire, Cancel
<1>11. CASE \E a \in Calls : Acquire(r, a)
  BY <1>11 DEF Acquire
<1> QED
  BY <1>3, <1>4, <1>5, <1>6, <1>7, <1>8, <1>9, <1>10, <1>11

\* Trying a key keeps the accounts: a slot granted is a holder more, a key
\* remembered as full is full, and what is swept has no holder.
LEMMA TryAcquireKeepsAccounts ==
    ASSUME SlotsInv, NEW r \in Requests, NEW S \in SUBSET Creds, TryAcquire(r, S)
    PROVE  SlotsInv'
<1>0. PICK c \in Creds : c = key[r]
  BY DEF SlotsInv, TypeOK
<1>1. /\ c = key[r] /\ pc[r] = "try" /\ r \notin Holders(c)
      /\ pc \in [Requests -> States] /\ slot \in [Requests -> Nat]
      /\ saturated \in [Requests -> SUBSET Creds]
      /\ UNCHANGED <<key, call, woken>>
  BY <1>0 DEF SlotsInv, TypeOK, TryAcquire, caller, Holders
<1>2. TypeOK'
  BY TryAcquireTypeOK
<1>3. current'[c] # 0
  BY <1>1, TryAcquireKey
<1>4. \A k \in Creds \ {c} : Holders(k)' = Holders(k)
  <2>1. \A q \in Requests \ {r} : pc'[q] = pc[q] /\ slot'[q] = slot[q]
    BY <1>1, TryAcquireKey
  <2> QED BY <2>1, <1>1 DEF Holders
<1>5. Holders(c)' = IF pc'[r] = "held" THEN Holders(c) \cup {r} ELSE Holders(c)
  <2>1. CASE /\ slot' = [slot EXCEPT ![r] = current'[c]]
             /\ pc' = [pc EXCEPT ![r] = "held"]
    BY <2>1, <1>1, <1>3 DEF Holders
  <2>2. CASE /\ slot' = [slot EXCEPT ![r] = 0]
             /\ pc' = [pc EXCEPT ![r] = "pick"]
    BY <2>2, <1>1 DEF Holders
  <2> QED BY <2>1, <2>2, <1>1, TryAcquireKey
<1>6. /\ pc'[r] = "held" => Cardinality(Holders(c)') = Cardinality(Holders(c)) + 1
      /\ Cardinality(Holders(c)') >= Cardinality(Holders(c))
  <2>1. IsFiniteSet(Holders(c)) /\ Cardinality(Holders(c)) \in Nat
    BY HoldersFinite
  <2>2. Cardinality(Holders(c) \cup {r}) = Cardinality(Holders(c)) + 1
    BY <2>1, <1>1, FS_AddElement
  <2> QED BY <2>1, <2>2, <1>5
<1>7. ASSUME NEW k \in Creds
      PROVE  /\ \A q \in Holders(k)' : slot'[q] = current'[k]
             /\ current'[k] # 0 => entries'[k][current'[k]] = Cardinality(Holders(k)')
  <2>1. CASE k = c
    <3>1. /\ Holders(c) # {} => current'[c] = current[c]
          /\ \A q \in Holders(c) : slot[q] = current[c]
      BY <1>1, TryAcquireKey DEF SlotsInv, SlotsAccounted
    <3>2. CASE pc'[r] = "held"
      <4>1. /\ slot' = [slot EXCEPT ![r] = current'[c]]
            /\ entries'[c][current'[c]] = Cardinality(Holders(c)) + 1
        BY <3>2, <1>1, TryAcquireKey
      <4>2. \A q \in Holders(c)' : slot'[q] = current'[c]
        BY <4>1, <3>1, <3>2, <1>1, <1>5
      <4> QED BY <4>1, <4>2, <2>1, <3>2, <1>6
    <3>3. CASE pc'[r] # "held"
      <4>1. /\ slot' = [slot EXCEPT ![r] = 0]
            /\ entries'[c][current'[c]] = Cardinality(Holders(c))
        BY <3>3, <1>1, TryAcquireKey
      <4>2. \A q \in Holders(c)' : slot'[q] = current'[c]
        BY <4>1, <3>1, <3>3, <1>1, <1>5
      <4> QED BY <4>1, <4>2, <2>1, <3>3, <1>5
    <3> QED BY <3>2, <3>3
  <2>2. CASE k # c /\ k \in S
    <3>1. Holders(k)' = {} /\ current'[k] = 0
      <4>1. Idle(k)
        BY <2>2 DEF TryAcquire
      <4>2. Holders(k) = {}
        BY <4>1, IdleHasNoHolders
      <4> QED BY <4>2, <2>2, <1>1, <1>4, TryAcquireKey
    <3> QED BY <3>1
  <2>3. CASE k # c /\ k \notin S
    <3>1. /\ Holders(k)' = Holders(k)
          /\ entries'[k] = entries[k] /\ current'[k] = current[k]
      BY <2>3, <1>1, <1>4, TryAcquireKey
    <3>2. \A q \in Holders(k) : slot'[q] = slot[q]
      <4>1. r \notin Holders(k)
        BY <1>1 DEF Holders
      <4>2. \A q \in Requests \ {r} : slot'[q] = slot[q]
        BY <1>1, TryAcquireKey
      <4> QED BY <4>1, <4>2 DEF Holders
    <3> QED BY <3>1, <3>2 DEF SlotsInv, SlotsAccounted
  <2> QED BY <2>1, <2>2, <2>3
<1>8. ASSUME NEW q \in Requests PROVE Remembered(q)'
  <2>1. Remembered(q) /\ saturated[q] \subseteq Creds /\ call[q].limit \in Nat
    BY CallType DEF SlotsInv, TypeOK
  <2>2. \A k \in Creds : Cardinality(Holders(k)') >= Cardinality(Holders(k))
    BY <1>4, <1>6, HoldersFinite
  <2>3. \A k \in Creds : Cardinality(Holders(k)) \in Nat /\ Cardinality(Holders(k)') \in Nat
    BY HoldersFinite, HoldersFiniteNext
  <2>4. CASE q # r
    <3>1. pc'[q] = pc[q] /\ woken'[q] = woken[q] /\ call'[q] = call[q]
          /\ saturated'[q] = saturated[q]
      BY <2>4, <1>1, TryAcquireKey
    <3> QED BY <3>1, <2>1, <2>2, <2>3 DEF Remembered
  <2>5. CASE q = r /\ pc'[r] = "held"
    BY <2>5 DEF Remembered, Acquiring
  <2>6. CASE q = r /\ pc'[r] # "held"
    <3>1. /\ pc'[r] = "pick" /\ saturated'[r] = saturated[r] \cup {c}
          /\ Cardinality(Holders(c)) >= call[r].limit
          /\ woken'[r] = woken[r] /\ call'[r] = call[r]
      BY <2>6, <1>1, TryAcquireKey
    <3>2. ~woken[r] => \A k \in saturated[r] : Cardinality(Holders(k)) >= call[r].limit
      BY <2>1, <2>6, <1>1 DEF Remembered, Acquiring
    <3> QED BY <3>1, <3>2, <2>1, <2>2, <2>3, <2>6, <1>1 DEF Remembered
  <2> QED BY <2>4, <2>5, <2>6
<1> QED
  BY <1>2, <1>7, <1>8 DEF SlotsInv, SlotsAccounted

\* Giving a slot back keeps the accounts: one holder less, counted where the
\* slot was counted, and everybody who remembers a full key is woken.
LEMMA ReleaseKeepsAccounts ==
    ASSUME SlotsInv, NEW r \in Requests, Release(r), slot[r] # 0
    PROVE  SlotsInv'
<1>0. PICK c \in Creds : c = key[r]
  BY DEF SlotsInv, TypeOK
<1>1. /\ r \in Holders(c) /\ slot[r] = current[c]
      /\ current[c] \in 1..Len(entries[c])
      /\ entries \in [Creds -> Seq(Nat)]
      /\ entries[c][current[c]] = Cardinality(Holders(c))
  <2>1. r \in Holders(c)
    BY <1>0 DEF Release, Holders
  <2>2. slot[r] = current[c]
    BY <2>1 DEF SlotsInv, SlotsAccounted
  <2>3. /\ current[c] \in 1..Len(entries[c])
        /\ entries \in [Creds -> Seq(Nat)]
    BY <2>2 DEF SlotsInv, TypeOK
  <2> QED BY <2>1, <2>2, <2>3 DEF SlotsInv, SlotsAccounted
<1>2. TypeOK'
  BY ReleaseTypeOK
<1>3. /\ Cardinality(Holders(c)) \in Nat \ {0}
      /\ Cardinality(Holders(c) \ {r}) = Cardinality(Holders(c)) - 1
  <2>1. IsFiniteSet(Holders(c)) /\ Cardinality(Holders(c)) \in Nat
    BY HoldersFinite
  <2>2. Cardinality(Holders(c) \ {r}) = Cardinality(Holders(c)) - 1
    BY <2>1, <1>1, FS_RemoveElement
  <2>3. Cardinality(Holders(c)) # 0
    BY <2>1, <1>1, FS_EmptySet
  <2> QED BY <2>1, <2>2, <2>3
<1>4. /\ current' = current
      /\ pc' = [pc EXCEPT ![r] = "idle"]
      /\ slot' = [slot EXCEPT ![r] = 0]
      /\ key' = [key EXCEPT ![r] = NoKey]
      /\ woken' = [q \in Requests |-> pc[q] \in Acquiring]
  BY DEF Release, Finish
<1>5. /\ entries'[c][current[c]] = Cardinality(Holders(c)) - 1
      /\ \A k \in Creds \ {c} : entries'[k] = entries[k]
  <2> DEFINE v == IF entries[c][current[c]] > 0 THEN entries[c][current[c]] - 1
                                                ELSE entries[c][current[c]]
  <2>1. entries' = [entries EXCEPT ![c] = [entries[c] EXCEPT ![current[c]] = v]]
    BY <1>0, <1>1 DEF Release
  <2>2. v = Cardinality(Holders(c)) - 1
    BY <1>1, <1>3
  <2>3. v \in Nat
    BY <2>2, <1>3
  <2> HIDE DEF v
  <2>4. [entries[c] EXCEPT ![current[c]] = v][current[c]] = v
    BY <1>1, <2>3, WriteCounter
  <2> QED BY <2>1, <2>2, <2>4, <1>1
<1>6. /\ Holders(c)' = Holders(c) \ {r}
      /\ \A k \in Creds \ {c} : Holders(k)' = Holders(k)
  BY <1>0, <1>4 DEF Holders, SlotsInv, TypeOK
<1>7. ASSUME NEW k \in Creds
      PROVE  /\ \A q \in Holders(k)' : slot'[q] = current'[k]
             /\ current'[k] # 0 => entries'[k][current'[k]] = Cardinality(Holders(k)')
  <2>1. /\ \A q \in Holders(k) : slot[q] = current[k]
        /\ current[k] # 0 => entries[k][current[k]] = Cardinality(Holders(k))
    BY DEF SlotsInv, SlotsAccounted
  <2>2. \A q \in Holders(k)' : q # r /\ q \in Holders(k)
    BY <1>0, <1>6, <1>4 DEF Holders, SlotsInv, TypeOK
  <2>3. \A q \in Holders(k)' : slot'[q] = current'[k]
    BY <2>1, <2>2, <1>4 DEF SlotsInv, TypeOK
  <2>4. CASE k = c
    BY <2>3, <2>4, <1>3, <1>4, <1>5, <1>6
  <2>5. CASE k # c
    BY <2>1, <2>3, <2>5, <1>4, <1>5, <1>6
  <2> QED BY <2>4, <2>5
<1>8. ASSUME NEW q \in Requests PROVE Remembered(q)'
  <2>1. CASE q = r
    BY <2>1, <1>4 DEF Remembered, Acquiring, SlotsInv, TypeOK
  <2>2. CASE q # r
    <3>1. pc'[q] = pc[q] /\ woken'[q] = (pc[q] \in Acquiring)
      BY <2>2, <1>4 DEF SlotsInv, TypeOK
    <3>2. saturated'[q] = saturated[q]
      BY <2>2 DEF Release, Finish, SlotsInv, TypeOK
    <3>3. pc[q] = "notify" => saturated[q] = {}
      BY DEF SlotsInv, Remembered
    <3> QED BY <3>1, <3>2, <3>3 DEF Remembered
  <2> QED BY <2>1, <2>2
<1> QED
  BY <1>2, <1>7, <1>8 DEF SlotsInv, SlotsAccounted

-----------------------------------------------------------------------------
(* The theorems *)

\* A change of the cooldowns alone does not touch the invariant.
LEMMA OthersKeepSlots ==
    ASSUME SlotsInv, cooling' \subseteq Creds,
           UNCHANGED <<slots, pc, caller, woken, saturated, key, slot>>
    PROVE  SlotsInv'
<1> USE DEF slots, caller
<1>1. TypeOK'
  BY DEF SlotsInv, TypeOK
<1>2. \A c : Holders(c)' = Holders(c)
  BY DEF Holders
<1>3. SlotsAccounted'
  BY <1>2 DEF SlotsInv, SlotsAccounted
<1>4. \A r \in Requests : Remembered(r)'
  BY <1>2 DEF SlotsInv, Remembered
<1> QED
  BY <1>1, <1>3, <1>4 DEF SlotsInv

\* Every step of the gateway preserves the invariant.
LEMMA StepKeepsSlots == SlotsInv /\ [Next]_vars => SlotsInv'
<1> SUFFICES ASSUME SlotsInv, [Next]_vars PROVE SlotsInv'
  OBVIOUS
<1>1. ASSUME NEW r \in Requests, NEW S \in SUBSET Creds, TryAcquire(r, S)
      PROVE  SlotsInv'
  BY <1>1, TryAcquireKeepsAccounts
<1>2. ASSUME NEW r \in Requests, Release(r)
      PROVE  SlotsInv'
  <2>1. CASE slot[r] # 0
    BY <1>2, <2>1, ReleaseKeepsAccounts
  <2>2. CASE slot[r] = 0
    BY <1>2, <2>2, ReleaseTypeOK, RequestIsQuiet, RequestRemembers, QuietKeepsAccounts
  <2> QED BY <2>1, <2>2
<1>3. ASSUME NEW r \in Requests,
             \/ Notify(r) \/ PickKey(r) \/ PickNone(r) \/ Full(r) \/ Wake(r)
             \/ WaitCancelled(r) \/ Timeout(r) \/ Return(r) \/ Expire(r) \/ Cancel(r)
             \/ \E a \in Calls : Acquire(r, a)
      PROVE  SlotsInv'
  <2>1. TypeOK'
    BY <1>3, RequestTypeOK
  <2>2. Quiet(r)
    BY <1>3, RequestIsQuiet
  <2>3. Remembered(r)'
    BY <1>3, <2>2, RequestRemembers
  <2> QED BY <2>1, <2>2, <2>3, QuietKeepsAccounts
<1>4. ASSUME NEW c \in Creds, Cool(c)
      PROVE  SlotsInv'
  BY <1>4, OthersKeepSlots DEF Cool, SlotsInv, TypeOK
<1>5. CASE UNCHANGED vars
  BY <1>5, OthersKeepSlots DEF vars, SlotsInv, TypeOK
<1> QED
  BY <1>1, <1>2, <1>3, <1>4, <1>5 DEF Next, AcquireStep

\* The whole inductive invariant holds of every execution of the key-slot
\* code, however many requests and keys there are.
THEOREM SlotsSafe == Spec => []SlotsInv
<1>1. Init => SlotsInv
  <2> SUFFICES ASSUME Init PROVE SlotsInv
    OBVIOUS
  <2>1. TypeOK
    BY InitTypeOK
  <2>2. SlotsAccounted
    BY DEF Init, SlotsAccounted, Holders
  <2>3. \A r \in Requests : Remembered(r)
    BY DEF Init, Remembered, Acquiring
  <2> QED BY <2>1, <2>2, <2>3 DEF SlotsInv
<1> QED
  BY <1>1, StepKeepsSlots, PTL DEF Spec

\* No slot is lost or invented: the counter TryAcquire compares with the limit
\* is the number of requests that use the key, whatever sweep removed.
THEOREM SlotsAreAccounted == Spec => []SlotsAccounted
<1>1. SlotsInv => SlotsAccounted
  BY DEF SlotsInv
<1> QED
  BY <1>1, SlotsSafe, PTL

\* No release is missed: because Notify precedes TryAcquire in every round, a
\* request whose wake-up channel is open has nothing it could take.
THEOREM WakeupsAreNotMissed == Spec => []NoMissedWakeup
<1>1. SlotsInv => NoMissedWakeup
  BY DEF SlotsInv, NoMissedWakeup, Remembered, Acquiring
<1> QED
  BY <1>1, SlotsSafe, PTL

\* A granted slot is within the limit of the request it is granted to.
THEOREM GrantsAreWithinLimit == Spec => GrantsWithinLimit
<1> DEFINE Grant == \A r \in Requests : pc[r] = "try" /\ pc'[r] = "held" =>
                      Cardinality(Holders(key[r])') =< call[r].limit
<1>1. SlotsInv /\ [Next]_vars => [Grant]_vars
  <2> SUFFICES ASSUME SlotsInv, Next, NEW r \in Requests,
                      pc[r] = "try", pc'[r] = "held"
               PROVE  Cardinality(Holders(key[r])') =< call[r].limit
    BY DEF vars
  <2>0. PICK c \in Creds : c = key[r]
    BY DEF SlotsInv, TypeOK
  <2>1. PICK S \in SUBSET Creds : TryAcquire(r, S)
    <3>1. pc \in [Requests -> States]
      BY DEF SlotsInv, TypeOK
    <3>2. ASSUME NEW q \in Requests,
                 \/ Notify(q) \/ PickKey(q) \/ PickNone(q) \/ Full(q) \/ Wake(q)
                 \/ WaitCancelled(q) \/ Timeout(q) \/ Release(q) \/ Return(q)
                 \/ Expire(q) \/ Cancel(q) \/ \E a \in Calls : Acquire(q, a)
          PROVE  FALSE
      <4>1. pc' = pc \/ (pc[q] # "try" /\ \E v : pc' = [pc EXCEPT ![q] = v])
        BY <3>2 DEF Acquire, Notify, PickKey, PickNone, Full, Wake, WaitCancelled,
                    Timeout, Release, Return, Finish, Expire, Cancel
      <4> QED BY <3>1, <4>1
    <3>3. ASSUME NEW q \in Requests, NEW S \in SUBSET Creds, TryAcquire(q, S), q # r
          PROVE  FALSE
      <4>1. \/ pc' = [pc EXCEPT ![q] = "held"]
            \/ pc' = [pc EXCEPT ![q] = "pick"]
        BY <3>3, TryAcquireKey
      <4> QED BY <3>1, <3>3, <4>1
    <3>4. ASSUME NEW k \in Creds, Cool(k)
          PROVE  FALSE
      BY <3>4 DEF Cool
    <3> QED BY <3>2, <3>3, <3>4 DEF Next, AcquireStep
  <2>2. SlotsInv'
    BY <2>1, TryAcquireKeepsAccounts
  <2>3. /\ current'[c] # 0
        /\ Cardinality(Holders(c)) < call[r].limit
        /\ entries'[c][current'[c]] = Cardinality(Holders(c)) + 1
    <3>1. pc \in [Requests -> States]
      BY DEF SlotsInv, TypeOK
    <3> QED BY <2>0, <2>1, <3>1, TryAcquireKey
  <2>4. Cardinality(Holders(c)') = Cardinality(Holders(c)) + 1
    BY <2>2, <2>3 DEF SlotsInv, SlotsAccounted
  <2>5. Cardinality(Holders(c)) \in Nat /\ call[r].limit \in Nat
    BY HoldersFinite, CallType DEF SlotsInv, TypeOK
  <2>6. c = key'[r]
    BY <2>0, <2>1 DEF TryAcquire
  <2> QED
    BY <2>3, <2>4, <2>5, <2>6
<1>2. GrantsWithinLimit <=> [][Grant]_vars
  BY DEF GrantsWithinLimit
<1> QED
  BY <1>1, <1>2, SlotsSafe, PTL DEF Spec
=============================================================================
