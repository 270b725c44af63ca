----------------------------- MODULE GatewayProofs -----------------------------
(***************************************************************************)
(* The gateway's promises for any number of calls, users, keys, codes and  *)
(* clients: a login's state is used once, the cache of keys follows their  *)
(* rows, codes are paid once and balances add up, and the firewall counts  *)
(* whom it let in.  Each part has its inductive invariant; the first one   *)
(* sorts the steps by what they are about, so that the others name only    *)
(* the steps that matter to them.                                          *)
(***************************************************************************)
EXTENDS Gateway, FiniteSetTheorems, TLAPS

(* Calls *)

MemFields == {"row", "user", "result", "n", "at", "client", "key", "ids", "role"}

\* What every call has: what it asks, a place in its operation, a memory.
Calling == /\ Ask \in Asks
           /\ DOMAIN pc = Calls /\ DOMAIN mem = Calls
           /\ \A c \in Calls : DOMAIN mem[c] = MemFields

\* A step of one call, which every other call sleeps through.
OnlyCall(c) ==
    /\ Ask' = Ask
    /\ \A d \in Calls \ {c} : pc'[d] = pc[d] /\ mem'[d] = mem[d]
    /\ Calling'

\* A step of no call at all.
NoCall == UNCHANGED <<Ask, pc, mem>>

\* The steps by what they are about.
CodeCall(c) == ReadCode(c) \/ ReadInvalid(c) \/ DeleteInvalid(c) \/ CreateCodes(c) \/ Claim(c)
LoginCall(c) == \/ BeginLogin(c) \/ TakeState(c) \/ ExchangeCode(c) \/ AccountDisabled(c)
                \/ FindUser(c) \/ InsertUser(c) \/ CheckOverride(c) \/ RefreshUser(c)
SessionCall(c) == Visit(c) \/ Logout(c)
UserCall(c) == \/ SetAdmin(c) \/ FindForBalance(c) \/ UpdateBalance(c)
               \/ ReplaceChannelGroups(c) \/ VerifyChannelGroups(c) \/ UpdateProfile(c)
RevealCall(c) == \/ SendCode(c) \/ StoreCode(c) \/ MailCode(c)
                 \/ ReadRevealCode(c) \/ UseRevealCode(c) \/ OpenReveal(c)
                 \/ RevealVerified(c)
AdmissionCall(c) == \/ Arrive(c) \/ GetRequestFirewallSettings(c) \/ ApplySettings(c)
                    \/ UpdateRequestFirewallSettings(c) \/ CacheSettings(c)
                    \/ AdmitClient(c) \/ AdmitAPIKey(c) \/ Leave(c)
AuthCall(c) == \/ ReadKeyCache(c) \/ ReadKeyRow(c) \/ PopulateAuthPolicy(c)
               \/ FillKeyCache(c) \/ Authenticate(c) \/ ReadBody(c)
ChargeCall(c) == CheckBalance(c) \/ NotCharged(c) \/ Charge(c) \/ CommitCharge(c)
KeyCall(c) == \/ CreateKey(c) \/ FindKey(c) \/ WriteKey(c) \/ RemoveKey(c)
              \/ ClearKeyCache(c) \/ RevealKey(c)
DeletionCall(c) == ListUserKeys(c) \/ DeleteUser(c) \/ ClearUserKeys(c)
ClockCall(c) == Tick(c) \/ Midnight(c) \/ Expire(c)

\* What account operations and the others leave alone of each other.
Step(c) ==
    \/ CodeCall(c) /\ UNCHANGED <<keyVars, fw, settings, now, day>>
    \/ (LoginCall(c) \/ SessionCall(c) \/ UserCall(c) \/ RevealCall(c)) /\ UNCHANGED gatewayVars
    \/ AdmissionCall(c) \/ AuthCall(c) \/ ChargeCall(c) \/ KeyCall(c) \/ DeletionCall(c)
    \/ ClockCall(c)

Expiry == (CodeExpires \/ LoginExpires \/ RevealExpires) /\ UNCHANGED gatewayVars

\* Every step is one of them.
LEMMA NextSteps ==
    ASSUME [Next]_vars
    PROVE  (\E c \in Calls : Step(c)) \/ Expiry \/ UNCHANGED vars
<1>1. ASSUME NEW c \in Calls, GatewayStep(c) PROVE Step(c)
  BY <1>1 DEF GatewayStep, Step, AdmissionCall, AuthCall, ChargeCall, KeyCall, DeletionCall,
              ClockCall
<1>2. ASSUME AccountStep, UNCHANGED gatewayVars PROVE (\E c \in Calls : Step(c)) \/ Expiry
  BY <1>2 DEF AccountStep, Step, Expiry, CodeCall, LoginCall, SessionCall, UserCall, RevealCall,
              gatewayVars, keyVars
<1>3. ASSUME Credits, UNCHANGED <<keyVars, fw, settings, now, day>>
      PROVE  \E c \in Calls : Step(c)
  BY <1>3 DEF Credits, Step, CodeCall
<1> QED BY <1>1, <1>2, <1>3 DEF Next

\* A step is one call's, of an operation it is asked for.
LEMMA CodeCalls ==
    ASSUME Calling, NEW c \in Calls, CodeCall(c)
    PROVE  /\ OnlyCall(c) /\ Ask[c].op \in {"redeem", "deleteInvalid", "createCode"}
           /\ UNCHANGED <<oauth, sessions, reveal>>
BY DEF CodeCall, ReadCode, ReadInvalid, DeleteInvalid, CreateCodes, Claim, accountVars,
       OnlyCall, Calling, MemFields, At, Go, Keep, End

LEMMA SessionCalls ==
    ASSUME Calling, NEW c \in Calls, SessionCall(c)
    PROVE  /\ OnlyCall(c) /\ Ask[c].op \in {"visit", "logout"}
           /\ UNCHANGED <<users, codes, oauth, reveal>>
           /\ \/ UNCHANGED sessions
              \/ sessions' = [sessions EXCEPT ![Ask[c].of] = None]
BY DEF SessionCall, Visit, Logout, accountVars,
       OnlyCall, Calling, MemFields, At, Go, Keep, End

LEMMA UserCalls ==
    ASSUME Calling, NEW c \in Calls, UserCall(c)
    PROVE  /\ OnlyCall(c) /\ Ask[c].op \in {"setAdmin", "setBalance", "setGroups", "setProfile"}
           /\ UNCHANGED <<codes, oauth, sessions, reveal>>
BY DEF UserCall, SetAdmin, FindForBalance, UpdateBalance, ReplaceChannelGroups,
       VerifyChannelGroups, UpdateProfile, accountVars,
       OnlyCall, Calling, MemFields, At, Go, Keep, End

LEMMA RevealCalls ==
    ASSUME Calling, NEW c \in Calls, RevealCall(c)
    PROVE  /\ OnlyCall(c) /\ Ask[c].op \in {"sendCode", "verify", "reveal"}
           /\ UNCHANGED <<users, codes, oauth, sessions>>
BY DEF RevealCall, SendCode, StoreCode, MailCode, ReadRevealCode, UseRevealCode, OpenReveal,
       RevealVerified, accountVars, OnlyCall, Calling, MemFields, At, Go, Keep, End

LEMMA LoginCalls ==
    ASSUME Calling, NEW c \in Calls, LoginCall(c)
    PROVE  /\ OnlyCall(c) /\ Ask[c].op \in {"login", "callback"} /\ UNCHANGED <<codes, reveal>>
BY DEF LoginCall, BeginLogin, TakeState, ExchangeCode, AccountDisabled, FindUser, InsertUser,
       CheckOverride, RefreshUser, accountVars,
       OnlyCall, Calling, MemFields, At, Go, Keep, End

LEMMA AdmissionCalls ==
    ASSUME Calling, NEW c \in Calls, AdmissionCall(c)
    PROVE  /\ OnlyCall(c) /\ Ask[c].op \in {"request", "firewall"}
           /\ UNCHANGED <<accountVars, keyVars>>
BY DEF AdmissionCall, Arrive, GetRequestFirewallSettings, ApplySettings,
       UpdateRequestFirewallSettings, CacheSettings, AdmitClient, AdmitAPIKey, Leave, Refuse,
       gatewayVars, keyVars, OnlyCall, Calling, MemFields, At, Go, Keep, End

LEMMA AuthCalls ==
    ASSUME Calling, NEW c \in Calls, AuthCall(c)
    PROVE  OnlyCall(c) /\ Ask[c].op = "request" /\ UNCHANGED <<accountVars, keys, fw>>
<1> USE DEF gatewayVars, keyVars, OnlyCall, Calling, MemFields, At, Go, Keep
<1>1. CASE ReadKeyCache(c) \/ ReadKeyRow(c)
  BY <1>1 DEF ReadKeyCache, ReadKeyRow, Refuse
<1>2. CASE PopulateAuthPolicy(c) \/ FillKeyCache(c)
  BY <1>2 DEF PopulateAuthPolicy, FillKeyCache
<1>3. CASE Authenticate(c) \/ ReadBody(c)
  BY <1>3 DEF Authenticate, ReadBody, Refuse
<1> QED BY <1>1, <1>2, <1>3 DEF AuthCall

LEMMA ChargeCalls ==
    ASSUME Calling, NEW c \in Calls, ChargeCall(c)
    PROVE  /\ OnlyCall(c) /\ Ask[c].op = "request"
           /\ UNCHANGED <<codes, oauth, sessions, reveal, fw>>
BY DEF ChargeCall, CheckBalance, NotCharged, Charge, CommitCharge, Refuse,
       accountVars, gatewayVars, keyVars, OnlyCall, Calling, MemFields, At, Go, Keep, End

LEMMA KeyCalls ==
    ASSUME Calling, NEW c \in Calls, KeyCall(c)
    PROVE  /\ OnlyCall(c) /\ Ask[c].op \in {"createKey", "updateKey", "deleteKey", "revealKey"}
           /\ UNCHANGED <<accountVars, fw>>
BY DEF KeyCall, CreateKey, FindKey, WriteKey, RemoveKey, ClearKeyCache, RevealKey,
       gatewayVars, keyVars, OnlyCall, Calling, MemFields, At, Go, Keep, End

LEMMA DeletionCalls ==
    ASSUME Calling, NEW c \in Calls, DeletionCall(c)
    PROVE  /\ OnlyCall(c) /\ Ask[c].op = "deleteUser"
           /\ UNCHANGED <<codes, oauth, sessions, reveal, fw>>
BY DEF DeletionCall, ListUserKeys, DeleteUser, ClearUserKeys,
       accountVars, gatewayVars, keyVars, OnlyCall, Calling, MemFields, At, Go, Keep, End

LEMMA ClockCalls ==
    ASSUME Calling, NEW c \in Calls, ClockCall(c)
    PROVE  /\ OnlyCall(c) /\ Ask[c].op \in {"tick", "midnight", "expire"}
           /\ UNCHANGED <<accountVars, keys>>
BY DEF ClockCall, Tick, Midnight, Expire,
       gatewayVars, keyVars, OnlyCall, Calling, MemFields, At, Go, Keep, End

\* Every call keeps its shape.
LEMMA CallingInit == Init => Calling
<1>1. DOMAIN NewMem = MemFields
  BY DEF NewMem, MemFields
<1> QED BY <1>1 DEF Init, StartAccounts, Calling

LEMMA StepIsACall ==
    ASSUME Calling, NEW c \in Calls, Step(c) PROVE OnlyCall(c)
BY CodeCalls, LoginCalls, SessionCalls, UserCalls, RevealCalls, AdmissionCalls, AuthCalls,
   ChargeCalls, KeyCalls, DeletionCalls, ClockCalls DEF Step

LEMMA ExpiryIsNoCall == Expiry => NoCall
BY DEF Expiry, CodeExpires, LoginExpires, RevealExpires, NoCall

LEMMA CallingNext == Calling /\ [Next]_vars => Calling'
<1> SUFFICES ASSUME Calling, [Next]_vars PROVE Calling'
  OBVIOUS
<1>1. NoCall => Calling'
  BY DEF NoCall, Calling
<1>2. UNCHANGED vars => NoCall
  BY DEF vars, NoCall
<1>3. \A c \in Calls : Step(c) => Calling'
  BY StepIsACall DEF OnlyCall
<1> QED BY <1>1, <1>2, <1>3, NextSteps, ExpiryIsNoCall

THEOREM CallsAreCalls == Spec => []Calling
BY CallingInit, CallingNext, PTL DEF Spec

-----------------------------------------------------------------------------
(* Login *)

IsLogin(c) == Ask[c].op = "login"
IsCallback(c) == Ask[c].op = "callback"

\* A stored state is that of a login that has begun; the state a callback has
\* taken is gone, nobody else has taken it, and its login will not store it
\* again; a callback that was refused has ended.
LoginInv ==
    /\ DOMAIN sessions = Calls
    /\ \A l \in oauth : l \in Calls /\ IsLogin(l) /\ pc[l] # "start"
    /\ \A c \in Calls : IsCallback(c) /\ Past(c) =>
          Ask[c].of \in Calls /\ IsLogin(Ask[c].of) /\ pc[Ask[c].of] # "start"
            /\ Ask[c].of \notin oauth
    /\ \A c, d \in Calls :
          IsCallback(c) /\ IsCallback(d) /\ Past(c) /\ Past(d) /\ Ask[c].of = Ask[d].of => c = d
    /\ \A c \in Calls : IsCallback(c) /\ mem[c].result = "invalid_state" => pc[c] = "done"
    /\ \A c \in Calls : sessions[c] # None => IsCallback(c) /\ Past(c)

\* Nothing about logins changes, but that states and sessions may end.
LoginQuiet ==
    /\ Ask' = Ask
    /\ \A c \in Calls : IsLogin(c) \/ IsCallback(c) => pc'[c] = pc[c] /\ mem'[c] = mem[c]
    /\ oauth' \subseteq oauth
    /\ DOMAIN sessions' = Calls
    /\ \A c \in Calls : sessions'[c] = sessions[c] \/ sessions'[c] = None

LEMMA LoginQuietKeeps == ASSUME Calling, LoginInv, LoginQuiet PROVE LoginInv'
BY DEF LoginInv, LoginQuiet, IsLogin, IsCallback, Past

LEMMA LoginStart == Init => LoginInv
<1> SUFFICES ASSUME Init PROVE LoginInv
  OBVIOUS
<1>1. /\ oauth = {} /\ sessions = [c \in Calls |-> None]
      /\ \A c \in Calls : pc[c] = "start" /\ mem[c] = NewMem
  BY DEF Init, StartAccounts
<1>2. NewMem.result # "invalid_state"
  BY DEF NewMem
<1> QED BY <1>1, <1>2 DEF LoginInv, Past

\* The callback that takes a state is the first one past the check.
LEMMA LoginStep ==
    ASSUME Calling, LoginInv, NEW c \in Calls, LoginCall(c) PROVE LoginInv'
<1> USE DEF LoginInv, IsLogin, IsCallback, Past
<1>1. OnlyCall(c)
  BY LoginCalls
<1>2. CASE BeginLogin(c)
  BY <1>1, <1>2 DEF BeginLogin, OnlyCall, Calling, At, Go, End, Keep, MemFields
<1>3. CASE TakeState(c)
  <2>1. CASE Ask[c].on /\ Ask[c].of \in oauth
    BY <1>1, <1>3, <2>1 DEF TakeState, OnlyCall, Calling, At, Go
  <2>2. CASE ~(Ask[c].on /\ Ask[c].of \in oauth)
    BY <1>1, <1>3, <2>2 DEF TakeState, OnlyCall, Calling, At, Go, End, Keep, MemFields
  <2> QED BY <2>1, <2>2
<1>4. CASE ExchangeCode(c) \/ AccountDisabled(c) \/ FindUser(c) \/ InsertUser(c)
            \/ CheckOverride(c)
  <2>1. /\ IsCallback(c) /\ Past(c) /\ pc'[c] # "start" /\ mem'[c].result # "invalid_state"
        /\ UNCHANGED <<oauth, sessions>>
    BY <1>4 DEF ExchangeCode, AccountDisabled, FindUser, InsertUser, CheckOverride,
                accountVars, Calling, At, Go, End, Keep, MemFields
  <2> QED BY <1>1, <2>1 DEF OnlyCall
<1>5. CASE RefreshUser(c)
  <2>1. /\ IsCallback(c) /\ Past(c) /\ pc'[c] # "start" /\ mem'[c].result # "invalid_state"
        /\ UNCHANGED oauth /\ sessions' = [sessions EXCEPT ![c] = Me(c)]
    BY <1>5 DEF RefreshUser, Calling, At, Go, End, Keep, MemFields
  <2> QED BY <1>1, <2>1 DEF OnlyCall
<1> QED BY <1>2, <1>3, <1>4, <1>5 DEF LoginCall

LEMMA LoginNext == ASSUME Calling, LoginInv, [Next]_vars PROVE LoginInv'
<1>1. ASSUME NEW c \in Calls, OnlyCall(c), ~IsLogin(c), ~IsCallback(c), oauth' = oauth,
             \/ UNCHANGED sessions
             \/ sessions' = [sessions EXCEPT ![Ask[c].of] = None]
      PROVE  LoginInv'
  <2>1. LoginQuiet
    BY <1>1 DEF OnlyCall, LoginQuiet, LoginInv
  <2> QED BY <2>1, LoginQuietKeeps
<1>2. ASSUME NEW c \in Calls, Step(c) PROVE LoginInv'
  <2> USE DEF IsLogin, IsCallback
  <2>1. CASE CodeCall(c)
    BY <2>1, <1>1, CodeCalls
  <2>2. CASE SessionCall(c)
    BY <2>2, <1>1, SessionCalls
  <2>3. CASE UserCall(c)
    BY <2>3, <1>1, UserCalls
  <2>4. CASE RevealCall(c)
    BY <2>4, <1>1, RevealCalls
  <2>5. CASE AdmissionCall(c)
    BY <2>5, <1>1, AdmissionCalls DEF accountVars
  <2>6. CASE AuthCall(c)
    BY <2>6, <1>1, AuthCalls DEF accountVars
  <2>7. CASE ChargeCall(c)
    BY <2>7, <1>1, ChargeCalls
  <2>8. CASE KeyCall(c)
    BY <2>8, <1>1, KeyCalls DEF accountVars
  <2>9. CASE DeletionCall(c)
    BY <2>9, <1>1, DeletionCalls
  <2>10. CASE ClockCall(c)
    BY <2>10, <1>1, ClockCalls DEF accountVars
  <2> QED
    BY <1>2, <2>1, <2>2, <2>3, <2>4, <2>5, <2>6, <2>7, <2>8, <2>9, <2>10, LoginStep DEF Step
<1>3. CASE Expiry
  <2>1. LoginQuiet
    BY <1>3 DEF Expiry, CodeExpires, LoginExpires, RevealExpires, LoginQuiet, LoginInv
  <2> QED BY <2>1, LoginQuietKeeps
<1>4. CASE UNCHANGED vars
  <2>1. LoginQuiet
    BY <1>4 DEF vars, accountVars, LoginQuiet, LoginInv
  <2> QED BY <2>1, LoginQuietKeeps
<1> QED BY <1>2, <1>3, <1>4, NextSteps

\* Of the callbacks of a login, in whatever order they arrive, at most one gets
\* past the check of the state, and no session comes from elsewhere.
THEOREM LoginStatesAreUsedOnce == Spec => []LoginStateUsedOnce
<1>1. LoginInv => LoginStateUsedOnce
  <2> SUFFICES ASSUME LoginInv PROVE LoginStateUsedOnce
    OBVIOUS
  <2> USE DEF IsCallback, Asking
  <2>1. ASSUME NEW l \in Asking("login")
        PROVE  Cardinality({c \in Asking("callback") : Ask[c].of = l /\ Past(c)}) <= 1
    <3> DEFINE S == {c \in Asking("callback") : Ask[c].of = l /\ Past(c)}
    <3>1. \A c, d \in S : c = d
      BY DEF LoginInv
    <3> HIDE DEF S
    <3>2. S = {} \/ \E c : S = {c}
      BY <3>1
    <3>3. Cardinality(S) <= 1
      BY <3>2, FS_EmptySet, FS_Singleton
    <3> QED BY <3>3 DEF S
  <2> QED BY <2>1 DEF LoginInv, LoginStateUsedOnce
<1> QED
  BY LoginStart, LoginNext, CallsAreCalls, <1>1, PTL DEF Spec

-----------------------------------------------------------------------------
(* The cache of keys *)

KeyFields == {"there", "owner", "enabled", "expires", "limit", "spent", "dayLimit", "daySpent",
              "day", "policy", "role", "groups"}

\* A row of a key. Its owner never changes.
IsKeyRow(row, k) == /\ row = [f \in KeyFields |-> row[f]]
                    /\ row.there \in BOOLEAN
                    /\ row.owner = KeyRows[k].owner

\* What a call is doing to key k: charging it, about to clear its entry, past a
\* deletion of its owner that did not list it, reading its row, about to create it.
Holds(c, k)   == At(c, "request", "commit") /\ Ask[c].key = k
Edits(c, k)   == /\ pc[c] = "clear"
                 /\ \/ Ask[c].op \in {"updateKey", "deleteKey"} /\ Ask[c].key = k
                    \/ Ask[c].op = "deleteUser" /\ k \in mem[c].ids
Orphans(c, k) == /\ Ask[c].op = "deleteUser" /\ pc[c] \in {"clear", "done"}
                 /\ Me(c) = KeyRows[k].owner /\ k \notin mem[c].ids
Reads(c, k)   == Ask[c].op = "request" /\ pc[c] \in {"policy", "fill"} /\ Ask[c].key = k
Creates(c, k) == At(c, "createKey", "start") /\ Ask[c].key = k

\* An entry that was written while the row was what the writer had read.
Trusted(k) == cache[k] # None /\ ~cache[k].late

\* A trusted entry is the row, or somebody is about to clear it, or nobody will:
\* its owner was deleted by a call that did not know the key.
EntryFollows(k) ==
    Trusted(k) =>
        /\ \A c \in Calls : ~Holds(c, k)
        /\ \/ OwnPart(cache[k].row) = OwnPart(keys[k])
           \/ \E c \in Calls : Edits(c, k) \/ Orphans(c, k)

\* Nobody knows a key that is not created yet.
Unborn(k) ==
    (\E c \in Calls : Creates(c, k)) =>
        ~keys[k].there /\ cache[k] = None /\ \A d \in Calls : ~Reads(d, k)

CacheInv ==
    /\ DOMAIN cache = Keys /\ DOMAIN keys = Keys
    /\ \A k \in Keys : IsKeyRow(keys[k], k) /\ EntryFollows(k) /\ Unborn(k)

LEMMA CacheStart == Init => CacheInv
<1> SUFFICES ASSUME Init PROVE CacheInv
  OBVIOUS
<1>1. /\ keys = KeyRows /\ cache = [k \in Keys |-> None] /\ Ask \in Asks
      /\ \A c \in Calls : pc[c] = "start"
  BY DEF Init, StartAccounts
<1>2. \A k \in Keys : IsKeyRow(keys[k], k)
  BY <1>1, GatewayAssumption DEF IsKeyRow, KeyRow, KeyFields
<1>3. DOMAIN cache = Keys /\ DOMAIN keys = Keys
  BY <1>1, GatewayAssumption
<1>4. \A k \in Keys : cache[k] = None
  BY <1>1
<1>5. ASSUME NEW k \in Keys, NEW c \in Calls, Creates(c, k) PROVE ~keys[k].there
  BY <1>1, <1>5, GatewayAssumption DEF Creates, At
<1>6. \A c \in Calls, k \in Keys : ~Reads(c, k)
  BY <1>1 DEF Reads
<1> QED BY <1>2, <1>3, <1>4, <1>5, <1>6 DEF CacheInv, EntryFollows, Unborn, Trusted

\* The call c does nothing to key k, or only what makes less of it.
Ignores(c, k) ==
    /\ Holds(c, k)' => Holds(c, k)
    /\ Edits(c, k) => Edits(c, k)'
    /\ Orphans(c, k) => Orphans(c, k)'
    /\ Reads(c, k)' => Reads(c, k)
    /\ Creates(c, k)' => Creates(c, k)

\* Calls that sleep ignore every key.
LEMMA SleepersIgnore ==
    ASSUME Calling, NEW c \in Calls, OnlyCall(c), NEW d \in Calls \ {c}, NEW k
    PROVE  /\ Holds(d, k)' <=> Holds(d, k)
           /\ Edits(d, k)' <=> Edits(d, k)
           /\ Orphans(d, k)' <=> Orphans(d, k)
           /\ Reads(d, k)' <=> Reads(d, k)
           /\ Creates(d, k)' <=> Creates(d, k)
BY DEF OnlyCall, Holds, Edits, Orphans, Reads, Creates, At, Me

\* Entry and row of a key that the step ignores stay right.
LEMMA IgnoredKey ==
    ASSUME CacheInv, NEW k \in Keys, \A c \in Calls : Ignores(c, k),
           keys'[k] = keys[k], cache'[k] = cache[k] \/ cache'[k] = None
    PROVE  IsKeyRow(keys'[k], k) /\ EntryFollows(k)' /\ Unborn(k)'
BY DEF CacheInv, IsKeyRow, EntryFollows, Unborn, Trusted, Ignores, OwnPart

LEMMA CacheQuiet ==
    ASSUME CacheInv, \A c \in Calls, k \in Keys : Ignores(c, k), keys' = keys,
           DOMAIN cache' = Keys, \A k \in Keys : cache'[k] = cache[k] \/ cache'[k] = None
    PROVE  CacheInv'
<1>1. \A k \in Keys : IsKeyRow(keys'[k], k) /\ EntryFollows(k)' /\ Unborn(k)'
  BY IgnoredKey
<1> QED BY <1>1 DEF CacheInv

\* A step of another operation ignores every key.
LEMMA OtherCallsIgnore ==
    ASSUME Calling, NEW c \in Calls, OnlyCall(c), NEW d \in Calls, NEW k \in Keys,
           Ask[c].op \notin {"request", "createKey", "updateKey", "deleteKey", "deleteUser"}
    PROVE  Ignores(d, k)
BY DEF OnlyCall, Ignores, Holds, Edits, Orphans, Reads, Creates, At, Me

\* So does a request that neither begins to read a row nor takes it.
LEMMA RequestIgnores ==
    ASSUME Calling, NEW c \in Calls, OnlyCall(c), NEW d \in Calls, NEW k \in Keys,
           Ask[c].op = "request",
           pc'[c] = "commit" => pc[c] = "commit",
           pc'[c] \in {"policy", "fill"} => pc[c] \in {"policy", "fill"}
    PROVE  Ignores(d, k)
BY DEF OnlyCall, Ignores, Holds, Edits, Orphans, Reads, Creates, At, Me

\* Reading a key and its policy.
LEMMA AuthCache ==
    ASSUME Calling, CacheInv, NEW c \in Calls, AuthCall(c) PROVE CacheInv'
<1>1. OnlyCall(c) /\ Ask[c].op = "request" /\ UNCHANGED keys /\ Ask \in Asks
  BY AuthCalls DEF Calling
<1>a. PICK a \in Keys : a = Ask[c].key
  BY <1>1, GatewayAssumption
<1>2. CASE ReadKeyCache(c) \/ PopulateAuthPolicy(c) \/ Authenticate(c) \/ ReadBody(c)
  <2>1. /\ UNCHANGED cache
        /\ pc'[c] = "commit" => pc[c] = "commit"
        /\ pc'[c] \in {"policy", "fill"} => pc[c] \in {"policy", "fill"}
    BY <1>2 DEF ReadKeyCache, PopulateAuthPolicy, Authenticate, ReadBody, Refuse, gatewayVars,
                keyVars, Calling, At, Go
  <2> QED BY <1>1, <2>1, RequestIgnores, CacheQuiet DEF CacheInv
<1>3. CASE ReadKeyRow(c)
  <2>1. UNCHANGED cache /\ pc[c] = "row"
    BY <1>3 DEF ReadKeyRow, gatewayVars, keyVars, At
  <2>2. CASE keys[a].there
    <3>1. pc'[c] = "policy"
      BY <1>3, <1>a, <2>2 DEF ReadKeyRow, Calling, Go
    <3>2. \A d \in Calls : ~Creates(d, a)
      BY <1>a, <2>2 DEF CacheInv, Unborn
    <3>3. ASSUME NEW k \in Keys PROVE IsKeyRow(keys'[k], k) /\ EntryFollows(k)' /\ Unborn(k)'
      <4>1. /\ ~Holds(c, k) /\ ~Edits(c, k) /\ ~Orphans(c, k) /\ ~Creates(c, k)
            /\ ~Holds(c, k)' /\ ~Edits(c, k)' /\ ~Orphans(c, k)' /\ ~Creates(c, k)'
            /\ Reads(c, k)' => k = a
        BY <1>1, <1>a, <2>1, <3>1 DEF OnlyCall, Holds, Edits, Orphans, Creates, Reads, At
      <4>2. \A d \in Calls : /\ Holds(d, k)' => Holds(d, k)
                             /\ Edits(d, k) => Edits(d, k)'
                             /\ Orphans(d, k) => Orphans(d, k)'
                             /\ Creates(d, k)' => Creates(d, k)
                             /\ Reads(d, k)' => Reads(d, k) \/ k = a
        BY <1>1, <4>1, SleepersIgnore
      <4>3. IsKeyRow(keys'[k], k)
        BY <1>1 DEF CacheInv
      <4>4. EntryFollows(k)'
        BY <1>1, <2>1, <4>2 DEF CacheInv, EntryFollows, Trusted, OwnPart
      <4>5. Unborn(k)'
        BY <1>1, <2>1, <3>2, <4>2 DEF CacheInv, Unborn
      <4> QED BY <4>3, <4>4, <4>5
    <3> QED BY <1>1, <2>1, <3>3 DEF CacheInv
  <2>3. CASE ~keys[a].there
    <3>1. pc'[c] = "leave"
      BY <1>3, <1>a, <2>3 DEF ReadKeyRow, Refuse, Calling, Go
    <3> QED BY <1>1, <2>1, <3>1, RequestIgnores, CacheQuiet DEF CacheInv
  <2> QED BY <2>2, <2>3
<1>4. CASE FillKeyCache(c)
  <2>1. /\ pc[c] = "fill" /\ pc'[c] = "judge"
        /\ cache' = [cache EXCEPT ![a] = Entry(mem[c].row,
                        Held(a) \/ OwnPart(mem[c].row) # OwnPart(keys[a]))]
    BY <1>4, <1>a DEF FillKeyCache, Calling, At, Go
  <2>2. \A d \in Calls, k \in Keys : Ignores(d, k)
    BY <1>1, <2>1, RequestIgnores
  <2>3. ASSUME NEW k \in Keys, k # a
        PROVE  IsKeyRow(keys'[k], k) /\ EntryFollows(k)' /\ Unborn(k)'
    <3>1. cache'[k] = cache[k] /\ keys'[k] = keys[k]
      BY <1>1, <2>1, <2>3 DEF CacheInv
    <3> QED BY <2>2, <3>1, IgnoredKey
  <2>4. IsKeyRow(keys'[a], a)
    BY <1>1, <1>a DEF CacheInv, IsKeyRow
  <2>5. EntryFollows(a)'
    <3> DEFINE late == Held(a) \/ OwnPart(mem[c].row) # OwnPart(keys[a])
    <3>1. cache'[a] = Entry(mem[c].row, late)
      BY <1>a, <2>1 DEF CacheInv
    <3>2. cache'[a].row = mem[c].row /\ (cache'[a].late <=> late)
      <4> HIDE DEF late
      <4> QED BY <3>1 DEF Entry
    <3>3. ASSUME ~late
          PROVE  /\ \A d \in Calls : ~Holds(d, a)
                 /\ OwnPart(mem[c].row) = OwnPart(keys[a])
      BY <3>3 DEF Held, Holds
    <3> HIDE DEF late
    <3> QED BY <1>1, <2>2, <3>2, <3>3 DEF EntryFollows, Trusted, Ignores, OwnPart
  <2>6. Unborn(a)'
    <3>1. Reads(c, a)
      BY <1>1, <1>a, <2>1 DEF Reads
    <3>2. \A d \in Calls : ~Creates(d, a)
      BY <1>a, <3>1 DEF CacheInv, Unborn
    <3> QED BY <1>a, <2>2, <3>2 DEF Unborn, Ignores
  <2>7. DOMAIN cache' = Keys /\ DOMAIN keys' = Keys
    BY <1>1, <2>1 DEF CacheInv
  <2> QED BY <2>3, <2>4, <2>5, <2>6, <2>7 DEF CacheInv
<1> QED BY <1>2, <1>3, <1>4 DEF AuthCall


\* A key whose entry a step has cleared, or has tried to.
LEMMA ClearedKey ==
    ASSUME CacheInv, NEW k \in Keys, keys'[k] = keys[k], cache'[k] \in Deletions(cache[k]),
           \A d \in Calls : (Reads(d, k)' => Reads(d, k)) /\ (Creates(d, k)' => Creates(d, k))
    PROVE  IsKeyRow(keys'[k], k) /\ EntryFollows(k)' /\ Unborn(k)'
<1>1. cache'[k] = None \/ (cache'[k].late /\ cache[k] # None)
  BY DEF Deletions, Entry
<1> QED BY <1>1 DEF CacheInv, EntryFollows, Unborn, Trusted

\* A charge clears the entry of the key it takes, and changes its row only while
\* the entry cannot be trusted.
LEMMA ChargeCache ==
    ASSUME Calling, CacheInv, NEW c \in Calls, ChargeCall(c) PROVE CacheInv'
<1>1. OnlyCall(c) /\ Ask[c].op = "request" /\ Ask \in Asks
  BY ChargeCalls DEF Calling
<1>a. PICK a \in Keys : a = Ask[c].key
  BY <1>1, GatewayAssumption
<1>2. CASE pc'[c] \in {"charge", "leave"} /\ UNCHANGED keyVars
  <2>1. \A d \in Calls, k \in Keys : Ignores(d, k)
    BY <1>1, <1>2, RequestIgnores
  <2> QED BY <1>2, <2>1, CacheQuiet DEF keyVars, CacheInv
<1>3. CASE (CheckBalance(c) \/ NotCharged(c))
  <2>1. pc'[c] \in {"charge", "leave"} /\ UNCHANGED keyVars
    BY <1>3 DEF CheckBalance, NotCharged, Refuse, gatewayVars, keyVars, Calling, At, Go
  <2> QED BY <1>2, <2>1
<1>4. CASE Charge(c)
  <2>1. \/ pc'[c] = "leave" /\ UNCHANGED keyVars
        \/ /\ pc'[c] = "commit" /\ UNCHANGED keys
           /\ \E e \in Deletions(cache[a]) : cache' = [cache EXCEPT ![a] = e]
    BY <1>4, <1>a DEF Charge, Refuse, keyVars, Calling, At, Go
  <2>2. CASE /\ pc'[c] = "commit" /\ UNCHANGED keys
             /\ \E e \in Deletions(cache[a]) : cache' = [cache EXCEPT ![a] = e]
    <3>1. \A d \in Calls, k \in Keys : /\ Reads(d, k)' => Reads(d, k)
                                       /\ Creates(d, k)' => Creates(d, k)
                                       /\ k # a => Ignores(d, k)
      <4>1. pc[c] = "charge"
        BY <1>4 DEF Charge, At
      <4>2. \A k \in Keys : /\ ~Reads(c, k)' /\ ~Creates(c, k)'
                            /\ k # a => ~Holds(c, k)'
                            /\ ~Edits(c, k) /\ ~Orphans(c, k)
        BY <1>1, <1>a, <2>2, <4>1 DEF OnlyCall, Reads, Creates, Holds, Edits, Orphans, At
      <4> QED BY <1>1, <4>2, SleepersIgnore DEF Ignores
    <3>2. ASSUME NEW k \in Keys PROVE IsKeyRow(keys'[k], k) /\ EntryFollows(k)' /\ Unborn(k)'
      <4>1. CASE k = a
        BY <2>2, <3>1, <4>1, ClearedKey DEF CacheInv
      <4>2. CASE k # a
        BY <2>2, <3>1, <4>2, IgnoredKey DEF CacheInv
      <4> QED BY <4>1, <4>2
    <3>3. DOMAIN cache' = Keys /\ DOMAIN keys' = Keys
      BY <2>2 DEF CacheInv
    <3> QED BY <3>2, <3>3 DEF CacheInv
  <2> QED BY <1>2, <2>1, <2>2
<1>5. CASE CommitCharge(c)
  <2>1. /\ pc[c] = "commit" /\ pc'[c] = "leave" /\ UNCHANGED cache
        /\ keys' = [keys EXCEPT ![a] = AddSpend(keys[a], Ask[c].amount)]
    BY <1>5, <1>a DEF CommitCharge, Refuse, Calling, At, Go, CacheInv
  <2>2. \A d \in Calls, k \in Keys : Ignores(d, k)
    BY <1>1, <2>1, RequestIgnores
  <2>3. ASSUME NEW k \in Keys, k # a
        PROVE  IsKeyRow(keys'[k], k) /\ EntryFollows(k)' /\ Unborn(k)'
    <3>1. cache'[k] = cache[k] /\ keys'[k] = keys[k]
      BY <2>1, <2>3 DEF CacheInv
    <3> QED BY <2>2, <3>1, IgnoredKey
  <2>4. IsKeyRow(keys'[a], a) /\ keys'[a].there = keys[a].there
    <3>1. keys'[a] = AddSpend(keys[a], Ask[c].amount) /\ IsKeyRow(keys[a], a)
      BY <2>1 DEF CacheInv
    <3> QED BY <3>1 DEF IsKeyRow, AddSpend, KeyFields
  <2>5. EntryFollows(a)'
    <3>1. ~Trusted(a)
      BY <1>1, <1>a, <2>1 DEF CacheInv, EntryFollows, Holds, At
    <3> QED BY <2>1, <3>1 DEF EntryFollows, Trusted
  <2>6. Unborn(a)'
    BY <2>1, <2>2, <2>4 DEF CacheInv, Unborn, Ignores
  <2>7. DOMAIN cache' = Keys /\ DOMAIN keys' = Keys
    BY <2>1 DEF CacheInv
  <2> QED BY <2>3, <2>4, <2>5, <2>6, <2>7 DEF CacheInv
<1> QED BY <1>3, <1>4, <1>5 DEF ChargeCall

\* A step of one call that concerns the key a only.
LEMMA OneKey ==
    ASSUME CacheInv, NEW a \in Keys, \A d \in Calls, k \in Keys \ {a} : Ignores(d, k),
           DOMAIN cache' = Keys, DOMAIN keys' = Keys,
           \A k \in Keys \ {a} : cache'[k] = cache[k] /\ keys'[k] = keys[k],
           IsKeyRow(keys'[a], a) /\ EntryFollows(a)' /\ Unborn(a)'
    PROVE  CacheInv'
<1>1. \A k \in Keys \ {a} : IsKeyRow(keys'[k], k) /\ EntryFollows(k)' /\ Unborn(k)'
  BY IgnoredKey
<1> QED BY <1>1 DEF CacheInv

\* The administration of keys.
LEMMA KeyCache ==
    ASSUME Calling, CacheInv, NEW c \in Calls, KeyCall(c) PROVE CacheInv'
<1>1. /\ OnlyCall(c) /\ Ask \in Asks /\ Ask' = Ask
      /\ Ask[c].op \in {"createKey", "updateKey", "deleteKey", "revealKey"}
  BY KeyCalls DEF Calling, OnlyCall
<1>a. PICK a \in Keys : a = Ask[c].key
  BY <1>1, GatewayAssumption
<1>b. IsKeyRow(keys[a], a) /\ EntryFollows(a) /\ Unborn(a)
  BY DEF CacheInv
<1>c. \A d \in Calls, k \in Keys \ {a} : Ignores(d, k)
  <2>1. \A k \in Keys \ {a} : Ignores(c, k)
    BY <1>1, <1>a DEF Ignores, Holds, Edits, Orphans, Reads, Creates, At
  <2> QED BY <1>1, <2>1, SleepersIgnore DEF Ignores
<1>d. \A d \in Calls \ {c} : Ignores(d, a)
  BY <1>1, SleepersIgnore DEF Ignores
<1>2. CASE CreateKey(c)
  <2>1. /\ Ask[c].op = "createKey" /\ pc[c] = "start" /\ pc'[c] = "done" /\ UNCHANGED cache
        /\ Me(c) = KeyRows[a].owner
        /\ \/ UNCHANGED keys
           \/ keys' = [keys EXCEPT ![a].there = TRUE, ![a].owner = Me(c), ![a].enabled = TRUE]
    BY <1>1, <1>2, <1>a, GatewayAssumption DEF CreateKey, Calling, At, Go, End, Me
  <2>2. cache[a] = None
    <3>1. Creates(c, a)
      BY <1>a, <2>1 DEF Creates, At
    <3> QED BY <1>b, <3>1 DEF Unborn
  <2>3. IsKeyRow(keys'[a], a)
    <3>1. CASE keys' = [keys EXCEPT ![a].there = TRUE, ![a].owner = Me(c), ![a].enabled = TRUE]
      <4>1. keys'[a] = [keys[a] EXCEPT !.there = TRUE, !.owner = KeyRows[a].owner,
                                       !.enabled = TRUE]
        BY <2>1, <3>1 DEF CacheInv
      <4> QED BY <1>b, <4>1 DEF IsKeyRow, KeyFields
    <3> QED BY <1>b, <2>1, <3>1
  <2>4. \A d \in Calls : ~Creates(d, a)'
    <3>1. \A d \in Calls \ {c} : Ask[d].op = "createKey" => Ask[d].key # a
      BY <1>1, <1>a, <2>1, GatewayAssumption
    <3> QED BY <1>1, <1>a, <2>1, <3>1 DEF Creates, At
  <2>5. EntryFollows(a)' /\ Unborn(a)'
    BY <2>1, <2>2, <2>4 DEF EntryFollows, Trusted, Unborn
  <2>6. /\ DOMAIN cache' = Keys /\ DOMAIN keys' = Keys
        /\ \A k \in Keys \ {a} : cache'[k] = cache[k] /\ keys'[k] = keys[k]
    BY <2>1 DEF CacheInv
  <2> QED BY <1>c, <2>3, <2>5, <2>6, OneKey
<1>3. CASE FindKey(c) \/ RevealKey(c)
  <2>1. UNCHANGED keyVars /\ pc[c] = "start" /\ pc'[c] \in {"write", "done"}
    BY <1>3 DEF FindKey, RevealKey, gatewayVars, keyVars, Calling, At, Go, End
  <2>2. Ignores(c, a)
    BY <1>1, <2>1 DEF Ignores, Holds, Edits, Orphans, Reads, Creates, At
  <2> QED BY <1>c, <1>d, <2>1, <2>2, CacheQuiet DEF keyVars, CacheInv
<1>4. CASE WriteKey(c) \/ RemoveKey(c)
  <2>1. /\ Ask[c].op \in {"updateKey", "deleteKey"} /\ pc[c] = "write" /\ pc'[c] = "clear"
        /\ UNCHANGED <<cache, mem>>
        /\ \/ UNCHANGED keys
           \/ keys' = [keys EXCEPT ![a].enabled = Ask[c].on, ![a].policy = Ask[c].amount]
           \/ keys' = [keys EXCEPT ![a].there = FALSE]
    BY <1>4, <1>a DEF WriteKey, RemoveKey, Calling, At, Go
  <2>2. IsKeyRow(keys'[a], a) /\ (keys'[a].there => keys[a].there)
    <3>1. CASE keys' = [keys EXCEPT ![a].enabled = Ask[c].on, ![a].policy = Ask[c].amount]
      <4>1. keys'[a] = [keys[a] EXCEPT !.enabled = Ask[c].on, !.policy = Ask[c].amount]
        BY <3>1 DEF CacheInv
      <4> QED BY <1>b, <4>1 DEF IsKeyRow, KeyFields
    <3>2. CASE keys' = [keys EXCEPT ![a].there = FALSE]
      <4>1. keys'[a] = [keys[a] EXCEPT !.there = FALSE]
        BY <3>2 DEF CacheInv
      <4> QED BY <1>b, <4>1 DEF IsKeyRow, KeyFields
    <3> QED BY <1>b, <2>1, <3>1, <3>2
  <2>3. Ignores(c, a) /\ Edits(c, a)'
    BY <1>1, <1>a, <2>1 DEF Ignores, Holds, Edits, Orphans, Reads, Creates, At
  <2>4. EntryFollows(a)'
    BY <1>b, <1>d, <2>1, <2>3 DEF EntryFollows, Trusted, Ignores
  <2>5. Unborn(a)'
    BY <1>b, <1>d, <2>1, <2>2, <2>3 DEF Unborn, Ignores
  <2>6. /\ DOMAIN cache' = Keys /\ DOMAIN keys' = Keys
        /\ \A k \in Keys \ {a} : cache'[k] = cache[k] /\ keys'[k] = keys[k]
    BY <2>1 DEF CacheInv
  <2> QED BY <1>c, <2>2, <2>4, <2>5, <2>6, OneKey
<1>5. CASE ClearKeyCache(c)
  <2>1. /\ pc[c] = "clear" /\ pc'[c] = "done" /\ UNCHANGED keys
        /\ \E e \in Deletions(cache[a]) : cache' = [cache EXCEPT ![a] = e]
    BY <1>5, <1>a DEF ClearKeyCache, Calling, At, Go, End
  <2>2. ~Reads(c, a)' /\ ~Creates(c, a)'
    BY <1>1, <2>1 DEF Reads, Creates, At
  <2>3. IsKeyRow(keys'[a], a) /\ EntryFollows(a)' /\ Unborn(a)'
    BY <1>d, <2>1, <2>2, ClearedKey DEF CacheInv, Ignores
  <2>4. /\ DOMAIN cache' = Keys /\ DOMAIN keys' = Keys
        /\ \A k \in Keys \ {a} : cache'[k] = cache[k] /\ keys'[k] = keys[k]
    BY <2>1 DEF CacheInv
  <2> QED BY <1>c, <2>3, <2>4, OneKey
<1> QED BY <1>2, <1>3, <1>4, <1>5 DEF KeyCall

\* The deletion of a user with its keys.
LEMMA DeletionCache ==
    ASSUME Calling, CacheInv, NEW c \in Calls, DeletionCall(c) PROVE CacheInv'
<1>1. OnlyCall(c) /\ Ask[c].op = "deleteUser" /\ Ask' = Ask
  BY DeletionCalls DEF OnlyCall
<1>2. \A d \in Calls \ {c}, k \in Keys : Ignores(d, k)
  BY <1>1, SleepersIgnore DEF Ignores
<1>3. CASE ListUserKeys(c)
  <2>1. UNCHANGED keyVars /\ pc[c] = "start" /\ pc'[c] \in {"delete", "done"}
    BY <1>3 DEF ListUserKeys, gatewayVars, keyVars, Calling, At, Go, End
  <2>2. \A k \in Keys : Ignores(c, k)
    BY <1>1, <2>1 DEF Ignores, Holds, Edits, Orphans, Reads, Creates, At
  <2> QED BY <1>2, <2>1, <2>2, CacheQuiet DEF keyVars, CacheInv
<1>4. CASE DeleteUser(c)
  <2>1. /\ pc[c] = "delete" /\ pc'[c] = "clear" /\ UNCHANGED <<cache, mem>>
        /\ keys' = [k \in Keys |-> [keys[k] EXCEPT !.there = @ /\ keys[k].owner # Me(c)]]
    BY <1>4 DEF DeleteUser, Calling, At, Go
  <2>2. \A d \in Calls, k \in Keys : Ignores(d, k)
    <3>1. \A k \in Keys : Ignores(c, k)
      BY <1>1, <2>1 DEF Ignores, Holds, Edits, Orphans, Reads, Creates, At
    <3> QED BY <1>2, <3>1
  <2>3. ASSUME NEW k \in Keys PROVE IsKeyRow(keys'[k], k) /\ EntryFollows(k)' /\ Unborn(k)'
    <3>1. IsKeyRow(keys[k], k) /\ EntryFollows(k) /\ Unborn(k)
      BY DEF CacheInv
    <3>2. CASE keys[k].owner # Me(c)
      <4>1. keys'[k] = [keys[k] EXCEPT !.there = keys[k].there]
        BY <2>1, <3>1, <3>2 DEF IsKeyRow
      <4>2. keys'[k] = keys[k]
        BY <3>1, <4>1 DEF IsKeyRow
      <4> QED BY <2>1, <2>2, <4>2, IgnoredKey
    <3>3. CASE keys[k].owner = Me(c)
      <4>1. keys'[k] = [keys[k] EXCEPT !.there = FALSE]
        BY <2>1, <3>1, <3>3 DEF IsKeyRow
      <4>2. IsKeyRow(keys'[k], k) /\ ~keys'[k].there
        BY <3>1, <4>1 DEF IsKeyRow, KeyFields
      <4>3. Edits(c, k)' \/ Orphans(c, k)'
        BY <1>1, <2>1, <3>1, <3>3 DEF Edits, Orphans, IsKeyRow, Me
      <4>4. EntryFollows(k)'
        BY <2>1, <2>2, <3>1, <4>3 DEF EntryFollows, Trusted, Ignores
      <4>5. Unborn(k)'
        BY <2>1, <2>2, <3>1, <4>2 DEF Unborn, Ignores
      <4> QED BY <4>2, <4>4, <4>5
    <3> QED BY <3>2, <3>3
  <2>4. DOMAIN cache' = Keys /\ DOMAIN keys' = Keys
    BY <2>1 DEF CacheInv
  <2> QED BY <2>3, <2>4 DEF CacheInv
<1>5. CASE ClearUserKeys(c)
  <2>1. /\ pc[c] = "clear" /\ pc'[c] = "done" /\ UNCHANGED keys
        /\ mem'[c].ids = mem[c].ids
        /\ DOMAIN cache' = Keys
        /\ \A k \in Keys : IF k \in mem[c].ids THEN cache'[k] \in Deletions(cache[k])
                          ELSE cache'[k] = cache[k]
    BY <1>5 DEF ClearUserKeys, Deletions, Calling, MemFields, At, Go, End, Keep
  <2>2. ASSUME NEW k \in Keys PROVE IsKeyRow(keys'[k], k) /\ EntryFollows(k)' /\ Unborn(k)'
    <3>1. CASE k \in mem[c].ids
      <4>1. ~Reads(c, k)' /\ ~Creates(c, k)'
        BY <1>1, <2>1 DEF Reads, Creates, At
      <4> QED BY <1>2, <2>1, <3>1, <4>1, ClearedKey DEF CacheInv, Ignores
    <3>2. CASE k \notin mem[c].ids
      <4>1. Ignores(c, k)
        BY <1>1, <2>1, <3>2 DEF Ignores, Holds, Edits, Orphans, Reads, Creates, At, Me
      <4> QED BY <1>2, <2>1, <3>2, <4>1, IgnoredKey DEF CacheInv
    <3> QED BY <3>1, <3>2
  <2>3. DOMAIN cache' = Keys /\ DOMAIN keys' = Keys
    BY <2>1 DEF CacheInv
  <2> QED BY <2>2, <2>3 DEF CacheInv
<1> QED BY <1>3, <1>4, <1>5 DEF DeletionCall

\* Of the other steps only the end of a request's reading and an entry's end in
\* Redis touch what the invariant speaks of.
LEMMA CacheNext == ASSUME Calling, CacheInv, [Next]_vars PROVE CacheInv'
<1>1. ASSUME NEW c \in Calls, OnlyCall(c), UNCHANGED keyVars,
             Ask[c].op \notin {"request", "createKey", "updateKey", "deleteKey", "deleteUser"}
      PROVE  CacheInv'
  <2>1. \A d \in Calls, k \in Keys : Ignores(d, k)
    BY <1>1, OtherCallsIgnore
  <2> QED BY <1>1, <2>1, CacheQuiet DEF keyVars, CacheInv
<1>2. ASSUME NEW c \in Calls, AdmissionCall(c) PROVE CacheInv'
  <2>1. OnlyCall(c) /\ Ask[c].op \in {"request", "firewall"} /\ UNCHANGED keyVars
    BY <1>2, AdmissionCalls
  <2>2. CASE Ask[c].op = "request"
    <3>1. pc'[c] \notin {"commit", "policy", "fill"}
      BY <1>2, <2>2 DEF AdmissionCall, Arrive, GetRequestFirewallSettings, ApplySettings,
            UpdateRequestFirewallSettings, CacheSettings, AdmitClient, AdmitAPIKey, Leave,
            Refuse, Calling, At, Go, End
    <3>2. \A d \in Calls, k \in Keys : Ignores(d, k)
      BY <2>1, <2>2, <3>1, RequestIgnores
    <3> QED BY <2>1, <3>2, CacheQuiet DEF keyVars, CacheInv
  <2> QED BY <1>1, <2>1, <2>2
<1>3. ASSUME NEW c \in Calls, ClockCall(c) PROVE CacheInv'
  <2>1. /\ OnlyCall(c) /\ Ask[c].op \in {"tick", "midnight", "expire"} /\ UNCHANGED keys
    BY <1>3, ClockCalls
  <2>2. \A d \in Calls, k \in Keys : Ignores(d, k)
    BY <2>1, OtherCallsIgnore
  <2>3. DOMAIN cache' = Keys /\ \A k \in Keys : cache'[k] = cache[k] \/ cache'[k] = None
    BY <1>3 DEF ClockCall, Tick, Midnight, Expire, keyVars, CacheInv
  <2> QED BY <2>1, <2>2, <2>3, CacheQuiet
<1>4. ASSUME NEW c \in Calls, Step(c) PROVE CacheInv'
  <2>1. CASE CodeCall(c) /\ UNCHANGED keyVars
    BY <2>1, <1>1, CodeCalls DEF keyVars
  <2>2. CASE (LoginCall(c) \/ SessionCall(c) \/ UserCall(c) \/ RevealCall(c))
              /\ UNCHANGED gatewayVars
    BY <2>2, <1>1, LoginCalls, SessionCalls, UserCalls, RevealCalls DEF gatewayVars, keyVars
  <2> QED
    BY <1>4, <1>2, <1>3, <2>1, <2>2, AuthCache, ChargeCache, KeyCache, DeletionCache
       DEF Step, keyVars
<1>5. ASSUME NoCall, UNCHANGED keyVars PROVE CacheInv'
  <2>1. \A d \in Calls, k \in Keys : Ignores(d, k)
    BY <1>5 DEF NoCall, Ignores, Holds, Edits, Orphans, Reads, Creates, At, Me
  <2> QED BY <1>5, <2>1, CacheQuiet DEF keyVars, CacheInv
<1> QED
  BY <1>4, <1>5, NextSteps, ExpiryIsNoCall DEF Expiry, gatewayVars, keyVars, vars, NoCall

\* Once the edits, charges and deletions that knew a key are over, an entry written
\* while the row was still what its writer had read holds the row as it is.
THEOREM CacheFollowsTheKey == Spec => []CacheFollowsKey
<1>1. CacheInv => CacheFollowsKey
  <2> SUFFICES ASSUME CacheInv PROVE CacheFollowsKey
    OBVIOUS
  <2>1. \A k \in Keys : keys[k].owner = KeyRows[k].owner /\ EntryFollows(k)
    BY DEF CacheInv, IsKeyRow
  <2> QED BY <2>1 DEF CacheFollowsKey, EntryFollows, Trusted, Edits, Orphans, Asking
<1> QED
  BY CacheStart, CacheNext, CallsAreCalls, <1>1, PTL DEF Spec

-----------------------------------------------------------------------------
(* Sums *)

LEMMA Interval == \A n \in Nat : IsFiniteSet(1 .. n) /\ Cardinality(1 .. n) = n
<1> SUFFICES ASSUME NEW n \in Nat PROVE IsFiniteSet(1 .. n) /\ Cardinality(1 .. n) = n
  OBVIOUS
<1>1. PICK one \in Int : one = 1
  OBVIOUS
<1>2. n \in Int
  OBVIOUS
<1>3. /\ IsFiniteSet(one .. n)
      /\ Cardinality(one .. n) = IF one > n THEN 0 ELSE n - one + 1
  BY <1>2, FS_Interval, Zenon
<1>4. (IF one > n THEN 0 ELSE n - one + 1) = n
  BY <1>1
<1> QED BY <1>1, <1>3, <1>4

\* The units of finitely many numbers are finitely many.
LEMMA UnitsFinite ==
    ASSUME NEW S, IsFiniteSet(S), NEW f, \A x \in S : f[x] \in Nat
    PROVE  IsFiniteSet(Units(f, S)) /\ Total(f, S) \in Nat
<1> DEFINE cells == [x \in S |-> {x} \X (1 .. f[x])]
           T == {cells[x] : x \in S}
<1>1. cells \in Surjection(S, T)
  BY DEF Surjection
<1>2. IsFiniteSet(T)
  <2> HIDE DEF cells, T
  <2> QED BY <1>1, FS_Surjection
<1>3. \A x \in S : IsFiniteSet(cells[x])
  <2> SUFFICES ASSUME NEW x \in S PROVE IsFiniteSet(cells[x])
    OBVIOUS
  <2>1. PICK n \in Nat : n = f[x]
    OBVIOUS
  <2>2. IsFiniteSet({x}) /\ IsFiniteSet(1 .. n)
    BY FS_Singleton, Interval
  <2>3. IsFiniteSet({x} \X (1 .. n))
    BY <2>2, FS_Product
  <2> QED BY <2>1, <2>3
<1>4. \A t \in T : IsFiniteSet(t)
  <2> HIDE DEF cells
  <2> QED BY <1>3
<1>5. UNION T = Units(f, S)
  BY DEF Units
<1>6. IsFiniteSet(UNION T)
  <2> HIDE DEF T
  <2> QED BY <1>2, <1>4, FS_UNION
<1> QED BY <1>5, <1>6, FS_CardinalityType DEF Total

\* One number more.
LEMMA TotalAdd ==
    ASSUME NEW S, IsFiniteSet(S), NEW f, \A x \in S : f[x] \in Nat,
           NEW a, a \notin S, f[a] \in Nat
    PROVE  Total(f, S \cup {a}) = Total(f, S) + f[a]
<1>n. PICK n \in Nat : n = f[a]
  OBVIOUS
<1> DEFINE U == Units(f, S)
           V == {a} \X (1 .. n)
<1>1. Units(f, S \cup {a}) = U \cup V /\ U \cap V = {}
  BY <1>n DEF Units
<1>2. IsFiniteSet(V) /\ Cardinality(V) = n
  <2>1. IsFiniteSet({a}) /\ Cardinality({a}) = 1
    BY FS_Singleton
  <2>2. IsFiniteSet(1 .. n) /\ Cardinality(1 .. n) = n
    BY Interval
  <2>3. IsFiniteSet(V) /\ Cardinality(V) = Cardinality({a}) * Cardinality(1 .. n)
    BY <2>1, <2>2, FS_Product
  <2> QED BY <2>1, <2>2, <2>3
<1>3. IsFiniteSet(U) /\ Cardinality(U) \in Nat
  BY UnitsFinite, FS_CardinalityType
<1>u. Total(f, S) = Cardinality(U) /\ Total(f, S \cup {a}) = Cardinality(U \cup V)
  BY <1>1 DEF Total
<1> HIDE DEF U, V
<1>4. Cardinality(U \cup V) = Cardinality(U) + Cardinality(V) - Cardinality({})
  BY <1>1, <1>2, <1>3, FS_Union
<1> QED BY <1>n, <1>u, <1>2, <1>3, <1>4, FS_EmptySet

\* A sum knows the numbers of its own set only.
LEMMA TotalAgrees ==
    ASSUME NEW S, NEW f, NEW g, \A x \in S : f[x] = g[x]
    PROVE  Total(f, S) = Total(g, S)
BY DEF Total, Units

LEMMA TotalOfNone == \A f : Total(f, {}) = 0
BY FS_EmptySet DEF Total, Units

-----------------------------------------------------------------------------
(* Redemption *)

CodeFields == {"there", "amount", "expired", "usedBy"}

Redeems(c) == Ask[c].op = "redeem"
Redeemed(c) == Redeems(c) /\ mem[c].result = "ok"
CreatesCode(c) == At(c, "createCode", "start")

\* A redemption that succeeded used its code, and no other used it; one that has
\* read its code knows the amount; nobody knows a code that is not created yet.
CodeInv ==
    /\ DOMAIN codes = Codes
    /\ \A k \in Codes : DOMAIN codes[k] = CodeFields /\ codes[k].amount \in Nat
    /\ \A c \in Calls : At(c, "redeem", "claim") =>
          mem[c].row.amount = codes[Ask[c].code].amount
    /\ \A c \in Calls : Redeemed(c) => pc[c] = "done" /\ codes[Ask[c].code].usedBy = Me(c)
    /\ \A c, d \in Calls : Redeemed(c) /\ Redeemed(d) /\ Ask[c].code = Ask[d].code => c = d
    /\ \A c \in Calls : CreatesCode(c) =>
          /\ ~codes[Ask[c].code].there /\ codes[Ask[c].code].usedBy = None
          /\ \A d \in Calls : ~(At(d, "redeem", "claim") /\ Ask[d].code = Ask[c].code)

\* Codes may end, nothing else; and no redemption or creation goes on.
CodeQuiet ==
    /\ Ask' = Ask
    /\ DOMAIN codes' = Codes
    /\ \A k \in Codes : /\ DOMAIN codes'[k] = CodeFields
                        /\ codes'[k].there => codes[k].there
                        /\ codes'[k].amount = codes[k].amount
                        /\ codes'[k].usedBy = codes[k].usedBy
    /\ \A c \in Calls : Ask[c].op \in {"redeem", "createCode"} =>
          pc'[c] = pc[c] /\ mem'[c] = mem[c]

LEMMA CodeOfCall ==
    Calling => \A c \in Calls : /\ Ask[c].code \in Codes /\ Me(c) \in Users
                                /\ Ask[c].amount \in Int
BY AccountAssumption DEF Calling, Me

LEMMA CodeQuietKeeps == ASSUME Calling, CodeInv, CodeQuiet PROVE CodeInv'
<1>1. \A c \in Calls : /\ Ask'[c] = Ask[c] /\ Ask[c].code \in Codes
                       /\ At(c, "redeem", "claim")' <=> At(c, "redeem", "claim")
                       /\ At(c, "redeem", "claim") => mem'[c] = mem[c]
                       /\ Redeemed(c)' <=> Redeemed(c)
                       /\ Redeemed(c) => pc'[c] = pc[c]
                       /\ CreatesCode(c)' <=> CreatesCode(c)
                       /\ Me(c)' = Me(c)
  BY CodeOfCall DEF CodeQuiet, At, Redeemed, Redeems, CreatesCode, Me
<1> QED BY <1>1 DEF CodeInv, CodeQuiet

LEMMA CodeStart == Init => CodeInv
<1> SUFFICES ASSUME Init PROVE CodeInv
  OBVIOUS
<1>1. /\ codes = [k \in Codes |-> [there |-> k \in Printed, amount |-> 2, expired |-> FALSE,
                                   usedBy |-> None]]
      /\ \A c \in Calls : pc[c] = "start" /\ mem[c] = NewMem
      /\ Ask \in Asks
  BY DEF Init, StartAccounts
<1>2. NewMem.result # "ok"
  BY DEF NewMem
<1>3. \A k \in Codes : /\ DOMAIN codes[k] = CodeFields /\ codes[k].amount \in Nat
                       /\ codes[k].there <=> k \in Printed
                       /\ codes[k].usedBy = None
  BY <1>1 DEF CodeFields
<1>4. \A c \in Calls : CreatesCode(c) => Ask[c].code \in Codes \ Printed
  BY <1>1, AccountAssumption DEF CreatesCode, At
<1> QED BY <1>1, <1>2, <1>3, <1>4 DEF CodeInv, At, Redeemed

\* What the other calls of redemption are.
LEMMA OtherCodeCalls ==
    ASSUME Calling, NEW c \in Calls, OnlyCall(c), NEW d \in Calls \ {c}
    PROVE  /\ At(d, "redeem", "claim")' <=> At(d, "redeem", "claim")
           /\ Redeemed(d)' <=> Redeemed(d)
           /\ CreatesCode(d)' <=> CreatesCode(d)
           /\ Me(d)' = Me(d) /\ Ask'[d] = Ask[d] /\ mem'[d] = mem[d] /\ pc'[d] = pc[d]
BY DEF OnlyCall, At, Redeemed, Redeems, CreatesCode, Me

\* The amount of a code that is created is a number.
LEMMA NewAmounts == \A n \in Int : NormalizeCreateInput(n) => n \in Nat
BY SMT DEF NormalizeCreateInput

LEMMA CodeStep ==
    ASSUME Calling, CodeInv, NEW c \in Calls, CodeCall(c) PROVE CodeInv'
<1>1. OnlyCall(c) /\ Ask' = Ask /\ Calling'
  BY CodeCalls DEF OnlyCall
<1>2. PICK k \in Codes : k = Ask[c].code
  BY CodeOfCall
<1>3. PICK u \in Users : u = Me(c) /\ u # None
  BY CodeOfCall, AccountAssumption
<1>4. CASE ReadCode(c)
  <2>1. /\ Redeems(c) /\ pc[c] = "start" /\ UNCHANGED codes
        /\ \/ codes[k].there /\ pc'[c] = "claim" /\ mem'[c].row = codes[k]
                /\ mem'[c].result = mem[c].result
           \/ pc'[c] = "done" /\ mem'[c].result = "refused"
    BY <1>2, <1>4 DEF ReadCode, Redeems, At, Go, Keep, End, accountVars, Calling, MemFields
  <2>2. ~Redeemed(c)' /\ ~CreatesCode(c)'
    BY <1>1, <2>1 DEF CodeInv, Redeemed, Redeems, CreatesCode, At
  <2>3. \A d \in Calls : CreatesCode(d) /\ Ask[d].code = k => ~codes[k].there
    BY DEF CodeInv
  <2>4. At(c, "redeem", "claim")' => codes[k].there /\ mem'[c].row.amount = codes[k].amount
    BY <2>1 DEF At
  <2> QED BY <1>1, <1>2, <2>1, <2>2, <2>3, <2>4, OtherCodeCalls DEF CodeInv
<1>5. CASE Claim(c)
  <2>1. At(c, "redeem", "claim") /\ pc'[c] = "done" /\ Redeems(c)
    BY <1>5 DEF Claim, At, Go, End, Calling, Redeems
  <2>2. \A d \in Calls : CreatesCode(d) => Ask[d].code # k
    BY <1>2, <2>1 DEF CodeInv
  <2>3. ~CreatesCode(c)' /\ ~At(c, "redeem", "claim")'
    BY <2>1 DEF CreatesCode, At
  <2>4. CASE mem'[c].result = "ok"
    <3>1. codes' = [codes EXCEPT ![k].usedBy = u] /\ codes[k].usedBy = None
      BY <1>2, <1>3, <1>5, <2>4 DEF Claim, Claimable, End, Keep, Calling, MemFields
    <3>2. DOMAIN codes' = Codes
          /\ \A j \in Codes : /\ DOMAIN codes'[j] = CodeFields
                              /\ codes'[j].amount = codes[j].amount
                              /\ codes'[j].there = codes[j].there
                              /\ codes'[j].usedBy = IF j = k THEN u ELSE codes[j].usedBy
      BY <3>1 DEF CodeInv, CodeFields
    <3>3. \A d \in Calls : Redeemed(d) => Ask[d].code # k
      BY <1>3, <3>1, CodeOfCall, AccountAssumption DEF CodeInv
    <3>4. Me(c)' = u /\ Redeemed(c)'
      BY <1>1, <1>3, <2>1, <2>4 DEF Me, Redeemed, Redeems
    <3> QED BY <1>1, <1>2, <2>1, <2>2, <2>3, <3>2, <3>3, <3>4, CodeOfCall, OtherCodeCalls
            DEF CodeInv
  <2>5. CASE mem'[c].result # "ok"
    <3>1. UNCHANGED codes
      BY <1>5, <2>5 DEF Claim, End, Keep, Calling, MemFields
    <3>2. ~Redeemed(c)'
      BY <2>5 DEF Redeemed
    <3> QED BY <1>1, <2>3, <3>1, <3>2, OtherCodeCalls DEF CodeInv
  <2> QED BY <2>4, <2>5
<1>6. CASE CreateCodes(c)
  <2>1. CreatesCode(c) /\ pc'[c] = "done" /\ ~Redeems(c)
    BY <1>6 DEF CreateCodes, At, Go, End, Calling, Redeems, CreatesCode
  <2>2. \A d \in Calls : At(d, "redeem", "claim") \/ Redeemed(d) => Ask[d].code # k
    <3>1. codes[k].usedBy = None
          /\ \A d \in Calls : ~(At(d, "redeem", "claim") /\ Ask[d].code = k)
      BY <1>2, <2>1 DEF CodeInv
    <3> QED BY <3>1, CodeOfCall, AccountAssumption DEF CodeInv
  <2>3. \A d \in Calls : CreatesCode(d)' => Ask[d].code # k
    <3>1. ~CreatesCode(c)'
      BY <2>1 DEF CreatesCode, At
    <3>2. \A d \in Calls \ {c} : CreatesCode(d) => Ask[d].code # Ask[c].code
      BY <2>1, AccountAssumption DEF CreatesCode, At, Calling
    <3> QED BY <1>1, <1>2, <3>1, <3>2, OtherCodeCalls
  <2>4. /\ DOMAIN codes' = Codes
        /\ \A j \in Codes : /\ DOMAIN codes'[j] = CodeFields /\ codes'[j].amount \in Nat
                            /\ j # k => codes'[j] = codes[j]
    <3>1. \/ UNCHANGED codes
          \/ /\ codes' = [codes EXCEPT ![k] = [there |-> TRUE, amount |-> Ask[c].amount,
                                               expired |-> FALSE, usedBy |-> None]]
             /\ Ask[c].amount \in Nat
      BY <1>2, <1>6, NewAmounts, CodeOfCall DEF CreateCodes
    <3> QED BY <3>1 DEF CodeInv, CodeFields
  <2>5. ~Redeemed(c)' /\ ~At(c, "redeem", "claim")'
    BY <1>1, <2>1 DEF Redeemed, Redeems, At
  <2>6. ASSUME NEW d \in Calls, At(d, "redeem", "claim")'
        PROVE  mem'[d].row.amount = codes'[Ask'[d].code].amount
    BY <1>1, <2>2, <2>4, <2>5, <2>6, CodeOfCall, OtherCodeCalls DEF CodeInv
  <2>7. ASSUME NEW d \in Calls, Redeemed(d)'
        PROVE  /\ pc'[d] = "done" /\ codes'[Ask'[d].code].usedBy = Me(d)'
               /\ Redeemed(d) /\ Ask'[d] = Ask[d]
    BY <1>1, <2>2, <2>4, <2>5, <2>7, CodeOfCall, OtherCodeCalls DEF CodeInv
  <2>8. ASSUME NEW d \in Calls, CreatesCode(d)'
        PROVE  /\ ~codes'[Ask'[d].code].there /\ codes'[Ask'[d].code].usedBy = None
               /\ \A e \in Calls : ~(At(e, "redeem", "claim")' /\ Ask'[e].code = Ask'[d].code)
    <3>1. d # c
      BY <2>1, <2>8 DEF CreatesCode, At
    <3>2. CreatesCode(d) /\ Ask[d].code \in Codes \ {k} /\ Ask' = Ask
      BY <1>1, <2>3, <2>8, <3>1, CodeOfCall, OtherCodeCalls
    <3> QED BY <1>1, <2>4, <2>5, <3>2, OtherCodeCalls DEF CodeInv
  <2> QED BY <2>4, <2>6, <2>7, <2>8 DEF CodeInv
<1>7. CASE ReadInvalid(c) \/ DeleteInvalid(c)
  <2>1. Ask[c].op = "deleteInvalid"
    BY <1>7 DEF ReadInvalid, DeleteInvalid, At
  <2>2. DOMAIN codes' = Codes
        /\ \A j \in Codes : /\ DOMAIN codes'[j] = CodeFields
                            /\ codes'[j].there => codes[j].there
                            /\ codes'[j].amount = codes[j].amount
                            /\ codes'[j].usedBy = codes[j].usedBy
    <3>1. \/ UNCHANGED codes
          \/ codes' = [j \in Codes |-> [codes[j] EXCEPT !.there = @ /\ j \notin mem[c].ids]]
      BY <1>7 DEF ReadInvalid, DeleteInvalid, accountVars
    <3>2. \A j \in Codes : DOMAIN codes[j] = CodeFields
      BY DEF CodeInv
    <3>3. CASE UNCHANGED codes
      BY <3>3 DEF CodeInv
    <3>4. CASE codes' = [j \in Codes |-> [codes[j] EXCEPT !.there = @ /\ j \notin mem[c].ids]]
      <4>1. ASSUME NEW j \in Codes
            PROVE  /\ DOMAIN codes'[j] = CodeFields
                   /\ codes'[j].there => codes[j].there
                   /\ codes'[j].amount = codes[j].amount
                   /\ codes'[j].usedBy = codes[j].usedBy
        <5>1. PICK there : /\ codes'[j] = [codes[j] EXCEPT !.there = there]
                           /\ there => codes[j].there
          BY <3>4
        <5> QED BY <3>2, <5>1 DEF CodeFields
      <4> QED BY <3>4, <4>1
    <3> QED BY <3>1, <3>3, <3>4
  <2>3. CodeQuiet
    BY <1>1, <2>1, <2>2 DEF CodeQuiet, OnlyCall
  <2> QED BY <2>3, CodeQuietKeeps
<1> QED BY <1>4, <1>5, <1>6, <1>7 DEF CodeCall

\* A step outside of redemption.
LEMMA NoCodeCall ==
    ASSUME Calling, NEW c \in Calls, Step(c), ~CodeCall(c)
    PROVE  OnlyCall(c) /\ Ask[c].op \notin {"redeem", "createCode"} /\ UNCHANGED codes
BY LoginCalls, SessionCalls, UserCalls, RevealCalls, AdmissionCalls, AuthCalls, ChargeCalls,
   KeyCalls, DeletionCalls, ClockCalls DEF Step, accountVars

\* Outside of calls only a code's end touches the codes.
LEMMA CodesExpire ==
    ASSUME Calling, CodeInv, Expiry \/ UNCHANGED vars PROVE CodeQuiet
<1>1. NoCall
  BY ExpiryIsNoCall DEF vars, NoCall
<1>2. CASE CodeExpires
  BY <1>1, <1>2 DEF CodeExpires, NoCall, CodeInv, CodeFields, CodeQuiet
<1>3. CASE UNCHANGED codes
  BY <1>1, <1>3 DEF NoCall, CodeInv, CodeQuiet
<1> QED
  BY <1>2, <1>3 DEF Expiry, LoginExpires, RevealExpires, vars, accountVars

LEMMA CodeNext == ASSUME Calling, CodeInv, [Next]_vars PROVE CodeInv'
<1>1. ASSUME NEW c \in Calls, Step(c), ~CodeCall(c) PROVE CodeInv'
  <2>1. CodeQuiet
    BY <1>1, NoCodeCall DEF CodeQuiet, CodeInv, OnlyCall
  <2> QED BY <2>1, CodeQuietKeeps
<1> QED BY <1>1, CodeStep, CodesExpire, CodeQuietKeeps, NextSteps

-----------------------------------------------------------------------------
(* Balances *)

RowStages == {"policy", "fill", "judge", "key", "body", "balance", "charge"}

\* The rows that requests and the cache hold are rows of their keys; so a
\* request charges the user it belongs to.
RowsInv ==
    /\ \A k \in Keys : cache[k] # None => IsKeyRow(cache[k].row, k)
    /\ \A c \in Calls : Ask[c].op = "request" /\ pc[c] \in RowStages =>
          IsKeyRow(mem[c].row, Ask[c].key)

\* The entry shows the row it showed, or is gone.
SameRow(k) ==
    \/ cache'[k] = cache[k] \/ cache'[k] = None
    \/ cache[k] # None /\ cache'[k].row = cache[k].row

LEMMA DeletedRow == ASSUME NEW k, cache'[k] \in Deletions(cache[k]) PROVE SameRow(k)
BY DEF Deletions, Entry, SameRow

\* A step of one call that leaves the other rows alone.
LEMMA RowsKept ==
    ASSUME Calling, RowsInv, NEW c \in Calls, OnlyCall(c), \A k \in Keys : SameRow(k),
           \/ Ask[c].op # "request" \/ pc'[c] \notin RowStages
           \/ IsKeyRow(mem'[c].row, Ask[c].key)
    PROVE  RowsInv'
BY DEF RowsInv, OnlyCall, IsKeyRow, SameRow

LEMMA RowsStart == Init => RowsInv
BY DEF Init, StartAccounts, RowsInv, RowStages

LEMMA RowsAuth ==
    ASSUME Calling, CacheInv, RowsInv, NEW c \in Calls, AuthCall(c) PROVE RowsInv'
<1>1. OnlyCall(c) /\ Ask[c].op = "request" /\ Ask \in Asks
  BY AuthCalls DEF Calling
<1>2. PICK a \in Keys : a = Ask[c].key
  BY <1>1, GatewayAssumption
<1>3. CASE ReadKeyCache(c)
  <2>1. /\ UNCHANGED cache
        /\ pc'[c] \in RowStages => cache[a] # None /\ mem'[c].row = cache[a].row
    BY <1>2, <1>3 DEF ReadKeyCache, Refuse, gatewayVars, Calling, MemFields, At, Go, Keep,
                      RowStages
  <2> QED BY <1>1, <1>2, <2>1, RowsKept DEF RowsInv, SameRow
<1>4. CASE ReadKeyRow(c)
  <2>1. UNCHANGED cache /\ (pc'[c] \in RowStages => mem'[c].row = keys[a])
    BY <1>2, <1>4 DEF ReadKeyRow, Refuse, gatewayVars, Calling, MemFields, At, Go, Keep,
                      RowStages
  <2> QED BY <1>1, <1>2, <2>1, RowsKept DEF CacheInv, SameRow
<1>5. CASE PopulateAuthPolicy(c)
  <2>1. /\ UNCHANGED cache
        /\ \E policy, role, groups :
              mem' = [mem EXCEPT ![c].row.policy = policy, ![c].row.role = role,
                                 ![c].row.groups = groups]
    BY <1>5 DEF PopulateAuthPolicy, gatewayVars
  <2>2. PICK policy, role, groups :
           mem'[c].row = [[[mem[c].row EXCEPT !.policy = policy] EXCEPT !.role = role]
                              EXCEPT !.groups = groups]
    <3>1. PICK policy, role, groups :
             mem' = [mem EXCEPT ![c].row.policy = policy, ![c].row.role = role,
                                ![c].row.groups = groups]
      BY <2>1
    <3> DEFINE one == [mem EXCEPT ![c].row.policy = policy]
               two == [one EXCEPT ![c].row.role = role]
    <3>2. /\ DOMAIN one = Calls /\ DOMAIN one[c] = MemFields
          /\ one[c].row = [mem[c].row EXCEPT !.policy = policy]
      BY DEF Calling, MemFields
    <3>3. mem' = [two EXCEPT ![c].row.groups = groups]
      BY <3>1
    <3> HIDE DEF one
    <3>4. /\ DOMAIN two = Calls /\ DOMAIN two[c] = MemFields
          /\ two[c].row = [one[c].row EXCEPT !.role = role]
      BY <3>2 DEF MemFields
    <3> HIDE DEF two
    <3>5. mem'[c].row = [two[c].row EXCEPT !.groups = groups]
      BY <3>3, <3>4 DEF MemFields
    <3>6. mem'[c].row = [[[mem[c].row EXCEPT !.policy = policy] EXCEPT !.role = role]
                            EXCEPT !.groups = groups]
      BY <3>2, <3>4, <3>5, Zenon
    <3> QED BY <3>6, Zenon
  <2>3. IsKeyRow(mem[c].row, a)
    BY <1>1, <1>2, <1>5 DEF PopulateAuthPolicy, At, RowsInv, RowStages
  <2>4. IsKeyRow(mem'[c].row, a)
    BY <2>2, <2>3 DEF IsKeyRow, KeyFields
  <2> QED BY <1>1, <1>2, <2>1, <2>4, RowsKept DEF SameRow
<1>6. CASE FillKeyCache(c)
  <2>1. IsKeyRow(mem[c].row, a) /\ mem'[c] = mem[c]
    BY <1>1, <1>2, <1>6 DEF FillKeyCache, At, RowsInv, RowStages
  <2>2. /\ cache'[a].row = mem[c].row
        /\ \A k \in Keys \ {a} : cache'[k] = cache[k]
    BY <1>2, <1>6 DEF FillKeyCache, Entry, CacheInv
  <2> QED BY <1>1, <1>2, <2>1, <2>2 DEF RowsInv, OnlyCall, IsKeyRow
<1>7. CASE Authenticate(c) \/ ReadBody(c)
  <2>1. /\ UNCHANGED cache /\ pc[c] \in RowStages
        /\ mem'[c].row = mem[c].row
    BY <1>7 DEF Authenticate, ReadBody, Refuse, gatewayVars, Calling, MemFields, At, Go, Keep,
                RowStages
  <2> QED BY <1>1, <2>1, RowsKept DEF RowsInv, SameRow
<1> QED BY <1>3, <1>4, <1>5, <1>6, <1>7 DEF AuthCall

LEMMA RowsNext == ASSUME Calling, CacheInv, RowsInv, [Next]_vars PROVE RowsInv'
<1>1. ASSUME NEW c \in Calls, AdmissionCall(c) PROVE RowsInv'
  <2>1. OnlyCall(c) /\ Ask[c].op \in {"request", "firewall"} /\ UNCHANGED cache
    BY <1>1, AdmissionCalls DEF keyVars
  <2>2. CASE AdmitAPIKey(c)
    <3>1. pc[c] \in RowStages /\ mem'[c].row = mem[c].row
      BY <2>2 DEF AdmitAPIKey, Refuse, Calling, MemFields, At, Go, Keep, RowStages
    <3> QED BY <2>1, <3>1, RowsKept DEF RowsInv, SameRow
  <2>3. CASE ~AdmitAPIKey(c)
    <3>1. pc'[c] \notin RowStages
      BY <1>1, <2>3 DEF AdmissionCall, Arrive, GetRequestFirewallSettings, ApplySettings,
            UpdateRequestFirewallSettings, CacheSettings, AdmitClient, Leave,
            Calling, At, Go, End, RowStages
    <3> QED BY <2>1, <3>1, RowsKept DEF SameRow
  <2> QED BY <2>2, <2>3
<1>2. ASSUME NEW c \in Calls, ChargeCall(c) PROVE RowsInv'
  <2>1. OnlyCall(c) /\ Ask[c].op = "request" /\ Ask \in Asks
    BY <1>2, ChargeCalls DEF Calling
  <2>2. PICK a \in Keys : a = Ask[c].key
    BY <2>1, GatewayAssumption
  <2>3. ASSUME NEW k \in Keys PROVE SameRow(k)
    <3>1. \/ UNCHANGED cache
          \/ \E e \in Deletions(cache[a]) : cache' = [cache EXCEPT ![a] = e]
      BY <1>2, <2>2 DEF ChargeCall, CheckBalance, NotCharged, Charge, CommitCharge, keyVars,
                        gatewayVars
    <3>2. cache'[k] = cache[k] \/ cache'[k] \in Deletions(cache[k])
      BY <3>1 DEF CacheInv
    <3> QED BY <3>2, DeletedRow DEF SameRow
  <2>4. CASE CheckBalance(c)
    <3>1. pc[c] \in RowStages /\ mem'[c].row = mem[c].row
      BY <2>4 DEF CheckBalance, Refuse, Calling, MemFields, At, Go, Keep, RowStages
    <3> QED BY <2>1, <2>3, <3>1, RowsKept DEF RowsInv, SameRow
  <2>5. CASE ~CheckBalance(c)
    <3>1. pc'[c] \notin RowStages
      BY <1>2, <2>5 DEF ChargeCall, NotCharged, Charge, CommitCharge, Refuse,
            Calling, At, Go, RowStages
    <3> QED BY <2>1, <2>3, <3>1, RowsKept DEF SameRow
  <2> QED BY <2>4, <2>5
<1>3. ASSUME NEW c \in Calls, KeyCall(c) \/ DeletionCall(c) \/ ClockCall(c) PROVE RowsInv'
  <2>1. OnlyCall(c) /\ Ask[c].op # "request"
    BY <1>3, KeyCalls, DeletionCalls, ClockCalls
  <2>2. ASSUME NEW k \in Keys PROVE SameRow(k)
    <3>1. CASE KeyCall(c)
      <4>1. \/ UNCHANGED cache
            \/ \E a \in Keys : \E e \in Deletions(cache[a]) : cache' = [cache EXCEPT ![a] = e]
        <5>1. ClearKeyCache(c) => Ask[c].key \in Keys
          BY GatewayAssumption DEF Calling
        <5> QED BY <3>1, <5>1 DEF KeyCall, CreateKey, FindKey, WriteKey, RemoveKey, ClearKeyCache,
                                  RevealKey, gatewayVars
      <4>2. cache'[k] = cache[k] \/ cache'[k] \in Deletions(cache[k])
        BY <4>1 DEF CacheInv
      <4> QED BY <4>2, DeletedRow DEF SameRow
    <3>2. CASE DeletionCall(c)
      <4>1. cache'[k] = cache[k] \/ cache'[k] \in Deletions(cache[k])
        BY <3>2 DEF DeletionCall, ListUserKeys, DeleteUser, ClearUserKeys, Deletions, gatewayVars
      <4> QED BY <4>1, DeletedRow DEF SameRow
    <3>3. CASE ClockCall(c)
      BY <3>3 DEF ClockCall, Tick, Midnight, Expire, keyVars, CacheInv, SameRow
    <3> QED BY <1>3, <3>1, <3>2, <3>3
  <2> QED BY <2>1, <2>2, RowsKept DEF SameRow
<1>4. ASSUME NEW c \in Calls, OnlyCall(c), Ask[c].op # "request", UNCHANGED keyVars
      PROVE  RowsInv'
  BY <1>4, RowsKept DEF keyVars, SameRow
<1>5. ASSUME NEW c \in Calls, Step(c) PROVE RowsInv'
  <2>1. CASE CodeCall(c) /\ UNCHANGED keyVars
    BY <2>1, <1>4, CodeCalls
  <2>2. CASE (LoginCall(c) \/ SessionCall(c) \/ UserCall(c) \/ RevealCall(c))
              /\ UNCHANGED keyVars
    BY <2>2, <1>4, LoginCalls, SessionCalls, UserCalls, RevealCalls
  <2> QED BY <1>5, <1>1, <1>2, <1>3, <2>1, <2>2, RowsAuth DEF Step, gatewayVars, keyVars
<1>6. ASSUME NoCall, UNCHANGED keyVars PROVE RowsInv'
  BY <1>6 DEF NoCall, keyVars, RowsInv, IsKeyRow
<1> QED
  BY <1>5, <1>6, NextSteps, ExpiryIsNoCall DEF Expiry, gatewayVars, keyVars, vars, NoCall

UserFields == {"there", "enabled", "role", "over", "balance", "groups", "email"}

Amounts == [k \in Codes |-> codes[k].amount]
Prices == [c \in Calls |-> Ask[c].amount]

InCharge(c) == At(c, "request", "commit")
Charged(c) == Ask[c].op = "request" /\ mem[c].result = "ok"

\* The balance of a user whose balance nobody sets, while a charge is under way.
BalanceOf(u) ==
    /\ users[u].balance \in Int
    /\ users[u].balance = Account[u].balance + Total(Amounts, Used(u)) - Total(Prices, Paid(u))
    /\ users[u].balance >= 0
    /\ \A c \in Calls : InCharge(c) /\ Me(c) = u => users[u].balance >= Ask[c].amount

\* One charge of a user at a time, and a request is charged at its end.
BalanceInv ==
    /\ DOMAIN users = Users
    /\ \A u \in Users : DOMAIN users[u] = UserFields
    /\ \A c, d \in Calls : InCharge(c) /\ InCharge(d) /\ Me(c) = Me(d) => c = d
    /\ \A c \in Calls : Charged(c) => pc[c] \in {"leave", "done"}
    /\ \A u \in Users : Untouched(u) => BalanceOf(u)

LEMMA SumsOfUser ==
    ASSUME Calling, CodeInv, NEW u
    PROVE  /\ IsFiniteSet(Used(u)) /\ IsFiniteSet(Paid(u))
           /\ \A k \in Codes : Amounts[k] \in Nat
           /\ \A c \in Paid(u) : Prices[c] \in Nat
<1>1. Used(u) \in SUBSET Codes /\ Paid(u) \in SUBSET Calls
  BY DEF Used, Paid, Succeeded, Asking
<1>2. IsFiniteSet(Used(u)) /\ IsFiniteSet(Paid(u))
  BY <1>1, AccountAssumption, FS_Subset
<1>3. \A c \in Paid(u) : Prices[c] \in Nat
  BY AccountAssumption DEF Paid, Succeeded, Asking, Prices, Calling
<1> QED BY <1>2, <1>3 DEF CodeInv, Amounts

\* What a step may do to balances without changing what they add up to.
BalanceQuiet ==
    /\ Ask' = Ask
    /\ DOMAIN users' = Users
    /\ \A u \in Users : /\ DOMAIN users'[u] = UserFields
                        /\ Untouched(u) => users'[u].balance = users[u].balance
    /\ \A k \in Codes : /\ codes'[k].usedBy = codes[k].usedBy
                        /\ codes[k].usedBy # None => codes'[k].amount = codes[k].amount
    /\ \A c \in Calls : /\ Charged(c)' <=> Charged(c)
                        /\ Charged(c)' => pc'[c] \in {"leave", "done"}
                        /\ InCharge(c)' => InCharge(c)

LEMMA AskKept ==
    ASSUME Ask' = Ask
    PROVE  /\ Prices' = Prices
           /\ \A u : Untouched(u)' <=> Untouched(u)
           /\ \A c : Me(c)' = Me(c)
BY DEF Prices, Untouched, Asking, Me

LEMMA BalanceQuietKeeps == ASSUME Calling, CodeInv, BalanceInv, BalanceQuiet PROVE BalanceInv'
<1>1. /\ Ask' = Ask /\ Prices' = Prices
      /\ \A u : Untouched(u)' <=> Untouched(u)
      /\ \A c : Me(c)' = Me(c)
  BY AskKept DEF BalanceQuiet
<1>2. \A u \in Users : Used(u)' = Used(u) /\ Paid(u)' = Paid(u)
  BY <1>1 DEF BalanceQuiet, Used, Paid, Succeeded, Asking, Charged
<1>3. \A u \in Users : Total(Amounts, Used(u))' = Total(Amounts, Used(u))
  <2> SUFFICES ASSUME NEW u \in Users PROVE Total(Amounts, Used(u))' = Total(Amounts, Used(u))
    OBVIOUS
  <2>1. \A k \in Used(u) : Amounts'[k] = Amounts[k]
    BY AccountAssumption DEF Used, Amounts, BalanceQuiet
  <2>2. Total(Amounts', Used(u)) = Total(Amounts, Used(u))
    BY <2>1, TotalAgrees
  <2>3. Total(Amounts, Used(u))' = Total(Amounts', Used(u)')
    BY DEF Total, Units
  <2> QED BY <1>2, <2>2, <2>3
<1>4. \A u \in Users : Total(Prices, Paid(u))' = Total(Prices, Paid(u))
  BY <1>1, <1>2 DEF Total, Units
<1>5. ASSUME NEW u \in Users, Untouched(u)' PROVE BalanceOf(u)'
  BY <1>1, <1>3, <1>4, <1>5 DEF BalanceInv, BalanceOf, BalanceQuiet
<1> QED BY <1>1, <1>5 DEF BalanceInv, BalanceQuiet

LEMMA BalanceStart == Init => BalanceInv
<1> SUFFICES ASSUME Init PROVE BalanceInv
  OBVIOUS
<1>1. /\ users = Account
      /\ \A c \in Calls : pc[c] = "start" /\ mem[c] = NewMem
      /\ \A k \in Codes : codes[k].usedBy = None
  BY DEF Init, StartAccounts
<1>2. NewMem.result # "ok"
  BY DEF NewMem
<1>3. DOMAIN users = Users /\ \A u \in Users : DOMAIN users[u] = UserFields
                                             /\ users[u].balance \in Nat
  BY <1>1, AccountAssumption DEF UserRow, UserFields
<1>4. \A u \in Users : Used(u) = {} /\ Paid(u) = {}
  BY <1>1, <1>2, AccountAssumption DEF Used, Paid, Succeeded, Asking
<1>5. \A c \in Calls : ~InCharge(c) /\ ~Charged(c)
  BY <1>1, <1>2 DEF InCharge, At, Charged
<1>6. ASSUME NEW u \in Users PROVE BalanceOf(u)
  <2>1. Total(Amounts, Used(u)) = 0 /\ Total(Prices, Paid(u)) = 0
    BY <1>4, TotalOfNone
  <2> QED BY <1>1, <1>3, <1>5, <2>1 DEF BalanceOf
<1> QED BY <1>3, <1>5, <1>6 DEF BalanceInv

\* A call of another operation than the request, which sets no balance of a user
\* that counts.
LEMMA NoRequestQuiet ==
    ASSUME Calling, CodeInv, BalanceInv, NEW c \in Calls, OnlyCall(c), Ask[c].op # "request",
           DOMAIN users' = Users,
           \A u \in Users : /\ DOMAIN users'[u] = UserFields
                            /\ Untouched(u) => users'[u].balance = users[u].balance,
           \A k \in Codes : /\ codes'[k].usedBy = codes[k].usedBy
                            /\ codes[k].usedBy # None => codes'[k].amount = codes[k].amount
    PROVE  BalanceInv'
<1>1. \A d \in Calls : /\ Charged(d)' <=> Charged(d)
                       /\ InCharge(d)' <=> InCharge(d)
                       /\ Charged(d)' => pc'[d] \in {"leave", "done"}
  BY DEF OnlyCall, Charged, InCharge, At, BalanceInv
<1>2. BalanceQuiet
  BY <1>1 DEF BalanceQuiet, OnlyCall
<1> QED BY <1>2, BalanceQuietKeeps

\* A redemption that succeeds adds the amount of its code.
LEMMA BalanceClaim ==
    ASSUME Calling, CodeInv, BalanceInv, NEW c \in Calls, Claim(c) PROVE BalanceInv'
<1>1. OnlyCall(c) /\ Ask' = Ask /\ Ask[c].op = "redeem" /\ CodeCall(c)
  BY CodeCalls DEF OnlyCall, CodeCall, Claim, At
<1>2. PICK k \in Codes : k = Ask[c].code
  BY CodeOfCall
<1>3. PICK u \in Users : u = Me(c) /\ u # None
  BY CodeOfCall, AccountAssumption
<1>4. CASE mem'[c].result # "ok"
  <2>1. UNCHANGED <<users, codes>>
    BY <1>4 DEF Claim, End, Keep, Calling, MemFields
  <2> QED BY <1>1, <2>1, NoRequestQuiet DEF BalanceInv
<1>5. CASE mem'[c].result = "ok"
  <2>1. PICK n \in Nat : n = codes[k].amount /\ n = mem[c].row.amount
    BY <1>2 DEF CodeInv, Claim
  <2>2. /\ codes[k].usedBy = None /\ ~Charging(u)
        /\ codes' = [codes EXCEPT ![k].usedBy = u]
        /\ users' = [users EXCEPT ![u].balance = users[u].balance + n]
    BY <1>2, <1>3, <1>5, <2>1 DEF Claim, Claimable, End, Keep, Calling, MemFields, BalanceInv
  <2>3. /\ DOMAIN users' = Users
        /\ \A v \in Users : /\ DOMAIN users'[v] = UserFields
                            /\ users'[v].balance = IF v = u THEN users[v].balance + n
                                                   ELSE users[v].balance
    BY <2>2 DEF BalanceInv, UserFields
  <2>4. \A j \in Codes : /\ codes'[j].amount = codes[j].amount
                         /\ codes'[j].usedBy = IF j = k THEN u ELSE codes[j].usedBy
    BY <2>2 DEF CodeInv, CodeFields
  <2>5. \A d \in Calls : /\ Charged(d)' <=> Charged(d)
                         /\ InCharge(d)' <=> InCharge(d)
                         /\ Charged(d)' => pc'[d] \in {"leave", "done"}
    BY <1>1 DEF OnlyCall, Charged, InCharge, At, BalanceInv
  <2>6. /\ Prices' = Prices
        /\ \A v : Untouched(v)' <=> Untouched(v)
        /\ \A d : Me(d)' = Me(d)
    BY <1>1, AskKept
  <2>7. Amounts' = Amounts
    BY <2>4 DEF Amounts
  <2>8. ASSUME NEW v \in Users, Untouched(v) PROVE BalanceOf(v)'
    <3>1. Paid(v)' = Paid(v)
      BY <1>1, <2>5, <2>6 DEF Paid, Succeeded, Asking, Charged
    <3>2. BalanceOf(v)
      BY <2>8 DEF BalanceInv
    <3>3. CASE v # u
      <4>1. Used(v)' = Used(v)
        BY <1>3, <2>2, <2>4, <3>3, AccountAssumption DEF Used
      <4>2. Total(Amounts, Used(v))' = Total(Amounts, Used(v))
            /\ Total(Prices, Paid(v))' = Total(Prices, Paid(v))
        BY <2>6, <2>7, <3>1, <4>1 DEF Total, Units
      <4> QED BY <1>1, <2>3, <2>5, <2>6, <3>2, <3>3, <4>2 DEF BalanceOf
    <3>4. CASE v = u
      <4>1. Used(v)' = Used(v) \cup {k} /\ k \notin Used(v)
        BY <1>3, <2>2, <2>4, <3>4 DEF Used
      <4>2. Total(Amounts, Used(v) \cup {k}) = Total(Amounts, Used(v)) + n
        <5>1. IsFiniteSet(Used(v)) /\ Amounts[k] = n /\ \A x \in Used(v) : Amounts[x] \in Nat
          BY <2>1, SumsOfUser DEF Amounts, Used
        <5> QED BY <4>1, <5>1, TotalAdd
      <4>3. Total(Amounts, Used(v))' = Total(Amounts, Used(v)) + n
            /\ Total(Prices, Paid(v))' = Total(Prices, Paid(v))
        BY <2>6, <2>7, <3>1, <4>1, <4>2 DEF Total, Units
      <4>4. \A d \in Calls : InCharge(d) => Me(d) # v
        BY <2>2, <3>4 DEF Charging, InCharge
      <4>5. Total(Amounts, Used(v)) \in Nat /\ Total(Prices, Paid(v)) \in Nat
        BY SumsOfUser, UnitsFinite DEF Used
      <4>6. Account[v].balance \in Int
        BY AccountAssumption DEF UserRow
      <4> QED BY <1>1, <2>1, <2>3, <2>5, <2>6, <3>2, <3>4, <4>3, <4>4, <4>5, <4>6
              DEF BalanceOf
    <3> QED BY <3>3, <3>4
  <2> QED BY <2>3, <2>5, <2>6, <2>8 DEF BalanceInv
<1> QED BY <1>4, <1>5

\* A charge that is committed takes what its request costs.
LEMMA BalanceCommit ==
    ASSUME Calling, CodeInv, BalanceInv, NEW c \in Calls, CommitCharge(c) PROVE BalanceInv'
<1>1. OnlyCall(c) /\ Ask' = Ask /\ Ask[c].op = "request" /\ UNCHANGED codes /\ Ask \in Asks
  BY ChargeCalls DEF OnlyCall, ChargeCall, Calling
<1>2. PICK n \in Nat : n = Ask[c].amount
  BY <1>1, AccountAssumption
<1>3. PICK u \in Users : u = Me(c)
  BY CodeOfCall
<1>4. /\ pc[c] = "commit" /\ pc'[c] = "leave" /\ mem'[c].result = "ok"
      /\ users' = [users EXCEPT ![u].balance = users[u].balance - n]
  BY <1>2, <1>3 DEF CommitCharge, Refuse, At, Go, Keep, Calling, MemFields, BalanceInv
<1>5. /\ InCharge(c) /\ ~InCharge(c)' /\ ~Charged(c) /\ Charged(c)'
      /\ \A d \in Calls \ {c} : /\ Charged(d)' <=> Charged(d)
                                /\ InCharge(d)' <=> InCharge(d)
                                /\ pc'[d] = pc[d]
  BY <1>1, <1>4 DEF OnlyCall, Charged, InCharge, At, BalanceInv
<1>6. \A d \in Calls \ {c} : InCharge(d) => Me(d) # u
  BY <1>3, <1>5 DEF BalanceInv
<1>7. /\ DOMAIN users' = Users
      /\ \A v \in Users : /\ DOMAIN users'[v] = UserFields
                          /\ users'[v].balance = IF v = u THEN users[v].balance - n
                                                 ELSE users[v].balance
  BY <1>4 DEF BalanceInv, UserFields
<1>8. /\ Prices' = Prices /\ Amounts' = Amounts
      /\ \A v : Untouched(v)' <=> Untouched(v)
      /\ \A d : Me(d)' = Me(d)
  BY <1>1, AskKept DEF Amounts
<1>9. ASSUME NEW v \in Users, Untouched(v) PROVE BalanceOf(v)'
  <2>1. BalanceOf(v) /\ Used(v)' = Used(v)
    BY <1>1, <1>9 DEF BalanceInv, Used
  <2>2. CASE v # u
    <3>1. Paid(v)' = Paid(v)
      BY <1>1, <1>3, <1>5, <1>8, <2>2 DEF Paid, Succeeded, Asking, Charged
    <3>2. Total(Amounts, Used(v))' = Total(Amounts, Used(v))
          /\ Total(Prices, Paid(v))' = Total(Prices, Paid(v))
      BY <1>8, <2>1, <3>1 DEF Total, Units
    <3> QED BY <1>1, <1>5, <1>7, <1>8, <2>1, <2>2, <3>2 DEF BalanceOf
  <2>3. CASE v = u
    <3>1. Paid(v)' = Paid(v) \cup {c} /\ c \notin Paid(v)
      BY <1>1, <1>3, <1>5, <1>8, <2>3 DEF Paid, Succeeded, Asking, Charged
    <3>2. Total(Prices, Paid(v) \cup {c}) = Total(Prices, Paid(v)) + n
      <4>1. IsFiniteSet(Paid(v)) /\ Prices[c] = n /\ \A x \in Paid(v) : Prices[x] \in Nat
        BY <1>2, SumsOfUser DEF Prices
      <4> QED BY <3>1, <4>1, TotalAdd
    <3>3. Total(Prices, Paid(v))' = Total(Prices, Paid(v)) + n
          /\ Total(Amounts, Used(v))' = Total(Amounts, Used(v))
      BY <1>8, <2>1, <3>1, <3>2 DEF Total, Units
    <3>4. users[v].balance >= n
      BY <1>2, <1>3, <1>5, <2>1, <2>3 DEF BalanceOf
    <3>5. Total(Amounts, Used(v)) \in Nat /\ Total(Prices, Paid(v)) \in Nat
      BY SumsOfUser, UnitsFinite DEF Used
    <3>6. Account[v].balance \in Int
      BY AccountAssumption DEF UserRow
    <3>7. \A d \in Calls : InCharge(d)' => Me(d) # v
      BY <1>5, <1>6, <2>3
    <3> QED BY <1>2, <1>7, <1>8, <2>1, <2>3, <3>3, <3>4, <3>5, <3>6, <3>7 DEF BalanceOf
  <2> QED BY <2>2, <2>3
<1>10. \A d \in Calls : Charged(d)' => pc'[d] \in {"leave", "done"}
  BY <1>4, <1>5 DEF BalanceInv
<1> QED BY <1>5, <1>7, <1>8, <1>9, <1>10 DEF BalanceInv

\* A charge that begins finds what it takes, and no other of its user.
LEMMA BalanceCharge ==
    ASSUME Calling, CodeInv, RowsInv, BalanceInv, NEW c \in Calls, Charge(c) PROVE BalanceInv'
<1>1. OnlyCall(c) /\ Ask' = Ask /\ Ask[c].op = "request" /\ Ask \in Asks
      /\ UNCHANGED <<users, codes>> /\ pc[c] = "charge"
  BY ChargeCalls DEF OnlyCall, ChargeCall, Calling, Charge, At, accountVars
<1>2. PICK u \in Users : u = Me(c)
  BY CodeOfCall
<1>3. mem[c].row.owner = u
  BY <1>1, <1>2, GatewayAssumption DEF RowsInv, RowStages, IsKeyRow, Me
<1>4. ~InCharge(c) /\ ~Charged(c) /\ (\A d \in Calls : InCharge(d) => Me(d) # u)
  BY <1>1, <1>3 DEF InCharge, Charged, BalanceInv, Charge, Charging, At
<1>5. ~Charged(c)'
  BY <1>1, <1>4 DEF Charge, Refuse, Charged, Keep, Calling, MemFields
<1>6. CASE pc'[c] # "commit"
  <2>1. \A d \in Calls : /\ Charged(d)' <=> Charged(d)
                         /\ InCharge(d)' => InCharge(d)
                         /\ Charged(d)' => pc'[d] \in {"leave", "done"}
    BY <1>1, <1>4, <1>5, <1>6 DEF OnlyCall, Charged, InCharge, At, BalanceInv
  <2>2. BalanceQuiet
    BY <1>1, <2>1 DEF BalanceQuiet, BalanceInv
  <2> QED BY <2>2, BalanceQuietKeeps
<1>7. CASE pc'[c] = "commit"
  <2>1. ~(users[u].balance < Ask[c].amount)
    BY <1>3, <1>7 DEF Charge, Refuse, Calling, Go
  <2>2. \A d \in Calls : /\ Charged(d)' <=> Charged(d)
                         /\ InCharge(d)' <=> InCharge(d) \/ d = c
                         /\ Charged(d)' => pc'[d] \in {"leave", "done"}
    BY <1>1, <1>4, <1>5, <1>7 DEF OnlyCall, Charged, InCharge, At, BalanceInv
  <2>3. /\ Prices' = Prices /\ Amounts' = Amounts
        /\ \A v : Untouched(v)' <=> Untouched(v)
        /\ \A d : Me(d)' = Me(d)
    BY <1>1, AskKept DEF Amounts
  <2>4. ASSUME NEW v \in Users, Untouched(v) PROVE BalanceOf(v)'
    <3>1. BalanceOf(v) /\ Used(v)' = Used(v)
      BY <1>1, <2>4 DEF BalanceInv, Used
    <3>2. Paid(v)' = Paid(v)
      BY <1>1, <2>2, <2>3 DEF Paid, Succeeded, Asking, Charged
    <3>3. Total(Amounts, Used(v))' = Total(Amounts, Used(v))
          /\ Total(Prices, Paid(v))' = Total(Prices, Paid(v))
      BY <2>3, <3>1, <3>2 DEF Total, Units
    <3>4. \A d \in Calls : InCharge(d)' /\ Me(d) = v => users[v].balance >= Ask[d].amount
      BY <1>2, <2>1, <2>2, <3>1, CodeOfCall DEF BalanceOf
    <3> QED BY <1>1, <2>3, <3>1, <3>3, <3>4 DEF BalanceOf
  <2>5. \A d, e \in Calls : InCharge(d)' /\ InCharge(e)' /\ Me(d) = Me(e) => d = e
    BY <1>2, <1>4, <2>2 DEF BalanceInv
  <2> QED BY <1>1, <2>2, <2>3, <2>4, <2>5 DEF BalanceInv
<1> QED BY <1>6, <1>7

\* The other steps of a request.
LEMMA BalanceRequest ==
    ASSUME Calling, CodeInv, BalanceInv, NEW c \in Calls,
           AdmissionCall(c) \/ AuthCall(c) \/ CheckBalance(c) \/ NotCharged(c)
    PROVE  BalanceInv'
<1>1. OnlyCall(c) /\ Ask' = Ask /\ UNCHANGED <<users, codes>>
  BY AdmissionCalls, AuthCalls, ChargeCalls
     DEF OnlyCall, ChargeCall, accountVars, CheckBalance, NotCharged
<1>2. CASE Ask[c].op # "request"
  BY <1>1, <1>2, NoRequestQuiet DEF BalanceInv
<1>3. CASE Ask[c].op = "request"
  <2>1. pc'[c] # "commit"
    <3>1. CASE AdmissionCall(c)
      BY <1>3, <3>1 DEF AdmissionCall, Arrive, GetRequestFirewallSettings, ApplySettings,
            UpdateRequestFirewallSettings, CacheSettings, AdmitClient, AdmitAPIKey, Leave,
            Refuse, Calling, At, Go, End
    <3>2. CASE AuthCall(c)
      BY <3>2 DEF AuthCall, ReadKeyCache, ReadKeyRow, PopulateAuthPolicy, FillKeyCache,
            Authenticate, ReadBody, Refuse, Calling, At, Go
    <3>3. CASE CheckBalance(c) \/ NotCharged(c)
      BY <3>3 DEF CheckBalance, NotCharged, Refuse, Calling, At, Go
    <3> QED BY <3>1, <3>2, <3>3
  <2>2. /\ Charged(c)' <=> Charged(c)
        /\ Charged(c)' => pc'[c] \in {"leave", "done"}
    <3>1. CASE Leave(c)
      <4>1. mem'[c].result = mem[c].result /\ pc'[c] = "done"
        BY <3>1 DEF Leave, Calling, MemFields, Go
      <4> QED BY <1>1, <4>1 DEF Charged
    <3>2. CASE ~Leave(c)
      <4>1. pc[c] \notin {"leave", "done"}
            /\ (mem'[c].result = mem[c].result \/ mem'[c].result # "ok")
        <5>1. CASE AdmissionCall(c)
          BY <1>3, <3>2, <5>1 DEF AdmissionCall, Arrive, GetRequestFirewallSettings,
                ApplySettings, UpdateRequestFirewallSettings, CacheSettings, AdmitClient,
                AdmitAPIKey, Refuse, Calling, MemFields, At, Keep, End
        <5>2. CASE AuthCall(c)
          <6>1. CASE PopulateAuthPolicy(c)
            <7>1. PICK policy, role, groups :
                     mem' = [mem EXCEPT ![c].row.policy = policy, ![c].row.role = role,
                                        ![c].row.groups = groups]
              BY <6>1 DEF PopulateAuthPolicy
            <7>2. mem'[c].result = mem[c].result
              BY <7>1 DEF Calling, MemFields
            <7> QED BY <6>1, <7>2 DEF PopulateAuthPolicy, At
          <6>2. CASE ~PopulateAuthPolicy(c)
            BY <5>2, <6>2 DEF AuthCall, ReadKeyCache, ReadKeyRow, FillKeyCache,
                  Authenticate, ReadBody, Refuse, Calling, MemFields, At, Keep
          <6> QED BY <6>1, <6>2
        <5>3. CASE CheckBalance(c) \/ NotCharged(c)
          BY <5>3 DEF CheckBalance, NotCharged, Refuse, Calling, MemFields, At, Keep
        <5> QED BY <5>1, <5>2, <5>3
      <4> QED BY <1>1, <1>3, <4>1 DEF Charged, BalanceInv
    <3> QED BY <3>1, <3>2
  <2>3. \A d \in Calls : /\ Charged(d)' <=> Charged(d)
                         /\ InCharge(d)' => InCharge(d)
                         /\ Charged(d)' => pc'[d] \in {"leave", "done"}
    BY <1>1, <2>1, <2>2 DEF OnlyCall, Charged, InCharge, At, BalanceInv
  <2>4. BalanceQuiet
    BY <1>1, <2>3 DEF BalanceQuiet, BalanceInv
  <2> QED BY <2>4, BalanceQuietKeeps
<1> QED BY <1>2, <1>3

\* Codes that are listed, deleted or created, and logins.
LEMMA BalanceCodes ==
    ASSUME Calling, CodeInv, BalanceInv, NEW c \in Calls, CodeCall(c), ~Claim(c)
    PROVE  BalanceInv'
<1>1. OnlyCall(c) /\ Ask[c].op # "request" /\ UNCHANGED users
  BY CodeCalls DEF CodeCall, ReadCode, ReadInvalid, DeleteInvalid, CreateCodes, accountVars
<1>2. \A k \in Codes : /\ codes'[k].usedBy = codes[k].usedBy
                       /\ codes[k].usedBy # None => codes'[k].amount = codes[k].amount
  <2>1. CASE ReadCode(c) \/ ReadInvalid(c)
    BY <2>1 DEF ReadCode, ReadInvalid, accountVars
  <2>2. CASE DeleteInvalid(c)
    <3> SUFFICES ASSUME NEW k \in Codes
                 PROVE  codes'[k].usedBy = codes[k].usedBy /\ codes'[k].amount = codes[k].amount
      OBVIOUS
    <3>1. PICK there : codes'[k] = [codes[k] EXCEPT !.there = there]
      BY <2>2 DEF DeleteInvalid
    <3> QED BY <3>1 DEF CodeInv, CodeFields
  <2>3. CASE CreateCodes(c)
    <3>1. CreatesCode(c)
      BY <2>3 DEF CreatesCode, CreateCodes
    <3>2. codes[Ask[c].code].usedBy = None /\ Ask[c].code \in Codes
      BY <3>1, CodeOfCall DEF CodeInv
    <3>3. \/ UNCHANGED codes
          \/ codes' = [codes EXCEPT ![Ask[c].code] =
                          [there |-> TRUE, amount |-> Ask[c].amount, expired |-> FALSE,
                           usedBy |-> None]]
      BY <2>3 DEF CreateCodes
    <3> QED BY <3>2, <3>3 DEF CodeInv
  <2> QED BY <2>1, <2>2, <2>3 DEF CodeCall
<1> QED BY <1>1, <1>2, NoRequestQuiet DEF BalanceInv

LEMMA BalanceLogin ==
    ASSUME Calling, CodeInv, BalanceInv, NEW c \in Calls, LoginCall(c) PROVE BalanceInv'
<1>1. OnlyCall(c) /\ Ask[c].op \in {"login", "callback"} /\ UNCHANGED codes
  BY LoginCalls
<1>2. PICK u \in Users : u = Me(c)
  BY CodeOfCall
<1>3. \/ UNCHANGED users
      \/ /\ Ask[c].op = "callback"
         /\ \/ users' = [users EXCEPT ![u] =
                            [there |-> TRUE, enabled |-> TRUE, role |-> mem[c].role,
                             over |-> None, balance |-> 0, groups |-> 0, email |-> FALSE]]
            \/ \E role : users' = [users EXCEPT ![u].role = role]
  BY <1>2 DEF LoginCall, BeginLogin, TakeState, ExchangeCode, AccountDisabled, FindUser,
              InsertUser, CheckOverride, RefreshUser, accountVars, At
<1>4. Ask[c].op = "callback" => ~Untouched(u)
  BY <1>2 DEF Untouched, Asking
<1>5. /\ DOMAIN users' = Users
      /\ \A v \in Users : /\ DOMAIN users'[v] = UserFields
                          /\ Untouched(v) => users'[v].balance = users[v].balance
  BY <1>3, <1>4 DEF BalanceInv, UserFields
<1> QED BY <1>1, <1>5, NoRequestQuiet

\* The administration of users.
LEMMA BalanceUsers ==
    ASSUME Calling, CodeInv, BalanceInv, NEW c \in Calls, UserCall(c) PROVE BalanceInv'
<1>1. /\ OnlyCall(c) /\ UNCHANGED codes
      /\ Ask[c].op \in {"setAdmin", "setBalance", "setGroups", "setProfile"}
  BY UserCalls
<1>2. PICK u \in Users : u = Me(c)
  BY CodeOfCall
<1>3. \/ UNCHANGED users
      \/ \E over, role : users' = [users EXCEPT ![u].over = over, ![u].role = role]
      \/ \E n : users' = [users EXCEPT ![u].groups = n]
      \/ \E email : users' = [users EXCEPT ![u].email = email]
      \/ Ask[c].op = "setBalance" /\ \E n : users' = [users EXCEPT ![u].balance = n]
  <2>1. CASE SetAdmin(c)
    BY <1>2, <2>1 DEF SetAdmin
  <2>2. CASE FindForBalance(c) \/ VerifyChannelGroups(c)
    BY <2>2 DEF FindForBalance, VerifyChannelGroups, accountVars
  <2>3. CASE UpdateBalance(c)
    BY <1>2, <2>3 DEF UpdateBalance, At
  <2>4. CASE ReplaceChannelGroups(c)
    BY <1>2, <2>4 DEF ReplaceChannelGroups
  <2>5. CASE UpdateProfile(c)
    BY <1>2, <2>5 DEF UpdateProfile
  <2> QED BY <2>1, <2>2, <2>3, <2>4, <2>5 DEF UserCall
<1>4. Ask[c].op = "setBalance" => ~Untouched(u)
  BY <1>2 DEF Untouched, Asking
<1>5. /\ DOMAIN users' = Users
      /\ \A v \in Users : /\ DOMAIN users'[v] = UserFields
                          /\ Untouched(v) => users'[v].balance = users[v].balance
  <2>1. DOMAIN users = Users /\ \A v \in Users : DOMAIN users[v] = UserFields
    BY DEF BalanceInv
  <2>2. CASE \E over, role : users' = [users EXCEPT ![u].over = over, ![u].role = role]
    <3>1. PICK over, role : users' = [users EXCEPT ![u].over = over, ![u].role = role]
      BY <2>2
    <3> QED BY <2>1, <3>1 DEF UserFields
  <2>3. CASE (\E n : users' = [users EXCEPT ![u].groups = n])
              \/ (\E email : users' = [users EXCEPT ![u].email = email])
    BY <2>1, <2>3 DEF UserFields
  <2>4. CASE Ask[c].op = "setBalance" /\ \E n : users' = [users EXCEPT ![u].balance = n]
    BY <1>4, <2>1, <2>4 DEF UserFields
  <2> QED BY <1>3, <2>1, <2>2, <2>3, <2>4
<1> QED BY <1>1, <1>5, NoRequestQuiet

LEMMA BalanceDeletion ==
    ASSUME Calling, CodeInv, BalanceInv, NEW c \in Calls, DeletionCall(c) PROVE BalanceInv'
<1>1. OnlyCall(c) /\ Ask[c].op = "deleteUser" /\ UNCHANGED codes
  BY DeletionCalls
<1>2. \/ UNCHANGED users \/ users' = [users EXCEPT ![Me(c)].there = FALSE]
  BY DEF DeletionCall, ListUserKeys, DeleteUser, ClearUserKeys, accountVars
<1>3. /\ DOMAIN users' = Users
      /\ \A v \in Users : /\ DOMAIN users'[v] = UserFields
                          /\ users'[v].balance = users[v].balance
  BY <1>2 DEF BalanceInv, UserFields
<1> QED BY <1>1, <1>3, NoRequestQuiet

LEMMA BalanceNext ==
    ASSUME Calling, CodeInv, RowsInv, BalanceInv, [Next]_vars PROVE BalanceInv'
<1>1. ASSUME NEW c \in Calls, OnlyCall(c), Ask[c].op # "request", UNCHANGED <<users, codes>>
      PROVE  BalanceInv'
  BY <1>1, NoRequestQuiet DEF BalanceInv
<1>2. ASSUME NEW c \in Calls, Step(c) PROVE BalanceInv'
  <2>1. CASE CodeCall(c)
    BY <2>1, BalanceClaim, BalanceCodes
  <2>2. CASE SessionCall(c) \/ RevealCall(c)
    BY <2>2, <1>1, SessionCalls, RevealCalls
  <2>3. CASE ChargeCall(c)
    BY <2>3, BalanceCharge, BalanceCommit, BalanceRequest DEF ChargeCall
  <2>4. CASE KeyCall(c) \/ ClockCall(c)
    BY <2>4, <1>1, KeyCalls, ClockCalls DEF accountVars
  <2> QED
    BY <1>2, <2>1, <2>2, <2>3, <2>4, BalanceLogin, BalanceUsers, BalanceRequest,
       BalanceDeletion DEF Step
<1>3. CASE Expiry \/ UNCHANGED vars
  <2>1. CodeQuiet /\ NoCall /\ UNCHANGED users
    BY <1>3, CodesExpire, ExpiryIsNoCall
       DEF Expiry, CodeExpires, LoginExpires, RevealExpires, vars, accountVars, NoCall
  <2>2. BalanceQuiet
    BY <2>1 DEF CodeQuiet, NoCall, BalanceQuiet, BalanceInv, Charged, InCharge, At
  <2> QED BY <2>2, BalanceQuietKeeps
<1> QED BY <1>2, <1>3, NextSteps

\* However redemptions, charges, deletions and logins interleave, a code pays once, and
\* the balance of a user whose balance nobody sets is what its codes brought less what
\* its requests cost, and is never negative.
THEOREM CodesArePaidOnce == Spec => []CodesPayOnce
<1>1. CodeInv /\ BalanceInv => CodesPayOnce
  <2> SUFFICES ASSUME CodeInv, BalanceInv PROVE CodesPayOnce
    OBVIOUS
  <2>1. ASSUME NEW k \in Codes
        PROVE  Cardinality({c \in Succeeded("redeem") : Ask[c].code = k}) <= 1
    <3> DEFINE S == {c \in Succeeded("redeem") : Ask[c].code = k}
    <3>1. \A c, d \in S : c = d
      BY DEF CodeInv, Succeeded, Asking, Redeemed, Redeems
    <3> HIDE DEF S
    <3>2. S = {} \/ \E c : S = {c}
      BY <3>1
    <3>3. Cardinality(S) \in {0, 1}
      BY <3>2, FS_EmptySet, FS_Singleton, Zenon
    <3> QED BY <3>3 DEF S
  <2>2. \A u \in Users : Untouched(u) =>
           /\ users[u].balance = Account[u].balance
                 + Total([k \in Codes |-> codes[k].amount], Used(u))
                 - Total([c \in Calls |-> Ask[c].amount], Paid(u))
           /\ users[u].balance >= 0
    BY DEF BalanceInv, BalanceOf, Amounts, Prices
  <2> QED BY <2>1, <2>2 DEF CodesPayOnce
<1> QED
  BY CodeStart, CodeNext, RowsStart, RowsNext, BalanceStart, BalanceNext,
     CacheStart, CacheNext, CallsAreCalls, <1>1, PTL DEF Spec

-----------------------------------------------------------------------------
(* Admissions *)

EntryFields == {"active", "tokens", "updatedAt", "lastSeenAt"}
FirewallFields == {"config", "due", "lastCleanup", "active", "ips", "apiKeys", "behind"}

Entries(entries) ==
    \A id \in DOMAIN entries : DOMAIN entries[id] = EntryFields /\ entries[id].active \in Nat

\* What another admission of id makes of the count of j.
OneMore(id, j) == IF j = id THEN 1 ELSE 0

\* An entry that is looked up, new or old, has the count of its address or key, and
\* filling its bucket leaves that count alone.
LEMMA LookedUp ==
    ASSUME NEW entries, Entries(entries), NEW id, NEW at
    PROVE  /\ DOMAIN EntryFor(entries, id, at) = EntryFields
           /\ EntryFor(entries, id, at).active = Running(entries, id)
           /\ Running(entries, id) \in Nat
BY DEF EntryFor, Running, Entries, NewEntry, EntryFields

LEMMA Refilled ==
    ASSUME NEW entry, DOMAIN entry = EntryFields, NEW at, NEW rate
    PROVE  DOMAIN Refill(entry, at, rate) = EntryFields
           /\ Refill(entry, at, rate).active = entry.active
BY DEF Refill, EntryFields

LEMMA PutCounts ==
    ASSUME NEW entries, Entries(entries), NEW id, NEW entry,
           DOMAIN entry = EntryFields, entry.active \in Nat
    PROVE  /\ Entries(Put(entries, id, entry))
           /\ \A j : Running(Put(entries, id, entry), j)
                        = IF j = id THEN entry.active ELSE Running(entries, j)
BY DEF Put, Entries, Running

\* An admission that succeeds adds one to its own count, one that fails nothing.
LEMMA AdmitCounts ==
    ASSUME NEW entries, Entries(entries), NEW id, NEW at, NEW limit, NEW rate
    PROVE  LET try == Admit(entries, id, at, limit, rate)
           IN /\ try.in \in BOOLEAN
              /\ Entries(try.entries)
              /\ \A j : Running(try.entries, j)
                           = IF try.in THEN Running(entries, j) + OneMore(id, j)
                             ELSE Running(entries, j)
<1> DEFINE entry == EntryFor(entries, id, at)
           full == Refill(entry, at, rate)
           more == [full EXCEPT !.tokens = @ - 1, !.active = @ + 1]
           try == Admit(entries, id, at, limit, rate)
<1>1. DOMAIN entry = EntryFields /\ entry.active = Running(entries, id) /\ entry.active \in Nat
  BY LookedUp
<1>2. DOMAIN full = EntryFields /\ full.active = entry.active
  <2> HIDE DEF entry
  <2> QED BY <1>1, Refilled
<1>3. DOMAIN more = EntryFields /\ more.active = full.active + 1
  <2> HIDE DEF full
  <2> QED BY <1>2 DEF EntryFields
<1>4. \/ try = [entries |-> Put(entries, id, entry), in |-> FALSE]
      \/ try = [entries |-> Put(entries, id, full), in |-> FALSE]
      \/ try = [entries |-> Put(entries, id, more), in |-> TRUE]
  BY DEF Admit
<1>5. \A j : Running(entries, j) \in Nat
  BY LookedUp
<1> HIDE DEF entry, full, more, try
<1>6. CASE try = [entries |-> Put(entries, id, entry), in |-> FALSE]
  <2>1. /\ Entries(Put(entries, id, entry))
        /\ \A j : Running(Put(entries, id, entry), j)
                     = IF j = id THEN entry.active ELSE Running(entries, j)
    BY <1>1, PutCounts
  <2> QED BY <1>1, <1>6, <2>1 DEF try
<1>7. CASE try = [entries |-> Put(entries, id, full), in |-> FALSE]
  <2>1. /\ Entries(Put(entries, id, full))
        /\ \A j : Running(Put(entries, id, full), j)
                     = IF j = id THEN full.active ELSE Running(entries, j)
    BY <1>1, <1>2, PutCounts
  <2> QED BY <1>1, <1>2, <1>7, <2>1 DEF try
<1>8. CASE try = [entries |-> Put(entries, id, more), in |-> TRUE]
  <2>1. /\ Entries(Put(entries, id, more))
        /\ \A j : Running(Put(entries, id, more), j)
                     = IF j = id THEN more.active ELSE Running(entries, j)
    BY <1>1, <1>2, <1>3, PutCounts
  <2>2. \A j : (IF j = id THEN more.active ELSE Running(entries, j))
                  = Running(entries, j) + OneMore(id, j)
    BY <1>1, <1>2, <1>3, <1>5 DEF OneMore
  <2> QED BY <1>8, <2>1, <2>2 DEF try
<1> QED BY <1>4, <1>6, <1>7, <1>8 DEF try

\* A sweep drops no count.
LEMMA SweptCounts ==
    ASSUME NEW entries, Entries(entries), NEW at
    PROVE  LET rest == Restrict(entries, DOMAIN entries \ Idle(entries, at))
           IN Entries(rest) /\ \A j : Running(rest, j) = Running(entries, j)
BY DEF Entries, Running, Restrict, Idle

LEMMA CleanupCounts ==
    ASSUME NEW f, DOMAIN f = FirewallFields, Entries(f.ips), Entries(f.apiKeys), NEW at
    PROVE  LET g == Cleanup(f, at)
           IN /\ DOMAIN g = FirewallFields /\ g.active = f.active
              /\ Entries(g.ips) /\ Entries(g.apiKeys)
              /\ \A j : /\ Running(g.ips, j) = Running(f.ips, j)
                        /\ Running(g.apiKeys, j) = Running(f.apiKeys, j)
<1> DEFINE ips == Restrict(f.ips, DOMAIN f.ips \ Idle(f.ips, at))
           apiKeys == Restrict(f.apiKeys, DOMAIN f.apiKeys \ Idle(f.apiKeys, at))
           g == Cleanup(f, at)
<1>1. /\ Entries(ips) /\ Entries(apiKeys)
      /\ \A j : Running(ips, j) = Running(f.ips, j) /\ Running(apiKeys, j) = Running(f.apiKeys, j)
  BY SweptCounts
<1>2. \/ g = f
      \/ g = [f EXCEPT !.lastCleanup = at, !.ips = ips, !.apiKeys = apiKeys]
  BY DEF Cleanup, FirewallFields
<1> HIDE DEF ips, apiKeys, g
<1>3. CASE g = f
  BY <1>3 DEF g
<1>4. CASE g = [f EXCEPT !.lastCleanup = at, !.ips = ips, !.apiKeys = apiKeys]
  <2>1. DOMAIN g = FirewallFields /\ g.active = f.active /\ g.ips = ips /\ g.apiKeys = apiKeys
    BY <1>4 DEF FirewallFields
  <2> QED BY <1>1, <2>1 DEF g
<1> QED BY <1>2, <1>3, <1>4

\* The requests the firewall knows of.
Inside == {c \in Calls : mem[c].client = "in"}

\* The counts are those of the requests inside; a call is inside only between its
\* admission and its end.
FirewallInv ==
    /\ DOMAIN fw = FirewallFields
    /\ Entries(fw.ips) /\ Entries(fw.apiKeys)
    /\ fw.active = Cardinality(Inside)
    /\ \A ip : Running(fw.ips, ip) = Cardinality(Admitted(ip))
    /\ \A k : Running(fw.apiKeys, k) = Cardinality(AdmittedKey(k))
    /\ \A c \in Calls :
          /\ mem[c].client = "in" =>
                Ask[c].op = "request" /\ pc[c] \notin {"start", "settings", "apply", "client"}
          /\ mem[c].key = "in" =>
                Ask[c].op = "request"
                  /\ pc[c] \notin {"start", "settings", "apply", "client",
                                   "cache", "row", "policy", "fill", "judge", "key"}

LEMMA FirewallStart == Init => FirewallInv
<1> SUFFICES ASSUME Init PROVE FirewallInv
  OBVIOUS
<1>1. fw = NewFirewall /\ \A c \in Calls : mem[c] = NewMem
  BY DEF Init, StartAccounts
<1>2. /\ DOMAIN fw = FirewallFields /\ fw.active = 0
      /\ fw.ips = <<>> /\ fw.apiKeys = <<>>
  BY <1>1 DEF NewFirewall, FirewallFields
<1>3. DOMAIN fw.ips = {} /\ DOMAIN fw.apiKeys = {}
  BY <1>2
<1>4. \A c \in Calls : mem[c].client = "out" /\ mem[c].key = "out"
  <2>1. NewMem.client = "out" /\ NewMem.key = "out"
    BY DEF NewMem
  <2> QED BY <1>1, <2>1
<1>5. Inside = {} /\ \A j : Admitted(j) = {} /\ AdmittedKey(j) = {}
  BY <1>4 DEF Inside, Admitted, AdmittedKey
<1>6. \A j : Running(fw.ips, j) = 0 /\ Running(fw.apiKeys, j) = 0
  BY <1>3 DEF Running
<1> QED BY <1>2, <1>3, <1>4, <1>5, <1>6, FS_EmptySet DEF FirewallInv, Entries

\* Steps that admit nobody and release nobody.
FirewallQuiet ==
    /\ Ask' = Ask
    /\ DOMAIN fw' = FirewallFields
    /\ fw'.active = fw.active /\ fw'.ips = fw.ips /\ fw'.apiKeys = fw.apiKeys
    /\ \A c \in Calls :
          /\ mem'[c].client = mem[c].client /\ mem'[c].key = mem[c].key
          /\ Ask[c].op = "request" =>
                /\ pc'[c] \in {"start", "settings", "apply", "client"} =>
                      pc[c] \in {"start", "settings", "apply", "client"}
                /\ pc'[c] \in {"cache", "row", "policy", "fill", "judge", "key"} =>
                      pc[c] \in {"start", "settings", "apply", "client",
                                 "cache", "row", "policy", "fill", "judge", "key"}

LEMMA FirewallQuietKeeps == ASSUME FirewallInv, FirewallQuiet PROVE FirewallInv'
<1>1. Inside' = Inside /\ \A j : Admitted(j)' = Admitted(j) /\ AdmittedKey(j)' = AdmittedKey(j)
  BY DEF FirewallQuiet, Inside, Admitted, AdmittedKey
<1>2. \A c \in Calls :
          /\ mem'[c].client = "in" =>
                Ask'[c].op = "request" /\ pc'[c] \notin {"start", "settings", "apply", "client"}
          /\ mem'[c].key = "in" =>
                Ask'[c].op = "request"
                  /\ pc'[c] \notin {"start", "settings", "apply", "client",
                                    "cache", "row", "policy", "fill", "judge", "key"}
  BY DEF FirewallQuiet, FirewallInv
<1>3. Entries(fw'.ips) /\ Entries(fw'.apiKeys) /\ DOMAIN fw' = FirewallFields
      /\ fw'.active = Cardinality(Inside)
      /\ \A j : Running(fw'.ips, j) = Cardinality(Admitted(j))
                  /\ Running(fw'.apiKeys, j) = Cardinality(AdmittedKey(j))
  BY DEF FirewallQuiet, FirewallInv
<1> QED BY <1>1, <1>2, <1>3 DEF FirewallInv

\* One call more, or one less, in a set of calls.
LEMMA OneCall ==
    ASSUME NEW S \in SUBSET Calls, NEW c \in Calls
    PROVE  /\ Cardinality(S) \in Nat
           /\ c \notin S => Cardinality(S \cup {c}) = Cardinality(S) + 1
           /\ c \in S => Cardinality(S \ {c}) = Cardinality(S) - 1 /\ Cardinality(S) > 0
<1>1. IsFiniteSet(S)
  BY AccountAssumption, FS_Subset
<1>2. Cardinality(S) \in Nat
  BY <1>1, FS_CardinalityType
<1>3. c \in S => Cardinality(S \ {c}) \in Nat
  BY <1>1, FS_RemoveElement, FS_CardinalityType
<1>4. c \notin S => Cardinality(S \cup {c}) = Cardinality(S) + 1
  BY <1>1, FS_AddElement
<1>5. c \in S => Cardinality(S \ {c}) = Cardinality(S) - 1
  BY <1>1, FS_RemoveElement
<1> QED BY <1>2, <1>3, <1>4, <1>5

LEMMA CountedSets ==
    /\ Inside \in SUBSET Calls
    /\ \A j : Admitted(j) \in SUBSET Calls /\ AdmittedKey(j) \in SUBSET Calls
BY DEF Inside, Admitted, AdmittedKey

\* What the firewall may answer a client: that it is off, that it is full, or what the
\* client's own entry has for it.
Trial(g, ip, at) == Admit(g.ips, ip, at, g.config.perIP, g.config.rateIP)
Late(g, ip, at) == g.behind \/ Behind(g, ip, at)
Entered(g, ip, at) ==
    [g EXCEPT !.ips = Trial(g, ip, at).entries, !.active = @ + 1, !.behind = Late(g, ip, at)]
TurnedAway(g, ip, at) ==
    [g EXCEPT !.ips = Trial(g, ip, at).entries, !.behind = Late(g, ip, at)]

LEMMA ClientAnswers ==
    ASSUME NEW f, NEW ip, NEW at
    PROVE  LET g == Cleanup(f, at)
               answer == AcquireClient(f, ip, at)
           IN \/ answer.fw = f /\ answer.verdict = "open"
              \/ answer.fw = g /\ answer.verdict = "refused"
              \/ /\ answer.fw = Entered(g, ip, at) /\ answer.verdict = "in"
                 /\ Trial(g, ip, at).in /\ f.config.enabled
              \/ /\ answer.fw = TurnedAway(g, ip, at) /\ answer.verdict = "refused"
                 /\ ~Trial(g, ip, at).in /\ f.config.enabled
<1> DEFINE g == Cleanup(f, at)
           answer == AcquireClient(f, ip, at)
<1>1. answer = CASE ~f.config.enabled -> Verdict(f, "open")
                 [] f.config.enabled /\ g.active >= g.config.all -> Verdict(g, "refused")
                 [] OTHER -> IF Trial(g, ip, at).in THEN Verdict(Entered(g, ip, at), "in")
                             ELSE Verdict(TurnedAway(g, ip, at), "refused")
  BY Zenon DEF AcquireClient, Trial, Late, Entered, TurnedAway
<1> HIDE DEF g, answer
<1>2. \/ answer = Verdict(f, "open") \/ answer = Verdict(g, "refused")
      \/ answer = Verdict(Entered(g, ip, at), "in") /\ Trial(g, ip, at).in /\ f.config.enabled
      \/ /\ answer = Verdict(TurnedAway(g, ip, at), "refused")
         /\ ~Trial(g, ip, at).in /\ f.config.enabled
  BY <1>1
<1> QED BY <1>2 DEF Verdict, g, answer

\* Who the firewall lets in is counted once, who it refuses or passes is not.
LEMMA ClientCounts ==
    ASSUME NEW f, DOMAIN f = FirewallFields, f.active \in Nat,
           Entries(f.ips), Entries(f.apiKeys), NEW ip, NEW at
    PROVE  LET answer == AcquireClient(f, ip, at)
               more(j) == IF answer.verdict = "in" THEN OneMore(ip, j) ELSE 0
           IN /\ answer.verdict \in {"open", "refused", "in"}
              /\ DOMAIN answer.fw = FirewallFields
              /\ Entries(answer.fw.ips) /\ Entries(answer.fw.apiKeys)
              /\ answer.fw.active = IF answer.verdict = "in" THEN f.active + 1 ELSE f.active
              /\ \A j : /\ Running(answer.fw.ips, j) = Running(f.ips, j) + more(j)
                        /\ Running(answer.fw.apiKeys, j) = Running(f.apiKeys, j)
<1> DEFINE g == Cleanup(f, at)
           try == Trial(g, ip, at)
           late == Late(g, ip, at)
           answer == AcquireClient(f, ip, at)
<1>1. /\ DOMAIN g = FirewallFields /\ g.active = f.active
      /\ Entries(g.ips) /\ Entries(g.apiKeys)
      /\ \A j : /\ Running(g.ips, j) = Running(f.ips, j)
                /\ Running(g.apiKeys, j) = Running(f.apiKeys, j)
                /\ Running(f.ips, j) \in Nat
  BY CleanupCounts, LookedUp
<1>2. /\ try.in \in BOOLEAN /\ Entries(try.entries)
      /\ \A j : Running(try.entries, j)
                   = IF try.in THEN Running(g.ips, j) + OneMore(ip, j) ELSE Running(g.ips, j)
  <2> HIDE DEF g
  <2> QED BY <1>1, AdmitCounts DEF Trial
<1>3. \/ answer.fw = f /\ answer.verdict = "open"
      \/ answer.fw = g /\ answer.verdict = "refused"
      \/ answer.fw = Entered(g, ip, at) /\ answer.verdict = "in" /\ try.in
      \/ answer.fw = TurnedAway(g, ip, at) /\ answer.verdict = "refused" /\ ~try.in
  BY ClientAnswers
<1> HIDE DEF g, try, late, answer
<1>4. CASE answer.fw = f /\ answer.verdict = "open"
  BY <1>1, <1>4 DEF answer
<1>5. CASE answer.fw = g /\ answer.verdict = "refused"
  BY <1>1, <1>5 DEF answer
<1>6. CASE answer.fw = Entered(g, ip, at) /\ answer.verdict = "in" /\ try.in
  <2>1. answer.fw = [g EXCEPT !.ips = try.entries, !.active = @ + 1, !.behind = late]
    BY <1>6, Zenon DEF Entered, try, late
  <2>2. /\ DOMAIN answer.fw = FirewallFields /\ answer.fw.ips = try.entries
        /\ answer.fw.active = f.active + 1 /\ answer.fw.apiKeys = g.apiKeys
    BY <1>1, <2>1 DEF FirewallFields
  <2> QED BY <1>1, <1>2, <1>6, <2>2 DEF answer
<1>7. CASE answer.fw = TurnedAway(g, ip, at) /\ answer.verdict = "refused" /\ ~try.in
  <2>1. answer.fw = [g EXCEPT !.ips = try.entries, !.behind = late]
    BY <1>7, Zenon DEF TurnedAway, try, late
  <2>2. /\ DOMAIN answer.fw = FirewallFields /\ answer.fw.ips = try.entries
        /\ answer.fw.active = f.active /\ answer.fw.apiKeys = g.apiKeys
    BY <1>1, <2>1 DEF FirewallFields
  <2> QED BY <1>1, <1>2, <1>7, <2>2 DEF answer
<1> QED BY <1>3, <1>4, <1>5, <1>6, <1>7

LEMMA KeyCounts ==
    ASSUME NEW f, DOMAIN f = FirewallFields,
           Entries(f.ips), Entries(f.apiKeys), NEW key, NEW at
    PROVE  LET answer == AcquireAPIKey(f, key, at)
               more(j) == IF answer.verdict = "in" THEN OneMore(key, j) ELSE 0
           IN /\ answer.verdict \in {"open", "refused", "in"}
              /\ DOMAIN answer.fw = FirewallFields
              /\ Entries(answer.fw.ips) /\ Entries(answer.fw.apiKeys)
              /\ answer.fw.active = f.active
              /\ \A j : /\ Running(answer.fw.ips, j) = Running(f.ips, j)
                        /\ Running(answer.fw.apiKeys, j) = Running(f.apiKeys, j) + more(j)
<1> DEFINE g == Cleanup(f, at)
           try == Admit(g.apiKeys, key, at, g.config.perKey, g.config.rateKey)
           answer == AcquireAPIKey(f, key, at)
<1>1. /\ DOMAIN g = FirewallFields /\ g.active = f.active
      /\ Entries(g.ips) /\ Entries(g.apiKeys)
      /\ \A j : /\ Running(g.ips, j) = Running(f.ips, j)
                /\ Running(g.apiKeys, j) = Running(f.apiKeys, j)
                /\ Running(f.apiKeys, j) \in Nat
  BY CleanupCounts, LookedUp
<1>2. /\ try.in \in BOOLEAN /\ Entries(try.entries)
      /\ \A j : Running(try.entries, j)
                   = IF try.in THEN Running(g.apiKeys, j) + OneMore(key, j)
                     ELSE Running(g.apiKeys, j)
  <2> HIDE DEF g
  <2> QED BY <1>1, AdmitCounts
<1>3. \/ answer.fw = f /\ answer.verdict = "open"
      \/ /\ answer.fw = [g EXCEPT !.apiKeys = try.entries]
         /\ answer.verdict = IF try.in THEN "in" ELSE "refused"
  BY DEF AcquireAPIKey, Verdict
<1> HIDE DEF g, try, answer
<1>4. CASE answer.fw = f /\ answer.verdict = "open"
  BY <1>1, <1>4 DEF answer
<1>5. CASE /\ answer.fw = [g EXCEPT !.apiKeys = try.entries]
           /\ answer.verdict = IF try.in THEN "in" ELSE "refused"
  <2>1. /\ DOMAIN answer.fw = FirewallFields /\ answer.fw.ips = g.ips
        /\ answer.fw.active = f.active /\ answer.fw.apiKeys = try.entries
    BY <1>1, <1>5 DEF FirewallFields
  <2>2. \A j : Running(g.apiKeys, j) + 0 = Running(g.apiKeys, j)
    BY <1>1
  <2> QED BY <1>1, <1>2, <1>5, <2>1, <2>2 DEF answer
<1> QED BY <1>3, <1>4, <1>5

\* A release takes one from the counts it was in.
LEMMA Released ==
    ASSUME NEW entries, Entries(entries), NEW id, Running(entries, id) > 0
    PROVE  /\ Entries(Release(entries, id))
           /\ \A j : Running(Release(entries, id), j) = Running(entries, j) - OneMore(id, j)
<1> DEFINE rest == Release(entries, id)
<1>1. id \in DOMAIN entries /\ Running(entries, id) = entries[id].active
  BY DEF Running
<1>2. /\ entries[id].active \in Nat /\ entries[id].active > 0
      /\ Less(entries[id].active) = entries[id].active - 1
  BY <1>1 DEF Entries, Less
<1>3. /\ DOMAIN rest = DOMAIN entries
      /\ \A j \in DOMAIN rest : /\ DOMAIN rest[j] = EntryFields
                               /\ rest[j].active = IF j = id THEN entries[j].active - 1
                                                   ELSE entries[j].active
  BY <1>1, <1>2 DEF Release, Entries, EntryFields
<1> HIDE DEF rest
<1>4. Entries(rest)
  BY <1>1, <1>2, <1>3 DEF Entries
<1>5. \A j : Running(rest, j) = Running(entries, j) - OneMore(id, j)
  BY <1>1, <1>3 DEF Entries, Running, OneMore
<1> QED BY <1>4, <1>5 DEF rest

LEMMA ClientReleased ==
    ASSUME NEW f, DOMAIN f = FirewallFields, f.active \in Nat, f.active > 0,
           Entries(f.ips), Entries(f.apiKeys), NEW ip, Running(f.ips, ip) > 0
    PROVE  LET g == ReleaseClient(f, ip)
           IN /\ DOMAIN g = FirewallFields /\ g.active = f.active - 1
              /\ Entries(g.ips) /\ g.apiKeys = f.apiKeys
              /\ \A j : Running(g.ips, j) = Running(f.ips, j) - OneMore(ip, j)
<1>1. LET g == ReleaseClient(f, ip)
      IN /\ DOMAIN g = FirewallFields /\ g.active = f.active - 1
         /\ g.ips = Release(f.ips, ip) /\ g.apiKeys = f.apiKeys
  BY DEF ReleaseClient, FirewallFields, Less
<1> QED BY <1>1, Released

LEMMA KeyReleased ==
    ASSUME NEW f, DOMAIN f = FirewallFields,
           Entries(f.ips), Entries(f.apiKeys), NEW key, Running(f.apiKeys, key) > 0
    PROVE  LET g == ReleaseAPIKey(f, key)
           IN /\ DOMAIN g = FirewallFields /\ g.active = f.active
              /\ Entries(g.apiKeys) /\ g.ips = f.ips
              /\ \A j : Running(g.apiKeys, j) = Running(f.apiKeys, j) - OneMore(key, j)
<1>1. LET g == ReleaseAPIKey(f, key)
      IN /\ DOMAIN g = FirewallFields /\ g.active = f.active
         /\ g.apiKeys = Release(f.apiKeys, key) /\ g.ips = f.ips
  BY DEF ReleaseAPIKey, FirewallFields
<1> QED BY <1>1, Released

LEMMA AdmitClientKeeps ==
    ASSUME Calling, FirewallInv, NEW c \in Calls, AdmitClient(c) PROVE FirewallInv'
<1> DEFINE answer == AcquireClient(fw, Ask[c].ip, mem[c].at)
<1>1. OnlyCall(c)
  BY AdmissionCalls DEF AdmissionCall
<1>2. /\ Ask[c].op = "request" /\ pc[c] = "client" /\ fw' = answer.fw
      /\ mem[c].client # "in" /\ mem[c].key # "in"
  BY DEF AdmitClient, At, FirewallInv
<1>3. /\ mem'[c].key = mem[c].key
      /\ answer.verdict = "refused" => mem'[c].client = mem[c].client
      /\ answer.verdict # "refused" => mem'[c].client = answer.verdict /\ pc'[c] = "cache"
  BY <1>1 DEF AdmitClient, OnlyCall, Calling, Go, End, Keep, MemFields
<1>4. fw.active \in Nat
  BY CountedSets, OneCall DEF FirewallInv
<1>5. LET more(j) == IF answer.verdict = "in" THEN OneMore(Ask[c].ip, j) ELSE 0
      IN /\ answer.verdict \in {"open", "refused", "in"}
         /\ DOMAIN answer.fw = FirewallFields
         /\ Entries(answer.fw.ips) /\ Entries(answer.fw.apiKeys)
         /\ answer.fw.active = IF answer.verdict = "in" THEN fw.active + 1 ELSE fw.active
         /\ \A j : /\ Running(answer.fw.ips, j) = Running(fw.ips, j) + more(j)
                   /\ Running(answer.fw.apiKeys, j) = Running(fw.apiKeys, j)
  BY <1>4, ClientCounts DEF FirewallInv
<1> HIDE DEF answer
<1>6. Ask' = Ask /\ \A d \in Calls \ {c} : pc'[d] = pc[d] /\ mem'[d] = mem[d]
  BY <1>1 DEF OnlyCall
<1>7. \A k : AdmittedKey(k)' = AdmittedKey(k)
  BY <1>2, <1>3, <1>6 DEF AdmittedKey
<1>8. \A d \in Calls :
         /\ mem'[d].client = "in" =>
               Ask'[d].op = "request" /\ pc'[d] \notin {"start", "settings", "apply", "client"}
         /\ mem'[d].key = "in" =>
               Ask'[d].op = "request"
                 /\ pc'[d] \notin {"start", "settings", "apply", "client",
                                   "cache", "row", "policy", "fill", "judge", "key"}
  BY <1>2, <1>3, <1>5, <1>6 DEF FirewallInv
<1>11. \A S \in SUBSET Calls :
         /\ Cardinality(S) \in Nat
         /\ c \notin S => Cardinality(S \cup {c}) = Cardinality(S) + 1
  BY OneCall
<1>9. CASE answer.verdict = "in"
  <2>1. /\ Inside' = Inside \cup {c} /\ c \notin Inside
        /\ \A ip : Admitted(ip)' = IF ip = Ask[c].ip THEN Admitted(ip) \cup {c} ELSE Admitted(ip)
        /\ \A ip : c \notin Admitted(ip)
    BY <1>2, <1>3, <1>6, <1>9 DEF Inside, Admitted
  <2>2. Cardinality(Inside') = Cardinality(Inside) + 1
    BY <1>11, <2>1, CountedSets
  <2>3. \A ip : Cardinality(Admitted(ip)') = Cardinality(Admitted(ip)) + OneMore(Ask[c].ip, ip)
    <3> SUFFICES ASSUME NEW ip
                 PROVE  Cardinality(Admitted(ip)') = Cardinality(Admitted(ip)) + OneMore(Ask[c].ip, ip)
      OBVIOUS
    <3>1. Cardinality(Admitted(ip)) \in Nat /\ Cardinality(Admitted(ip) \cup {c}) = Cardinality(Admitted(ip)) + 1
      BY <1>11, <2>1, CountedSets
    <3>2. Admitted(ip)' = IF ip = Ask[c].ip THEN Admitted(ip) \cup {c} ELSE Admitted(ip)
      BY <2>1
    <3> QED BY <3>1, <3>2 DEF OneMore
  <2>4. fw'.active = Cardinality(Inside')
    BY <1>2, <1>5, <1>9, <2>2 DEF FirewallInv
  <2>5. \A ip : Running(fw'.ips, ip) = Cardinality(Admitted(ip)')
    BY <1>2, <1>5, <1>9, <2>3 DEF FirewallInv
  <2>6. \A k : Running(fw'.apiKeys, k) = Cardinality(AdmittedKey(k)')
    BY <1>2, <1>5, <1>7 DEF FirewallInv
  <2> QED BY <1>2, <1>5, <1>8, <2>4, <2>5, <2>6 DEF FirewallInv
<1>10. CASE answer.verdict # "in"
  <2>1. Inside' = Inside /\ \A ip : Admitted(ip)' = Admitted(ip)
    BY <1>2, <1>3, <1>6, <1>10 DEF Inside, Admitted
  <2>2. \A ip : Running(fw'.ips, ip) = Cardinality(Admitted(ip)')
    <3>1. \A ip : Running(fw.ips, ip) \in Nat /\ Running(fw.ips, ip) = Cardinality(Admitted(ip))
      BY <1>11, CountedSets DEF FirewallInv
    <3>2. \A ip : Running(fw'.ips, ip) = Running(fw.ips, ip) + 0
      BY <1>2, <1>5, <1>10
    <3> QED BY <2>1, <3>1, <3>2
  <2>3. \A k : Running(fw'.apiKeys, k) = Cardinality(AdmittedKey(k)')
    BY <1>2, <1>5, <1>7 DEF FirewallInv
  <2> QED BY <1>2, <1>5, <1>8, <1>10, <2>1, <2>2, <2>3 DEF FirewallInv
<1> QED BY <1>9, <1>10

LEMMA AdmitAPIKeyKeeps ==
    ASSUME Calling, FirewallInv, NEW c \in Calls, AdmitAPIKey(c) PROVE FirewallInv'
<1> DEFINE answer == AcquireAPIKey(fw, Ask[c].key, mem[c].at)
<1>1. OnlyCall(c)
  BY AdmissionCalls DEF AdmissionCall
<1>2. /\ Ask[c].op = "request" /\ pc[c] = "key" /\ fw' = answer.fw
      /\ mem[c].key # "in"
  BY DEF AdmitAPIKey, At, FirewallInv
<1>3. /\ mem'[c].client = mem[c].client /\ pc'[c] \in {"leave", "body"}
      /\ mem'[c].key = IF answer.verdict = "refused" THEN mem[c].key ELSE answer.verdict
  BY <1>1 DEF AdmitAPIKey, Refuse, OnlyCall, Calling, Go, End, Keep, MemFields
<1>5. LET more(j) == IF answer.verdict = "in" THEN OneMore(Ask[c].key, j) ELSE 0
      IN /\ answer.verdict \in {"open", "refused", "in"}
         /\ DOMAIN answer.fw = FirewallFields
         /\ Entries(answer.fw.ips) /\ Entries(answer.fw.apiKeys)
         /\ answer.fw.active = fw.active
         /\ \A j : /\ Running(answer.fw.ips, j) = Running(fw.ips, j)
                   /\ Running(answer.fw.apiKeys, j) = Running(fw.apiKeys, j) + more(j)
  <2>1. DOMAIN fw = FirewallFields /\ Entries(fw.ips) /\ Entries(fw.apiKeys)
    BY DEF FirewallInv
  <2> QED BY <2>1, KeyCounts
<1> HIDE DEF answer
<1>6. Ask' = Ask /\ \A d \in Calls \ {c} : pc'[d] = pc[d] /\ mem'[d] = mem[d]
  BY <1>1 DEF OnlyCall
<1>7. Inside' = Inside /\ \A ip : Admitted(ip)' = Admitted(ip)
  BY <1>2, <1>3, <1>6 DEF Inside, Admitted
<1>8. \A d \in Calls :
         /\ mem'[d].client = "in" =>
               Ask'[d].op = "request" /\ pc'[d] \notin {"start", "settings", "apply", "client"}
         /\ mem'[d].key = "in" =>
               Ask'[d].op = "request"
                 /\ pc'[d] \notin {"start", "settings", "apply", "client",
                                   "cache", "row", "policy", "fill", "judge", "key"}
  BY <1>2, <1>3, <1>5, <1>6 DEF FirewallInv
<1>9. /\ fw'.active = Cardinality(Inside')
      /\ \A ip : Running(fw'.ips, ip) = Cardinality(Admitted(ip)')
  BY <1>2, <1>5, <1>7 DEF FirewallInv
<1>4. \A S \in SUBSET Calls :
         /\ Cardinality(S) \in Nat
         /\ c \notin S => Cardinality(S \cup {c}) = Cardinality(S) + 1
  BY OneCall
<1>10. \A k : Running(fw'.apiKeys, k) = Cardinality(AdmittedKey(k)')
  <2>1. CASE answer.verdict = "in"
    <3>1. /\ \A k : AdmittedKey(k)' = IF k = Ask[c].key THEN AdmittedKey(k) \cup {c} ELSE AdmittedKey(k)
          /\ \A k : c \notin AdmittedKey(k)
      BY <1>2, <1>3, <1>6, <2>1 DEF AdmittedKey
    <3>2. \A k : Cardinality(AdmittedKey(k)') = Cardinality(AdmittedKey(k)) + OneMore(Ask[c].key, k)
      <4> SUFFICES ASSUME NEW k
                   PROVE  Cardinality(AdmittedKey(k)') = Cardinality(AdmittedKey(k)) + OneMore(Ask[c].key, k)
        OBVIOUS
      <4>1. Cardinality(AdmittedKey(k)) \in Nat
              /\ Cardinality(AdmittedKey(k) \cup {c}) = Cardinality(AdmittedKey(k)) + 1
        BY <1>4, <3>1, CountedSets
      <4>2. AdmittedKey(k)' = IF k = Ask[c].key THEN AdmittedKey(k) \cup {c} ELSE AdmittedKey(k)
        BY <3>1
      <4> QED BY <4>1, <4>2 DEF OneMore
    <3> QED BY <1>2, <1>5, <2>1, <3>2 DEF FirewallInv
  <2>2. CASE answer.verdict # "in"
    <3>1. \A k : AdmittedKey(k)' = AdmittedKey(k)
      BY <1>2, <1>3, <1>6, <2>2 DEF AdmittedKey
    <3>2. \A k : Running(fw.apiKeys, k) \in Nat /\ Running(fw.apiKeys, k) = Cardinality(AdmittedKey(k))
      BY <1>4, CountedSets DEF FirewallInv
    <3>3. \A k : Running(fw'.apiKeys, k) = Running(fw.apiKeys, k) + 0
      BY <1>2, <1>5, <2>2
    <3> QED BY <3>1, <3>2, <3>3
  <2> QED BY <2>1, <2>2
<1> QED BY <1>2, <1>5, <1>8, <1>9, <1>10 DEF FirewallInv

LEMMA LeaveKeeps ==
    ASSUME Calling, FirewallInv, NEW c \in Calls, Leave(c) PROVE FirewallInv'
<1> DEFINE ip == Ask[c].ip
           key == Ask[c].key
           freed == IF mem[c].key = "in" THEN ReleaseAPIKey(fw, key) ELSE fw
           less(S) == IF c \in S THEN S \ {c} ELSE S
<1>1. OnlyCall(c)
  BY AdmissionCalls DEF AdmissionCall
<1>2. /\ fw' = IF mem[c].client = "in" THEN ReleaseClient(freed, ip) ELSE freed
      /\ mem'[c].client = "out" /\ mem'[c].key = "out"
  BY <1>1 DEF Leave, OnlyCall, Calling, MemFields
<1>3. Ask' = Ask /\ \A d \in Calls \ {c} : pc'[d] = pc[d] /\ mem'[d] = mem[d]
  BY <1>1 DEF OnlyCall
<1>4. /\ Inside' = less(Inside)
      /\ \A j : Admitted(j)' = less(Admitted(j)) /\ AdmittedKey(j)' = less(AdmittedKey(j))
  BY <1>2, <1>3 DEF Inside, Admitted, AdmittedKey
<1>5. /\ c \in Inside <=> mem[c].client = "in"
      /\ \A j : /\ c \in Admitted(j) <=> mem[c].client = "in" /\ j = ip
                /\ c \in AdmittedKey(j) <=> mem[c].key = "in" /\ j = key
  BY DEF Inside, Admitted, AdmittedKey
<1>6. \A S \in SUBSET Calls :
         /\ Cardinality(S) \in Nat
         /\ c \in S => Cardinality(S) > 0
         /\ Cardinality(less(S)) = IF c \in S THEN Cardinality(S) - 1 ELSE Cardinality(S)
  BY OneCall
<1> HIDE DEF less
<1>7. \A d \in Calls :
         /\ mem'[d].client = "in" =>
               Ask'[d].op = "request" /\ pc'[d] \notin {"start", "settings", "apply", "client"}
         /\ mem'[d].key = "in" =>
               Ask'[d].op = "request"
                 /\ pc'[d] \notin {"start", "settings", "apply", "client",
                                   "cache", "row", "policy", "fill", "judge", "key"}
  BY <1>2, <1>3 DEF FirewallInv
<1>8. /\ DOMAIN freed = FirewallFields /\ freed.active = fw.active
      /\ Entries(freed.apiKeys) /\ freed.ips = fw.ips
      /\ \A j : Running(freed.apiKeys, j) = Cardinality(AdmittedKey(j)')
  <2>1. CASE mem[c].key = "in"
    <3>1. Running(fw.apiKeys, key) > 0
      BY <1>5, <1>6, <2>1, CountedSets DEF FirewallInv
    <3>2. /\ DOMAIN freed = FirewallFields /\ freed.active = fw.active
          /\ Entries(freed.apiKeys) /\ freed.ips = fw.ips
          /\ \A j : Running(freed.apiKeys, j) = Running(fw.apiKeys, j) - OneMore(key, j)
      BY <2>1, <3>1, KeyReleased DEF FirewallInv
    <3>3. \A j : Cardinality(AdmittedKey(j)') = Running(fw.apiKeys, j) - OneMore(key, j)
      BY <1>4, <1>5, <1>6, <2>1, CountedSets DEF FirewallInv, OneMore
    <3> QED BY <3>2, <3>3
  <2>2. CASE mem[c].key # "in"
    <3>1. \A j : Cardinality(AdmittedKey(j)') = Running(fw.apiKeys, j)
      BY <1>4, <1>5, <1>6, <2>2, CountedSets DEF FirewallInv
    <3> QED BY <2>2, <3>1 DEF FirewallInv
  <2> QED BY <2>1, <2>2
<1>9. Entries(freed.ips) /\ \A j : Running(freed.ips, j) = Cardinality(Admitted(j))
  BY <1>8 DEF FirewallInv
<1> HIDE DEF freed
<1>10. CASE mem[c].client = "in"
  <2>1. /\ freed.active = Cardinality(Inside) /\ freed.active \in Nat /\ freed.active > 0
        /\ Running(freed.ips, ip) > 0
    BY <1>5, <1>6, <1>8, <1>9, <1>10, CountedSets DEF FirewallInv
  <2>2. /\ DOMAIN fw' = FirewallFields /\ fw'.active = freed.active - 1
        /\ Entries(fw'.ips) /\ fw'.apiKeys = freed.apiKeys
        /\ \A j : Running(fw'.ips, j) = Running(freed.ips, j) - OneMore(ip, j)
    BY <1>2, <1>8, <1>9, <1>10, <2>1, ClientReleased
  <2>3. fw'.active = Cardinality(Inside')
    BY <1>4, <1>5, <1>6, <1>10, <2>1, <2>2, CountedSets
  <2>4. \A j : Running(fw'.ips, j) = Cardinality(Admitted(j)')
    BY <1>4, <1>5, <1>6, <1>9, <1>10, <2>2, CountedSets DEF OneMore
  <2> QED BY <1>7, <1>8, <2>2, <2>3, <2>4 DEF FirewallInv
<1>11. CASE mem[c].client # "in"
  <2>1. fw' = freed
    BY <1>2, <1>11
  <2>2. fw'.active = Cardinality(Inside')
    BY <1>4, <1>5, <1>8, <1>11, <2>1 DEF less, FirewallInv
  <2>3. \A j : Running(fw'.ips, j) = Cardinality(Admitted(j)')
    BY <1>4, <1>5, <1>9, <1>11, <2>1 DEF less
  <2> QED BY <1>7, <1>8, <1>9, <2>1, <2>2, <2>3 DEF FirewallInv
<1> QED BY <1>10, <1>11

\* The admissions of a call that does not ask for any stay as they are.
Unadmitted(c) == mem'[c].client = mem[c].client /\ mem'[c].key = mem[c].key

LEMMA AccountsUnadmitted ==
    ASSUME Calling, NEW c \in Calls,
           CodeCall(c) \/ LoginCall(c) \/ SessionCall(c) \/ UserCall(c) \/ RevealCall(c)
    PROVE  Unadmitted(c)
<1> USE DEF Unadmitted, Calling, MemFields, At, Go, Keep, End
<1>1. CASE CodeCall(c)
  <2>1. CASE ReadCode(c) \/ Claim(c)
    BY <2>1 DEF ReadCode, Claim
  <2>2. CASE ReadInvalid(c) \/ DeleteInvalid(c) \/ CreateCodes(c)
    BY <2>2 DEF ReadInvalid, DeleteInvalid, CreateCodes
  <2> QED BY <1>1, <2>1, <2>2 DEF CodeCall
<1>2. CASE LoginCall(c)
  BY <1>2 DEF LoginCall, BeginLogin, TakeState, ExchangeCode, AccountDisabled, FindUser,
              InsertUser, CheckOverride, RefreshUser
<1>3. CASE SessionCall(c)
  <2>1. CASE Visit(c)
    BY <2>1 DEF Visit
  <2>2. CASE Logout(c)
    BY <2>2 DEF Logout
  <2> QED BY <1>3, <2>1, <2>2 DEF SessionCall
<1>4. CASE UserCall(c)
  BY <1>4 DEF UserCall, SetAdmin, FindForBalance, UpdateBalance, ReplaceChannelGroups,
              VerifyChannelGroups, UpdateProfile
<1>5. CASE RevealCall(c)
  BY <1>5 DEF RevealCall, SendCode, StoreCode, MailCode, ReadRevealCode, UseRevealCode,
              OpenReveal, RevealVerified
<1> QED BY <1>1, <1>2, <1>3, <1>4, <1>5

LEMMA GatewayUnadmitted ==
    ASSUME Calling, NEW c \in Calls,
           AuthCall(c) \/ ChargeCall(c) \/ KeyCall(c) \/ DeletionCall(c) \/ ClockCall(c)
    PROVE  Unadmitted(c)
<1> USE DEF Unadmitted, Calling, MemFields, At, Go, Keep, End, Refuse
<1>1. CASE AuthCall(c)
  <2>1. CASE PopulateAuthPolicy(c)
    <3>1. PICK policy, role, groups :
             mem' = [mem EXCEPT ![c].row.policy = policy, ![c].row.role = role,
                                ![c].row.groups = groups]
      BY <2>1 DEF PopulateAuthPolicy
    <3> QED BY <3>1
  <2>2. CASE ~PopulateAuthPolicy(c)
    BY <1>1, <2>2 DEF AuthCall, ReadKeyCache, ReadKeyRow, FillKeyCache, Authenticate, ReadBody
  <2> QED BY <2>1, <2>2
<1>2. CASE ChargeCall(c)
  <2>1. CASE CheckBalance(c) \/ NotCharged(c)
    BY <2>1 DEF CheckBalance, NotCharged
  <2>2. CASE Charge(c) \/ CommitCharge(c)
    BY <2>2 DEF Charge, CommitCharge
  <2> QED BY <1>2, <2>1, <2>2 DEF ChargeCall
<1>3. CASE KeyCall(c)
  <2>1. CASE CreateKey(c) \/ FindKey(c)
    BY <2>1 DEF CreateKey, FindKey
  <2>2. CASE WriteKey(c) \/ RemoveKey(c)
    BY <2>2 DEF WriteKey, RemoveKey
  <2>3. CASE ClearKeyCache(c) \/ RevealKey(c)
    BY <2>3 DEF ClearKeyCache, RevealKey
  <2> QED BY <1>3, <2>1, <2>2, <2>3 DEF KeyCall
<1>4. CASE DeletionCall(c)
  BY <1>4 DEF DeletionCall, ListUserKeys, DeleteUser, ClearUserKeys
<1>5. CASE ClockCall(c)
  BY <1>5 DEF ClockCall, Tick, Midnight, Expire
<1> QED BY <1>1, <1>2, <1>3, <1>4, <1>5

\* A call that is not a request is outside the firewall, one that is goes on.
LEMMA OthersQuiet ==
    ASSUME FirewallInv, NEW c \in Calls, OnlyCall(c), Unadmitted(c), Ask[c].op # "request",
           DOMAIN fw' = FirewallFields, fw'.active = fw.active, fw'.ips = fw.ips,
           fw'.apiKeys = fw.apiKeys
    PROVE  FirewallInv'
<1>1. FirewallQuiet
  BY DEF OnlyCall, Unadmitted, FirewallQuiet
<1> QED BY <1>1, FirewallQuietKeeps

LEMMA RequestsQuiet ==
    ASSUME Calling, FirewallInv, NEW c \in Calls, AuthCall(c) \/ ChargeCall(c)
    PROVE  FirewallInv'
<1>1. OnlyCall(c) /\ Unadmitted(c) /\ fw' = fw
  BY AuthCalls, ChargeCalls, GatewayUnadmitted
<1>2. /\ pc'[c] \notin {"start", "settings", "apply", "client"}
      /\ pc'[c] \in {"cache", "row", "policy", "fill", "judge", "key"} =>
            pc[c] \in {"cache", "row", "policy", "fill", "judge", "key"}
  <2>1. CASE AuthCall(c)
    BY <2>1 DEF AuthCall, ReadKeyCache, ReadKeyRow, PopulateAuthPolicy, FillKeyCache,
                Authenticate, ReadBody, Refuse, Calling, At, Go, End, Keep
  <2>2. CASE ChargeCall(c)
    BY <2>2 DEF ChargeCall, CheckBalance, NotCharged, Charge, CommitCharge, Refuse,
                Calling, At, Go, End, Keep
  <2> QED BY <2>1, <2>2
<1>3. FirewallQuiet
  BY <1>1, <1>2 DEF OnlyCall, Unadmitted, FirewallQuiet, FirewallInv
<1> QED BY <1>3, FirewallQuietKeeps

\* The settings pass the counts by.
LEMMA SettingsQuiet ==
    ASSUME Calling, FirewallInv, NEW c \in Calls,
           \/ Arrive(c) \/ GetRequestFirewallSettings(c) \/ ApplySettings(c)
           \/ UpdateRequestFirewallSettings(c) \/ CacheSettings(c)
    PROVE  FirewallInv'
<1>1. OnlyCall(c)
  BY AdmissionCalls DEF AdmissionCall
<1>2. /\ DOMAIN fw' = FirewallFields
      /\ fw'.active = fw.active /\ fw'.ips = fw.ips /\ fw'.apiKeys = fw.apiKeys
  BY DEF FirewallInv, Arrive, GetRequestFirewallSettings, ApplySettings,
         UpdateRequestFirewallSettings, CacheSettings, SetSettings, gatewayVars, FirewallFields
<1>3. Unadmitted(c)
  BY DEF Unadmitted, Calling, MemFields, Go, Keep, End, Arrive, GetRequestFirewallSettings,
         ApplySettings, UpdateRequestFirewallSettings, CacheSettings
<1>4. Ask[c].op = "request" => pc[c] \in {"start", "settings", "apply", "client"}
  BY DEF At, Arrive, GetRequestFirewallSettings, ApplySettings, UpdateRequestFirewallSettings,
         CacheSettings
<1>5. FirewallQuiet
  BY <1>1, <1>2, <1>3, <1>4 DEF OnlyCall, Unadmitted, FirewallQuiet
<1> QED BY <1>5, FirewallQuietKeeps

LEMMA FirewallStep == ASSUME Calling, FirewallInv, NEW c \in Calls, Step(c) PROVE FirewallInv'
<1> DEFINE Same == /\ DOMAIN fw' = FirewallFields /\ fw'.active = fw.active
                   /\ fw'.ips = fw.ips /\ fw'.apiKeys = fw.apiKeys
<1>1. fw' = fw => Same
  BY DEF FirewallInv
<1>2. CASE CodeCall(c) \/ LoginCall(c) \/ SessionCall(c) \/ UserCall(c) \/ RevealCall(c)
  <2>1. OnlyCall(c) /\ Unadmitted(c) /\ Ask[c].op # "request"
    BY <1>2, CodeCalls, LoginCalls, SessionCalls, UserCalls, RevealCalls, AccountsUnadmitted
  <2>2. fw' = fw
    BY <1>2, <2>1, AdmissionCalls, AuthCalls, ChargeCalls, KeyCalls, DeletionCalls, ClockCalls,
       CodeCalls, LoginCalls, SessionCalls, UserCalls, RevealCalls DEF Step, gatewayVars
  <2> QED BY <1>1, <2>1, <2>2, OthersQuiet
<1>3. CASE KeyCall(c) \/ DeletionCall(c)
  <2>1. OnlyCall(c) /\ Unadmitted(c) /\ Ask[c].op # "request" /\ fw' = fw
    BY <1>3, KeyCalls, DeletionCalls, GatewayUnadmitted
  <2> QED BY <1>1, <2>1, OthersQuiet
<1>4. CASE ClockCall(c)
  <2>1. OnlyCall(c) /\ Unadmitted(c) /\ Ask[c].op # "request"
    BY <1>4, ClockCalls, GatewayUnadmitted
  <2>2. Same
    BY <1>4 DEF ClockCall, Tick, Midnight, Expire, FirewallInv, FirewallFields
  <2> QED BY <2>1, <2>2, OthersQuiet
<1>5. CASE AuthCall(c) \/ ChargeCall(c)
  BY <1>5, RequestsQuiet
<1>6. CASE AdmissionCall(c)
  BY <1>6, SettingsQuiet, AdmitClientKeeps, AdmitAPIKeyKeeps, LeaveKeeps DEF AdmissionCall
<1> QED BY <1>2, <1>3, <1>4, <1>5, <1>6 DEF Step

LEMMA FirewallNext == Calling /\ FirewallInv /\ [Next]_vars => FirewallInv'
<1> SUFFICES ASSUME Calling, FirewallInv, [Next]_vars PROVE FirewallInv'
  OBVIOUS
<1>1. NoCall /\ fw' = fw => FirewallQuiet
  BY DEF NoCall, FirewallQuiet, FirewallInv
<1>2. Expiry \/ UNCHANGED vars => NoCall /\ fw' = fw
  BY ExpiryIsNoCall DEF Expiry, vars, gatewayVars, NoCall
<1>3. \A c \in Calls : Step(c) => FirewallInv'
  BY FirewallStep
<1> QED BY <1>1, <1>2, <1>3, NextSteps, FirewallQuietKeeps

\* The count of running requests, in all, by client address and by API key, is that of
\* the requests that were admitted and have not left, whatever settings are saved and
\* whichever entries are swept in between: AdmissionsAreCounted.
THEOREM AdmissionsAreAllCounted == Spec => []AdmissionsAreCounted
<1>1. FirewallInv => AdmissionsAreCounted
  BY DEF FirewallInv, AdmissionsAreCounted, Asking, Inside
<1> QED BY <1>1, FirewallStart, FirewallNext, CallsAreCalls, PTL DEF Spec

-----------------------------------------------------------------------------
(* The rate *)

\* The settings that are saved are normalised, and limit clients when they are enabled.
Saved(s) == s \in Settings /\ NormalizeRequestFirewallSettings(s)

\* n tokens are no more than the time t is worth at the rate of some settings.
Within(n, t) ==
    \E s \in Settings : Saved(s) /\ s.enabled /\ n * TicksPerMinute <= s.rateIP * t

LEMMA TimesMonotone == \A i, j, k \in Nat : i <= j => i * k <= j * k
<1> SUFFICES ASSUME NEW i \in Nat, NEW j \in Nat, NEW k \in Nat, i <= j PROVE i * k <= j * k
  OBVIOUS
<1> DEFINE d == j - i
<1>1. d \in Nat /\ j = i + d
  OBVIOUS
<1>2. d * k \in Nat
  BY <1>1
<1>3. j * k = i * k + d * k
  <2> HIDE DEF d
  <2> QED BY <1>1
<1>4. i * k \in Nat
  OBVIOUS
<1> HIDE DEF d
<1> QED BY <1>2, <1>3, <1>4

\* A rate is so many tokens to the tick.
LEMMA TokensPerTick ==
    ASSUME NEW s \in Settings, Saved(s)
    PROVE  /\ s.rateIP \in Nat /\ s.rateIP \div TicksPerMinute \in Nat
           /\ s.rateIP = TicksPerMinute * (s.rateIP \div TicksPerMinute)
<1>1. s.rateIP \in Nat /\ TicksPerMinute \in Nat \ {0} /\ s.rateIP % TicksPerMinute = 0
  BY FirewallAssumption DEF Saved, NormalizeRequestFirewallSettings
<1>2. \A i \in Nat, k \in Nat \ {0} :
         i % k = 0 => i \div k \in Nat /\ i = k * (i \div k)
  OBVIOUS
<1> QED BY <1>1, <1>2

\* Fewer tokens, or more time.
LEMMA WithinMore ==
    ASSUME NEW n \in Nat, NEW m \in Nat, NEW t \in Nat, NEW u \in Nat,
           n <= m, t <= u, Within(m, t)
    PROVE  Within(n, u)
<1>1. PICK s \in Settings : Saved(s) /\ s.enabled /\ m * TicksPerMinute <= s.rateIP * t
  BY DEF Within
<1>2. s.rateIP \in Nat /\ TicksPerMinute \in Nat
  BY <1>1, TokensPerTick, FirewallAssumption
<1>3. n * TicksPerMinute <= m * TicksPerMinute
  BY <1>2, TimesMonotone
<1>4. t * s.rateIP <= u * s.rateIP
  BY <1>2, TimesMonotone
<1>5. t * s.rateIP = s.rateIP * t /\ u * s.rateIP = s.rateIP * u
  BY <1>2
<1>6. /\ n * TicksPerMinute \in Nat /\ m * TicksPerMinute \in Nat
      /\ s.rateIP * t \in Nat /\ s.rateIP * u \in Nat
  BY <1>2
<1>7. n * TicksPerMinute <= s.rateIP * u
  BY <1>1, <1>3, <1>4, <1>5, <1>6
<1> QED BY <1>1, <1>7 DEF Within

\* The time from t to u fills a bucket at the rate of any settings, and the tokens stay
\* within the time at the higher one of the two rates.
LEMMA WithinGain ==
    ASSUME NEW n \in Nat, NEW t \in Nat, NEW u \in Nat, t <= u, Within(n, t),
           NEW s \in Settings, Saved(s), s.enabled
    PROVE  /\ (u - t) * (s.rateIP \div TicksPerMinute) \in Nat
           /\ Within(n + (u - t) * (s.rateIP \div TicksPerMinute), u)
<1> DEFINE d == u - t
           q == s.rateIP \div TicksPerMinute
           r == s.rateIP
<1>1. d \in Nat /\ u = t + d
  OBVIOUS
<1>2. q \in Nat /\ r \in Nat /\ r = TicksPerMinute * q /\ TicksPerMinute \in Nat
  BY TokensPerTick, FirewallAssumption
<1>3. PICK o \in Settings : Saved(o) /\ o.enabled /\ n * TicksPerMinute <= o.rateIP * t
  BY DEF Within
<1>4. o.rateIP \in Nat
  BY <1>3, TokensPerTick
<1>5. PICK w : w = o.rateIP
  OBVIOUS
<1> HIDE DEF d, q, r
<1>6. d * q \in Nat /\ d * r \in Nat /\ d * w \in Nat
  BY <1>1, <1>2, <1>4, <1>5
<1>7. (n + d * q) * TicksPerMinute = n * TicksPerMinute + d * r
  <2>1. \A i, j, k \in Nat : (i + j) * k = i * k + j * k
    OBVIOUS
  <2>2. (n + d * q) * TicksPerMinute = n * TicksPerMinute + (d * q) * TicksPerMinute
    BY <1>2, <1>6, <2>1
  <2>3. \A i, j, k \in Nat : (i * j) * k = i * (k * j)
    OBVIOUS
  <2>4. (d * q) * TicksPerMinute = d * (TicksPerMinute * q)
    BY <1>1, <1>2, <2>3
  <2> QED BY <1>2, <2>2, <2>4
<1>8. /\ w * u = w * t + d * w /\ r * u = r * t + d * r
      /\ w * t \in Nat /\ r * t \in Nat /\ n * TicksPerMinute \in Nat
  <2>1. \A i, j, k \in Nat : i * (j + k) = i * j + k * i /\ i * j \in Nat
    OBVIOUS
  <2> QED BY <1>1, <1>2, <1>4, <1>5, <2>1
<1>9. CASE w <= r
  <2>1. w * t <= r * t
    BY <1>2, <1>4, <1>5, <1>9, TimesMonotone
  <2>2. (n + d * q) * TicksPerMinute <= r * u
    BY <1>3, <1>5, <1>6, <1>7, <1>8, <2>1
  <2> QED BY <1>6, <2>2 DEF Within, d, q, r
<1>10. CASE r <= w
  <2>1. d * r <= d * w
    <3>1. r * d <= w * d
      BY <1>1, <1>2, <1>4, <1>5, <1>10, TimesMonotone
    <3>2. r * d = d * r /\ w * d = d * w
      BY <1>1, <1>2, <1>4, <1>5
    <3> QED BY <3>1, <3>2
  <2>2. (n + d * q) * TicksPerMinute <= o.rateIP * u
    BY <1>3, <1>5, <1>6, <1>7, <1>8, <2>1
  <2> QED BY <1>3, <1>6, <2>2 DEF Within, d, q
<1> QED BY <1>2, <1>4, <1>5, <1>9, <1>10

\* A full bucket is worth a minute.
LEMMA WithinFull ==
    ASSUME NEW n \in Nat, NEW t \in Nat, Within(n, t), NEW s \in Settings, Saved(s), s.enabled
    PROVE  Within(n + s.rateIP, TicksPerMinute + t)
<1>1. TicksPerMinute \in Nat /\ s.rateIP = TicksPerMinute * (s.rateIP \div TicksPerMinute)
  BY TokensPerTick, FirewallAssumption
<1>2. PICK u : u = TicksPerMinute + t
  OBVIOUS
<1>3. u \in Nat /\ t <= u /\ u - t = TicksPerMinute
  BY <1>1, <1>2
<1>4. Within(n + (u - t) * (s.rateIP \div TicksPerMinute), u)
  BY <1>3, WithinGain
<1> QED BY <1>1, <1>2, <1>3, <1>4

\* The time since which addresses without an entry have a full bucket.
Swept(f) == IF f.lastCleanup = Never THEN 0 ELSE f.lastCleanup

\* What an address was let in, n requests, and what its bucket holds come to no more than a
\* full bucket and the time up to its last refill; without a bucket, up to the last sweep.
Filled(entry, n) ==
    /\ entry.tokens \in Nat /\ entry.updatedAt \in Nat /\ entry.lastSeenAt \in Nat
    /\ entry.updatedAt <= entry.lastSeenAt
    /\ Within(n + entry.tokens, TicksPerMinute + entry.updatedAt)

Bucket(entries, swept, id, n) ==
    IF id \in DOMAIN entries THEN Filled(entries[id], n) ELSE Within(n, swept)

\* A request comes to a bucket no earlier than the last sweep and whoever was there before.
Timely(entries, swept, id, n, at) ==
    /\ Entries(entries) /\ n \in Nat /\ swept \in Nat /\ at \in Nat /\ swept <= at
    /\ Bucket(entries, swept, id, n)
    /\ id \in DOMAIN entries => entries[id].lastSeenAt <= at

\* A refill gives no more than the time is worth, to an old bucket and to a new one.
LEMMA RefillWithin ==
    ASSUME NEW entries, NEW swept, NEW id, NEW n, NEW at, Timely(entries, swept, id, n, at),
           NEW s \in Settings, Saved(s), s.enabled
    PROVE  LET full == Refill(EntryFor(entries, id, at), at, s.rateIP)
           IN Filled(full, n) /\ full.lastSeenAt = at /\ full.updatedAt = at
<1> DEFINE entry == EntryFor(entries, id, at)
           full == Refill(entry, at, s.rateIP)
           q == s.rateIP \div TicksPerMinute
           gain == (at - entry.updatedAt) * q
<1> USE DEF Timely
<1>1. DOMAIN entry = EntryFields /\ entry.lastSeenAt = at
  BY DEF EntryFor, Entries, NewEntry, EntryFields
<1>2. /\ full.lastSeenAt = at /\ full.updatedAt = at
      /\ full.tokens = IF entry.updatedAt = Never THEN s.rateIP
                       ELSE Smaller(s.rateIP, entry.tokens + gain)
  <2> HIDE DEF entry
  <2> QED BY <1>1 DEF Refill, EntryFields
<1>3. s.rateIP \in Nat /\ TicksPerMinute \in Nat
  BY TokensPerTick, FirewallAssumption
<1>4. CASE id \notin DOMAIN entries
  <2>1. entry.updatedAt = Never
    BY <1>4 DEF EntryFor, NewEntry
  <2>2. full.tokens = s.rateIP
    BY <1>2, <2>1
  <2>3. Within(n + s.rateIP, TicksPerMinute + swept)
    BY <1>4, WithinFull DEF Bucket
  <2> HIDE DEF entry, full
  <2>4. Within(n + s.rateIP, TicksPerMinute + at)
    <3>1. PICK m, t, u : m = n + s.rateIP /\ t = TicksPerMinute + swept /\ u = TicksPerMinute + at
      OBVIOUS
    <3>2. m \in Nat /\ t \in Nat /\ u \in Nat /\ m <= m /\ t <= u
      BY <1>3, <3>1
    <3>3. Within(m, u)
      BY <2>3, <3>1, <3>2, WithinMore
    <3> QED BY <3>1, <3>3
  <2>5. /\ full.tokens \in Nat /\ full.updatedAt = at /\ full.lastSeenAt = at
        /\ Within(n + full.tokens, TicksPerMinute + full.updatedAt)
    BY <1>2, <1>3, <2>2, <2>4
  <2>6. Filled(full, n) /\ full.lastSeenAt = at /\ full.updatedAt = at
    BY <2>5 DEF Filled
  <2> QED BY <2>6 DEF full, entry
<1>5. CASE id \in DOMAIN entries
  <2> DEFINE old == entries[id]
  <2>1. /\ old.tokens \in Nat /\ old.updatedAt \in Nat /\ old.lastSeenAt \in Nat
        /\ old.updatedAt <= old.lastSeenAt /\ old.lastSeenAt <= at
        /\ Within(n + old.tokens, TicksPerMinute + old.updatedAt)
    BY <1>5 DEF Bucket, Filled
  <2>2. entry.updatedAt = old.updatedAt /\ entry.tokens = old.tokens
    BY <1>5 DEF EntryFor, Entries, EntryFields
  <2> HIDE DEF entry, full, old
  <2>3. PICK i : i = old.tokens
    OBVIOUS
  <2>4. PICK t : t = TicksPerMinute + old.updatedAt
    OBVIOUS
  <2>5. PICK u : u = TicksPerMinute + at
    OBVIOUS
  <2>6. /\ i \in Nat /\ n + i \in Nat /\ t \in Nat /\ u \in Nat /\ t <= u
        /\ u - t = at - old.updatedAt /\ Within(n + i, t)
    BY <1>3, <2>1, <2>3, <2>4, <2>5
  <2>7. /\ (u - t) * (s.rateIP \div TicksPerMinute) \in Nat
        /\ Within((n + i) + (u - t) * (s.rateIP \div TicksPerMinute), u)
    BY <2>6, WithinGain
  <2>8. gain \in Nat /\ Within((n + i) + gain, u)
    BY <2>2, <2>6, <2>7
  <2>9. full.tokens = Smaller(s.rateIP, i + gain)
    BY <1>2, <2>1, <2>2, <2>3 DEF Never
  <2> HIDE DEF gain
  <2>10. /\ full.tokens \in Nat /\ n + full.tokens \in Nat /\ (n + i) + gain \in Nat
         /\ n + full.tokens <= (n + i) + gain
    BY <1>3, <2>6, <2>8, <2>9 DEF Smaller
  <2>11. Within(n + full.tokens, u)
    <3>1. PICK m, k : m = n + full.tokens /\ k = (n + i) + gain
      OBVIOUS
    <3>2. m \in Nat /\ k \in Nat /\ m <= k /\ u \in Nat /\ u <= u /\ Within(k, u)
      BY <2>6, <2>8, <2>10, <3>1
    <3>3. Within(m, u)
      BY <3>2, WithinMore
    <3> QED BY <3>1, <3>3
  <2>12. /\ full.tokens \in Nat /\ full.updatedAt = at /\ full.lastSeenAt = at
         /\ Within(n + full.tokens, TicksPerMinute + full.updatedAt)
    BY <1>2, <2>5, <2>10, <2>11
  <2>13. Filled(full, n) /\ full.lastSeenAt = at /\ full.updatedAt = at
    BY <2>12 DEF Filled
  <2> QED BY <2>13 DEF full, entry
<1> QED BY <1>4, <1>5

\* So does an admission, which takes the token it counts.
LEMMA AdmitWithin ==
    ASSUME NEW entries, NEW swept, NEW id, NEW n, NEW at, Timely(entries, swept, id, n, at),
           NEW s \in Settings, Saved(s), s.enabled, NEW limit \in Nat \ {0}
    PROVE  LET try == Admit(entries, id, at, limit, s.rateIP)
           IN /\ try.in \in BOOLEAN /\ DOMAIN try.entries = DOMAIN entries \cup {id}
              /\ Filled(try.entries[id], IF try.in THEN n + 1 ELSE n)
              /\ try.entries[id].lastSeenAt = at
              /\ \A j \in DOMAIN entries : j # id => try.entries[j] = entries[j]
<1> DEFINE entry == EntryFor(entries, id, at)
           full == Refill(entry, at, s.rateIP)
           more == [full EXCEPT !.tokens = @ - 1, !.active = @ + 1]
           try == Admit(entries, id, at, limit, s.rateIP)
<1>1. /\ DOMAIN entry = EntryFields /\ entry.lastSeenAt = at
      /\ id \in DOMAIN entries => /\ entry.tokens = entries[id].tokens
                                  /\ entry.updatedAt = entries[id].updatedAt
      /\ id \notin DOMAIN entries => entry.active = 0
  BY DEF Timely, EntryFor, Entries, NewEntry, EntryFields
<1>2. DOMAIN full = EntryFields
  <2> HIDE DEF entry
  <2> QED BY <1>1, Refilled
<1> USE DEF Timely
<1>3. Filled(full, n) /\ full.lastSeenAt = at /\ full.updatedAt = at
  <2> HIDE DEF Timely
  <2> QED BY RefillWithin
<1>4. DOMAIN more = EntryFields /\ more.tokens = full.tokens - 1
      /\ more.updatedAt = full.updatedAt /\ more.lastSeenAt = full.lastSeenAt
  <2> HIDE DEF full
  <2> QED BY <1>2 DEF EntryFields
<1>5. \/ try = [entries |-> Put(entries, id, entry), in |-> FALSE] /\ entry.active >= limit
      \/ try = [entries |-> Put(entries, id, full), in |-> FALSE]
      \/ try = [entries |-> Put(entries, id, more), in |-> TRUE] /\ ~(full.tokens < 1)
  BY DEF Admit
<1>6. \A new : /\ DOMAIN Put(entries, id, new) = DOMAIN entries \cup {id}
               /\ Put(entries, id, new)[id] = new
               /\ \A j \in DOMAIN entries : j # id => Put(entries, id, new)[j] = entries[j]
  BY DEF Put
<1> HIDE DEF entry, full, more, try
<1>7. CASE try = [entries |-> Put(entries, id, entry), in |-> FALSE] /\ entry.active >= limit
  <2>1. id \in DOMAIN entries
    BY <1>1, <1>7
  <2>2. Filled(entry, n)
    BY <1>1, <2>1 DEF Bucket, Filled
  <2> QED BY <1>1, <1>6, <1>7, <2>2 DEF try
<1>8. CASE try = [entries |-> Put(entries, id, full), in |-> FALSE]
  BY <1>3, <1>6, <1>8 DEF try
<1>9. CASE try = [entries |-> Put(entries, id, more), in |-> TRUE] /\ ~(full.tokens < 1)
  <2>1. Filled(more, n + 1)
    <3>1. full.tokens \in Nat /\ full.tokens > 0
      BY <1>3, <1>9 DEF Filled
    <3>2. more.tokens \in Nat /\ (n + 1) + more.tokens = n + full.tokens
      BY <1>4, <3>1
    <3> QED BY <1>3, <1>4, <3>2 DEF Filled
  <2> QED BY <1>3, <1>4, <1>6, <1>9, <2>1 DEF try
<1> QED BY <1>5, <1>7, <1>8, <1>9 DEF try

\* An entry is swept no sooner than its bucket would be full.
LEMMA SweepWithin ==
    ASSUME NEW f, DOMAIN f = FirewallFields, f.lastCleanup \in Nat \cup {Never},
           NEW at \in Nat
    PROVE  LET g == Cleanup(f, at)
           IN /\ g.config = f.config /\ g.behind = f.behind
              /\ g.lastCleanup \in {f.lastCleanup, at}
              /\ Swept(g) \in Nat /\ Swept(f) <= Swept(g)
              /\ DOMAIN g.ips \subseteq DOMAIN f.ips
              /\ \A j \in DOMAIN g.ips : g.ips[j] = f.ips[j]
              /\ \A j : \A n \in Nat : Bucket(f.ips, Swept(f), j, n) => Bucket(g.ips, Swept(g), j, n)
<1> DEFINE ips == Restrict(f.ips, DOMAIN f.ips \ Idle(f.ips, at))
           apiKeys == Restrict(f.apiKeys, DOMAIN f.apiKeys \ Idle(f.apiKeys, at))
           g == Cleanup(f, at)
<1>1. \/ g = f
      \/ /\ g = [f EXCEPT !.lastCleanup = at, !.ips = ips, !.apiKeys = apiKeys]
         /\ f.lastCleanup = Never \/ ~(at - f.lastCleanup < CleanupInterval)
  BY DEF Cleanup, FirewallFields
<1>2. /\ DOMAIN ips = DOMAIN f.ips \ Idle(f.ips, at)
      /\ \A j \in DOMAIN ips : ips[j] = f.ips[j]
  BY DEF Restrict
<1>3. \A j \in Idle(f.ips, at) : j \in DOMAIN f.ips /\ at - f.ips[j].lastSeenAt >= IdleTTL
  BY DEF Idle
<1> HIDE DEF ips, apiKeys, g
<1>4. Swept(f) \in Nat
  BY DEF Swept, Never
<1>5. CASE g = f
  BY <1>4, <1>5 DEF g
<1>6. CASE /\ g = [f EXCEPT !.lastCleanup = at, !.ips = ips, !.apiKeys = apiKeys]
           /\ f.lastCleanup = Never \/ ~(at - f.lastCleanup < CleanupInterval)
  <2>1. /\ g.config = f.config /\ g.behind = f.behind /\ g.lastCleanup = at /\ g.ips = ips
    BY <1>6 DEF FirewallFields
  <2>2. Swept(g) = at /\ Swept(f) <= at
    BY <1>6, <2>1, FirewallAssumption DEF Swept, Never
  <2>3. ASSUME NEW j, NEW n \in Nat, Bucket(f.ips, Swept(f), j, n) PROVE Bucket(ips, at, j, n)
    <3>1. CASE j \notin DOMAIN f.ips
      <4>1. Within(n, Swept(f)) /\ n <= n
        BY <2>3, <3>1 DEF Bucket
      <4>2. Within(n, at)
        BY <1>4, <2>2, <4>1, WithinMore
      <4> QED BY <1>2, <3>1, <4>2 DEF Bucket
    <3>2. CASE j \in DOMAIN f.ips /\ j \notin Idle(f.ips, at)
      BY <1>2, <2>3, <3>2 DEF Bucket
    <3>3. CASE j \in Idle(f.ips, at)
      <4>1. PICK tokens, t, seen : tokens = f.ips[j].tokens /\ t = f.ips[j].updatedAt
                                     /\ seen = f.ips[j].lastSeenAt
        OBVIOUS
      <4>2. /\ tokens \in Nat /\ t \in Nat /\ seen \in Nat /\ t <= seen
            /\ Within(n + tokens, TicksPerMinute + t)
        BY <1>3, <2>3, <3>3, <4>1 DEF Bucket, Filled
      <4>3. at - seen >= IdleTTL
        BY <1>3, <3>3, <4>1
      <4>4. TicksPerMinute \in Nat /\ IdleTTL \in Nat /\ IdleTTL >= TicksPerMinute
        BY FirewallAssumption
      <4>5. n + tokens \in Nat /\ TicksPerMinute + t \in Nat /\ n <= n + tokens /\ TicksPerMinute + t <= at
        BY <4>2, <4>3, <4>4
      <4>6. Within(n, at)
        BY <4>2, <4>5, WithinMore
      <4> QED BY <1>2, <3>3, <4>6 DEF Bucket
    <3> QED BY <1>3, <3>1, <3>2, <3>3
  <2> QED BY <1>2, <2>1, <2>2, <2>3 DEF g
<1> QED BY <1>1, <1>5, <1>6 DEF g

\* The same of the bucket of one address in a firewall, which no one saw after time t.
BucketBy(f, id, n, t) ==
    /\ Bucket(f.ips, Swept(f), id, n)
    /\ id \in DOMAIN f.ips => f.ips[id].lastSeenAt <= t

\* A client that is not behind leaves its bucket within the time, with one admission more
\* when it is let in, and every other bucket as it is.
LEMMA TrialWithin ==
    ASSUME NEW g, DOMAIN g = FirewallFields, Entries(g.ips), Saved(g.config), g.config.enabled,
           g.lastCleanup \in Nat \cup {Never}, NEW ip, NEW t \in Nat, NEW at \in 0 .. t,
           ~Late(g, ip, at), NEW j, NEW n \in Nat, BucketBy(g, j, n, t)
    PROVE  LET try == Trial(g, ip, at)
           IN /\ Bucket(try.entries, Swept(g), j,
                        IF try.in THEN n + OneMore(ip, j) ELSE n)
              /\ j \in DOMAIN try.entries => try.entries[j].lastSeenAt <= t
<1> DEFINE limit == g.config.perIP
           try == Trial(g, ip, at)
<1>1. at \in Nat /\ at <= t /\ Swept(g) \in Nat /\ Swept(g) <= at
  BY DEF Late, Behind, Swept, Never
<1>2. ip \in DOMAIN g.ips => ~(at < g.ips[ip].lastSeenAt)
  BY DEF Late, Behind
<1>3. limit \in Nat \ {0} /\ g.config \in Settings
  BY DEF Saved, NormalizeRequestFirewallSettings
<1>4. CASE j = ip
  <2>1. Bucket(g.ips, Swept(g), ip, n)
    BY <1>4 DEF BucketBy
  <2>2. ip \in DOMAIN g.ips => g.ips[ip].lastSeenAt <= at
    BY <1>1, <1>2, <2>1 DEF Bucket, Filled
  <2>3. /\ try.in \in BOOLEAN /\ DOMAIN try.entries = DOMAIN g.ips \cup {ip}
        /\ Filled(try.entries[ip], IF try.in THEN n + 1 ELSE n)
        /\ try.entries[ip].lastSeenAt = at
    <3> DEFINE entries == g.ips
               s == g.config
               swept == Swept(g)
               admission == Admit(entries, ip, at, s.perIP, s.rateIP)
    <3>1. Timely(entries, swept, ip, n, at)
      BY <1>1, <2>1, <2>2 DEF Timely
    <3>4. s \in Settings /\ Saved(s) /\ s.enabled /\ s.perIP \in Nat \ {0}
      BY <1>3
    <3>2. try = admission
      BY DEF Trial
    <3> HIDE DEF entries, s, swept
    <3>3. /\ admission.in \in BOOLEAN /\ DOMAIN admission.entries = DOMAIN entries \cup {ip}
          /\ Filled(admission.entries[ip], IF admission.in THEN n + 1 ELSE n)
          /\ admission.entries[ip].lastSeenAt = at
      BY <3>1, <3>4, AdmitWithin
    <3> HIDE DEF admission, try
    <3> QED BY <3>2, <3>3 DEF entries
  <2> HIDE DEF try
  <2>4. OneMore(ip, j) = 1
    BY <1>4 DEF OneMore
  <2>5. Filled(try.entries[j], IF try.in THEN n + OneMore(ip, j) ELSE n)
    BY <1>4, <2>3, <2>4
  <2> QED BY <1>1, <1>4, <2>3, <2>5 DEF Bucket, try
<1>5. CASE j # ip
  <2>1. /\ DOMAIN try.entries = DOMAIN g.ips \cup {ip}
        /\ j \in DOMAIN g.ips => try.entries[j] = g.ips[j]
    BY <1>5 DEF Trial, Admit, Put
  <2> HIDE DEF try
  <2>2. OneMore(ip, j) = 0 /\ n + 0 = n
    BY <1>5 DEF OneMore
  <2>3. (IF try.in THEN n + OneMore(ip, j) ELSE n) = n
    BY <2>2
  <2>4. /\ Bucket(try.entries, Swept(g), j, n)
        /\ j \in DOMAIN try.entries => try.entries[j].lastSeenAt <= t
    BY <1>5, <2>1 DEF BucketBy, Bucket
  <2> QED BY <2>3, <2>4 DEF try
<1> QED BY <1>4, <1>5

LEMMA ClientWithin ==
    ASSUME NEW f, DOMAIN f = FirewallFields, Entries(f.ips), Entries(f.apiKeys),
           Saved(f.config), f.lastCleanup \in Nat \cup {Never},
           NEW ip, NEW t \in Nat, NEW at \in 0 .. t
    PROVE  LET answer == AcquireClient(f, ip, at)
           IN /\ answer.fw.config = f.config /\ answer.fw.lastCleanup \in {f.lastCleanup, at}
              /\ ~answer.fw.behind => ~f.behind
              /\ ~answer.fw.behind => \A j : \A n \in Nat : BucketBy(f, j, n, t) =>
                    BucketBy(answer.fw, j,
                             IF answer.verdict = "in" THEN n + OneMore(ip, j) ELSE n, t)
<1> DEFINE g == Cleanup(f, at)
           answer == AcquireClient(f, ip, at)
<1>1. DOMAIN g = FirewallFields /\ Entries(g.ips)
  BY CleanupCounts
<1>2. at \in Nat
  OBVIOUS
<1>3. /\ g.config = f.config /\ g.behind = f.behind
      /\ g.lastCleanup \in {f.lastCleanup, at}
      /\ DOMAIN g.ips \subseteq DOMAIN f.ips
      /\ \A j \in DOMAIN g.ips : g.ips[j] = f.ips[j]
      /\ \A j : \A n \in Nat : Bucket(f.ips, Swept(f), j, n) => Bucket(g.ips, Swept(g), j, n)
  BY <1>2, SweepWithin
<1>4. \/ answer.fw = f /\ answer.verdict = "open"
      \/ answer.fw = g /\ answer.verdict = "refused"
      \/ /\ answer.fw = Entered(g, ip, at) /\ answer.verdict = "in"
         /\ Trial(g, ip, at).in /\ f.config.enabled
      \/ /\ answer.fw = TurnedAway(g, ip, at) /\ answer.verdict = "refused"
         /\ ~Trial(g, ip, at).in /\ f.config.enabled
  BY ClientAnswers
<1> HIDE DEF g, answer
<1>5. \A j : \A n \in Nat : BucketBy(f, j, n, t) => BucketBy(g, j, n, t)
  BY <1>3 DEF BucketBy
<1>6. CASE answer.verdict # "in" /\ (answer.fw = f \/ answer.fw = g)
  BY <1>3, <1>5, <1>6 DEF answer
<1>7. CASE /\ f.config.enabled
           /\ \/ answer.fw = Entered(g, ip, at) /\ answer.verdict = "in" /\ Trial(g, ip, at).in
              \/ /\ answer.fw = TurnedAway(g, ip, at) /\ answer.verdict = "refused"
                 /\ ~Trial(g, ip, at).in
  <2> DEFINE try == Trial(g, ip, at)
             late == Late(g, ip, at)
             h == answer.fw
  <2>1. late \in BOOLEAN
    BY DEF Late
  <2>2. /\ h.ips = try.entries /\ h.behind = late
        /\ h.config = g.config /\ h.lastCleanup = g.lastCleanup
    <3> HIDE DEF try, late
    <3>1. \/ h = [g EXCEPT !.ips = try.entries, !.active = @ + 1, !.behind = late]
          \/ h = [g EXCEPT !.ips = try.entries, !.behind = late]
      BY <1>7, Zenon DEF Entered, TurnedAway, try, late
    <3> QED BY <1>1, <3>1 DEF FirewallFields
  <2>3. ASSUME ~h.behind, NEW j, NEW n \in Nat, BucketBy(f, j, n, t)
        PROVE  BucketBy(h, j, IF answer.verdict = "in" THEN n + OneMore(ip, j) ELSE n, t)
    <3>1. BucketBy(g, j, n, t) /\ ~Late(g, ip, at)
      BY <1>5, <2>1, <2>2, <2>3
    <3>2. Saved(g.config) /\ g.config.enabled /\ g.lastCleanup \in Nat \cup {Never}
      BY <1>2, <1>3, <1>7
    <3>3. /\ Bucket(try.entries, Swept(g), j, IF try.in THEN n + OneMore(ip, j) ELSE n)
          /\ j \in DOMAIN try.entries => try.entries[j].lastSeenAt <= t
      BY <1>1, <3>1, <3>2, TrialWithin
    <3> HIDE DEF try, late, h
    <3>4. Swept(h) = Swept(g)
      BY <2>2 DEF Swept
    <3>5. (IF answer.verdict = "in" THEN n + OneMore(ip, j) ELSE n)
             = (IF try.in THEN n + OneMore(ip, j) ELSE n)
      BY <1>7 DEF try
    <3>6. /\ Bucket(h.ips, Swept(h), j, IF try.in THEN n + OneMore(ip, j) ELSE n)
          /\ j \in DOMAIN h.ips => h.ips[j].lastSeenAt <= t
      BY <2>2, <3>3, <3>4
    <3> QED BY <3>5, <3>6 DEF BucketBy
  <2>4. ~h.behind => ~f.behind
    <3>1. late = (g.behind \/ Behind(g, ip, at))
      BY DEF Late
    <3> HIDE DEF late, h
    <3> QED BY <1>3, <2>1, <2>2, <3>1
  <2> QED BY <1>3, <2>2, <2>3, <2>4 DEF answer
<1> QED BY <1>4, <1>6, <1>7 DEF answer

\* The buckets of addresses pass by the admission of keys and the releases.
LEMMA KeyWithin ==
    ASSUME NEW f, DOMAIN f = FirewallFields, Entries(f.ips), Entries(f.apiKeys),
           f.lastCleanup \in Nat \cup {Never}, NEW key, NEW t \in Nat, NEW at \in 0 .. t
    PROVE  LET h == AcquireAPIKey(f, key, at).fw
           IN /\ h.config = f.config /\ h.lastCleanup \in {f.lastCleanup, at}
              /\ h.behind = f.behind
              /\ \A j : \A n \in Nat : BucketBy(f, j, n, t) => BucketBy(h, j, n, t)
<1> DEFINE g == Cleanup(f, at)
           h == AcquireAPIKey(f, key, at).fw
<1>1. at \in Nat /\ DOMAIN g = FirewallFields
  BY CleanupCounts
<1>2. /\ g.config = f.config /\ g.behind = f.behind
      /\ g.lastCleanup \in {f.lastCleanup, at}
      /\ DOMAIN g.ips \subseteq DOMAIN f.ips
      /\ \A j \in DOMAIN g.ips : g.ips[j] = f.ips[j]
      /\ \A j : \A n \in Nat : Bucket(f.ips, Swept(f), j, n) => Bucket(g.ips, Swept(g), j, n)
  BY <1>1, SweepWithin
<1>3. h = f \/ \E entries : h = [g EXCEPT !.apiKeys = entries]
  BY DEF AcquireAPIKey, Verdict
<1> HIDE DEF g, h
<1>4. CASE h = f
  BY <1>4 DEF h
<1>5. CASE \E entries : h = [g EXCEPT !.apiKeys = entries]
  <2>1. /\ h.ips = g.ips /\ h.config = g.config /\ h.behind = g.behind
        /\ h.lastCleanup = g.lastCleanup
    BY <1>1, <1>5 DEF FirewallFields
  <2>2. Swept(h) = Swept(g)
    BY <2>1 DEF Swept
  <2>3. \A j : \A n \in Nat : BucketBy(f, j, n, t) => BucketBy(h, j, n, t)
    BY <1>2, <2>1, <2>2 DEF BucketBy
  <2> QED BY <1>2, <2>1, <2>3 DEF h
<1> QED BY <1>3, <1>4, <1>5

LEMMA ReleaseWithin ==
    ASSUME NEW f, DOMAIN f = FirewallFields, Entries(f.ips), NEW key, NEW ip
    PROVE  /\ LET h == ReleaseAPIKey(f, key)
              IN /\ DOMAIN h = FirewallFields /\ h.ips = f.ips /\ h.config = f.config
                 /\ h.lastCleanup = f.lastCleanup /\ h.behind = f.behind
           /\ LET h == ReleaseClient(f, ip)
              IN /\ h.config = f.config /\ h.lastCleanup = f.lastCleanup
                 /\ h.behind = f.behind
                 /\ \A j, n, t : BucketBy(f, j, n, t) => BucketBy(h, j, n, t)
<1> DEFINE h == ReleaseClient(f, ip)
           rest == Release(f.ips, ip)
<1>1. LET e == ReleaseAPIKey(f, key)
      IN /\ DOMAIN e = FirewallFields /\ e.ips = f.ips /\ e.config = f.config
         /\ e.lastCleanup = f.lastCleanup /\ e.behind = f.behind
  BY DEF ReleaseAPIKey, FirewallFields
<1>2. h.config = f.config /\ h.lastCleanup = f.lastCleanup /\ h.behind = f.behind /\ h.ips = rest
  BY DEF ReleaseClient, FirewallFields
<1>3. /\ DOMAIN rest = DOMAIN f.ips
      /\ \A j \in DOMAIN rest : /\ rest[j].tokens = f.ips[j].tokens
                               /\ rest[j].updatedAt = f.ips[j].updatedAt
                               /\ rest[j].lastSeenAt = f.ips[j].lastSeenAt
  BY DEF Release, Entries, EntryFields
<1> HIDE DEF h, rest
<1>4. Swept(h) = Swept(f)
  BY <1>2 DEF Swept
<1>5. \A j, n, t : BucketBy(f, j, n, t) => BucketBy(h, j, n, t)
  BY <1>2, <1>3, <1>4 DEF BucketBy, Bucket, Filled
<1> QED BY <1>1, <1>2, <1>5 DEF h

\* A bucket does for fewer requests as well, and later.
LEMMA BucketLater ==
    ASSUME NEW f, NEW h, h.ips = f.ips, h.lastCleanup = f.lastCleanup,
           f.lastCleanup \in Nat \cup {Never}, NEW j,
           NEW n \in Nat, NEW m \in Nat, n <= m, NEW t \in Nat, NEW u \in Nat, t <= u,
           BucketBy(f, j, m, t)
    PROVE  BucketBy(h, j, n, u)
<1>1. Swept(h) = Swept(f) /\ Swept(f) \in Nat
  BY DEF Swept, Never
<1>2. CASE j \notin DOMAIN f.ips
  <2>1. Within(n, Swept(f))
    BY <1>1, <1>2, WithinMore DEF BucketBy, Bucket
  <2> QED BY <1>1, <1>2, <2>1 DEF BucketBy, Bucket
<1>3. CASE j \in DOMAIN f.ips
  <2> DEFINE entry == f.ips[j]
  <2>1. Filled(entry, m) /\ entry.lastSeenAt <= t
    BY <1>3 DEF BucketBy, Bucket
  <2>2. PICK i, k : i = n + entry.tokens /\ k = m + entry.tokens
    OBVIOUS
  <2>3. PICK v : v = TicksPerMinute + entry.updatedAt
    OBVIOUS
  <2>4. i \in Nat /\ k \in Nat /\ v \in Nat /\ i <= k /\ v <= v /\ Within(k, v)
    BY <2>1, <2>2, <2>3, FirewallAssumption DEF Filled
  <2>5. Within(i, v)
    BY <2>4, WithinMore
  <2>6. Filled(entry, n) /\ entry.lastSeenAt <= u
    BY <2>1, <2>2, <2>3, <2>5 DEF Filled
  <2> QED BY <1>3, <2>6 DEF BucketBy, Bucket
<1> QED BY <1>2, <1>3

\* What the firewall goes by was saved once.
SettingsSaved ==
    /\ DOMAIN settings = {"row", "cached"}
    /\ Saved(fw.config) /\ Saved(settings.row)
    /\ settings.cached = None \/ Saved(settings.cached)

\* So were the settings that a call is about to apply; and the clock a request comes to its
\* bucket with has been read.
Prepared(c) == At(c, "request", "apply") \/ At(c, "firewall", "cache") => Saved(mem[c].row)
Timed(c) == At(c, "request", "client") \/ At(c, "request", "key") => mem[c].at \in 0 .. now

\* What every address was let in is within the time, unless someone was behind.
RateInv ==
    /\ now \in Nat /\ fw.lastCleanup \in (0 .. now) \cup {Never}
    /\ SettingsSaved
    /\ \A c \in Calls : Prepared(c) /\ Timed(c)
    /\ ~fw.behind => \A ip : BucketBy(fw, ip, Cardinality(LetIn(ip)), now)

LEMMA LetInFinite == \A ip : LetIn(ip) \in SUBSET Calls /\ Cardinality(LetIn(ip)) \in Nat
<1>1. \A ip : LetIn(ip) \in SUBSET Calls
  BY DEF LetIn, Asking
<1> QED BY <1>1, AccountAssumption, FS_Subset, FS_CardinalityType

LEMMA RateStart == Init => RateInv
<1> SUFFICES ASSUME Init PROVE RateInv
  OBVIOUS
<1>1. /\ fw = NewFirewall /\ now = 0 /\ settings = [row |-> DefaultSettings, cached |-> None]
      /\ \A c \in Calls : mem[c] = NewMem /\ pc[c] = "start"
  BY DEF Init, StartAccounts
<1>2. Saved(DefaultSettings) /\ DefaultSettings.enabled
  BY FirewallAssumption DEF DefaultSettings, Saved
<1>3. /\ fw.config = DefaultSettings /\ fw.lastCleanup = Never /\ DOMAIN fw.ips = {}
  BY <1>1 DEF NewFirewall
<1>4. \A c \in Calls : Prepared(c) /\ Timed(c)
  BY <1>1 DEF Prepared, Timed, At
<1>5. \A ip : Cardinality(LetIn(ip)) = 0
  <2>1. NewMem.n = 0
    BY DEF NewMem
  <2>2. \A ip : LetIn(ip) = {}
    BY <1>1, <2>1 DEF LetIn, Asking
  <2> QED BY <2>2, FS_EmptySet
<1>6. Within(0, 0)
  <2>1. 0 * TicksPerMinute <= DefaultSettings.rateIP * 0
    <3>1. TicksPerMinute \in Nat /\ DefaultSettings.rateIP \in Nat
      BY <1>2, FirewallAssumption, TokensPerTick DEF Saved
    <3> QED BY <3>1
  <2> QED BY <1>2, <2>1 DEF Within, Saved
<1>7. \A ip : BucketBy(fw, ip, Cardinality(LetIn(ip)), now)
  BY <1>3, <1>5, <1>6 DEF BucketBy, Bucket, Swept
<1> QED BY <1>1, <1>2, <1>3, <1>4, <1>7 DEF RateInv, SettingsSaved

\* A step of one call keeps what it says of its own memory, of the settings, the clock and
\* the buckets.
LEMMA RateKept ==
    ASSUME RateInv, NEW c \in Calls, OnlyCall(c), now' \in {now, now + 1},
           fw'.lastCleanup \in (0 .. now') \cup {Never}, SettingsSaved',
           Prepared(c)', Timed(c)',
           ~fw'.behind => \A ip : BucketBy(fw', ip, Cardinality(LetIn(ip)'), now')
    PROVE  RateInv'
<1>1. now' \in Nat /\ now <= now'
  BY DEF RateInv
<1>2. ASSUME NEW d \in Calls, d # c PROVE Prepared(d)' /\ Timed(d)'
  <2>1. Ask' = Ask /\ pc'[d] = pc[d] /\ mem'[d] = mem[d]
    BY <1>2 DEF OnlyCall
  <2>2. Prepared(d) /\ Timed(d)
    BY DEF RateInv
  <2> QED BY <1>1, <2>1, <2>2 DEF Prepared, Timed, At, RateInv
<1>3. \A ip : BucketBy(fw, ip, Cardinality(LetIn(ip)), now)' <=> BucketBy(fw', ip, Cardinality(LetIn(ip)'), now')
  BY DEF BucketBy, Swept
<1> QED BY <1>1, <1>2, <1>3 DEF RateInv

\* A request that is let in or turned away before stays so.
LEMMA SameLetIn ==
    ASSUME NEW c \in Calls, OnlyCall(c), Ask[c].op = "request" => mem'[c].n = mem[c].n
    PROVE  \A ip : LetIn(ip)' = LetIn(ip)
<1>1. Ask' = Ask /\ \A d \in Calls \ {c} : mem'[d] = mem[d]
  BY DEF OnlyCall
<1> QED BY <1>1 DEF LetIn, Asking

\* A step that leaves the buckets alone.
LEMMA RateQuiet ==
    ASSUME RateInv, NEW c \in Calls, OnlyCall(c), now' \in {now, now + 1},
           fw'.lastCleanup = fw.lastCleanup, fw'.behind = fw.behind, fw'.ips = fw.ips,
           SettingsSaved', Prepared(c)', Timed(c)',
           Ask[c].op = "request" => mem'[c].n = mem[c].n
    PROVE  RateInv'
<1>1. /\ now \in Nat /\ now' \in Nat /\ now <= now' /\ fw.lastCleanup \in Nat \cup {Never}
      /\ fw'.lastCleanup \in (0 .. now') \cup {Never}
  BY DEF RateInv
<1>2. ASSUME ~fw'.behind, NEW ip PROVE BucketBy(fw', ip, Cardinality(LetIn(ip)'), now')
  <2>1. BucketBy(fw, ip, Cardinality(LetIn(ip)), now)
    BY <1>2 DEF RateInv
  <2>2. PICK n : n = Cardinality(LetIn(ip))
    OBVIOUS
  <2>3. n \in Nat /\ n <= n /\ Cardinality(LetIn(ip)') = n
    BY <2>2, LetInFinite, SameLetIn
  <2>4. BucketBy(fw', ip, n, now')
    BY <1>1, <2>1, <2>2, <2>3, BucketLater
  <2> QED BY <2>3, <2>4
<1> QED BY <1>1, <1>2, RateKept

\* Calls that are no requests and do not touch the firewall.
LEMMA RateOthers ==
    ASSUME RateInv, NEW c \in Calls, OnlyCall(c), Ask[c].op \notin {"request", "firewall"},
           UNCHANGED <<fw, settings, now>>
    PROVE  RateInv'
<1>1. Prepared(c)' /\ Timed(c)' /\ SettingsSaved'
  BY DEF OnlyCall, Prepared, Timed, At, RateInv, SettingsSaved
<1> QED BY <1>1, RateQuiet DEF RateInv

LEMMA RateClock == ASSUME Calling, FirewallInv, RateInv, NEW c \in Calls, ClockCall(c) PROVE RateInv'
<1>1. OnlyCall(c) /\ Ask[c].op \in {"tick", "midnight", "expire"}
  BY ClockCalls
<1>2. Prepared(c)' /\ Timed(c)'
  BY <1>1 DEF OnlyCall, Prepared, Timed, At
<1>3. /\ now' \in {now, now + 1} /\ fw'.config = fw.config
      /\ fw'.lastCleanup = fw.lastCleanup /\ fw'.behind = fw.behind /\ fw'.ips = fw.ips
  BY DEF ClockCall, Tick, Midnight, Expire, FirewallInv, FirewallFields
<1>4. SettingsSaved'
  <2>1. settings' = settings \/ settings' = [settings EXCEPT !.cached = None]
    BY DEF ClockCall, Tick, Midnight, Expire
  <2>2. SettingsSaved
    BY DEF RateInv
  <2>3. /\ DOMAIN settings' = {"row", "cached"} /\ settings'.row = settings.row
        /\ settings'.cached \in {settings.cached, None}
    BY <2>1, <2>2 DEF SettingsSaved
  <2> QED BY <1>3, <2>2, <2>3 DEF SettingsSaved
<1> QED BY <1>1, <1>2, <1>3, <1>4, RateQuiet

LEMMA RateAuth ==
    ASSUME Calling, RateInv, NEW c \in Calls, AuthCall(c) \/ ChargeCall(c) PROVE RateInv'
<1>1. OnlyCall(c) /\ Ask[c].op = "request" /\ fw' = fw
  BY AuthCalls, ChargeCalls
<1>2. settings' = settings /\ now' = now
  BY DEF AuthCall, ReadKeyCache, ReadKeyRow, PopulateAuthPolicy, FillKeyCache, Authenticate,
         ReadBody, ChargeCall, CheckBalance, NotCharged, Charge, CommitCharge, gatewayVars
<1>3. /\ mem'[c].n = mem[c].n /\ pc'[c] \notin {"apply", "client"}
      /\ pc'[c] = "key" => mem'[c].at = now
  <2> USE DEF Calling, MemFields, At, Go, Keep, End, Refuse
  <2>1. CASE AuthCall(c)
    <3>1. CASE PopulateAuthPolicy(c)
      <4>1. PICK policy, role, groups :
               mem' = [mem EXCEPT ![c].row.policy = policy, ![c].row.role = role,
                                  ![c].row.groups = groups]
        BY <3>1 DEF PopulateAuthPolicy
      <4>2. pc'[c] = "fill"
        BY <3>1 DEF PopulateAuthPolicy
      <4> QED BY <4>1, <4>2
    <3>2. CASE ~PopulateAuthPolicy(c)
      BY <2>1, <3>2 DEF AuthCall, ReadKeyCache, ReadKeyRow, FillKeyCache, Authenticate, ReadBody
    <3> QED BY <3>1, <3>2
  <2>2. CASE ChargeCall(c)
    BY <2>2 DEF ChargeCall, CheckBalance, NotCharged, Charge, CommitCharge
  <2> QED BY <2>1, <2>2
<1>4. Prepared(c)' /\ Timed(c)' /\ SettingsSaved'
  <2>1. Ask' = Ask /\ now \in Nat
    BY <1>1 DEF OnlyCall, RateInv
  <2> QED BY <1>1, <1>2, <1>3, <2>1 DEF Prepared, Timed, At, RateInv, SettingsSaved
<1> QED BY <1>1, <1>2, <1>3, <1>4, RateQuiet

LEMMA RateSettings ==
    ASSUME Calling, FirewallInv, RateInv, NEW c \in Calls,
           \/ Arrive(c) \/ GetRequestFirewallSettings(c) \/ ApplySettings(c)
           \/ UpdateRequestFirewallSettings(c) \/ CacheSettings(c)
    PROVE  RateInv'
<1>1. OnlyCall(c) /\ Ask' = Ask
  BY AdmissionCalls DEF AdmissionCall, OnlyCall
<1>2. now' = now /\ now \in Nat
  BY DEF Arrive, GetRequestFirewallSettings, ApplySettings, UpdateRequestFirewallSettings,
         CacheSettings, gatewayVars, RateInv
<1>3. /\ fw'.lastCleanup = fw.lastCleanup /\ fw'.behind = fw.behind /\ fw'.ips = fw.ips
      /\ mem'[c].n = mem[c].n
  <2> USE DEF FirewallInv, FirewallFields, SetSettings, gatewayVars, Calling, MemFields, Go, Keep, End
  <2>1. CASE Arrive(c) \/ GetRequestFirewallSettings(c)
    BY <2>1 DEF Arrive, GetRequestFirewallSettings
  <2>2. CASE ApplySettings(c)
    BY <2>2 DEF ApplySettings
  <2>3. CASE CacheSettings(c)
    BY <2>3 DEF CacheSettings
  <2>4. CASE UpdateRequestFirewallSettings(c)
    BY <2>4 DEF UpdateRequestFirewallSettings
  <2> QED BY <2>1, <2>2, <2>3, <2>4
<1>4. SettingsSaved' /\ Prepared(c)' /\ Timed(c)'
  <2>1. SettingsSaved /\ Prepared(c)
    BY DEF RateInv
  <2>2. DOMAIN fw = FirewallFields
    BY DEF FirewallInv
  <2> USE DEF Calling, MemFields, At, Go, Keep, End
  <2>3. CASE Arrive(c)
    <3>1. /\ pc'[c] \in {"settings", "client"} /\ mem'[c].at = now /\ settings' = settings
          /\ Ask[c].op = "request" /\ fw'.config = fw.config
      BY <2>2, <2>3 DEF Arrive, FirewallFields
    <3> QED BY <1>1, <1>2, <2>1, <3>1 DEF SettingsSaved, Prepared, Timed
  <2>4. CASE GetRequestFirewallSettings(c)
    <3>1. /\ pc'[c] = "apply" /\ settings' = settings /\ fw' = fw
          /\ mem'[c].row = IF settings.cached = None THEN settings.row ELSE settings.cached
      BY <2>4 DEF GetRequestFirewallSettings, gatewayVars
    <3> QED BY <1>1, <2>1, <3>1 DEF SettingsSaved, Prepared, Timed
  <2>5. CASE ApplySettings(c)
    <3>1. /\ pc'[c] = "client" /\ mem'[c].at = now /\ Ask[c].op = "request" /\ Saved(mem[c].row)
          /\ settings' = [settings EXCEPT !.cached = mem[c].row] /\ fw'.config = mem[c].row
      BY <2>1, <2>2, <2>5 DEF ApplySettings, SetSettings, FirewallFields, Prepared
    <3>2. /\ DOMAIN settings' = {"row", "cached"} /\ settings'.row = settings.row
          /\ settings'.cached = mem[c].row
      BY <2>1, <3>1 DEF SettingsSaved
    <3> QED BY <1>1, <1>2, <2>1, <3>1, <3>2 DEF SettingsSaved, Prepared, Timed
  <2>6. CASE UpdateRequestFirewallSettings(c)
    <3>1. Ask[c].op = "firewall" /\ fw' = fw
      BY <2>6 DEF UpdateRequestFirewallSettings
    <3>2. PICK s \in Settings :
             IF NormalizeRequestFirewallSettings(s)
             THEN /\ settings' = [settings EXCEPT !.row = s]
                  /\ Keep(c, "row", s) /\ Go(c, "cache")
             ELSE End(c, "bad_request") /\ UNCHANGED settings
      BY <2>6 DEF UpdateRequestFirewallSettings
    <3>3. CASE NormalizeRequestFirewallSettings(s)
      <4>1. settings' = [settings EXCEPT !.row = s] /\ Saved(s) /\ mem'[c].row = s
        BY <3>2, <3>3 DEF Saved
      <4>2. /\ DOMAIN settings' = {"row", "cached"} /\ settings'.row = s
            /\ settings'.cached = settings.cached
        BY <2>1, <4>1 DEF SettingsSaved
      <4> QED BY <1>1, <2>1, <3>1, <4>1, <4>2 DEF SettingsSaved, Prepared, Timed
    <3>4. CASE ~NormalizeRequestFirewallSettings(s)
      <4>1. pc'[c] = "done" /\ settings' = settings
        BY <3>2, <3>4
      <4> QED BY <1>1, <2>1, <3>1, <4>1 DEF SettingsSaved, Prepared, Timed
    <3> QED BY <3>3, <3>4
  <2>7. CASE CacheSettings(c)
    <3>1. /\ pc'[c] = "done" /\ Saved(mem[c].row)
          /\ settings' = [settings EXCEPT !.cached = mem[c].row] /\ fw'.config = mem[c].row
      BY <2>1, <2>2, <2>7 DEF CacheSettings, SetSettings, FirewallFields, Prepared
    <3>2. /\ DOMAIN settings' = {"row", "cached"} /\ settings'.row = settings.row
          /\ settings'.cached = mem[c].row
      BY <2>1, <3>1 DEF SettingsSaved
    <3> QED BY <1>1, <2>1, <3>1, <3>2 DEF SettingsSaved, Prepared, Timed
  <2> QED BY <2>3, <2>4, <2>5, <2>6, <2>7
<1> QED BY <1>1, <1>2, <1>3, <1>4, RateQuiet

LEMMA RateAdmitClient ==
    ASSUME Calling, FirewallInv, RateInv, NEW c \in Calls, AdmitClient(c) PROVE RateInv'
<1> DEFINE ip == Ask[c].ip
           answer == AcquireClient(fw, ip, mem[c].at)
<1>1. OnlyCall(c) /\ Ask' = Ask
  BY AdmissionCalls DEF AdmissionCall, OnlyCall
<1>2. /\ Ask[c].op = "request" /\ pc[c] = "client" /\ fw' = answer.fw
      /\ settings' = settings /\ now' = now
  BY DEF AdmitClient, At
<1>3. /\ pc'[c] \in {"done", "cache"}
      /\ mem'[c].n = 1 => answer.verdict = "in" \/ mem[c].n = 1
  BY DEF AdmitClient, Calling, Go, End, Keep, MemFields
<1>4. /\ DOMAIN fw = FirewallFields /\ Entries(fw.ips) /\ Entries(fw.apiKeys)
      /\ Saved(fw.config) /\ fw.lastCleanup \in Nat \cup {Never}
      /\ now \in Nat /\ mem[c].at \in 0 .. now
  BY <1>2 DEF FirewallInv, RateInv, SettingsSaved, Timed, At
<1>5. /\ answer.fw.config = fw.config /\ answer.fw.lastCleanup \in {fw.lastCleanup, mem[c].at}
      /\ ~answer.fw.behind => ~fw.behind
      /\ ~answer.fw.behind => \A j : \A n \in Nat : BucketBy(fw, j, n, now) =>
            BucketBy(answer.fw, j,
                     IF answer.verdict = "in" THEN n + OneMore(ip, j) ELSE n, now)
  BY <1>4, ClientWithin
<1> HIDE DEF answer
<1>6. SettingsSaved' /\ Prepared(c)' /\ Timed(c)'
  BY <1>1, <1>2, <1>3, <1>5 DEF SettingsSaved, Prepared, Timed, At, RateInv
<1>7. fw'.lastCleanup \in (0 .. now') \cup {Never}
  BY <1>2, <1>4, <1>5 DEF RateInv
<1>8. ASSUME ~fw'.behind, NEW j PROVE BucketBy(fw', j, Cardinality(LetIn(j)'), now')
  <2>1. PICK n, m : n = Cardinality(LetIn(j)) /\ m = Cardinality(LetIn(j)')
    OBVIOUS
  <2>2. LetIn(j)' \subseteq IF answer.verdict = "in" /\ j = ip THEN LetIn(j) \cup {c} ELSE LetIn(j)
    BY <1>1, <1>3 DEF OnlyCall, LetIn, Asking
  <2>3. IsFiniteSet(LetIn(j)) /\ n \in Nat
    BY <2>1, LetInFinite, AccountAssumption, FS_Subset
  <2>4. m \in Nat /\ m <= IF answer.verdict = "in" THEN n + OneMore(ip, j) ELSE n
    <3>1. CASE answer.verdict = "in" /\ j = ip
      <4>1. IsFiniteSet(LetIn(j) \cup {c}) /\ Cardinality(LetIn(j) \cup {c}) <= n + 1
        <5> DEFINE S == LetIn(j)
        <5>1. IsFiniteSet(S) /\ Cardinality(S) = n /\ n \in Nat
          BY <2>1, <2>3
        <5> HIDE DEF S
        <5>2. IsFiniteSet(S \cup {c}) /\ Cardinality(S \cup {c}) <= n + 1
          BY <5>1, FS_AddElement
        <5> QED BY <5>2 DEF S
      <4>2. m <= Cardinality(LetIn(j) \cup {c}) /\ m \in Nat /\ Cardinality(LetIn(j) \cup {c}) \in Nat
        BY <2>1, <2>2, <3>1, <4>1, FS_Subset, FS_CardinalityType
      <4> QED BY <2>3, <3>1, <4>1, <4>2 DEF OneMore
    <3>2. CASE ~(answer.verdict = "in" /\ j = ip)
      <4>1. m <= n /\ m \in Nat
        BY <2>1, <2>2, <2>3, <3>2, FS_Subset, FS_CardinalityType
      <4> QED BY <2>3, <3>2, <4>1 DEF OneMore
    <3> QED BY <3>1, <3>2
  <2>5. PICK k : k = IF answer.verdict = "in" THEN n + OneMore(ip, j) ELSE n
    OBVIOUS
  <2>6. k \in Nat /\ m <= k
    BY <2>3, <2>4, <2>5 DEF OneMore
  <2>7. BucketBy(fw, j, n, now)
    BY <1>2, <1>5, <1>8, <2>1 DEF RateInv
  <2>8. BucketBy(fw', j, k, now)
    BY <1>2, <1>5, <1>8, <2>3, <2>5, <2>7
  <2>9. BucketBy(fw', j, m, now)
    <3>1. fw'.lastCleanup \in Nat \cup {Never} /\ now <= now
      BY <1>2, <1>4, <1>5
    <3> QED BY <1>4, <2>4, <2>6, <2>8, <3>1, BucketLater
  <2> QED BY <1>2, <2>1, <2>9
<1> QED BY <1>1, <1>2, <1>6, <1>7, <1>8, RateKept

LEMMA RateAdmitAPIKey ==
    ASSUME Calling, FirewallInv, RateInv, NEW c \in Calls, AdmitAPIKey(c) PROVE RateInv'
<1> DEFINE h == AcquireAPIKey(fw, Ask[c].key, mem[c].at).fw
<1>1. OnlyCall(c) /\ Ask' = Ask
  BY AdmissionCalls DEF AdmissionCall, OnlyCall
<1>2. /\ Ask[c].op = "request" /\ pc[c] = "key" /\ fw' = h
      /\ settings' = settings /\ now' = now
  BY DEF AdmitAPIKey, At
<1>3. pc'[c] \in {"leave", "body"} /\ mem'[c].n = mem[c].n
  BY DEF AdmitAPIKey, Refuse, Calling, Go, End, Keep, MemFields
<1>4. /\ DOMAIN fw = FirewallFields /\ Entries(fw.ips) /\ Entries(fw.apiKeys)
      /\ fw.lastCleanup \in Nat \cup {Never} /\ now \in Nat /\ mem[c].at \in 0 .. now
  BY <1>2 DEF FirewallInv, RateInv, Timed, At
<1>5. /\ h.config = fw.config /\ h.lastCleanup \in {fw.lastCleanup, mem[c].at}
      /\ h.behind = fw.behind
      /\ \A j : \A n \in Nat : BucketBy(fw, j, n, now) => BucketBy(h, j, n, now)
  BY <1>4, KeyWithin
<1> HIDE DEF h
<1>6. SettingsSaved' /\ Prepared(c)' /\ Timed(c)'
  BY <1>1, <1>2, <1>3, <1>5 DEF SettingsSaved, Prepared, Timed, At, RateInv
<1>7. fw'.lastCleanup \in (0 .. now') \cup {Never}
  BY <1>2, <1>4, <1>5 DEF RateInv
<1>8. ASSUME ~fw'.behind, NEW j PROVE BucketBy(fw', j, Cardinality(LetIn(j)'), now')
  <2>1. LetIn(j)' = LetIn(j) /\ Cardinality(LetIn(j)) \in Nat
    BY <1>1, <1>3, SameLetIn, LetInFinite
  <2>2. BucketBy(fw, j, Cardinality(LetIn(j)), now)
    BY <1>2, <1>5, <1>8 DEF RateInv
  <2> QED BY <1>2, <1>5, <2>1, <2>2
<1> QED BY <1>1, <1>2, <1>6, <1>7, <1>8, RateKept

LEMMA RateLeave ==
    ASSUME Calling, FirewallInv, RateInv, NEW c \in Calls, Leave(c) PROVE RateInv'
<1> DEFINE key == Ask[c].key
           ip == Ask[c].ip
           freed == IF mem[c].key = "in" THEN ReleaseAPIKey(fw, key) ELSE fw
<1>1. OnlyCall(c) /\ Ask' = Ask
  BY AdmissionCalls DEF AdmissionCall, OnlyCall
<1>2. /\ Ask[c].op = "request" /\ settings' = settings /\ now' = now
      /\ fw' = IF mem[c].client = "in" THEN ReleaseClient(freed, ip) ELSE freed
  BY DEF Leave, At
<1>3. pc'[c] = "done" /\ mem'[c].n = mem[c].n
  BY DEF Leave, Calling, Go, MemFields
<1>4. DOMAIN fw = FirewallFields /\ Entries(fw.ips)
  BY DEF FirewallInv
<1>5. /\ DOMAIN freed = FirewallFields /\ freed.ips = fw.ips /\ freed.config = fw.config
      /\ freed.lastCleanup = fw.lastCleanup /\ freed.behind = fw.behind
  BY <1>4, ReleaseWithin
<1> HIDE DEF freed
<1>6. \A j, n, t : BucketBy(fw, j, n, t) => BucketBy(freed, j, n, t)
  BY <1>5 DEF BucketBy, Swept
<1>7. /\ fw'.config = fw.config /\ fw'.lastCleanup = fw.lastCleanup /\ fw'.behind = fw.behind
      /\ \A j, n, t : BucketBy(fw, j, n, t) => BucketBy(fw', j, n, t)
  <2>1. CASE mem[c].client = "in"
    <3>1. fw' = ReleaseClient(freed, ip) /\ Entries(freed.ips)
      BY <1>2, <1>4, <1>5, <2>1
    <3>2. /\ fw'.config = freed.config /\ fw'.lastCleanup = freed.lastCleanup
          /\ fw'.behind = freed.behind
          /\ \A j, n, t : BucketBy(freed, j, n, t) => BucketBy(fw', j, n, t)
      BY <1>5, <3>1, ReleaseWithin
    <3> QED BY <1>5, <1>6, <3>2
  <2>2. CASE mem[c].client # "in"
    BY <1>2, <1>5, <1>6, <2>2
  <2> QED BY <2>1, <2>2
<1>8. SettingsSaved' /\ Prepared(c)' /\ Timed(c)' /\ fw'.lastCleanup \in (0 .. now') \cup {Never}
  BY <1>1, <1>2, <1>3, <1>7 DEF SettingsSaved, Prepared, Timed, At, RateInv
<1>9. ASSUME ~fw'.behind, NEW j PROVE BucketBy(fw', j, Cardinality(LetIn(j)'), now')
  <2>1. LetIn(j)' = LetIn(j)
    BY <1>1, <1>3, SameLetIn
  <2>2. BucketBy(fw, j, Cardinality(LetIn(j)), now)
    BY <1>7, <1>9 DEF RateInv
  <2> QED BY <1>2, <1>7, <2>1, <2>2
<1> QED BY <1>1, <1>2, <1>8, <1>9, RateKept

LEMMA RateStep ==
    ASSUME Calling, FirewallInv, RateInv, NEW c \in Calls, Step(c) PROVE RateInv'
<1>1. CASE CodeCall(c) \/ LoginCall(c) \/ SessionCall(c) \/ UserCall(c) \/ RevealCall(c)
  <2>1. OnlyCall(c) /\ Ask[c].op \notin {"request", "firewall"}
    BY <1>1, CodeCalls, LoginCalls, SessionCalls, UserCalls, RevealCalls
  <2>2. Ask[c].op \notin {"createKey", "updateKey", "deleteKey", "revealKey", "deleteUser",
                          "tick", "midnight", "expire"}
    BY <1>1, CodeCalls, LoginCalls, SessionCalls, UserCalls, RevealCalls
  <2>3. UNCHANGED <<fw, settings, now>>
    BY <2>1, <2>2, AdmissionCalls, AuthCalls, ChargeCalls, KeyCalls, DeletionCalls, ClockCalls
       DEF Step, gatewayVars
  <2> QED BY <2>1, <2>3, RateOthers
<1>2. CASE KeyCall(c) \/ DeletionCall(c)
  <2>1. OnlyCall(c) /\ Ask[c].op \notin {"request", "firewall"}
    BY <1>2, KeyCalls, DeletionCalls
  <2>2. UNCHANGED <<fw, settings, now>>
    BY <1>2 DEF KeyCall, CreateKey, FindKey, WriteKey, RemoveKey, ClearKeyCache, RevealKey,
                DeletionCall, ListUserKeys, DeleteUser, ClearUserKeys, gatewayVars
  <2> QED BY <2>1, <2>2, RateOthers
<1>3. CASE ClockCall(c)
  BY <1>3, RateClock
<1>4. CASE AuthCall(c) \/ ChargeCall(c)
  BY <1>4, RateAuth
<1>5. CASE AdmissionCall(c)
  BY <1>5, RateSettings, RateAdmitClient, RateAdmitAPIKey, RateLeave DEF AdmissionCall
<1> QED BY <1>1, <1>2, <1>3, <1>4, <1>5 DEF Step

LEMMA RateNext == Calling /\ FirewallInv /\ RateInv /\ [Next]_vars => RateInv'
<1> SUFFICES ASSUME Calling, FirewallInv, RateInv, [Next]_vars PROVE RateInv'
  OBVIOUS
<1>1. ASSUME Expiry \/ UNCHANGED vars PROVE RateInv'
  <2>1. UNCHANGED <<Ask, pc, mem, fw, settings, now>>
    BY <1>1, ExpiryIsNoCall DEF Expiry, vars, gatewayVars, NoCall
  <2>2. \A ip : LetIn(ip)' = LetIn(ip)
    BY <2>1 DEF LetIn, Asking
  <2> QED BY <2>1, <2>2 DEF RateInv, SettingsSaved, Prepared, Timed, At, BucketBy, Swept
<1>2. \A c \in Calls : Step(c) => RateInv'
  BY RateStep
<1> QED BY <1>1, <1>2, NextSteps

\* No client address is let in more often than a full bucket and the time since the start
\* are worth at the highest rate that may be saved, whichever settings follow each other and
\* whichever buckets are swept and filled anew, unless a request came to its bucket with
\* a clock that another was ahead of: AdmissionsAreBounded.
THEOREM AdmissionsAreAllBounded == Spec => []AdmissionsAreBounded
<1>1. ASSUME RateInv, ~fw.behind, NEW ip
      PROVE  Within(Cardinality(LetIn(ip)), TicksPerMinute + now)
  <2>1. PICK n, u : n = Cardinality(LetIn(ip)) /\ u = TicksPerMinute + now
    OBVIOUS
  <2>2. /\ n \in Nat /\ u \in Nat /\ now <= u /\ now \in Nat /\ BucketBy(fw, ip, n, now)
        /\ Swept(fw) \in Nat /\ Swept(fw) <= now
    BY <1>1, <2>1, LetInFinite, FirewallAssumption DEF RateInv, Swept, Never
  <2>3. CASE ip \notin DOMAIN fw.ips
    <3>1. Within(n, Swept(fw)) /\ n <= n /\ Swept(fw) <= u
      BY <2>2, <2>3 DEF BucketBy, Bucket
    <3>2. Within(n, u)
      BY <2>2, <3>1, WithinMore
    <3> QED BY <2>1, <3>2
  <2>4. CASE ip \in DOMAIN fw.ips
    <3> DEFINE entry == fw.ips[ip]
    <3>1. Filled(entry, n) /\ entry.lastSeenAt <= now
      BY <2>2, <2>4 DEF BucketBy, Bucket
    <3> HIDE DEF entry
    <3>2. PICK m, t : m = n + entry.tokens /\ t = TicksPerMinute + entry.updatedAt
      OBVIOUS
    <3>3. m \in Nat /\ t \in Nat /\ n <= m /\ t <= u /\ Within(m, t)
      BY <2>1, <2>2, <3>1, <3>2, FirewallAssumption DEF Filled
    <3>4. Within(n, u)
      BY <2>2, <3>3, WithinMore
    <3> QED BY <2>1, <3>4
  <2> QED BY <2>3, <2>4
<1>2. AdmissionsAreCounted /\ RateInv => AdmissionsAreBounded
  BY <1>1 DEF AdmissionsAreBounded, Within, Saved
<1> QED BY <1>2, FirewallStart, FirewallNext, RateStart, RateNext, CallsAreCalls,
           AdmissionsAreAllCounted, PTL DEF Spec
=============================================================================
