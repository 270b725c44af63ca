------------------------------- MODULE Accounts -------------------------------
(***************************************************************************)
(* Users of the gateway: their rows (src/internal/logic/user), the login   *)
(* through Casdoor and its sessions (src/internal/logic/auth), redemption  *)
(* codes (src/internal/logic/redemption) and the mailed code that opens    *)
(* the view of upstream keys (src/internal/logic/mail/credential_          *)
(* reveal.go). Each call of the API is one process: Ask says what it       *)
(* wants, pc how far it is, mem what it has read. A transaction is one     *)
(* step; what a call reads outside of it is read earlier. Module Gateway   *)
(* adds API keys, requests and the firewall.                               *)
(***************************************************************************)
EXTENDS RequestFirewall

CONSTANTS
    Users, Codes, None,
    Calls,      \* the calls a run looks at
    Asks,       \* the ways to assign an operation to each call
    Account,    \* user -> its row in the beginning
    Printed     \* the codes that exist in the beginning

VARIABLES
    Ask,        \* call -> [op, user, of, code, key, ip, amount, on]
    pc, mem,
    users,      \* user -> [there, enabled, role, over, balance, groups, email]
    codes,      \* code -> [there, amount, expired, usedBy]
    oauth,      \* the logins whose state is stored
    sessions,   \* callback call -> the user of its session, or None
    reveal      \* user -> [code, cooldown, open]

accountVars == <<users, codes, oauth, sessions, reveal>>

Roles == {"admin", "user"}
UserRow == [there : BOOLEAN, enabled : BOOLEAN, role : Roles, over : Roles \cup {None},
            balance : Nat, groups : Nat, email : BOOLEAN]

\* Prices are not negative, and codes are random: a new one has a new name.
ASSUME AccountAssumption ==
    /\ IsFiniteSet(Calls) /\ IsFiniteSet(Codes)
    /\ None \notin Users
    /\ Account \in [Users -> UserRow]
    /\ Printed \subseteq Codes
    /\ \A ask \in Asks :
          /\ DOMAIN ask = Calls
          /\ \A c \in Calls :
                /\ ask[c].user \in Users /\ ask[c].code \in Codes /\ ask[c].amount \in Int
                /\ ask[c].op = "request" => ask[c].amount \in Nat
                /\ ask[c].op = "createCode" =>
                      /\ ask[c].code \notin Printed
                      /\ \A d \in Calls \ {c} :
                            ask[d].op = "createCode" => ask[d].code # ask[c].code

NewMem == [row |-> None, user |-> None, result |-> "", n |-> 0, at |-> Never,
           client |-> "out", key |-> "out", ids |-> {}, role |-> ""]

StartAccounts ==
    /\ Ask \in Asks
    /\ pc = [c \in Calls |-> "start"]
    /\ mem = [c \in Calls |-> NewMem]
    /\ users = Account
    /\ codes = [k \in Codes |-> [there |-> k \in Printed, amount |-> 2, expired |-> FALSE,
                                 usedBy |-> None]]
    /\ oauth = {}
    /\ sessions = [c \in Calls |-> None]
    /\ reveal = [u \in Users |-> [code |-> None, cooldown |-> FALSE, open |-> FALSE]]

At(c, op, step) == Ask[c].op = op /\ pc[c] = step
Go(c, step) == pc' = [pc EXCEPT ![c] = step]
Keep(c, field, value) == mem' = [mem EXCEPT ![c][field] = value]
End(c, result) == Go(c, "done") /\ Keep(c, "result", result)
Me(c) == Ask[c].user

\* A charge holds the rows of its user and key from its first statement to its commit.
Charging(u) == \E c \in Calls : At(c, "request", "commit") /\ Me(c) = u

-----------------------------------------------------------------------------
(* Redemption codes. *)

CodeStatus(code) ==
    CASE code.usedBy # None -> "used"
      [] code.usedBy = None /\ code.expired -> "expired"
      [] OTHER -> "active"

ReadCode(c) ==
    /\ At(c, "redeem", "start")
    /\ IF codes[Ask[c].code].there /\ CodeStatus(codes[Ask[c].code]) = "active"
       THEN Go(c, "claim") /\ Keep(c, "row", codes[Ask[c].code])
       ELSE End(c, "refused")
    /\ UNCHANGED <<Ask, accountVars>>

\* Credit: the amount must be positive and the user there.
CanCredit(u, amount) == amount > 0 /\ users[u].there

\* Bug: the claim does not ask whether the code is still free.
MutClaimable(code) == code.there /\ ~code.expired

\* The conditional update of the code.
Claimable(code) == code.there /\ code.usedBy = None /\ ~code.expired

\* Claim and credit are one transaction; it fails as a whole.
Claim(c) ==
    LET k == Ask[c].code
        u == Me(c)
        paid == Claimable(codes[k]) /\ CanCredit(u, mem[c].row.amount)
    IN /\ At(c, "redeem", "claim")
       /\ ~Charging(u)
       /\ IF paid
          THEN /\ codes' = [codes EXCEPT ![k].usedBy = u]
               /\ users' = [users EXCEPT ![u].balance = @ + mem[c].row.amount]
               /\ End(c, "ok")
          ELSE End(c, "refused") /\ UNCHANGED <<codes, users>>
       /\ UNCHANGED <<Ask, oauth, sessions, reveal>>

ReadInvalid(c) ==
    /\ At(c, "deleteInvalid", "start")
    /\ Go(c, "delete")
    /\ Keep(c, "ids", {k \in Codes : codes[k].there /\ CodeStatus(codes[k]) # "active"})
    /\ UNCHANGED <<Ask, accountVars>>

DeleteInvalid(c) ==
    /\ At(c, "deleteInvalid", "delete")
    /\ codes' = [k \in Codes |-> [codes[k] EXCEPT !.there = @ /\ k \notin mem[c].ids]]
    /\ End(c, "ok")
    /\ UNCHANGED <<Ask, users, oauth, sessions, reveal>>

\* The input of a creation; codes are random, so a new one has a new name.
NormalizeCreateInput(amount) == 0 < amount /\ amount <= 999999999
CreateCodes(c) ==
    /\ At(c, "createCode", "start")
    /\ IF NormalizeCreateInput(Ask[c].amount) /\ ~codes[Ask[c].code].there
       THEN /\ codes' = [codes EXCEPT ![Ask[c].code] =
                            [there |-> TRUE, amount |-> Ask[c].amount, expired |-> FALSE,
                             usedBy |-> None]]
            /\ End(c, "ok")
       ELSE End(c, "refused") /\ UNCHANGED codes
    /\ UNCHANGED <<Ask, users, oauth, sessions, reveal>>

CodeExpires ==
    /\ \E k \in Codes : ~codes[k].expired /\ codes' = [codes EXCEPT ![k].expired = TRUE]
    /\ \E c \in Calls : Ask[c].op = "redeem" /\ pc[c] # "done"
    /\ UNCHANGED <<Ask, pc, mem, users, oauth, sessions, reveal>>

-----------------------------------------------------------------------------
(* Login through Casdoor. *)

BeginLogin(c) ==
    /\ At(c, "login", "start")
    /\ oauth' = oauth \cup {c}
    /\ End(c, "ok")
    /\ UNCHANGED <<Ask, users, codes, sessions, reveal>>

\* Bug: the state stays after it was used.
MutTakeState(c) ==
    /\ At(c, "callback", "start")
    /\ IF Ask[c].on /\ Ask[c].of \in oauth THEN Go(c, "exchange") /\ UNCHANGED mem
       ELSE End(c, "invalid_state")
    /\ UNCHANGED <<Ask, accountVars>>

\* The state must be the browser's own and is taken once.
TakeState(c) ==
    /\ At(c, "callback", "start")
    /\ IF Ask[c].on /\ Ask[c].of \in oauth
       THEN Go(c, "exchange") /\ oauth' = oauth \ {Ask[c].of} /\ UNCHANGED mem
       ELSE End(c, "invalid_state") /\ UNCHANGED oauth
    /\ UNCHANGED <<Ask, users, codes, sessions, reveal>>

\* Casdoor's answer: a failure, a disabled account, or an account with its role.
ExchangeCode(c) ==
    /\ At(c, "callback", "exchange")
    /\ \/ End(c, "auth_failed")
       \/ \E role \in {"admin", "user"} : Go(c, "find") /\ Keep(c, "role", role)
    /\ UNCHANGED <<Ask, accountVars>>
AccountDisabled(c) ==
    /\ At(c, "callback", "exchange")
    /\ End(c, "access_denied")
    /\ UNCHANGED <<Ask, accountVars>>

FindUser(c) ==
    /\ At(c, "callback", "find")
    /\ Go(c, IF users[Me(c)].there THEN "override" ELSE "insert")
    /\ Keep(c, "row", users[Me(c)])
    /\ UNCHANGED <<Ask, accountVars>>

\* Of two first logins one inserts the row; the other loads it.
InsertUser(c) ==
    /\ At(c, "callback", "insert")
    /\ users' = IF users[Me(c)].there THEN users
                ELSE [users EXCEPT ![Me(c)] =
                         [there |-> TRUE, enabled |-> TRUE, role |-> mem[c].role, over |-> None,
                          balance |-> 0, groups |-> 0, email |-> FALSE]]
    /\ Go(c, "override") /\ Keep(c, "row", users'[Me(c)])
    /\ UNCHANGED <<Ask, codes, oauth, sessions, reveal>>

\* A role given here wins over Casdoor's.
CheckOverride(c) ==
    /\ At(c, "callback", "override")
    /\ IF mem[c].row.enabled
       THEN /\ Go(c, "refresh")
            /\ Keep(c, "role", IF users[Me(c)].there /\ users[Me(c)].over # None
                               THEN "admin" ELSE mem[c].role)
       ELSE End(c, "access_denied")
    /\ UNCHANGED <<Ask, accountVars>>

RefreshUser(c) ==
    /\ At(c, "callback", "refresh")
    /\ users' = [users EXCEPT ![Me(c)].role = IF users[Me(c)].there THEN mem[c].role ELSE @]
    /\ sessions' = [sessions EXCEPT ![c] = Me(c)]
    /\ End(c, "ok")
    /\ UNCHANGED <<Ask, codes, oauth, reveal>>

\* Authenticate, RequireUser and RequireAdmin (on): the row decides, not the session.
Visit(c) ==
    LET u == sessions[Ask[c].of]
        alive == u # None /\ users[u].there /\ users[u].enabled
    IN /\ At(c, "visit", "start")
       /\ End(c, IF ~alive THEN "unauthorized"
                 ELSE IF Ask[c].on /\ users[u].role # "admin" THEN "forbidden" ELSE "ok")
       /\ sessions' = IF alive THEN sessions ELSE [sessions EXCEPT ![Ask[c].of] = None]
       /\ UNCHANGED <<Ask, users, codes, oauth, reveal>>

Logout(c) ==
    /\ At(c, "logout", "start")
    /\ sessions' = [sessions EXCEPT ![Ask[c].of] = None]
    /\ End(c, "ok")
    /\ UNCHANGED <<Ask, users, codes, oauth, reveal>>

LoginExpires ==
    /\ \/ \E c \in oauth : oauth' = oauth \ {c} /\ UNCHANGED sessions
       \/ \E c \in {d \in Calls : sessions[d] # None} :
             sessions' = [sessions EXCEPT ![c] = None] /\ UNCHANGED oauth
    /\ UNCHANGED <<Ask, pc, mem, users, codes, reveal>>

-----------------------------------------------------------------------------
(* Administration of users. *)

Admins == {u \in Users : users[u].there /\ users[u].enabled /\ users[u].role = "admin"}

\* The role before is kept beside the row; the last administrator stays. Casdoor's
\* own administrators are not removed here.
SetAdmin(c) ==
    LET u == Me(c)
        row == users[u]
        grant == row.there /\ Ask[c].on /\ row.over = None
        revoke == row.there /\ ~Ask[c].on /\ Ask[c].of # u /\ row.over # None
                    /\ u \in Admins /\ Cardinality(Admins) > 1
    IN /\ At(c, "setAdmin", "start")
       /\ users' = CASE grant -> [users EXCEPT ![u].over = row.role, ![u].role = "admin"]
                     [] revoke -> [users EXCEPT ![u].over = None, ![u].role = row.over]
                     [] OTHER -> users
       /\ End(c, IF grant \/ revoke \/ (row.there /\ Ask[c].on) THEN "ok" ELSE "refused")
       /\ UNCHANGED <<Ask, codes, oauth, sessions, reveal>>

FindForBalance(c) ==
    /\ At(c, "setBalance", "start")
    /\ IF users[Me(c)].there /\ Ask[c].amount >= 0 THEN Go(c, "write") /\ UNCHANGED mem
       ELSE End(c, "refused")
    /\ UNCHANGED <<Ask, accountVars>>
UpdateBalance(c) ==
    /\ At(c, "setBalance", "write")
    /\ ~Charging(Me(c))
    /\ users' = [users EXCEPT ![Me(c)].balance = IF users[Me(c)].there THEN Ask[c].amount ELSE @]
    /\ End(c, "ok")
    /\ UNCHANGED <<Ask, codes, oauth, sessions, reveal>>

\* The groups are replaced in one transaction, then read again and compared.
ReplaceChannelGroups(c) ==
    /\ At(c, "setGroups", "start")
    /\ IF users[Me(c)].there
       THEN Go(c, "verify") /\ users' = [users EXCEPT ![Me(c)].groups = Ask[c].amount] /\ UNCHANGED mem
       ELSE End(c, "refused") /\ UNCHANGED users
    /\ UNCHANGED <<Ask, codes, oauth, sessions, reveal>>
VerifyChannelGroups(c) ==
    /\ At(c, "setGroups", "verify")
    /\ End(c, IF users[Me(c)].there /\ users[Me(c)].groups = Ask[c].amount THEN "ok" ELSE "mismatch")
    /\ UNCHANGED <<Ask, accountVars>>

UpdateProfile(c) ==
    /\ At(c, "setProfile", "start")
    /\ users' = [users EXCEPT ![Me(c)].email = IF users[Me(c)].there THEN Ask[c].on ELSE @]
    /\ End(c, IF users[Me(c)].there THEN "ok" ELSE "refused")
    /\ UNCHANGED <<Ask, codes, oauth, sessions, reveal>>

-----------------------------------------------------------------------------
(* The mailed code that opens the view of upstream keys for a while. *)

SendCode(c) ==
    LET u == Me(c)
        ready == users[u].there /\ users[u].email /\ ~reveal[u].cooldown
    IN /\ At(c, "sendCode", "start")
       /\ IF ready
          THEN /\ Go(c, "store") /\ UNCHANGED mem
               /\ reveal' = [reveal EXCEPT ![u].cooldown = TRUE]
          ELSE End(c, "refused") /\ UNCHANGED reveal
       /\ UNCHANGED <<Ask, users, codes, oauth, sessions>>

\* Codes are random: a call's code is the call.
StoreCode(c) ==
    /\ At(c, "sendCode", "store")
    /\ \/ reveal' = [reveal EXCEPT ![Me(c)].code = c] /\ Go(c, "mail") /\ UNCHANGED mem
       \/ reveal' = [reveal EXCEPT ![Me(c)].cooldown = FALSE] /\ End(c, "failed")
    /\ UNCHANGED <<Ask, users, codes, oauth, sessions>>

MailCode(c) ==
    /\ At(c, "sendCode", "mail")
    /\ \/ End(c, "ok") /\ UNCHANGED reveal
       \/ End(c, "failed")
          /\ reveal' = [reveal EXCEPT ![Me(c)].code = None, ![Me(c)].cooldown = FALSE]
    /\ UNCHANGED <<Ask, users, codes, oauth, sessions>>

\* Who verifies enters the code of a mail, if it arrived.
ReadRevealCode(c) ==
    /\ At(c, "verify", "start")
    /\ pc[Ask[c].of] = "done"
    /\ IF mem[Ask[c].of].result = "ok" /\ reveal[Me(c)].code = Ask[c].of
       THEN Go(c, "use") /\ UNCHANGED mem ELSE End(c, "refused")
    /\ UNCHANGED <<Ask, accountVars>>
UseRevealCode(c) ==
    /\ At(c, "verify", "use")
    /\ reveal' = [reveal EXCEPT ![Me(c)].code = None]
    /\ Go(c, "open")
    /\ UNCHANGED <<Ask, mem, users, codes, oauth, sessions>>
OpenReveal(c) ==
    /\ At(c, "verify", "open")
    /\ reveal' = [reveal EXCEPT ![Me(c)].open = TRUE]
    /\ End(c, "ok")
    /\ UNCHANGED <<Ask, users, codes, oauth, sessions>>

RevealVerified(c) ==
    /\ At(c, "reveal", "start")
    /\ End(c, IF reveal[Me(c)].open THEN "ok" ELSE "refused")
    /\ UNCHANGED <<Ask, accountVars>>

RevealExpires ==
    /\ \E u \in Users :
          \/ reveal[u].code # None /\ reveal' = [reveal EXCEPT ![u].code = None]
          \/ reveal[u].cooldown /\ reveal' = [reveal EXCEPT ![u].cooldown = FALSE]
          \/ reveal[u].open /\ reveal' = [reveal EXCEPT ![u].open = FALSE]
    /\ UNCHANGED <<Ask, pc, mem, users, codes, oauth, sessions>>

-----------------------------------------------------------------------------
\* Every operation but Claim, which also clears the balance marker of module Gateway.
AccountStep ==
    \/ \E c \in Calls :
          \/ ReadCode(c) \/ ReadInvalid(c) \/ DeleteInvalid(c) \/ CreateCodes(c)
          \/ BeginLogin(c) \/ TakeState(c) \/ ExchangeCode(c) \/ AccountDisabled(c)
          \/ FindUser(c) \/ InsertUser(c) \/ CheckOverride(c) \/ RefreshUser(c)
          \/ Visit(c) \/ Logout(c) \/ SetAdmin(c)
          \/ FindForBalance(c) \/ UpdateBalance(c)
          \/ ReplaceChannelGroups(c) \/ VerifyChannelGroups(c) \/ UpdateProfile(c)
          \/ SendCode(c) \/ StoreCode(c) \/ MailCode(c)
          \/ ReadRevealCode(c) \/ UseRevealCode(c) \/ OpenReveal(c) \/ RevealVerified(c)
    \/ CodeExpires \/ LoginExpires \/ RevealExpires
=============================================================================
