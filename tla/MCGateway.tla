------------------------------ MODULE MCGateway ------------------------------
(* Four calls at a time, of one kind of work at a time. User u2 is the       *)
(* administrator; key k1 is u1's, k2 is created later.                       *)
EXTENDS Gateway

CONSTANTS u1, u2, k1, k2, x1, x2, a, b, c, d

Row(role, balance) == [there |-> TRUE, enabled |-> TRUE, role |-> role, over |-> None,
                       balance |-> balance, groups |-> 0, email |-> TRUE]
MCAccount == (u1 :> Row("user", 1)) @@ (u2 :> Row("admin", 0))
MCKeyRow(there, expires) ==
    [there |-> there, owner |-> u1, enabled |-> TRUE, expires |-> expires, limit |-> 2, spent |-> 0,
     dayLimit |-> 1, daySpent |-> 0, day |-> 0, policy |-> 0, role |-> "", groups |-> 0]
MCKeyRows == (k1 :> MCKeyRow(TRUE, FALSE)) @@ (k2 :> MCKeyRow(FALSE, TRUE))

Limits(enabled, perIP, rate) ==
    [enabled |-> enabled, all |-> 2, perIP |-> perIP, perKey |-> 2, rateIP |-> rate, rateKey |-> 4]
MCSettings == {Limits(TRUE, 2, 2), Limits(FALSE, 2, 4), Limits(TRUE, 3, 2)}

Call(op, user, of, code, key, amount, on) ==
    [op |-> op, user |-> user, of |-> of, code |-> code, key |-> key, ip |-> "ip",
     amount |-> amount, on |-> on]
Idle4 == Call("idle", u1, None, x1, k1, 0, TRUE)
User(op, u, of, amount, on) == Call(op, u, of, x1, k1, amount, on)
Of(first, second, third, fourth) == (a :> first) @@ (b :> second) @@ (c :> third) @@ (d :> fourth)

Request == Call("request", u1, None, x1, k1, 1, TRUE)
Clock(op) == [Idle4 EXCEPT !.op = op]
Guess == [Request EXCEPT !.on = FALSE]
Redeem(u, x) == Call("redeem", u, None, x, k1, 0, TRUE)
Edit(op, u, on, policy) == Call(op, u, None, x1, k1, policy, on)

MCAsks ==
    {Of(Guess, Guess, Guess, Clock("tick")),
     Of(Request, Request, User("firewall", u2, None, 0, TRUE), Clock("expire")),
     Of(Request, Guess, User("firewall", u2, None, 0, TRUE), Clock("tick")),
     Of(Request, Request, Redeem(u1, x1), Clock("expire")),
     Of(Request, Request, Edit("updateKey", u1, FALSE, 0), Clock("midnight")),
     Of(Request, Edit("updateKey", u1, TRUE, 1), Edit("deleteKey", u2, TRUE, 0),
        Edit("revealKey", u2, TRUE, 0)),
     Of(Request, [Request EXCEPT !.key = k2], [Idle4 EXCEPT !.op = "createKey", !.key = k2],
        User("deleteUser", u1, u2, 0, TRUE)),
     Of(Redeem(u1, x1), Redeem(u2, x1), User("deleteInvalid", u2, None, 0, TRUE),
        [Redeem(u2, x2) EXCEPT !.op = "createCode", !.amount = 1]),
     Of(Redeem(u1, x1), Redeem(u1, x2), [Redeem(u2, x2) EXCEPT !.op = "createCode", !.amount = 1],
        User("setBalance", u2, None, 2, TRUE)),
     Of(User("login", u1, None, 0, TRUE), User("callback", u1, a, 0, TRUE),
        User("callback", u1, a, 0, TRUE), User("setAdmin", u1, u2, 0, TRUE)),
     Of(User("login", u2, None, 0, TRUE), User("callback", u2, a, 0, TRUE),
        User("visit", u2, b, 0, TRUE), User("logout", u2, b, 0, TRUE)),
     Of(User("setAdmin", u1, u2, 0, TRUE), User("setAdmin", u1, u2, 0, FALSE),
        User("deleteUser", u1, u2, 0, TRUE), User("setBalance", u1, None, 2, TRUE)),
     Of(User("login", u1, None, 0, TRUE), User("callback", u1, a, 0, TRUE),
        User("deleteUser", u1, u2, 0, TRUE), User("visit", u1, b, 0, FALSE)),
     Of(User("sendCode", u1, None, 0, TRUE), User("sendCode", u1, None, 0, TRUE),
        User("verify", u1, a, 0, TRUE), User("reveal", u1, None, 0, TRUE)),
     Of(User("setGroups", u1, None, 1, TRUE), User("setGroups", u1, None, 2, TRUE),
        User("setProfile", u1, None, 0, FALSE), User("sendCode", u1, None, 0, TRUE))}
=============================================================================
