--------------------------- MODULE MCRelayRequest ---------------------------
(* Two channels with one slot per key: the first has one key, the second,   *)
(* last one has two.  Other models' requests compete for their slots.       *)
EXTENDS RelayRequest, TLC

CONSTANTS c1, c2, k1, k2, k3, r1

MCOrder == <<c1, c2>>
MCKeys == c1 :> {k1} @@ c2 :> {k2, k3}
MCLimit == c1 :> 0 @@ c2 :> 1
MCAddresses == c1 :> 2 @@ c2 :> 1

Answered == [stream |-> FALSE, status |-> "ok", error |-> FALSE, wrote |-> FALSE,
             broken |-> FALSE, completed |-> FALSE, usage |-> "yes",
             unsupported |-> FALSE, dead |-> FALSE]
Failure(status, dead) == [Answered EXCEPT !.status = status, !.usage = "none", !.dead = dead]
Streamed == [Answered EXCEPT !.stream = TRUE, !.wrote = TRUE, !.completed = TRUE]

Various ==
    {Answered, [Answered EXCEPT !.usage = "none"], [Answered EXCEPT !.usage = "late"],
     Failure("throttled", FALSE), Failure("risk", TRUE),
     [Failure("transient", FALSE) EXCEPT !.error = TRUE],
     [Failure("client", FALSE) EXCEPT !.unsupported = TRUE],
     Streamed, [Streamed EXCEPT !.completed = FALSE],
     [Streamed EXCEPT !.wrote = FALSE, !.broken = TRUE, !.completed = FALSE, !.usage = "none"],
     [Streamed EXCEPT !.wrote = FALSE, !.completed = FALSE, !.usage = "none",
                      !.status = "transient", !.error = TRUE]}

MCOutcomes == r1 :> Various
=============================================================================
