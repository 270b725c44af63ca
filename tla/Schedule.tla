-------------------------------- MODULE Schedule --------------------------------
(***************************************************************************)
(* The register of the background tasks of a process                       *)
(* (src/internal/logic/schedule): what each task is, whether it runs, how  *)
(* often it ran and failed and when it is due. It is kept in memory only.  *)
(* Time is counted in hours since a midnight.                              *)
(***************************************************************************)
EXTENDS Naturals

NoTask == [running |-> FALSE, runs |-> 0, failures |-> 0, failed |-> FALSE, there |-> FALSE]

\* Registering again changes the description and keeps the state.
Register(task) == [task EXCEPT !.there = TRUE]

\* A task nobody registered leaves no trace.
Begin(task) == IF task.there THEN [task EXCEPT !.running = TRUE] ELSE task

\* Two runs at once are one entry: the first to end marks the task as not running.
Finish(task, error) ==
    IF ~task.there THEN task
    ELSE [task EXCEPT !.running = FALSE, !.runs = @ + 1, !.failed = error,
                      !.failures = IF error THEN @ + 1 ELSE @]

NextDay(now, hour) ==
    LET midnight == now - (now % 24)
    IN IF midnight + hour > now THEN midnight + hour ELSE midnight + 24 + hour

\* kind: "interval", "daily_at", "hourly_after", "event". 0: no next time.
NextRun(kind, now, every, hour) ==
    CASE kind = "interval" -> IF every = 0 THEN 0 ELSE now + every
      [] kind = "daily_at" -> NextDay(now, hour)
      [] kind = "hourly_after" -> IF (now % 24) < hour /\ ((now + 1) % 24) <= hour
                                  THEN NextDay(now, hour) ELSE now + 1
      [] OTHER -> 0
=============================================================================
