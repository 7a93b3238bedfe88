------------------------- MODULE MCSchedulerTicker -------------------------
(* Small instances of SchedulerTicker for TLC. *)
EXTENDS SchedulerTicker

CONSTANTS k1, k2, g

InGroup == [k \in Keys |-> g]

OneShot == [kind |-> "at", arg |-> 1, enabled |-> TRUE, from |-> 0, until |-> MaxTime,
            delete |-> FALSE, window |-> 0, retries |-> 1, age |-> None]
SelfDeleting == [OneShot EXCEPT !.arg = 0, !.delete = TRUE]
Recurring == [OneShot EXCEPT !.kind = "rate", !.age = 1, !.until = 1]
EveryMinute == [OneShot EXCEPT !.kind = "cron", !.arg = 0, !.retries = 0, !.window = 1]
Disabled == [OneShot EXCEPT !.enabled = FALSE]
Unparsable == [OneShot EXCEPT !.kind = "unparsable"]

AllConfigs == {OneShot, SelfDeleting, Recurring, EveryMinute, Disabled, Unparsable}
FailingOnce == {SelfDeleting}
=============================================================================
