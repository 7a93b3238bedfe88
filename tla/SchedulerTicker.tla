-------------------------- MODULE SchedulerTicker --------------------------
(***************************************************************************)
(* EventBridge Scheduler: the API that keeps schedules and the ticker that  *)
(* fires them.  A tick collects the due schedules under the state's lock,   *)
(* delivers to their targets without it, deletes completed one-shots under  *)
(* it again, and saves a snapshot.  Deferred fires, retries and the minutes *)
(* cron schedules fired in are kept by the ticker alone, by schedule name:  *)
(* API calls do not touch them and a crash loses them.  API calls and the   *)
(* ticker save under different locks.                                       *)
(*                                                                          *)
(* A schedule's configuration is reduced to what decides when it fires; a   *)
(* delivery succeeds or fails.  Time is counted in ticks of one second.     *)
(***************************************************************************)
EXTENDS Integers, FiniteSets

CONSTANTS
    Keys,            \* names of schedules
    Groups, GroupOf, \* the non-default groups, and the group of each schedule
    Configs,         \* the configurations calls give to schedules
    NoSchedule, NoRetry,
    TicksPerMinute,
    MaxTime,         \* bound: the clock
    MaxCalls,        \* bound: mutating API calls and forced fires
    MaxFailures,     \* bound: failed deliveries and failed saves
    MaxCrashes       \* bound: crashes followed by a restart

None == -1
Times == 0..MaxTime

ASSUME SchedulerAssumption ==
    /\ IsFiniteSet(Keys) /\ GroupOf \in [Keys -> Groups]
    /\ Configs # {}
    /\ Configs \subseteq
          [kind : {"at", "rate", "cron", "unparsable"},   \* schedule_expression,
           arg : Nat,                           \* its time, period or minute
           enabled : BOOLEAN, from : Nat, until : Nat,
           delete : BOOLEAN,                    \* ActionAfterCompletion
           window : Nat,                        \* MaximumWindowInMinutes, in ticks
           retries : Nat, age : Nat \cup {None}]   \* RetryPolicy
    /\ NoRetry \notin [attempts : Nat, first_due : Nat]
    /\ TicksPerMinute \in Nat \ {0}
    /\ MaxTime \in Nat /\ MaxCalls \in Nat /\ MaxFailures \in Nat /\ MaxCrashes \in Nat

VARIABLES
    now,
    schedules, groups,        \* SchedulerState
    disk,                     \* the snapshot file
    pending_fires, retries, cron_last_minute,   \* locals of Ticker::run
    pc, tick_now, due, post_fire, image,        \* locals of a tick
    call, call_image,         \* the API call under way
    forced,                   \* schedules fire_once is about to delete
    calls, failures, crashes,
    open,      \* history: schedules with an occurrence that is not settled
    tries,     \* history: attempts to deliver it
    lit,       \* history: one-shots fired in this tick
    spent      \* history: one-shots whose fire has been saved

scheduler == <<schedules, groups>>
ticker == <<pending_fires, retries, cron_last_minute, pc, tick_now, due, post_fire, image>>
history == <<open, tries, lit, spent>>
vars == <<now, schedules, groups, disk, pending_fires, retries, cron_last_minute, pc, tick_now,
          due, post_fire, image, call, call_image, forced, calls, failures, crashes, open, tries,
          lit, spent>>

Snapshot == [schedules |-> schedules, groups |-> groups]
Empty == [schedules |-> [k \in Keys |-> NoSchedule], groups |-> {}]

Init ==
    /\ now = 0
    /\ schedules = Empty.schedules /\ groups = Empty.groups /\ disk = Empty
    /\ pending_fires = [k \in Keys |-> None]
    /\ retries = [k \in Keys |-> NoRetry]
    /\ cron_last_minute = [k \in Keys |-> None]
    /\ pc = "idle" /\ tick_now = 0 /\ due = {} /\ post_fire = {} /\ image = Empty
    /\ call = "idle" /\ call_image = Empty /\ forced = {}
    /\ calls = 0 /\ failures = 0 /\ crashes = 0
    /\ open = {} /\ lit = {} /\ spent = {}
    /\ tries = [k \in Keys |-> 0]

Exists(k) == schedules[k] # NoSchedule
Config(k) == schedules[k].config
Minute(t) == t \div TicksPerMinute

\* Enabled, between its start and end dates, and with an expression that parses:
\* the calls do not validate it.
Runs(k) ==
    /\ Exists(k)
    /\ Config(k).enabled /\ now >= Config(k).from /\ now <= Config(k).until
    /\ Config(k).kind # "unparsable"

-----------------------------------------------------------------------------
(* Phase 1 of a tick. *)

\* Mutant of IsDue: a one-shot is due at its time only.
IsDueExactly(k) ==
    LET c == Config(k) last == schedules[k].last_fired
    IN  \/ c.kind = "at" /\ last = None /\ now = c.arg
        \/ c.kind = "rate" /\ (last = None \/ now - last >= c.arg)
        \/ c.kind = "cron" /\ Minute(now) = c.arg /\ cron_last_minute[k] # Minute(now)

\* is_due, is_due_with_dedup.
IsDue(k) ==
    LET c == Config(k) last == schedules[k].last_fired
    IN  \/ c.kind = "at" /\ last = None /\ now >= c.arg
        \/ c.kind = "rate" /\ (last = None \/ now - last >= c.arg)
        \/ c.kind = "cron" /\ Minute(now) = c.arg /\ cron_last_minute[k] # Minute(now)

\* Mutant of Ready: the expression has to be due for a queued fire, too.
ReadyWhenDue ==
    {k \in Keys : Runs(k) /\ pending_fires[k] # None /\ now >= pending_fires[k] /\ IsDue(k)}

\* A queued fire owns its schedule: the expression is not looked at.
Ready == {k \in Keys : Runs(k) /\ pending_fires[k] # None /\ now >= pending_fires[k]}
Fresh == {k \in Keys : Runs(k) /\ pending_fires[k] = None /\ IsDue(k)}
Deferred == {k \in Fresh : Config(k).window > 0}
Fired == Ready \cup (Fresh \ Deferred)

\* Mutant of Marked: the fire is only recorded for recurring schedules.
MarkedRecurring(K) ==
    [k \in Keys |-> IF k \in K /\ Config(k).kind # "at"
                    THEN [schedules[k] EXCEPT !.last_fired = now] ELSE schedules[k]]

Marked(K) ==
    [k \in Keys |-> IF k \in K THEN [schedules[k] EXCEPT !.last_fired = now] ELSE schedules[k]]

\* stable_offset_seconds: any offset within the window.  (Bound: not past the
\* end of the clock.)
Offsets ==
    {f \in [Deferred -> Times] :
        \A k \in Deferred : f[k] <= Config(k).window /\ now + f[k] <= MaxTime}

\* post_fire_action.
DeletesAfter(k) == Config(k).kind = "at" /\ Config(k).delete

Collect ==
    /\ pc = "idle"
    /\ Fired \cup Fresh # {}
    /\ \E offset \in Offsets :
          pending_fires' = [k \in Keys |-> IF k \in Deferred THEN now + offset[k]
                                           ELSE IF k \in Ready THEN None
                                           ELSE pending_fires[k]]
    /\ cron_last_minute' = [k \in Keys |-> IF k \in Fresh /\ Config(k).kind = "cron"
                                           THEN Minute(now) ELSE cron_last_minute[k]]
    /\ schedules' = Marked(Fired)
    /\ due' = Fired
    /\ post_fire' = {k \in Fired : DeletesAfter(k)}
    /\ tick_now' = now
    /\ pc' = IF Fired = {} THEN "idle" ELSE "deliver"
    /\ open' = open \cup Fresh
    /\ tries' = [k \in Keys |-> IF k \in Fresh THEN 0 ELSE tries[k]]
    /\ lit' = {k \in Fired : Config(k).kind = "at"}
    /\ UNCHANGED <<now, groups, disk, retries, image, call, call_image, forced, calls, failures,
                   crashes, spent>>

-----------------------------------------------------------------------------
(* Phase 2: each due schedule is read again and delivered. *)

Due(k) == pc = "deliver" /\ k \in due /\ due' = due \ {k}

\* The occurrence has been delivered or dead-lettered, or is given up.
Settle(k) == open' = open \ {k}

Try(k) == tries' = [tries EXCEPT ![k] = @ + 1]

\* It is gone by now.
SkipDeleted(k) ==
    /\ Due(k)
    /\ ~Exists(k)
    /\ Settle(k)
    /\ UNCHANGED <<now, scheduler, disk, pending_fires, retries, cron_last_minute, pc, tick_now,
                   post_fire, image, call, call_image, forced, calls, failures, crashes, tries,
                   lit, spent>>

Delivered(k) ==
    /\ Due(k)
    /\ Exists(k)
    /\ retries' = [retries EXCEPT ![k] = NoRetry]
    /\ Settle(k) /\ Try(k)
    /\ UNCHANGED <<now, scheduler, disk, pending_fires, cron_last_minute, pc, tick_now, post_fire,
                   image, call, call_image, forced, calls, failures, crashes, lit, spent>>

\* Mutant of Attempted: each failure starts the count again.
AttemptedAfresh(k) == [attempts |-> 1, first_due |-> tick_now]

\* RetryState, with this attempt counted.
Attempted(k) ==
    IF retries[k] = NoRetry THEN [attempts |-> 1, first_due |-> tick_now]
    ELSE [retries[k] EXCEPT !.attempts = @ + 1]

\* backoff_seconds.
Backoff(attempt) == IF attempt > 6 THEN 60 ELSE <<1, 2, 4, 8, 16, 32>>[attempt]

Fails(k) ==
    /\ Due(k)
    /\ Exists(k)
    /\ failures < MaxFailures
    /\ failures' = failures + 1
    /\ Try(k)

\* The policy of the schedule as it is now allows another attempt.
MayRetry(k) ==
    LET age == Config(k).age
    IN  /\ Attempted(k).attempts <= Config(k).retries
        /\ ~(age # None /\ tick_now - Attempted(k).first_due >= age)

\* Mutant of QueueRetry: the retry is counted but not queued.
QueueRetryNot(k) ==
    /\ Fails(k)
    /\ MayRetry(k)
    /\ tick_now + Backoff(Attempted(k).attempts) <= MaxTime
    /\ retries' = [retries EXCEPT ![k] = Attempted(k)]
    /\ UNCHANGED <<now, scheduler, disk, pending_fires, cron_last_minute, pc, tick_now, post_fire,
                   image, call, call_image, forced, calls, crashes, open, lit, spent>>

\* (Bound: a delivery fails early enough for its retry to come before the end.)
QueueRetry(k) ==
    /\ Fails(k)
    /\ MayRetry(k)
    /\ tick_now + Backoff(Attempted(k).attempts) <= MaxTime
    /\ retries' = [retries EXCEPT ![k] = Attempted(k)]
    /\ pending_fires' =
          [pending_fires EXCEPT ![k] = tick_now + Backoff(Attempted(k).attempts)]
    /\ UNCHANGED <<now, scheduler, disk, cron_last_minute, pc, tick_now, post_fire, image, call,
                   call_image, forced, calls, crashes, open, lit, spent>>

\* route_to_dlq: to the dead-letter queue or, when the schedule has none or the
\* send fails, dropped; either way this was the last attempt.
DeadLetter(k) ==
    /\ Fails(k)
    /\ ~MayRetry(k)
    /\ retries' = [retries EXCEPT ![k] = NoRetry]
    /\ Settle(k)
    /\ UNCHANGED <<now, scheduler, disk, pending_fires, cron_last_minute, pc, tick_now, post_fire,
                   image, call, call_image, forced, calls, crashes, lit, spent>>

-----------------------------------------------------------------------------
(* Phase 3, and save_scheduler_snapshot. *)

Without(K) == [k \in Keys |-> IF k \in K THEN NoSchedule ELSE schedules[k]]

\* Mutant of DeleteCompleted: the actions are kept for the next tick.
DeleteCompletedKeeps ==
    /\ pc = "deliver" /\ due = {}
    /\ schedules' = Without(post_fire)
    /\ pc' = "save"
    /\ UNCHANGED <<now, groups, disk, pending_fires, retries, cron_last_minute, tick_now, due,
                   post_fire, image, call, call_image, forced, calls, failures, crashes, history>>

DeleteCompleted ==
    /\ pc = "deliver" /\ due = {}
    /\ schedules' = Without(post_fire)
    /\ post_fire' = {}
    /\ pc' = "save"
    /\ UNCHANGED <<now, groups, disk, pending_fires, retries, cron_last_minute, tick_now, due,
                   image, call, call_image, forced, calls, failures, crashes, history>>

TickerClone ==
    /\ pc = "save"
    /\ image' = Snapshot
    /\ pc' = "write"
    /\ UNCHANGED <<now, scheduler, disk, pending_fires, retries, cron_last_minute, tick_now, due,
                   post_fire, call, call_image, forced, calls, failures, crashes, history>>

\* What a call cloned before and writes after is written over this snapshot.
TickerWrite ==
    /\ pc = "write"
    /\ disk' = image
    /\ pc' = "idle" /\ image' = Empty /\ tick_now' = 0
    /\ lit' = {}
    /\ spent' = IF call = "cloned" THEN spent ELSE spent \cup lit
    /\ UNCHANGED <<now, scheduler, pending_fires, retries, cron_last_minute, due, post_fire, call,
                   call_image, forced, calls, failures, crashes, open, tries>>

\* A failed save is only logged; the file is the old one or, when the last fsync
\* fails, the new one.
TickerWriteFails ==
    /\ pc = "write"
    /\ failures < MaxFailures
    /\ failures' = failures + 1
    /\ disk' \in {disk, image}
    /\ pc' = "idle" /\ image' = Empty /\ tick_now' = 0
    /\ lit' = {}
    /\ UNCHANGED <<now, scheduler, pending_fires, retries, cron_last_minute, due, post_fire,
                   call, call_image, forced, calls, crashes, open, tries, spent>>

-----------------------------------------------------------------------------
(* API calls: each changes the state, and is saved before it is answered. *)

\* A call that makes the schedules in K other than they were.
Mutates(K) ==
    /\ call = "idle"
    /\ calls < MaxCalls
    /\ calls' = calls + 1
    /\ call' = "mutated"
    /\ lit' = lit \ K /\ spent' = spent \ K
    /\ UNCHANGED <<now, disk, ticker, call_image, forced, failures, crashes, open, tries>>

Configured(c) == [config |-> c, last_fired |-> None]

CreateSchedule(k, c) ==
    /\ GroupOf[k] \in groups
    /\ ~Exists(k)
    /\ schedules' = [schedules EXCEPT ![k] = Configured(c)]
    /\ Mutates({k})
    /\ UNCHANGED groups

UpdateSchedule(k, c) ==
    /\ Exists(k)
    /\ schedules' = [schedules EXCEPT ![k] = Configured(c)]
    /\ Mutates({k})
    /\ UNCHANGED groups

DeleteSchedule(k) ==
    /\ Exists(k)
    /\ schedules' = Without({k})
    /\ Mutates({k})
    /\ UNCHANGED groups

CreateScheduleGroup(g) ==
    /\ g \notin groups
    /\ groups' = groups \cup {g}
    /\ Mutates({})
    /\ UNCHANGED schedules

\* The schedules of the group go with it.
DeleteScheduleGroup(g) ==
    LET members == {k \in Keys : GroupOf[k] = g}
    IN  /\ g \in groups
        /\ groups' = groups \ {g}
        /\ schedules' = Without(members)
        /\ Mutates(members)

\* The reset endpoint.
Reset ==
    /\ groups # {}
    /\ schedules' = Empty.schedules /\ groups' = Empty.groups
    /\ Mutates(Keys)

CallClone ==
    /\ call = "mutated"
    /\ call' = "cloned"
    /\ call_image' = Snapshot
    /\ UNCHANGED <<now, scheduler, disk, ticker, forced, calls, failures, crashes, history>>

CallWrite ==
    /\ call = "cloned"
    /\ call' = "idle" /\ call_image' = Empty
    /\ disk' = call_image
    /\ UNCHANGED <<now, scheduler, ticker, forced, calls, failures, crashes, history>>

\* The call is answered all the same.
CallWriteFails ==
    /\ call = "cloned"
    /\ failures < MaxFailures
    /\ failures' = failures + 1
    /\ call' = "idle" /\ call_image' = Empty
    /\ disk' \in {disk, call_image}
    /\ UNCHANGED <<now, scheduler, ticker, forced, calls, crashes, history>>

\* fire_once: delivered or dead-lettered at once, and not saved.
FireOnce(k) ==
    /\ Exists(k) /\ k \notin forced
    /\ calls < MaxCalls
    /\ calls' = calls + 1
    /\ schedules' = Marked({k})
    /\ forced' = IF DeletesAfter(k) THEN forced \cup {k} ELSE forced
    /\ UNCHANGED <<now, groups, disk, ticker, call, call_image, failures, crashes, history>>

FireOnceDeletes(k) ==
    /\ k \in forced
    /\ forced' = forced \ {k}
    /\ schedules' = Without({k})
    /\ UNCHANGED <<now, groups, disk, ticker, call, call_image, calls, failures, crashes, history>>

-----------------------------------------------------------------------------
\* A crash, and load_into: what the ticker and the calls had in hand is lost.
CrashRestart ==
    /\ crashes < MaxCrashes
    /\ crashes' = crashes + 1
    /\ schedules' = disk.schedules /\ groups' = disk.groups
    /\ pending_fires' = [k \in Keys |-> None]
    /\ retries' = [k \in Keys |-> NoRetry]
    /\ cron_last_minute' = [k \in Keys |-> None]
    /\ pc' = "idle" /\ tick_now' = 0 /\ due' = {} /\ post_fire' = {} /\ image' = Empty
    /\ call' = "idle" /\ call_image' = Empty /\ forced' = {}
    /\ open' = {} /\ lit' = {}
    /\ tries' = [k \in Keys |-> 0]
    /\ UNCHANGED <<now, disk, calls, failures, spent>>

Advance ==
    /\ now < MaxTime
    /\ now' = now + 1
    /\ UNCHANGED <<scheduler, disk, ticker, call, call_image, forced, calls, failures, crashes,
                   history>>

Deliver(k) == SkipDeleted(k) \/ Delivered(k) \/ QueueRetry(k) \/ DeadLetter(k)
SaveTick == TickerClone \/ TickerWrite
SaveCall == CallClone \/ CallWrite

ApiCall ==
    \/ \E k \in Keys, c \in Configs : CreateSchedule(k, c) \/ UpdateSchedule(k, c)
    \/ \E k \in Keys : DeleteSchedule(k)
    \/ \E g \in Groups : CreateScheduleGroup(g) \/ DeleteScheduleGroup(g)
    \/ Reset

Next ==
    \/ Collect \/ DeleteCompleted \/ SaveTick \/ TickerWriteFails
    \/ \E k \in Keys : Deliver(k)
    \/ ApiCall \/ SaveCall \/ CallWriteFails
    \/ \E k \in Keys : FireOnce(k) \/ FireOnceDeletes(k)
    \/ CrashRestart \/ Advance

Spec == Init /\ [][Next]_vars

\* The ticker is one task that ticks for ever, deliveries and saves return, and
\* time passes.
Fairness ==
    /\ WF_vars(Collect) /\ WF_vars(\E k \in Keys : Deliver(k))
    /\ WF_vars(DeleteCompleted) /\ WF_vars(SaveTick)
    /\ WF_vars(SaveCall) /\ WF_vars(Advance)

FairSpec == Spec /\ Fairness

-----------------------------------------------------------------------------
(* Properties. *)

Schedules == [config : Configs, last_fired : Times \cup {None}] \cup {NoSchedule}
Snapshots == [schedules : [Keys -> Schedules], groups : SUBSET Groups]

\* The values of the variables; between two ticks nothing is left to deliver.
TypeOK ==
    /\ now \in Times /\ tick_now \in Times
    /\ Snapshot \in Snapshots /\ disk \in Snapshots
    /\ image \in Snapshots /\ call_image \in Snapshots
    /\ pending_fires \in [Keys -> Times \cup {None}]
    /\ retries \in [Keys -> [attempts : Nat, first_due : Times] \cup {NoRetry}]
    /\ cron_last_minute \in [Keys -> Nat \cup {None}]
    /\ pc \in {"idle", "deliver", "save", "write"}
    /\ call \in {"idle", "mutated", "cloned"}
    /\ due \subseteq Keys /\ post_fire \subseteq Keys /\ forced \subseteq Keys
    /\ pc # "deliver" => due = {} /\ post_fire = {}
    /\ calls \in 0..MaxCalls /\ failures \in 0..MaxFailures /\ crashes \in 0..MaxCrashes
    /\ open \subseteq Keys /\ lit \subseteq Keys /\ spent \subseteq Keys
    /\ tries \in [Keys -> Nat]

\* No occurrence is forgotten, counted twice or left to two fires: those that
\* came due and are neither delivered, dead-lettered nor dropped with their
\* schedule are being delivered, or have exactly one fire queued (Ticker::tick;
\* deletes, updates and re-creations under the tick included).
OneFireEach ==
    \A k \in Keys : k \in open <=> (k \in due \/ pending_fires[k] # None)

\* A one-shot whose fire has been saved does not fire again: memory and, for the
\* next restart, the snapshot record it as fired or do not have it any more
\* ("without writing through here a fired one-shot reappears").  Calls that
\* cloned before and write after the ticker are excepted: see TickerWrite.
FiredStaysFired ==
    \A k \in spent : \A s \in {schedules[k], disk.schedules[k]} :
        s # NoSchedule => s.last_fired # None

\* An occurrence is attempted once, and retried at most as often as the most
\* patient policy allows, whatever happens to its schedule meanwhile.
RetryBudget ==
    \A k \in Keys : \E c \in Configs : tries[k] <= 1 + c.retries

\* An occurrence that came due is delivered, dead-lettered or dropped with its
\* schedule, unless the schedule is deleted, disabled, over or given an
\* expression that does not parse.
EveryFireSettled == \A k \in Keys : k \in open ~> (k \notin open \/ ~Runs(k))

\* A one-shot whose time has come, and that has not been fired.
AwaitsFire(k) ==
    /\ Runs(k)
    /\ Config(k).kind = "at" /\ now >= Config(k).arg
    /\ schedules[k].last_fired = None

\* A one-shot whose time has come is fired, unless it is deleted, changed or over
\* first: also after it was updated or re-created under a tick, while a fire of
\* its predecessor is queued, and after a crash.
OneShotFires == \A k \in Keys : AwaitsFire(k) ~> ~AwaitsFire(k)

\* "When target delivery fails [...], the Target.Input is forwarded to
\* DeadLetterConfig.Arn": every occurrence is delivered or dead-lettered in the
\* end, when nobody deletes or changes schedules and the server does not crash.
FailuresDeadLettered == \A k \in Keys : k \in open ~> k \notin open
=============================================================================
