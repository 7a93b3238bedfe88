----------------------- MODULE SchedulerTickerProofs -----------------------
(***************************************************************************)
(* Proofs about SchedulerTicker, for any schedules, groups, configurations, *)
(* calls, failures and crashes.                                             *)
(***************************************************************************)
EXTENDS SchedulerTicker, TLAPS

\* A schedule that is being delivered has no fire queued beside it.
FireInv ==
    /\ OneFireEach
    /\ \A k \in Keys : k \in due => pending_fires[k] = None

\* How often the delivery of k's occurrence has failed, as the ticker counts.
Counted(k) == IF retries[k] = NoRetry THEN 0 ELSE retries[k].attempts

\* The ticker's count is within the policy, and covers the attempts made.
BudgetInv ==
    \A k \in Keys : \E c \in Configs :
        /\ Counted(k) <= c.retries
        /\ tries[k] <= 1 + c.retries
        /\ k \in open => tries[k] <= Counted(k)

\* The one-shot is recorded as fired in s, or not there.
FiredIn(s, k) == s[k] # NoSchedule => s[k].last_fired # None

\* Every copy of the state that may still be written or loaded knows of it.
FiredInv ==
    /\ \A k \in spent :
          /\ FiredIn(schedules, k) /\ FiredIn(disk.schedules, k)
          /\ pc = "write" => FiredIn(image.schedules, k)
          /\ call = "cloned" => FiredIn(call_image.schedules, k)
    /\ \A k \in lit :
          /\ FiredIn(schedules, k)
          /\ pc = "write" => FiredIn(image.schedules, k)

-----------------------------------------------------------------------------
(* The operators of a tick. *)

\* A fire happens in some minute.
LEMMA MinuteType == ASSUME NEW t \in Times PROVE Minute(t) \in Nat
  BY SchedulerAssumption DEF Minute, Times

\* A retry is not in the past.
LEMMA BackoffType == ASSUME NEW n \in Nat \ {0} PROVE Backoff(n) \in Nat
<1>1. CASE n > 6
  BY <1>1 DEF Backoff
<1>2. CASE n \in {1, 2, 3, 4, 5, 6}
  BY <1>2 DEF Backoff
<1>. QED
  BY <1>1, <1>2

\* What fires, or is put off, exists.
LEMMA FiredExist ==
    /\ Ready \subseteq Keys /\ Fresh \subseteq Keys /\ Deferred \subseteq Fresh
    /\ Fired \subseteq Keys
    /\ \A k \in Fired : Exists(k)
  BY DEF Fired, Fresh, Ready, Deferred, Runs

\* Marking schedules as fired keeps them schedules.
LEMMA MarkedType ==
    ASSUME schedules \in [Keys -> Schedules], now \in Times,
           NEW K \in SUBSET Keys, \A k \in K : Exists(k)
    PROVE  /\ Marked(K) \in [Keys -> Schedules]
           /\ \A k \in K : Marked(K)[k].last_fired = now
           /\ \A k \in Keys \ K : Marked(K)[k] = schedules[k]
<1>1. ASSUME NEW k \in K
      PROVE  /\ [schedules[k] EXCEPT !.last_fired = now] \in Schedules
             /\ [schedules[k] EXCEPT !.last_fired = now].last_fired = now
  <2>1. schedules[k] \in [config : Configs, last_fired : Times \cup {None}]
    BY DEF Exists, Schedules
  <2>. QED
    BY <2>1 DEF Schedules
<1>. QED
  BY <1>1 DEF Marked

\* The count of a failed delivery.
LEMMA AttemptedType ==
    ASSUME TypeOK, NEW k \in Keys
    PROVE  /\ Attempted(k) \in [attempts : Nat \ {0}, first_due : Times]
           /\ Attempted(k).attempts = Counted(k) + 1
           /\ Counted(k) \in Nat
<1>1. CASE retries[k] = NoRetry
  BY <1>1 DEF Attempted, Counted, TypeOK
<1>2. CASE retries[k] # NoRetry
  <2>1. retries[k] \in [attempts : Nat, first_due : Times]
    BY <1>2 DEF TypeOK
  <2>. QED
    BY <1>2, <2>1 DEF Attempted, Counted
<1>. QED
  BY <1>1, <1>2

-----------------------------------------------------------------------------
\* Each step keeps the types of the variables.
LEMMA TypeStep == ASSUME TypeOK, [Next]_vars PROVE TypeOK'
<1>. USE SchedulerAssumption
     DEF scheduler, ticker, history, TypeOK, Times, Snapshots, Schedules, Snapshot
<1>1. CASE Collect
  <2>1. schedules \in [Keys -> Schedules] /\ groups \subseteq Groups
    BY DEF Snapshot
  <2>2. Marked(Fired) \in [Keys -> Schedules]
    BY <2>1, FiredExist, MarkedType
  <2>3. PICK offset \in Offsets :
          pending_fires' = [k \in Keys |-> IF k \in Deferred THEN now + offset[k]
                                           ELSE IF k \in Ready THEN None
                                           ELSE pending_fires[k]]
    BY <1>1 DEF Collect
  <2>4. \A k \in Deferred : now + offset[k] \in Times
    BY <2>3 DEF Offsets
  <2>5. pending_fires' \in [Keys -> Times \cup {None}]
    BY <2>3, <2>4
  <2>6. cron_last_minute' \in [Keys -> Nat \cup {None}]
    BY <1>1, MinuteType DEF Collect
  <2>7. tries' \in [Keys -> Nat]
    BY <1>1 DEF Collect
  <2>8. Snapshot' \in Snapshots
    BY <1>1, <2>1, <2>2 DEF Collect, Snapshot, Snapshots
  <2>. QED
    BY <1>1, <2>5, <2>6, <2>7, <2>8, FiredExist DEF Collect
<1>2. CASE DeleteCompleted
  BY <1>2 DEF DeleteCompleted, Without, Empty, Configured
<1>3. CASE TickerClone
  BY <1>3 DEF TickerClone, Empty, Configured
<1>4. CASE TickerWrite
  BY <1>4 DEF TickerWrite, Empty, Configured
<1>5. CASE TickerWriteFails
  BY <1>5 DEF TickerWriteFails, Empty, Configured
<1>6. ASSUME NEW k \in Keys, SkipDeleted(k) PROVE TypeOK'
  BY <1>6 DEF SkipDeleted, Due, Settle, Empty, Configured
<1>7. ASSUME NEW k \in Keys, Delivered(k) PROVE TypeOK'
  BY <1>7 DEF Delivered, Due, Settle, Try, Empty, Configured
<1>8. ASSUME NEW k \in Keys, QueueRetry(k) PROVE TypeOK'
  <2>1. Attempted(k) \in [attempts : Nat \ {0}, first_due : Times]
    BY AttemptedType
  <2>2. retries' \in [Keys -> [attempts : Nat, first_due : Times] \cup {NoRetry}]
    BY <1>8, <2>1 DEF QueueRetry
  <2>3. Backoff(Attempted(k).attempts) \in Nat
    BY <2>1, BackoffType
  <2>4. tick_now + Backoff(Attempted(k).attempts) \in Times
    BY <1>8, <2>3 DEF QueueRetry, Times
  <2>5. pending_fires' \in [Keys -> Times \cup {None}]
    BY <1>8, <2>4 DEF QueueRetry
  <2>6. tries' \in [Keys -> Nat] /\ failures' \in 0..MaxFailures
    BY <1>8 DEF QueueRetry, Fails, Try
  <2>. QED
    BY <1>8, <2>2, <2>5, <2>6 DEF QueueRetry, Fails, Due
<1>9. ASSUME NEW k \in Keys, DeadLetter(k) PROVE TypeOK'
  BY <1>9 DEF DeadLetter, Fails, Due, Try, Settle, Empty, Configured
<1>10. ASSUME NEW k \in Keys, NEW c \in Configs, CreateSchedule(k, c) PROVE TypeOK'
  BY <1>10 DEF CreateSchedule, Mutates, Empty, Configured
<1>11. ASSUME NEW k \in Keys, NEW c \in Configs, UpdateSchedule(k, c) PROVE TypeOK'
  BY <1>11 DEF UpdateSchedule, Mutates, Empty, Configured
<1>12. ASSUME NEW k \in Keys, DeleteSchedule(k) PROVE TypeOK'
  BY <1>12 DEF DeleteSchedule, Mutates, Without, Empty, Configured
<1>13. ASSUME NEW g \in Groups, CreateScheduleGroup(g) PROVE TypeOK'
  BY <1>13 DEF CreateScheduleGroup, Mutates, Empty, Configured
<1>14. ASSUME NEW g \in Groups, DeleteScheduleGroup(g) PROVE TypeOK'
  BY <1>14 DEF DeleteScheduleGroup, Mutates, Without, Empty, Configured
<1>15. CASE Reset
  BY <1>15 DEF Reset, Mutates, Empty, Configured
<1>16. CASE CallClone
  BY <1>16 DEF CallClone, Empty, Configured
<1>17. CASE CallWrite
  BY <1>17 DEF CallWrite, Empty, Configured
<1>23. CASE CallWriteFails
  BY <1>23 DEF CallWriteFails, Empty, Configured
<1>18. ASSUME NEW k \in Keys, FireOnce(k) PROVE TypeOK'
  <2>1. schedules \in [Keys -> Schedules] /\ groups \subseteq Groups
    BY DEF Snapshot
  <2>2. Marked({k}) \in [Keys -> Schedules]
    BY <1>18, <2>1, MarkedType DEF FireOnce
  <2>3. Snapshot' \in Snapshots
    BY <1>18, <2>1, <2>2 DEF FireOnce, Snapshot, Snapshots
  <2>4. calls' \in 0..MaxCalls /\ forced' \subseteq Keys
    BY <1>18 DEF FireOnce
  <2>. QED
    BY <1>18, <2>3, <2>4 DEF FireOnce
<1>19. ASSUME NEW k \in Keys, FireOnceDeletes(k) PROVE TypeOK'
  BY <1>19 DEF FireOnceDeletes, Without, Empty, Configured
<1>20. CASE CrashRestart
  BY <1>20 DEF CrashRestart, Empty, Configured
<1>21. CASE Advance
  BY <1>21 DEF Advance, Empty, Configured
<1>22. CASE UNCHANGED vars
  BY <1>22 DEF vars, Empty, Configured
<1>. QED
  BY <1>1, <1>2, <1>3, <1>4, <1>5, <1>6, <1>7, <1>8, <1>9, <1>10, <1>11,
     <1>12, <1>13, <1>14, <1>15, <1>16, <1>17, <1>18, <1>19, <1>20, <1>21,
     <1>22, <1>23
  DEF Next, Deliver, SaveTick, SaveCall, ApiCall

\* A fire that is taken up, queued or settled is counted once.
LEMMA FireStep == ASSUME TypeOK, FireInv, [Next]_vars PROVE FireInv'
<1>. USE SchedulerAssumption DEF scheduler, ticker, history, TypeOK, FireInv, OneFireEach
<1>1. CASE Collect
  <2>1. due = {}
    BY <1>1 DEF Collect
  <2>2. PICK offset \in Offsets :
          pending_fires' = [k \in Keys |-> IF k \in Deferred THEN now + offset[k]
                                           ELSE IF k \in Ready THEN None
                                           ELSE pending_fires[k]]
    BY <1>1 DEF Collect
  <2>3. \A k \in Deferred : now + offset[k] # None
    BY <2>2 DEF Offsets, None, Times
  <2>. QED
    BY <1>1, <2>1, <2>2, <2>3 DEF Collect, Fired, Fresh, Ready, Deferred
<1>2. CASE DeleteCompleted
  BY <1>2 DEF DeleteCompleted, Without
<1>3. CASE TickerClone
  BY <1>3 DEF TickerClone
<1>4. CASE TickerWrite
  BY <1>4 DEF TickerWrite
<1>5. CASE TickerWriteFails
  BY <1>5 DEF TickerWriteFails
<1>6. ASSUME NEW k \in Keys, SkipDeleted(k) PROVE FireInv'
  BY <1>6 DEF SkipDeleted, Due, Settle
<1>7. ASSUME NEW k \in Keys, Delivered(k) PROVE FireInv'
  BY <1>7 DEF Delivered, Due, Settle, Try
<1>8. ASSUME NEW k \in Keys, QueueRetry(k) PROVE FireInv'
  <2>1. Backoff(Attempted(k).attempts) \in Nat
    BY AttemptedType, BackoffType
  <2>2. tick_now + Backoff(Attempted(k).attempts) # None
    BY <2>1 DEF None, Times
  <2>. QED
    BY <1>8, <2>2 DEF QueueRetry, Fails, Due
<1>9. ASSUME NEW k \in Keys, DeadLetter(k) PROVE FireInv'
  BY <1>9 DEF DeadLetter, Fails, Due, Try, Settle
<1>10. ASSUME NEW k \in Keys, NEW c \in Configs, CreateSchedule(k, c) PROVE FireInv'
  BY <1>10 DEF CreateSchedule, Mutates
<1>11. ASSUME NEW k \in Keys, NEW c \in Configs, UpdateSchedule(k, c) PROVE FireInv'
  BY <1>11 DEF UpdateSchedule, Mutates
<1>12. ASSUME NEW k \in Keys, DeleteSchedule(k) PROVE FireInv'
  BY <1>12 DEF DeleteSchedule, Mutates, Without
<1>13. ASSUME NEW g \in Groups, CreateScheduleGroup(g) PROVE FireInv'
  BY <1>13 DEF CreateScheduleGroup, Mutates
<1>14. ASSUME NEW g \in Groups, DeleteScheduleGroup(g) PROVE FireInv'
  BY <1>14 DEF DeleteScheduleGroup, Mutates, Without
<1>15. CASE Reset
  BY <1>15 DEF Reset, Mutates
<1>16. CASE CallClone
  BY <1>16 DEF CallClone
<1>17. CASE CallWrite
  BY <1>17 DEF CallWrite
<1>23. CASE CallWriteFails
  BY <1>23 DEF CallWriteFails
<1>18. ASSUME NEW k \in Keys, FireOnce(k) PROVE FireInv'
  BY <1>18 DEF FireOnce
<1>19. ASSUME NEW k \in Keys, FireOnceDeletes(k) PROVE FireInv'
  BY <1>19 DEF FireOnceDeletes, Without
<1>20. CASE CrashRestart
  BY <1>20 DEF CrashRestart
<1>21. CASE Advance
  BY <1>21 DEF Advance
<1>22. CASE UNCHANGED vars
  BY <1>22 DEF vars
<1>. QED
  BY <1>1, <1>2, <1>3, <1>4, <1>5, <1>6, <1>7, <1>8, <1>9, <1>10, <1>11,
     <1>12, <1>13, <1>14, <1>15, <1>16, <1>17, <1>18, <1>19, <1>20, <1>21,
     <1>22, <1>23
  DEF Next, Deliver, SaveTick, SaveCall, ApiCall

\* Each failed attempt is counted, and none is made beyond the policy.
LEMMA BudgetStep == ASSUME TypeOK, FireInv, BudgetInv, [Next]_vars PROVE BudgetInv'
<1>. USE SchedulerAssumption DEF scheduler, ticker, history, BudgetInv
<1>1. CASE Collect
  <2>1. ASSUME NEW k \in Keys
        PROVE  \E c \in Configs : /\ Counted(k)' <= c.retries
                                  /\ tries'[k] <= 1 + c.retries
                                  /\ k \in open' => tries'[k] <= Counted(k)'
    <3>1. Counted(k)' = Counted(k) /\ Counted(k) \in Nat
      BY <1>1, AttemptedType DEF Collect, Counted
    <3>2. CASE k \in Fresh
      BY <1>1, <3>1, <3>2 DEF Collect
    <3>3. CASE k \notin Fresh
      BY <1>1, <3>1, <3>3 DEF Collect
    <3>. QED
      BY <3>2, <3>3
  <2>. QED
    BY <2>1
<1>2. CASE DeleteCompleted
  BY <1>2 DEF DeleteCompleted, Without, Counted
<1>3. CASE TickerClone
  BY <1>3 DEF TickerClone, Counted
<1>4. CASE TickerWrite
  BY <1>4 DEF TickerWrite, Counted
<1>5. CASE TickerWriteFails
  BY <1>5 DEF TickerWriteFails, Counted
<1>6. ASSUME NEW k \in Keys, SkipDeleted(k) PROVE BudgetInv'
  BY <1>6 DEF SkipDeleted, Due, Settle, Counted
<1>7. ASSUME NEW k \in Keys, Delivered(k) PROVE BudgetInv'
  <2>1. k \in open
    BY <1>7 DEF Delivered, Due, FireInv, OneFireEach
  <2>2. PICK c \in Configs : Counted(k) <= c.retries /\ tries[k] <= Counted(k)
    BY <2>1
  <2>3. Counted(k) \in Nat /\ tries[k] \in Nat /\ c.retries \in Nat
    BY AttemptedType DEF TypeOK
  <2>4. /\ tries'[k] = tries[k] + 1 /\ Counted(k)' = 0 /\ k \notin open'
        /\ \A j \in Keys \ {k} : tries'[j] = tries[j] /\ Counted(j)' = Counted(j)
        /\ open' \subseteq open
    BY <1>7 DEF Delivered, Try, Settle, TypeOK, Counted
  <2>5. tries'[k] <= 1 + c.retries /\ Counted(k)' <= c.retries
    BY <2>2, <2>3, <2>4
  <2>. QED
    BY <2>4, <2>5
<1>8. ASSUME NEW k \in Keys, QueueRetry(k) PROVE BudgetInv'
  <2>1. k \in open
    BY <1>8 DEF QueueRetry, Fails, Due, FireInv, OneFireEach
  <2>2. tries[k] <= Counted(k)
    BY <2>1
  <2>3. Counted(k) \in Nat /\ tries[k] \in Nat /\ Attempted(k).attempts = Counted(k) + 1
    BY AttemptedType DEF TypeOK
  <2>4. Config(k) \in Configs /\ Config(k).retries \in Nat
    BY <1>8 DEF QueueRetry, Fails, Exists, Config, TypeOK, Snapshot, Snapshots,
         Schedules
  <2>5. Counted(k)' = Attempted(k).attempts
    BY <1>8, AttemptedType DEF QueueRetry, TypeOK, Counted, Times
  <2>6. /\ tries'[k] = tries[k] + 1 /\ open' = open
        /\ \A j \in Keys \ {k} : tries'[j] = tries[j] /\ Counted(j)' = Counted(j)
    BY <1>8 DEF QueueRetry, Fails, Try, TypeOK, Counted
  <2>7. Attempted(k).attempts <= Config(k).retries
    BY <1>8 DEF QueueRetry, MayRetry
  <2>8. /\ Counted(k)' <= Config(k).retries
        /\ tries'[k] <= 1 + Config(k).retries
        /\ tries'[k] <= Counted(k)'
    BY <2>2, <2>3, <2>4, <2>5, <2>6, <2>7
  <2>. QED
    BY <2>4, <2>6, <2>8
<1>9. ASSUME NEW k \in Keys, DeadLetter(k) PROVE BudgetInv'
  <2>1. k \in open
    BY <1>9 DEF DeadLetter, Due, Fails, FireInv, OneFireEach
  <2>2. PICK c \in Configs : Counted(k) <= c.retries /\ tries[k] <= Counted(k)
    BY <2>1
  <2>3. Counted(k) \in Nat /\ tries[k] \in Nat /\ c.retries \in Nat
    BY AttemptedType DEF TypeOK
  <2>4. /\ tries'[k] = tries[k] + 1 /\ Counted(k)' = 0 /\ k \notin open'
        /\ \A j \in Keys \ {k} : tries'[j] = tries[j] /\ Counted(j)' = Counted(j)
        /\ open' \subseteq open
    BY <1>9 DEF DeadLetter, Try, Settle, Fails, TypeOK, Counted
  <2>5. tries'[k] <= 1 + c.retries /\ Counted(k)' <= c.retries
    BY <2>2, <2>3, <2>4
  <2>. QED
    BY <2>4, <2>5
<1>10. ASSUME NEW k \in Keys, NEW c \in Configs, CreateSchedule(k, c) PROVE BudgetInv'
  BY <1>10 DEF CreateSchedule, Mutates, Counted
<1>11. ASSUME NEW k \in Keys, NEW c \in Configs, UpdateSchedule(k, c) PROVE BudgetInv'
  BY <1>11 DEF UpdateSchedule, Mutates, Counted
<1>12. ASSUME NEW k \in Keys, DeleteSchedule(k) PROVE BudgetInv'
  BY <1>12 DEF DeleteSchedule, Mutates, Without, Counted
<1>13. ASSUME NEW g \in Groups, CreateScheduleGroup(g) PROVE BudgetInv'
  BY <1>13 DEF CreateScheduleGroup, Mutates, Counted
<1>14. ASSUME NEW g \in Groups, DeleteScheduleGroup(g) PROVE BudgetInv'
  BY <1>14 DEF DeleteScheduleGroup, Mutates, Without, Counted
<1>15. CASE Reset
  BY <1>15 DEF Reset, Mutates, Counted
<1>16. CASE CallClone
  BY <1>16 DEF CallClone, Counted
<1>17. CASE CallWrite
  BY <1>17 DEF CallWrite, Counted
<1>23. CASE CallWriteFails
  BY <1>23 DEF CallWriteFails, Counted
<1>18. ASSUME NEW k \in Keys, FireOnce(k) PROVE BudgetInv'
  BY <1>18 DEF FireOnce, Counted
<1>19. ASSUME NEW k \in Keys, FireOnceDeletes(k) PROVE BudgetInv'
  BY <1>19 DEF FireOnceDeletes, Without, Counted
<1>20. CASE CrashRestart
  BY <1>20 DEF CrashRestart, Counted
<1>21. CASE Advance
  BY <1>21 DEF Advance, Counted
<1>22. CASE UNCHANGED vars
  BY <1>22 DEF vars, Counted
<1>. QED
  BY <1>1, <1>2, <1>3, <1>4, <1>5, <1>6, <1>7, <1>8, <1>9, <1>10, <1>11,
     <1>12, <1>13, <1>14, <1>15, <1>16, <1>17, <1>18, <1>19, <1>20, <1>21,
     <1>22, <1>23
  DEF Next, Deliver, SaveTick, SaveCall, ApiCall

\* A save or a reload does not bring back an unfired copy of a saved one-shot.
LEMMA FiredStep == ASSUME TypeOK, FiredInv, [Next]_vars PROVE FiredInv'
<1>. USE SchedulerAssumption DEF scheduler, ticker, history, FiredInv, FiredIn
<1>0. spent \subseteq Keys /\ lit \subseteq Keys
  BY DEF TypeOK
<1>1. CASE Collect
  <2>1. schedules \in [Keys -> Schedules] /\ now \in Times /\ now # None
    BY DEF TypeOK, Snapshot, Snapshots, Times, None
  <2>2. /\ \A k \in Fired : schedules'[k].last_fired = now
        /\ \A k \in Keys \ Fired : schedules'[k] = schedules[k]
    BY <1>1, <2>1, FiredExist, MarkedType DEF Collect
  <2>. QED
    BY <1>1, <1>0, <2>1, <2>2 DEF Collect, FiredIn
<1>2. CASE DeleteCompleted
  BY <1>2, <1>0 DEF DeleteCompleted, Without, Snapshot, Empty
<1>3. CASE TickerClone
  BY <1>3, <1>0 DEF TickerClone, Snapshot, Empty
<1>4. CASE TickerWrite
  BY <1>4, <1>0 DEF TickerWrite, Snapshot, Empty
<1>5. CASE TickerWriteFails
  BY <1>5, <1>0 DEF TickerWriteFails, Snapshot, Empty
<1>6. ASSUME NEW k \in Keys, SkipDeleted(k) PROVE FiredInv'
  BY <1>6, <1>0 DEF SkipDeleted, Due, Settle, Snapshot, Empty
<1>7. ASSUME NEW k \in Keys, Delivered(k) PROVE FiredInv'
  BY <1>7, <1>0 DEF Delivered, Due, Settle, Try, Snapshot, Empty
<1>8. ASSUME NEW k \in Keys, QueueRetry(k) PROVE FiredInv'
  BY <1>8, <1>0 DEF QueueRetry, Fails, Due, Try, Snapshot, Empty
<1>9. ASSUME NEW k \in Keys, DeadLetter(k) PROVE FiredInv'
  BY <1>9, <1>0 DEF DeadLetter, Fails, Due, Try, Settle, Snapshot, Empty
<1>10. ASSUME NEW k \in Keys, NEW c \in Configs, CreateSchedule(k, c) PROVE FiredInv'
  BY <1>10, <1>0 DEF CreateSchedule, Mutates, Snapshot, Empty
<1>11. ASSUME NEW k \in Keys, NEW c \in Configs, UpdateSchedule(k, c) PROVE FiredInv'
  BY <1>11, <1>0 DEF UpdateSchedule, Mutates, Snapshot, Empty
<1>12. ASSUME NEW k \in Keys, DeleteSchedule(k) PROVE FiredInv'
  BY <1>12, <1>0 DEF DeleteSchedule, Mutates, Without, Snapshot, Empty
<1>13. ASSUME NEW g \in Groups, CreateScheduleGroup(g) PROVE FiredInv'
  BY <1>13, <1>0 DEF CreateScheduleGroup, Mutates, Snapshot, Empty
<1>14. ASSUME NEW g \in Groups, DeleteScheduleGroup(g) PROVE FiredInv'
  BY <1>14, <1>0 DEF DeleteScheduleGroup, Mutates, Without, Snapshot, Empty
<1>15. CASE Reset
  BY <1>15, <1>0 DEF Reset, Mutates, Snapshot, Empty
<1>16. CASE CallClone
  BY <1>16, <1>0 DEF CallClone, Snapshot, Empty
<1>17. CASE CallWrite
  BY <1>17, <1>0 DEF CallWrite, Snapshot, Empty
<1>23. CASE CallWriteFails
  BY <1>23, <1>0 DEF CallWriteFails, Snapshot, Empty
<1>18. ASSUME NEW k \in Keys, FireOnce(k) PROVE FiredInv'
  <2>1. schedules \in [Keys -> Schedules] /\ now \in Times /\ now # None
    BY DEF TypeOK, Snapshot, Snapshots, Times, None
  <2>2. /\ schedules'[k].last_fired = now
        /\ \A j \in Keys \ {k} : schedules'[j] = schedules[j]
    BY <1>18, <2>1, MarkedType DEF FireOnce
  <2>. QED
    BY <1>18, <1>0, <2>1, <2>2 DEF FireOnce
<1>19. ASSUME NEW k \in Keys, FireOnceDeletes(k) PROVE FiredInv'
  BY <1>19, <1>0 DEF FireOnceDeletes, Without, Snapshot, Empty
<1>20. CASE CrashRestart
  BY <1>20, <1>0 DEF CrashRestart, Snapshot, Empty
<1>21. CASE Advance
  BY <1>21, <1>0 DEF Advance, Snapshot, Empty
<1>22. CASE UNCHANGED vars
  BY <1>22 DEF vars, Snapshot, Empty
<1>. QED
  BY <1>1, <1>2, <1>3, <1>4, <1>5, <1>6, <1>7, <1>8, <1>9, <1>10, <1>11,
     <1>12, <1>13, <1>14, <1>15, <1>16, <1>17, <1>18, <1>19, <1>20, <1>21,
     <1>22, <1>23
  DEF Next, Deliver, SaveTick, SaveCall, ApiCall

-----------------------------------------------------------------------------
IndInv == TypeOK /\ FireInv /\ BudgetInv /\ FiredInv

\* The invariant holds in the beginning, ...
LEMMA InitInv == ASSUME Init PROVE IndInv
<1>. USE SchedulerAssumption DEF Init, Empty
<1>1. TypeOK
  BY DEF TypeOK, Snapshot, Snapshots, Schedules, Times
<1>2. FireInv /\ FiredInv
  BY DEF FireInv, OneFireEach, FiredInv
<1>3. BudgetInv
  BY DEF BudgetInv, Counted
<1>. QED
  BY <1>1, <1>2, <1>3 DEF IndInv

\* ... and each step preserves it.
LEMMA Inductive == Spec => []IndInv
<1>1. ASSUME IndInv, [Next]_vars PROVE IndInv'
  BY <1>1, TypeStep, FireStep, BudgetStep, FiredStep DEF IndInv
<1>. QED
  BY <1>1, InitInv, PTL DEF Spec

\* The type invariant; between two ticks nothing is left to deliver.
THEOREM TypeCorrect == Spec => []TypeOK
<1>1. IndInv => TypeOK
  BY DEF IndInv
<1>. QED
  BY <1>1, Inductive, PTL

\* Every occurrence that came due and is not settled has exactly one fire: the
\* tick in progress has it or one is queued, whatever calls do to the schedule.
THEOREM NoFireForgotten == Spec => []OneFireEach
<1>1. IndInv => OneFireEach
  BY DEF IndInv, FireInv
<1>. QED
  BY <1>1, Inductive, PTL

\* Retries stay within the most patient policy, although a schedule that is
\* updated or re-created inherits the count of its predecessor.
THEOREM RetriesBounded == Spec => []RetryBudget
<1>1. IndInv => RetryBudget
  BY DEF IndInv, BudgetInv, RetryBudget
<1>. QED
  BY <1>1, Inductive, PTL

\* A one-shot whose fire was saved is not fired again, after any number of
\* calls, saves, failed saves and crashes.
THEOREM FiredOnceSaved == Spec => []FiredStaysFired
<1>1. IndInv => FiredStaysFired
  BY DEF IndInv, FiredInv, FiredIn, FiredStaysFired
<1>. QED
  BY <1>1, Inductive, PTL
=============================================================================
