--------------------------- MODULE LambdaWarmPool ---------------------------
(***************************************************************************)
(* The warm pool of one function version: LambdaRuntime.                    *)
(*                                                                          *)
(* An invocation reserves an instance by its `busy` lock.  It takes a free  *)
(* one, or launches one under the pool's startup lock while the pool is     *)
(* below its cap, or waits for the locks of all current instances at once.  *)
(* In between, instances die, invocations are cancelled (their futures are  *)
(* dropped at an await), the function is updated, IAM is reset, and         *)
(* instances are swept, retired or evicted.  `instances` is guarded by an   *)
(* RwLock: each access to it is one step, and the steps between two         *)
(* accesses or awaits are one.                                              *)
(*                                                                          *)
(* Instances are never reused: there is one per launch.  The pool is a set: *)
(* try_take_free takes the first free instance of a Vec, here it takes any. *)
(***************************************************************************)
EXTENDS Naturals, FiniteSets

CONSTANTS
    Invokers,        \* invocations, each made once
    NoInvoker,       \* nobody holds a lock
    Reaper,          \* background teardown: idle sweep, deletes, resets
    Deploys,         \* deploy ids: code, configuration, layers
    FirstDeploy,     \* the one the function starts with
    MaxConcurrency,  \* FAKECLOUD_LAMBDA_MAX_CONCURRENCY
    MaxAttempts,     \* MAX_INVOKE_ATTEMPTS
    CancelPoints,    \* the awaits at which an invocation may be cancelled
    Disruptions,     \* which things may go wrong or be administered
    MaxDisruptions,  \* bound: how many of them
    MaxLaunches      \* bound: instances launched

Awaits == {"lock", "teardown", "launch", "starting", "wait", "probe", "post", "evicting"}
Launches == {"launch", "starting"}
AllDisruptions == {"dies", "flaky", "launch", "cancel", "update", "expire", "reset",
                   "delete", "take"}

ASSUME PoolAssumption ==
    /\ NoInvoker \notin Invokers /\ Reaper \notin Invokers
    /\ FirstDeploy \in Deploys
    /\ MaxConcurrency \in Nat \ {0} /\ MaxAttempts \in Nat \ {0}
    /\ CancelPoints \subseteq Awaits
    /\ Disruptions \subseteq AllDisruptions
    /\ MaxDisruptions \in Nat /\ MaxLaunches \in Nat

Entries == 1..MaxLaunches
NoEntry == 0
Owners == Invokers \cup {Reaper}

Outcomes == {"done", "failed", "cancelled"}
Steps == {"idle", "take", "recheck", "candidates", "queue", "current", "pooled", "evict"}
             \cup Awaits \cup Outcomes

VARIABLES
    pool,        \* instances: the warm entries of this version
    deploy_id, retiring, expiring, busy,   \* fields of each entry
    process,     \* its container or Pod: "none", "starting" until launch() returns
                 \*   it, "up", "down"
    session,     \* its execution-role credentials: "none", "valid", "dropped"
    doomed,      \* entries each owner has taken out of the pool and not terminated
    launched,    \* how many instances have been launched
    startup,     \* holder of the startup lock
    deployed,    \* the deploy id of the function's current configuration
    reset,       \* where an IAM reset is
    pc, want, slot, cand, attempt,   \* of each invocation
    disruptions,
    swept,       \* history: entries a sweep took out of the pool
    executed     \* history: how often the handler ran for each invocation

entries == <<deploy_id, retiring, expiring, process, session>>
invocation == <<pc, want, slot, cand, attempt>>
vars == <<pool, deploy_id, retiring, expiring, busy, process, session, doomed, launched,
          startup, deployed, reset, pc, want, slot, cand, attempt, disruptions, swept,
          executed>>

Init ==
    /\ pool = {} /\ launched = 0 /\ swept = {}
    /\ deploy_id = [e \in Entries |-> FirstDeploy]
    /\ retiring = [e \in Entries |-> FALSE]
    /\ expiring = [e \in Entries |-> FALSE]
    /\ busy = [e \in Entries |-> NoInvoker]
    /\ process = [e \in Entries |-> "none"]
    /\ session = [e \in Entries |-> "none"]
    /\ doomed = [o \in Owners |-> {}]
    /\ startup = NoInvoker /\ deployed = FirstDeploy /\ reset = "none"
    /\ pc = [i \in Invokers |-> "idle"]
    /\ want = [i \in Invokers |-> FirstDeploy]
    /\ slot = [i \in Invokers |-> NoEntry]
    /\ cand = [i \in Invokers |-> {}]
    /\ attempt = [i \in Invokers |-> 0]
    /\ disruptions = 0
    /\ executed = [i \in Invokers |-> 0]

\* Something out of the invocations' hands happens.
Disrupt(kind) ==
    /\ kind \in Disruptions
    /\ disruptions < MaxDisruptions
    /\ disruptions' = disruptions + 1

Goto(i, step) == pc' = [pc EXCEPT ![i] = step]

\* is_current.
IsCurrent(e, d) == deploy_id[e] = d /\ ~retiring[e] /\ ~expiring[e]

\* The instance answers.
Up(e) == process[e] = "up"

\* busy.try_lock() succeeds: nobody holds the lock or queues for it (a tokio
\* mutex that is released goes to the first in its queue).
Free(e) ==
    /\ busy[e] = NoInvoker
    /\ \A j \in Invokers : ~(pc[j] = "wait" /\ e \in cand[j])

Current(d) == {e \in pool : IsCurrent(e, d)}
FreeCurrent(d) == {e \in Current(d) : Free(e)}

-----------------------------------------------------------------------------
(* acquire_slot. *)

\* invoke: the function's configuration is read once, before the first attempt.
Begin(i) ==
    /\ pc[i] = "idle"
    /\ Goto(i, "take")
    /\ want' = [want EXCEPT ![i] = deployed]
    /\ attempt' = [attempt EXCEPT ![i] = 1]
    /\ UNCHANGED <<pool, entries, busy, doomed, launched, startup, deployed, reset,
                   slot, cand, disruptions, swept, executed>>

\* Reserve e.
Reserve(i, e) ==
    /\ busy' = [busy EXCEPT ![e] = i]
    /\ slot' = [slot EXCEPT ![i] = e]

\* try_take_free, on the fast path and again under the startup lock.
TakeFree(i) ==
    /\ pc[i] \in {"take", "recheck"}
    /\ \E e \in FreeCurrent(want[i]) : Reserve(i, e)
    /\ startup' = IF pc[i] = "recheck" THEN NoInvoker ELSE startup
    /\ Goto(i, "probe")
    /\ UNCHANGED <<pool, entries, doomed, launched, deployed, reset, want, cand, attempt,
                   disruptions, swept, executed>>

NoneFree(i) ==
    /\ pc[i] = "take"
    /\ FreeCurrent(want[i]) = {}
    /\ Goto(i, "lock")
    /\ UNCHANGED <<pool, entries, busy, doomed, launched, startup, deployed, reset, want,
                   slot, cand, attempt, disruptions, swept, executed>>

\* Mutant of LockStartup: launches are not serialized.
LockStartupShared(i) ==
    /\ pc[i] = "lock"
    /\ startup' = i
    /\ Goto(i, "recheck")
    /\ UNCHANGED <<pool, entries, busy, doomed, launched, deployed, reset, want, slot, cand,
                   attempt, disruptions, swept, executed>>

LockStartup(i) ==
    /\ pc[i] = "lock"
    /\ startup = NoInvoker
    /\ startup' = i
    /\ Goto(i, "recheck")
    /\ UNCHANGED <<pool, entries, busy, doomed, launched, deployed, reset, want, slot, cand,
                   attempt, disruptions, swept, executed>>

\* The entries of S a sweep may take: the free ones.
Sweepable(S) == {e \in S : Free(e)}

\* Entries leave the pool for their owner to terminate.
Detach(o, S) ==
    /\ pool' = pool \ S
    /\ doomed' = [doomed EXCEPT ![o] = @ \cup S]

\* Still none free: evict_stale_deploy takes the free entries of other deploys.
EvictStaleDeploy(i) ==
    LET stale == Sweepable({e \in pool : ~IsCurrent(e, want[i])})
    IN  /\ pc[i] = "recheck"
        /\ FreeCurrent(want[i]) = {}
        /\ Detach(i, stale)
        /\ swept' = swept \cup stale
        /\ Goto(i, "teardown")
        /\ UNCHANGED <<entries, busy, launched, startup, deployed, reset, want, slot, cand,
                       attempt, disruptions, executed>>

\* retire: terminate the instance, then revoke its credentials.
Retire(o) ==
    \E e \in doomed[o] :
        /\ o \in Invokers => pc[o] # "cancelled"
        /\ doomed' = [doomed EXCEPT ![o] = @ \ {e}]
        /\ process' = [process EXCEPT ![e] = "down"]
        /\ session' = [session EXCEPT ![e] = "dropped"]
        /\ UNCHANGED <<pool, deploy_id, retiring, expiring, busy, launched, startup, deployed,
                       reset, invocation, disruptions, swept, executed>>

\* Below the cap: credentials are issued and a launch begins.
Launch(i) ==
    /\ pc[i] = "teardown" /\ doomed[i] = {}
    /\ Cardinality(Current(want[i])) < MaxConcurrency
    /\ launched < MaxLaunches
    /\ launched' = launched + 1
    /\ slot' = [slot EXCEPT ![i] = launched + 1]
    /\ deploy_id' = [deploy_id EXCEPT ![launched + 1] = want[i]]
    /\ session' = [session EXCEPT ![launched + 1] = "valid"]
    /\ Goto(i, "launch")
    /\ UNCHANGED <<pool, retiring, expiring, busy, process, doomed, startup, deployed, reset,
                   want, cand, attempt, disruptions, swept, executed>>

\* backend.launch: the container or Pod is created, then it is started and its
\* port is waited for.
Create(i) ==
    /\ pc[i] = "launch"
    /\ process' = [process EXCEPT ![slot[i]] = "starting"]
    /\ Goto(i, "starting")
    /\ UNCHANGED <<pool, deploy_id, retiring, expiring, busy, session, doomed, launched, startup,
                   deployed, reset, want, slot, cand, attempt, disruptions, swept, executed>>

\* It is pooled, reserved by its launcher.
LaunchDone(i) ==
    /\ pc[i] = "starting"
    /\ pool' = pool \cup {slot[i]}
    /\ process' = [process EXCEPT ![slot[i]] = "up"]
    /\ busy' = [busy EXCEPT ![slot[i]] = i]
    /\ startup' = NoInvoker
    /\ Goto(i, "probe")
    /\ UNCHANGED <<deploy_id, retiring, expiring, session, doomed, launched, deployed, reset,
                   want, slot, cand, attempt, disruptions, swept, executed>>

\* What is left of the container of launch i when backend.launch returns an
\* error: as a rule it is removed, but query_host_port fails without that.
LeftBehind(i) ==
    IF pc[i] = "launch" THEN UNCHANGED process
    ELSE \E left \in {"down", process[slot[i]]} : process' = [process EXCEPT ![slot[i]] = left]

\* Mutant of LaunchFails: the credentials of a failed launch are kept.
LaunchFailsLeaking(i) ==
    /\ pc[i] \in Launches
    /\ Disrupt("launch")
    /\ LeftBehind(i)
    /\ slot' = [slot EXCEPT ![i] = NoEntry]
    /\ startup' = NoInvoker
    /\ Goto(i, "failed")
    /\ UNCHANGED <<pool, deploy_id, retiring, expiring, busy, session, doomed, launched, deployed,
                   reset, want, cand, attempt, swept, executed>>

\* PendingCredentials revokes what was issued; the error is returned.
LaunchFails(i) ==
    /\ pc[i] \in Launches
    /\ Disrupt("launch")
    /\ LeftBehind(i)
    /\ session' = [session EXCEPT ![slot[i]] = "dropped"]
    /\ slot' = [slot EXCEPT ![i] = NoEntry]
    /\ startup' = NoInvoker
    /\ Goto(i, "failed")
    /\ UNCHANGED <<pool, deploy_id, retiring, expiring, busy, doomed, launched, deployed, reset,
                   want, cand, attempt, swept, executed>>

\* At capacity: the startup lock is released, ...
AtCapacity(i) ==
    /\ pc[i] = "teardown" /\ doomed[i] = {}
    /\ Cardinality(Current(want[i])) >= MaxConcurrency
    /\ startup' = NoInvoker
    /\ Goto(i, "candidates")
    /\ UNCHANGED <<pool, entries, busy, doomed, launched, deployed, reset, want, slot, cand,
                   attempt, disruptions, swept, executed>>

\* ... the current instances are read, ...
Candidates(i) ==
    /\ pc[i] = "candidates"
    /\ cand' = [cand EXCEPT ![i] = Current(want[i])]
    /\ Goto(i, IF Current(want[i]) = {} THEN "take" ELSE "queue")
    /\ UNCHANGED <<pool, entries, busy, doomed, launched, startup, deployed, reset, want, slot,
                   attempt, disruptions, swept, executed>>

\* ... and all their locks are queued for: those that left the pool since, too.
Queue(i) ==
    /\ pc[i] = "queue"
    /\ Goto(i, "wait")
    /\ UNCHANGED <<pool, entries, busy, doomed, launched, startup, deployed, reset, want, slot,
                   cand, attempt, disruptions, swept, executed>>

\* select_all: the first that is released; the other queues are left.
WaitEnds(i) ==
    /\ pc[i] = "wait"
    /\ \E e \in cand[i] : busy[e] = NoInvoker /\ Reserve(i, e)
    /\ cand' = [cand EXCEPT ![i] = {}]
    /\ Goto(i, "current")
    /\ UNCHANGED <<pool, entries, doomed, launched, startup, deployed, reset, want, attempt,
                   disruptions, swept, executed>>

\* Mutant of Release: the guard is leaked.
ReleaseHolding(i, step) ==
    /\ UNCHANGED busy
    /\ slot' = [slot EXCEPT ![i] = NoEntry]
    /\ Goto(i, step)

\* The guard is dropped.
Release(i, step) ==
    /\ busy' = [busy EXCEPT ![slot[i]] = NoInvoker]
    /\ slot' = [slot EXCEPT ![i] = NoEntry]
    /\ Goto(i, step)

\* Is the instance still current ...
CheckCurrent(i) ==
    /\ pc[i] = "current"
    /\ IF IsCurrent(slot[i], want[i]) THEN Goto(i, "pooled") /\ UNCHANGED <<busy, slot>>
       ELSE Release(i, "take")
    /\ UNCHANGED <<pool, entries, doomed, launched, startup, deployed, reset, want, cand,
                   attempt, disruptions, swept, executed>>

\* Mutant of CheckPooled: the second check is left out.
CheckPooledNot(i) ==
    /\ pc[i] = "pooled"
    /\ Goto(i, "probe")
    /\ UNCHANGED <<pool, entries, busy, doomed, launched, startup, deployed, reset, want, slot,
                   cand, attempt, disruptions, swept, executed>>

\* ... and still in the pool?
CheckPooled(i) ==
    /\ pc[i] = "pooled"
    /\ IF slot[i] \in pool THEN Goto(i, "probe") /\ UNCHANGED <<busy, slot>>
       ELSE Release(i, "take")
    /\ UNCHANGED <<pool, entries, doomed, launched, startup, deployed, reset, want, cand,
                   attempt, disruptions, swept, executed>>

-----------------------------------------------------------------------------
(* invoke_inner and invoke_streaming. *)

\* The slot is dropped, and its instance is to be evicted: then the invocation
\* tries again or gives up.
Suspect(i, again) ==
    /\ busy' = [busy EXCEPT ![slot[i]] = NoInvoker]
    /\ attempt' = [attempt EXCEPT ![i] = IF again THEN @ + 1 ELSE 0]
    /\ Goto(i, "evict")

\* endpoint_reachable.
ProbeSucceeds(i) ==
    /\ pc[i] = "probe"
    /\ Up(slot[i])
    /\ Goto(i, "post")
    /\ UNCHANGED <<pool, entries, busy, doomed, launched, startup, deployed, reset, want, slot,
                   cand, attempt, disruptions, swept, executed>>

\* Mutant of ProbeFails: the attempts are not counted against their limit.
ProbeFailsRetries(i) ==
    /\ pc[i] = "probe"
    /\ IF Up(slot[i]) THEN Disrupt("flaky") ELSE UNCHANGED disruptions
    /\ Suspect(i, TRUE)
    /\ UNCHANGED <<pool, entries, doomed, launched, startup, deployed, reset, want, slot, cand,
                   swept, executed>>

\* The instance is gone, or too slow to answer the probe.
ProbeFails(i) ==
    /\ pc[i] = "probe"
    /\ IF Up(slot[i]) THEN Disrupt("flaky") ELSE UNCHANGED disruptions
    /\ Suspect(i, attempt[i] < MaxAttempts)
    /\ UNCHANGED <<pool, entries, doomed, launched, startup, deployed, reset, want, slot, cand,
                   swept, executed>>

\* The handler has run.
Reply(i) ==
    /\ pc[i] = "post"
    /\ Up(slot[i])
    /\ executed' = [executed EXCEPT ![i] = @ + 1]
    /\ Release(i, "done")
    /\ UNCHANGED <<pool, entries, doomed, launched, startup, deployed, reset, want, cand,
                   attempt, disruptions, swept>>

\* The connection is refused, or not made in time: nothing has run.
Refused(i) ==
    /\ pc[i] = "post"
    /\ IF Up(slot[i]) THEN Disrupt("flaky") ELSE UNCHANGED disruptions
    /\ Suspect(i, attempt[i] < MaxAttempts)
    /\ UNCHANGED <<pool, entries, doomed, launched, startup, deployed, reset, want, slot, cand,
                   swept, executed>>

\* Mutant of Broken: a broken connection is tried again too.
BrokenRetried(i) ==
    /\ pc[i] = "post"
    /\ IF Up(slot[i]) THEN Disrupt("flaky") ELSE UNCHANGED disruptions
    /\ executed' = [executed EXCEPT ![i] = @ + 1]
    /\ Suspect(i, attempt[i] < MaxAttempts)
    /\ UNCHANGED <<pool, entries, doomed, launched, startup, deployed, reset, want, slot, cand,
                   swept>>

\* The connection breaks or times out: the handler may have run.
Broken(i) ==
    /\ pc[i] = "post"
    /\ IF Up(slot[i]) THEN Disrupt("flaky") ELSE UNCHANGED disruptions
    /\ executed' = [executed EXCEPT ![i] = @ + 1]
    /\ Suspect(i, FALSE)
    /\ UNCHANGED <<pool, entries, doomed, launched, startup, deployed, reset, want, slot, cand,
                   swept>>

\* evict_entry: unless somebody else has taken it out of the pool.
EvictEntry(i) ==
    /\ pc[i] = "evict"
    /\ Detach(i, {slot[i]} \cap pool)
    /\ slot' = [slot EXCEPT ![i] = NoEntry]
    /\ Goto(i, "evicting")
    /\ UNCHANGED <<entries, busy, launched, startup, deployed, reset, want, cand, attempt,
                   disruptions, swept, executed>>

Evicted(i) ==
    /\ pc[i] = "evicting" /\ doomed[i] = {}
    /\ Goto(i, IF attempt[i] = 0 THEN "failed" ELSE "take")
    /\ UNCHANGED <<pool, entries, busy, doomed, launched, startup, deployed, reset, want, slot,
                   cand, attempt, disruptions, swept, executed>>

\* The future is dropped: guards are released and credentials of a launch under
\* way are revoked.  The container of that launch is left as it is, and what the
\* invocation was about to terminate stays in its hands for ever (CutOff).
Cancel(i) ==
    /\ pc[i] \in CancelPoints
    /\ Disrupt("cancel")
    /\ busy' = [e \in Entries |-> IF busy[e] = i THEN NoInvoker ELSE busy[e]]
    /\ startup' = IF startup = i THEN NoInvoker ELSE startup
    /\ session' = IF pc[i] \in Launches THEN [session EXCEPT ![slot[i]] = "dropped"] ELSE session
    /\ slot' = [slot EXCEPT ![i] = NoEntry]
    /\ cand' = [cand EXCEPT ![i] = {}]
    /\ Goto(i, "cancelled")
    /\ UNCHANGED <<pool, deploy_id, retiring, expiring, process, doomed, launched, deployed, reset,
                   want, attempt, swept, executed>>

-----------------------------------------------------------------------------
(* The rest of the system. *)

\* Mutant of CleanupIdle: a retiring instance is left to its TTL.
CleanupIdleOnly(idle) ==
    LET expired == Sweepable({e \in pool : e \in idle})
    IN  /\ expired # {}
        /\ Detach(Reaper, expired)
        /\ swept' = swept \cup expired
        /\ UNCHANGED <<entries, busy, launched, startup, deployed, reset, invocation,
                       disruptions, executed>>

\* The idle sweep: free instances that are retiring, or idle past the TTL.
CleanupIdle(idle) ==
    LET expired == Sweepable({e \in pool : retiring[e] \/ e \in idle})
    IN  /\ expired # {}
        /\ Detach(Reaper, expired)
        /\ swept' = swept \cup expired
        /\ UNCHANGED <<entries, busy, launched, startup, deployed, reset, invocation,
                       disruptions, executed>>

\* retire_version (DeleteFunction with a qualifier): every instance takes no
\* more invocations, and the free ones are detached.
RetireVersion ==
    /\ Disrupt("delete")
    /\ retiring' = [e \in Entries |-> retiring[e] \/ e \in pool]
    /\ Detach(Reaper, Sweepable(pool))
    /\ swept' = swept \cup Sweepable(pool)
    /\ UNCHANGED <<deploy_id, expiring, process, session, busy, launched, startup, deployed, reset,
                   invocation, executed>>

\* take_warm_instances, take_account_instances, evict_container, stop_all: the
\* pool is emptied, busy instances included.
TakeWarmInstances ==
    /\ Disrupt("take")
    /\ Detach(Reaper, pool)
    /\ UNCHANGED <<entries, busy, launched, startup, deployed, reset, invocation, swept, executed>>

\* reset_iam: pooled instances that have credentials are marked, ...
MarkCredentialsRevoked ==
    /\ reset = "none"
    /\ Disrupt("reset")
    /\ reset' = "marked"
    /\ retiring' = [e \in Entries |-> retiring[e] \/ (e \in pool /\ session[e] # "none")]
    /\ UNCHANGED <<pool, deploy_id, expiring, process, session, busy, doomed, launched, startup,
                   deployed, invocation, swept, executed>>

\* ... every session is dropped, ...
DropSessions ==
    /\ reset = "marked"
    /\ reset' = "dropped"
    /\ session' = [e \in Entries |-> IF session[e] = "valid" THEN "dropped" ELSE session[e]]
    /\ UNCHANGED <<pool, deploy_id, retiring, expiring, process, busy, doomed, launched, startup,
                   deployed, invocation, disruptions, swept, executed>>

\* ... and the free ones are retired in the background.
RetireReleased ==
    LET free == Sweepable({e \in pool : retiring[e]})
    IN  /\ reset = "dropped"
        /\ reset' = "none"
        /\ Detach(Reaper, free)
        /\ swept' = swept \cup free
        /\ UNCHANGED <<entries, busy, launched, startup, deployed, invocation, disruptions,
                       executed>>

\* UpdateFunctionCode, UpdateFunctionConfiguration.
UpdateFunction(d) ==
    /\ Disrupt("update")
    /\ d # deployed
    /\ deployed' = d
    /\ UNCHANGED <<pool, entries, busy, doomed, launched, startup, reset, invocation, swept,
                   executed>>

\* Credentials no longer outlive a full invocation.
Expire(e) ==
    /\ e \in pool /\ ~expiring[e]
    /\ Disrupt("expire")
    /\ expiring' = [expiring EXCEPT ![e] = TRUE]
    /\ UNCHANGED <<pool, deploy_id, retiring, process, session, busy, doomed, launched, startup,
                   deployed, reset, invocation, swept, executed>>

\* The container or Pod of an instance is killed (of one that is starting: its
\* launch fails).
Dies(e) ==
    /\ Up(e)
    /\ Disrupt("dies")
    /\ process' = [process EXCEPT ![e] = "down"]
    /\ UNCHANGED <<pool, deploy_id, retiring, expiring, session, busy, doomed, launched, startup,
                   deployed, reset, invocation, swept, executed>>

\* What invocation i does next on its own.
Step(i) ==
    \/ TakeFree(i) \/ NoneFree(i) \/ EvictStaleDeploy(i) \/ Retire(i)
    \/ Launch(i) \/ Create(i) \/ LaunchDone(i) \/ AtCapacity(i) \/ Candidates(i) \/ Queue(i)
    \/ WaitEnds(i) \/ CheckCurrent(i) \/ CheckPooled(i)
    \/ ProbeSucceeds(i) \/ ProbeFails(i) \/ Reply(i) \/ Refused(i) \/ Broken(i)
    \/ EvictEntry(i) \/ Evicted(i)

Reset == MarkCredentialsRevoked \/ DropSessions \/ RetireReleased

Next ==
    \/ \E i \in Invokers :
          Begin(i) \/ LockStartup(i) \/ Step(i) \/ LaunchFails(i) \/ Cancel(i)
    \/ \E idle \in {{}, pool} : CleanupIdle(idle)
    \/ RetireVersion \/ TakeWarmInstances \/ Reset
    \/ Retire(Reaper)
    \/ \E d \in Deploys : UpdateFunction(d)
    \/ \E e \in Entries : Expire(e) \/ Dies(e)

Spec == Init /\ [][Next]_vars

\* Every task of the runtime makes progress, launches and invocations return
\* (they have timeouts), tokio mutexes serve their queues in order, and the idle
\* sweep runs every 30 seconds.
Fairness ==
    /\ \A i \in Invokers : WF_vars(Step(i)) /\ SF_vars(LockStartup(i))
    /\ WF_vars(Retire(Reaper)) /\ WF_vars(CleanupIdle({}))
    /\ WF_vars(DropSessions) /\ WF_vars(RetireReleased)

FairSpec == Spec /\ Fairness

-----------------------------------------------------------------------------
(* Properties. *)

\* The values of the variables.
TypeOK ==
    /\ pool \subseteq Entries /\ swept \subseteq Entries
    /\ deploy_id \in [Entries -> Deploys]
    /\ retiring \in [Entries -> BOOLEAN] /\ expiring \in [Entries -> BOOLEAN]
    /\ busy \in [Entries -> Invokers \cup {NoInvoker}]
    /\ process \in [Entries -> {"none", "starting", "up", "down"}]
    /\ session \in [Entries -> {"none", "valid", "dropped"}]
    /\ doomed \in [Owners -> SUBSET Entries]
    /\ launched \in Entries \cup {NoEntry}
    /\ startup \in Invokers \cup {NoInvoker}
    /\ deployed \in Deploys
    /\ reset \in {"none", "marked", "dropped"}
    /\ pc \in [Invokers -> Steps] /\ want \in [Invokers -> Deploys]
    /\ slot \in [Invokers -> Entries \cup {NoEntry}]
    /\ cand \in [Invokers -> SUBSET Entries]
    /\ attempt \in [Invokers -> 0..MaxAttempts]
    /\ disruptions \in 0..MaxDisruptions
    /\ executed \in [Invokers -> Nat]

\* The instances that are being launched.
Launching(d) == {i \in Invokers : pc[i] \in Launches /\ want[i] = d}

\* However many cold invocations arrive together, also across an update of the
\* function, no deploy has more instances that take invocations, or are being
\* launched, than the cap.
CapRespected ==
    \A d \in Deploys : Cardinality(Current(d)) + Cardinality(Launching(d)) <= MaxConcurrency

\* An instance that a sweep (idle, stale deploy, deleted version, IAM reset) has
\* taken out of the pool is not used by any invocation, also not by one that
\* queued for its lock before: "a busy one is mid-invocation and is never cut
\* off".
SweptNotInUse ==
    \A i \in Invokers : pc[i] \in {"probe", "post"} => slot[i] \notin swept

\* The handler runs at most once for an invocation, however often it is retried
\* on other instances.
AtMostOnce == \A i \in Invokers : executed[i] <= 1

\* What cancelled invocations had taken out of the pool and not yet terminated:
\* instances and credentials that are in nobody's hands.
CutOff == UNION {doomed[i] : i \in {j \in Invokers : pc[j] = "cancelled"}}

\* Credentials outlive neither a launch that fails or is cancelled (the drop of
\* PendingCredentials) nor a stay in the pool: unless its termination is cut off,
\* a launched instance is in the pool, on its way there, or about to be
\* terminated by somebody who still runs, or its session is dropped, and then it
\* is not up.  (A launch may leave a container behind that never was.)
RevokedWhenGone ==
    \A e \in (1..launched) \ CutOff :
        \/ e \in pool
        \/ \E o \in Owners : e \in doomed[o]
        \/ \E i \in Invokers : pc[i] \in Launches /\ slot[i] = e
        \/ session[e] = "dropped" /\ ~Up(e)

\* Every invocation comes to an end: none waits for ever for the startup lock,
\* for a busy instance or for one that has left the pool.
EveryInvocationEnds ==
    \A i \in Invokers : pc[i] = "take" ~> pc[i] \in Outcomes

\* An instance that must not take another invocation leaves the pool, once the
\* invocation it serves is over.
RetiringLeaves ==
    \A e \in Entries : (e \in pool /\ retiring[e]) ~> e \notin pool

\* "So no invocation can start with them afterwards": once a reset has dropped
\* the sessions, an invocation is given an instance only if its session is
\* valid.
NoRevokedStart ==
    [][\A i \in Invokers :
         (pc[i] # "probe" /\ pc'[i] = "probe") => session[slot'[i]] = "valid"]_vars
=============================================================================
