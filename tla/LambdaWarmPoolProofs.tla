------------------------ MODULE LambdaWarmPoolProofs ------------------------
(***************************************************************************)
(* Proofs about LambdaWarmPool: types, the cap, sweeps, retries and the     *)
(* ownership of instances, for any number of invocations and instances.     *)
(***************************************************************************)
EXTENDS LambdaWarmPool, FiniteSetTheorems, TLAPS

\* The startup lock is held exactly between taking it and the end of the launch
\* or of the decision not to launch.
LockInv ==
    \A i \in Invokers : (pc[i] \in {"recheck", "teardown"} \cup Launches) <=> (startup = i)

\* An invocation that uses an instance, or checks whether it may, holds its lock.
HoldInv ==
    /\ \A i \in Invokers :
          pc[i] \in {"current", "pooled", "probe", "post"} =>
              slot[i] \in Entries /\ busy[slot[i]] = i
    /\ \A i \in Invokers : pc[i] = "evict" => slot[i] \in Entries
    /\ \A i \in Invokers : pc[i] \in Launches => slot[i] = launched /\ launched \in Entries

\* What has not been launched is nowhere, and what is being launched is known to
\* its launcher only.
NewInv ==
    /\ pool \subseteq 1..launched /\ swept \subseteq 1..launched
    /\ \A j \in Invokers : cand[j] \subseteq 1..launched
    /\ \A e \in Entries : e > launched => busy[e] = NoInvoker /\ ~Up(e)
    /\ \A i \in Invokers : pc[i] \in Launches =>
          /\ launched \notin pool \cup swept
          /\ \A j \in Invokers : launched \notin cand[j]
          /\ busy[launched] = NoInvoker /\ ~Up(launched)
          /\ deploy_id[launched] = want[i]

\* What was swept is never pooled again.
SweptInv == pool \cap swept = {} /\ SweptNotInUse

\* The handler has run only for invocations that will not try again.
OnceInv ==
    \A i \in Invokers :
        \/ executed[i] = 0
        \/ /\ executed[i] = 1
           /\ pc[i] \in Outcomes \/ (pc[i] \in {"evict", "evicting"} /\ attempt[i] = 0)

\* A launched instance is somebody's, or revoked and not up: RevokedWhenGone, with
\* the instances a cancelled invocation keeps.
OwnedInv ==
    \A e \in 1..launched :
        \/ e \in pool
        \/ \E o \in Owners : e \in doomed[o]
        \/ \E i \in Invokers : pc[i] \in Launches /\ slot[i] = e
        \/ session[e] = "dropped" /\ ~Up(e)

\* A launch that fails leaves a container or none, but never an instance that is up.
LEMMA FailedNotUp ==
    ASSUME TypeOK, HoldInv, NEW i \in Invokers, LaunchFails(i)
    PROVE  /\ process' \in [Entries -> {"none", "starting", "up", "down"}]
           /\ \A e \in Entries : process'[e] = "up" => process[e] = "up"
<1>1. slot[i] \in Entries
  BY DEF LaunchFails, HoldInv
<1>2. CASE pc[i] = "launch"
  BY <1>2 DEF LaunchFails, LeftBehind, TypeOK
<1>3. CASE pc[i] # "launch"
  <2>1. PICK left \in {"down", process[slot[i]]} : process' = [process EXCEPT ![slot[i]] = left]
    BY <1>3 DEF LaunchFails, LeftBehind
  <2>. QED
    BY <1>1, <2>1 DEF TypeOK
<1>. QED
  BY <1>2, <1>3

\* Each step keeps the types of the variables.
LEMMA TypeStep == ASSUME TypeOK, LockInv, HoldInv, [Next]_vars PROVE TypeOK'
<1>. USE PoolAssumption
     DEF TypeOK, Launches, Up, Steps, Awaits, Outcomes, Entries, NoEntry, entries, invocation
<1>1. ASSUME NEW i \in Invokers, Begin(i) PROVE TypeOK'
  BY <1>1 DEF Begin, Goto
<1>2. ASSUME NEW i \in Invokers, LockStartup(i) PROVE TypeOK'
  BY <1>2 DEF LockStartup, Goto
<1>3. ASSUME NEW i \in Invokers, TakeFree(i) PROVE TypeOK'
  <2>1. /\ busy' \in [Entries -> Invokers \cup {NoInvoker}]
        /\ slot' \in [Invokers -> Entries \cup {NoEntry}]
    BY <1>3 DEF TakeFree, Reserve, Goto, FreeCurrent, Current
  <2>. QED
    BY <1>3, <2>1 DEF TakeFree, Reserve, Goto
<1>4. ASSUME NEW i \in Invokers, NoneFree(i) PROVE TypeOK'
  BY <1>4 DEF NoneFree, Goto
<1>5. ASSUME NEW i \in Invokers, EvictStaleDeploy(i) PROVE TypeOK'
  BY <1>5 DEF EvictStaleDeploy, Detach, Sweepable, Goto
<1>6. ASSUME NEW i \in Invokers, Launch(i) PROVE TypeOK'
  BY <1>6 DEF Launch, Goto
<1>34. ASSUME NEW i \in Invokers, Create(i) PROVE TypeOK'
  BY <1>34 DEF Create, Goto
<1>7. ASSUME NEW i \in Invokers, LaunchDone(i) PROVE TypeOK'
  <2>1. slot[i] \in Entries
    BY <1>7 DEF LaunchDone, Goto, HoldInv
  <2>. QED
    BY <1>7, <2>1 DEF LaunchDone, Goto
<1>8. ASSUME NEW i \in Invokers, LaunchFails(i) PROVE TypeOK'
  <2>1. disruptions' \in 0..MaxDisruptions
    BY <1>8 DEF LaunchFails, LeftBehind, Disrupt, Goto
  <2>2. slot[i] \in Entries
    BY <1>8 DEF LaunchFails, LeftBehind, Disrupt, Goto, HoldInv
  <2>3. session' \in [Entries -> {"none", "valid", "dropped"}]
    BY <1>8 DEF LaunchFails, LeftBehind, Disrupt, Goto
  <2>. QED
    BY <1>8, <2>1, <2>2, <2>3, FailedNotUp DEF LaunchFails, Goto
<1>9. ASSUME NEW i \in Invokers, AtCapacity(i) PROVE TypeOK'
  BY <1>9 DEF AtCapacity, Goto
<1>10. ASSUME NEW i \in Invokers, Candidates(i) PROVE TypeOK'
  <2>1. cand' \in [Invokers -> SUBSET Entries]
    BY <1>10 DEF Candidates, Goto, Current
  <2>. QED
    BY <1>10, <2>1 DEF Candidates, Goto
<1>11. ASSUME NEW i \in Invokers, Queue(i) PROVE TypeOK'
  BY <1>11 DEF Queue, Goto
<1>12. ASSUME NEW i \in Invokers, WaitEnds(i) PROVE TypeOK'
  BY <1>12 DEF WaitEnds, Reserve, Goto
<1>13. ASSUME NEW i \in Invokers, CheckCurrent(i) PROVE TypeOK'
  BY <1>13 DEF CheckCurrent, Release, Goto
<1>14. ASSUME NEW i \in Invokers, CheckPooled(i) PROVE TypeOK'
  BY <1>14 DEF CheckPooled, Release, Goto
<1>15. ASSUME NEW i \in Invokers, ProbeSucceeds(i) PROVE TypeOK'
  BY <1>15 DEF ProbeSucceeds, Goto
<1>16. ASSUME NEW i \in Invokers, ProbeFails(i) PROVE TypeOK'
  <2>1. disruptions' \in 0..MaxDisruptions
    BY <1>16 DEF ProbeFails, Suspect, Disrupt, Goto
  <2>2. attempt' \in [Invokers -> 0..MaxAttempts]
    BY <1>16 DEF ProbeFails, Suspect, Disrupt, Goto
  <2>. QED
    BY <1>16, <2>1, <2>2 DEF ProbeFails, Suspect, Disrupt, Goto
<1>17. ASSUME NEW i \in Invokers, Reply(i) PROVE TypeOK'
  <2>1. executed' \in [Invokers -> Nat]
    BY <1>17 DEF Reply, Release, Goto
  <2>2. /\ busy' \in [Entries -> Invokers \cup {NoInvoker}]
        /\ slot' \in [Invokers -> Entries \cup {NoEntry}]
    BY <1>17 DEF Reply, Release, Goto
  <2>. QED
    BY <1>17, <2>1, <2>2 DEF Reply, Release, Goto
<1>18. ASSUME NEW i \in Invokers, Refused(i) PROVE TypeOK'
  <2>1. attempt' \in [Invokers -> 0..MaxAttempts]
    BY <1>18 DEF Refused, Suspect, Disrupt, Goto
  <2>2. busy' \in [Entries -> Invokers \cup {NoInvoker}]
    BY <1>18 DEF Refused, Suspect, Disrupt, Goto
  <2>. QED
    BY <1>18, <2>1, <2>2 DEF Refused, Suspect, Disrupt, Goto
<1>19. ASSUME NEW i \in Invokers, Broken(i) PROVE TypeOK'
  <2>1. disruptions' \in 0..MaxDisruptions
    BY <1>19 DEF Broken, Suspect, Disrupt, Goto
  <2>2. attempt' \in [Invokers -> 0..MaxAttempts]
    BY <1>19 DEF Broken, Suspect, Disrupt, Goto
  <2>3. executed' \in [Invokers -> Nat]
    BY <1>19 DEF Broken, Suspect, Disrupt, Goto
  <2>4. busy' \in [Entries -> Invokers \cup {NoInvoker}]
    BY <1>19 DEF Broken, Suspect, Disrupt, Goto
  <2>. QED
    BY <1>19, <2>1, <2>2, <2>3, <2>4 DEF Broken, Suspect, Disrupt, Goto
<1>20. ASSUME NEW i \in Invokers, EvictEntry(i) PROVE TypeOK'
  BY <1>20 DEF EvictEntry, Detach, Goto
<1>21. ASSUME NEW i \in Invokers, Evicted(i) PROVE TypeOK'
  BY <1>21 DEF Evicted, Goto
<1>22. ASSUME NEW i \in Invokers, Cancel(i) PROVE TypeOK'
  <2>1. disruptions' \in 0..MaxDisruptions
    BY <1>22 DEF Cancel, Disrupt, Goto
  <2>2. busy' \in [Entries -> Invokers \cup {NoInvoker}]
    BY <1>22 DEF Cancel, Disrupt, Goto
  <2>3. session' \in [Entries -> {"none", "valid", "dropped"}]
    BY <1>22 DEF Cancel, Disrupt, Goto
  <2>4. doomed' \in [Owners -> SUBSET Entries]
    BY <1>22 DEF Cancel, Disrupt, Goto
  <2>. QED
    BY <1>22, <2>1, <2>2, <2>3, <2>4 DEF Cancel, Disrupt, Goto
<1>23. ASSUME NEW o \in Owners, Retire(o) PROVE TypeOK'
  BY <1>23 DEF Retire
<1>24. ASSUME NEW idle, CleanupIdle(idle) PROVE TypeOK'
  BY <1>24 DEF CleanupIdle, Detach, Sweepable
<1>25. CASE RetireVersion
  <2>1. disruptions' \in 0..MaxDisruptions
    BY <1>25 DEF RetireVersion, Detach, Sweepable, Disrupt
  <2>2. doomed' \in [Owners -> SUBSET Entries]
    BY <1>25 DEF RetireVersion, Detach, Sweepable, Disrupt
  <2>. QED
    BY <1>25, <2>1, <2>2 DEF RetireVersion, Detach, Sweepable, Disrupt
<1>26. CASE TakeWarmInstances
  <2>1. disruptions' \in 0..MaxDisruptions
    BY <1>26 DEF TakeWarmInstances, Detach, Disrupt
  <2>2. doomed' \in [Owners -> SUBSET Entries]
    BY <1>26 DEF TakeWarmInstances, Detach, Disrupt
  <2>. QED
    BY <1>26, <2>1, <2>2 DEF TakeWarmInstances, Detach, Disrupt
<1>27. CASE MarkCredentialsRevoked
  BY <1>27 DEF MarkCredentialsRevoked, Disrupt
<1>28. CASE DropSessions
  BY <1>28 DEF DropSessions
<1>29. CASE RetireReleased
  BY <1>29 DEF RetireReleased, Detach, Sweepable
<1>30. ASSUME NEW d \in Deploys, UpdateFunction(d) PROVE TypeOK'
  BY <1>30 DEF UpdateFunction, Disrupt
<1>31. ASSUME NEW e \in Entries, Expire(e) PROVE TypeOK'
  BY <1>31 DEF Expire, Disrupt
<1>32. ASSUME NEW e \in Entries, Dies(e) PROVE TypeOK'
  BY <1>32 DEF Dies, Disrupt
<1>33. CASE UNCHANGED vars
  BY <1>33 DEF vars
<1>. QED
  BY <1>1, <1>2, <1>3, <1>4, <1>5, <1>6, <1>7, <1>8, <1>9, <1>10, <1>11,
     <1>12, <1>13, <1>14, <1>15, <1>16, <1>17, <1>18, <1>19, <1>20, <1>21,
     <1>22, <1>23, <1>24, <1>25, <1>26, <1>27, <1>28, <1>29, <1>30, <1>31,
     <1>32, <1>33, <1>34
  DEF Next, Step, Reset, Owners

\* Launch decisions are serialized.
LEMMA LockStep == ASSUME TypeOK, LockInv, [Next]_vars PROVE LockInv'
<1>. USE PoolAssumption DEF TypeOK, Launches, Up, LockInv, entries, invocation
<1>1. ASSUME NEW i \in Invokers, Begin(i) PROVE LockInv'
  BY <1>1 DEF Begin, Goto
<1>2. ASSUME NEW i \in Invokers, LockStartup(i) PROVE LockInv'
  BY <1>2 DEF LockStartup, Goto
<1>3. ASSUME NEW i \in Invokers, TakeFree(i) PROVE LockInv'
  BY <1>3 DEF TakeFree, Reserve, Goto
<1>4. ASSUME NEW i \in Invokers, NoneFree(i) PROVE LockInv'
  BY <1>4 DEF NoneFree, Goto
<1>5. ASSUME NEW i \in Invokers, EvictStaleDeploy(i) PROVE LockInv'
  BY <1>5 DEF EvictStaleDeploy, Detach, Sweepable, Goto
<1>6. ASSUME NEW i \in Invokers, Launch(i) PROVE LockInv'
  BY <1>6 DEF Launch, Goto
<1>34. ASSUME NEW i \in Invokers, Create(i) PROVE LockInv'
  BY <1>34 DEF Create, Goto
<1>7. ASSUME NEW i \in Invokers, LaunchDone(i) PROVE LockInv'
  BY <1>7 DEF LaunchDone, Goto
<1>8. ASSUME NEW i \in Invokers, LaunchFails(i) PROVE LockInv'
  BY <1>8 DEF LaunchFails, LeftBehind, Disrupt, Goto
<1>9. ASSUME NEW i \in Invokers, AtCapacity(i) PROVE LockInv'
  BY <1>9 DEF AtCapacity, Goto
<1>10. ASSUME NEW i \in Invokers, Candidates(i) PROVE LockInv'
  BY <1>10 DEF Candidates, Goto
<1>11. ASSUME NEW i \in Invokers, Queue(i) PROVE LockInv'
  BY <1>11 DEF Queue, Goto
<1>12. ASSUME NEW i \in Invokers, WaitEnds(i) PROVE LockInv'
  BY <1>12 DEF WaitEnds, Reserve, Goto
<1>13. ASSUME NEW i \in Invokers, CheckCurrent(i) PROVE LockInv'
  BY <1>13 DEF CheckCurrent, Release, Goto
<1>14. ASSUME NEW i \in Invokers, CheckPooled(i) PROVE LockInv'
  BY <1>14 DEF CheckPooled, Release, Goto
<1>15. ASSUME NEW i \in Invokers, ProbeSucceeds(i) PROVE LockInv'
  BY <1>15 DEF ProbeSucceeds, Goto
<1>16. ASSUME NEW i \in Invokers, ProbeFails(i) PROVE LockInv'
  BY <1>16 DEF ProbeFails, Suspect, Disrupt, Goto
<1>17. ASSUME NEW i \in Invokers, Reply(i) PROVE LockInv'
  BY <1>17 DEF Reply, Release, Goto
<1>18. ASSUME NEW i \in Invokers, Refused(i) PROVE LockInv'
  BY <1>18 DEF Refused, Suspect, Disrupt, Goto
<1>19. ASSUME NEW i \in Invokers, Broken(i) PROVE LockInv'
  BY <1>19 DEF Broken, Suspect, Disrupt, Goto
<1>20. ASSUME NEW i \in Invokers, EvictEntry(i) PROVE LockInv'
  BY <1>20 DEF EvictEntry, Detach, Goto
<1>21. ASSUME NEW i \in Invokers, Evicted(i) PROVE LockInv'
  BY <1>21 DEF Evicted, Goto
<1>22. ASSUME NEW i \in Invokers, Cancel(i) PROVE LockInv'
  BY <1>22 DEF Cancel, Disrupt, Goto
<1>23. ASSUME NEW o \in Owners, Retire(o) PROVE LockInv'
  BY <1>23 DEF Retire
<1>24. ASSUME NEW idle, CleanupIdle(idle) PROVE LockInv'
  BY <1>24 DEF CleanupIdle, Detach, Sweepable
<1>25. CASE RetireVersion
  BY <1>25 DEF RetireVersion, Detach, Sweepable, Disrupt
<1>26. CASE TakeWarmInstances
  BY <1>26 DEF TakeWarmInstances, Detach, Disrupt
<1>27. CASE MarkCredentialsRevoked
  BY <1>27 DEF MarkCredentialsRevoked, Disrupt
<1>28. CASE DropSessions
  BY <1>28 DEF DropSessions
<1>29. CASE RetireReleased
  BY <1>29 DEF RetireReleased, Detach, Sweepable
<1>30. ASSUME NEW d \in Deploys, UpdateFunction(d) PROVE LockInv'
  BY <1>30 DEF UpdateFunction, Disrupt
<1>31. ASSUME NEW e \in Entries, Expire(e) PROVE LockInv'
  BY <1>31 DEF Expire, Disrupt
<1>32. ASSUME NEW e \in Entries, Dies(e) PROVE LockInv'
  BY <1>32 DEF Dies, Disrupt
<1>33. CASE UNCHANGED vars
  BY <1>33 DEF vars
<1>. QED
  BY <1>1, <1>2, <1>3, <1>4, <1>5, <1>6, <1>7, <1>8, <1>9, <1>10, <1>11,
     <1>12, <1>13, <1>14, <1>15, <1>16, <1>17, <1>18, <1>19, <1>20, <1>21,
     <1>22, <1>23, <1>24, <1>25, <1>26, <1>27, <1>28, <1>29, <1>30, <1>31,
     <1>32, <1>33, <1>34
  DEF Next, Step, Reset, Owners

\* Nobody takes the lock of an instance from an invocation that uses it.
LEMMA HoldStep == ASSUME TypeOK, LockInv, NewInv, HoldInv, [Next]_vars PROVE HoldInv'
<1>. USE PoolAssumption DEF TypeOK, Launches, Up, entries, invocation, NoEntry, HoldInv
<1>1. ASSUME NEW i \in Invokers, Begin(i) PROVE HoldInv'
  BY <1>1 DEF Begin, Goto
<1>2. ASSUME NEW i \in Invokers, LockStartup(i) PROVE HoldInv'
  BY <1>2 DEF LockStartup, Goto
<1>3. ASSUME NEW i \in Invokers, TakeFree(i) PROVE HoldInv'
  BY <1>3 DEF TakeFree, Reserve, Goto, FreeCurrent, Current, Free
<1>4. ASSUME NEW i \in Invokers, NoneFree(i) PROVE HoldInv'
  BY <1>4 DEF NoneFree, Goto
<1>5. ASSUME NEW i \in Invokers, EvictStaleDeploy(i) PROVE HoldInv'
  BY <1>5 DEF EvictStaleDeploy, Detach, Sweepable, Goto
<1>6. ASSUME NEW i \in Invokers, Launch(i) PROVE HoldInv'
  BY <1>6 DEF Launch, Goto, LockInv, Entries
<1>34. ASSUME NEW i \in Invokers, Create(i) PROVE HoldInv'
  BY <1>34 DEF Create, Goto
<1>7. ASSUME NEW i \in Invokers, LaunchDone(i) PROVE HoldInv'
  BY <1>7 DEF LaunchDone, Goto, NewInv, LockInv
<1>8. ASSUME NEW i \in Invokers, LaunchFails(i) PROVE HoldInv'
  BY <1>8 DEF LaunchFails, LeftBehind, Disrupt, Goto
<1>9. ASSUME NEW i \in Invokers, AtCapacity(i) PROVE HoldInv'
  BY <1>9 DEF AtCapacity, Goto
<1>10. ASSUME NEW i \in Invokers, Candidates(i) PROVE HoldInv'
  BY <1>10 DEF Candidates, Goto
<1>11. ASSUME NEW i \in Invokers, Queue(i) PROVE HoldInv'
  BY <1>11 DEF Queue, Goto
<1>12. ASSUME NEW i \in Invokers, WaitEnds(i) PROVE HoldInv'
  BY <1>12 DEF WaitEnds, Reserve, Goto
<1>13. ASSUME NEW i \in Invokers, CheckCurrent(i) PROVE HoldInv'
  BY <1>13 DEF CheckCurrent, Release, Goto
<1>14. ASSUME NEW i \in Invokers, CheckPooled(i) PROVE HoldInv'
  BY <1>14 DEF CheckPooled, Release, Goto
<1>15. ASSUME NEW i \in Invokers, ProbeSucceeds(i) PROVE HoldInv'
  BY <1>15 DEF ProbeSucceeds, Goto
<1>16. ASSUME NEW i \in Invokers, ProbeFails(i) PROVE HoldInv'
  BY <1>16 DEF ProbeFails, Suspect, Disrupt, Goto
<1>17. ASSUME NEW i \in Invokers, Reply(i) PROVE HoldInv'
  BY <1>17 DEF Reply, Release, Goto
<1>18. ASSUME NEW i \in Invokers, Refused(i) PROVE HoldInv'
  BY <1>18 DEF Refused, Suspect, Disrupt, Goto
<1>19. ASSUME NEW i \in Invokers, Broken(i) PROVE HoldInv'
  BY <1>19 DEF Broken, Suspect, Disrupt, Goto
<1>20. ASSUME NEW i \in Invokers, EvictEntry(i) PROVE HoldInv'
  BY <1>20 DEF EvictEntry, Detach, Goto
<1>21. ASSUME NEW i \in Invokers, Evicted(i) PROVE HoldInv'
  BY <1>21 DEF Evicted, Goto
<1>22. ASSUME NEW i \in Invokers, Cancel(i) PROVE HoldInv'
  BY <1>22 DEF Cancel, Disrupt, Goto
<1>23. ASSUME NEW o \in Owners, Retire(o) PROVE HoldInv'
  BY <1>23 DEF Retire
<1>24. ASSUME NEW idle, CleanupIdle(idle) PROVE HoldInv'
  BY <1>24 DEF CleanupIdle, Detach, Sweepable
<1>25. CASE RetireVersion
  BY <1>25 DEF RetireVersion, Detach, Sweepable, Disrupt
<1>26. CASE TakeWarmInstances
  BY <1>26 DEF TakeWarmInstances, Detach, Disrupt
<1>27. CASE MarkCredentialsRevoked
  BY <1>27 DEF MarkCredentialsRevoked, Disrupt
<1>28. CASE DropSessions
  BY <1>28 DEF DropSessions
<1>29. CASE RetireReleased
  BY <1>29 DEF RetireReleased, Detach, Sweepable
<1>30. ASSUME NEW d \in Deploys, UpdateFunction(d) PROVE HoldInv'
  BY <1>30 DEF UpdateFunction, Disrupt
<1>31. ASSUME NEW e \in Entries, Expire(e) PROVE HoldInv'
  BY <1>31 DEF Expire, Disrupt
<1>32. ASSUME NEW e \in Entries, Dies(e) PROVE HoldInv'
  BY <1>32 DEF Dies, Disrupt
<1>33. CASE UNCHANGED vars
  BY <1>33 DEF vars
<1>. QED
  BY <1>1, <1>2, <1>3, <1>4, <1>5, <1>6, <1>7, <1>8, <1>9, <1>10, <1>11,
     <1>12, <1>13, <1>14, <1>15, <1>16, <1>17, <1>18, <1>19, <1>20, <1>21,
     <1>22, <1>23, <1>24, <1>25, <1>26, <1>27, <1>28, <1>29, <1>30, <1>31,
     <1>32, <1>33, <1>34
  DEF Next, Step, Reset, Owners

\* An instance enters the pool, and the sight of others, when its launch ends.
LEMMA NewStep == ASSUME TypeOK, LockInv, HoldInv, NewInv, [Next]_vars PROVE NewInv'
<1>. USE PoolAssumption DEF TypeOK, Launches, Up, entries, invocation, NoEntry, NewInv
<1>1. ASSUME NEW i \in Invokers, Begin(i) PROVE NewInv'
  BY <1>1 DEF Begin, Goto
<1>2. ASSUME NEW i \in Invokers, LockStartup(i) PROVE NewInv'
  BY <1>2 DEF LockStartup, Goto
<1>3. ASSUME NEW i \in Invokers, TakeFree(i) PROVE NewInv'
  BY <1>3 DEF TakeFree, Reserve, Goto, FreeCurrent, Current, Free
<1>4. ASSUME NEW i \in Invokers, NoneFree(i) PROVE NewInv'
  BY <1>4 DEF NoneFree, Goto
<1>5. ASSUME NEW i \in Invokers, EvictStaleDeploy(i) PROVE NewInv'
  BY <1>5 DEF EvictStaleDeploy, Detach, Sweepable, Goto
<1>6. ASSUME NEW i \in Invokers, Launch(i) PROVE NewInv'
  BY <1>6 DEF Launch, Goto, LockInv, Entries
<1>34. ASSUME NEW i \in Invokers, Create(i) PROVE NewInv'
  BY <1>34 DEF Create, Goto
<1>7. ASSUME NEW i \in Invokers, LaunchDone(i) PROVE NewInv'
  <2>1. slot[i] = launched /\ launched \in Entries
    BY <1>7 DEF LaunchDone, HoldInv
  <2>2. \A j \in Invokers : pc'[j] \notin Launches
    BY <1>7 DEF LaunchDone, Goto, LockInv
  <2>3. \A e \in Entries : e > launched' => busy'[e] = NoInvoker /\ ~Up(e)'
    BY <1>7, <2>1 DEF LaunchDone, Entries
  <2>4. pool' \subseteq 1..launched'
    BY <1>7, <2>1 DEF LaunchDone, Entries
  <2>. QED
    BY <1>7, <2>2, <2>3, <2>4 DEF LaunchDone
<1>8. ASSUME NEW i \in Invokers, LaunchFails(i) PROVE NewInv'
  <2>1. \A e \in Entries : Up(e)' => Up(e)
    BY <1>8, FailedNotUp
  <2>2. \A j \in Invokers : pc'[j] \notin Launches
    BY <1>8 DEF LaunchFails, Goto, LockInv
  <2>. QED
    BY <1>8, <2>1, <2>2 DEF LaunchFails
<1>9. ASSUME NEW i \in Invokers, AtCapacity(i) PROVE NewInv'
  BY <1>9 DEF AtCapacity, Goto
<1>10. ASSUME NEW i \in Invokers, Candidates(i) PROVE NewInv'
  BY <1>10 DEF Candidates, Goto, Current
<1>11. ASSUME NEW i \in Invokers, Queue(i) PROVE NewInv'
  BY <1>11 DEF Queue, Goto
<1>12. ASSUME NEW i \in Invokers, WaitEnds(i) PROVE NewInv'
  BY <1>12 DEF WaitEnds, Reserve, Goto
<1>13. ASSUME NEW i \in Invokers, CheckCurrent(i) PROVE NewInv'
  BY <1>13 DEF CheckCurrent, Release, Goto, HoldInv
<1>14. ASSUME NEW i \in Invokers, CheckPooled(i) PROVE NewInv'
  BY <1>14 DEF CheckPooled, Release, Goto, HoldInv
<1>15. ASSUME NEW i \in Invokers, ProbeSucceeds(i) PROVE NewInv'
  BY <1>15 DEF ProbeSucceeds, Goto
<1>16. ASSUME NEW i \in Invokers, ProbeFails(i) PROVE NewInv'
  BY <1>16 DEF ProbeFails, Suspect, Disrupt, Goto
<1>17. ASSUME NEW i \in Invokers, Reply(i) PROVE NewInv'
  BY <1>17 DEF Reply, Release, Goto
<1>18. ASSUME NEW i \in Invokers, Refused(i) PROVE NewInv'
  BY <1>18 DEF Refused, Suspect, Disrupt, Goto
<1>19. ASSUME NEW i \in Invokers, Broken(i) PROVE NewInv'
  BY <1>19 DEF Broken, Suspect, Disrupt, Goto
<1>20. ASSUME NEW i \in Invokers, EvictEntry(i) PROVE NewInv'
  BY <1>20 DEF EvictEntry, Detach, Goto
<1>21. ASSUME NEW i \in Invokers, Evicted(i) PROVE NewInv'
  BY <1>21 DEF Evicted, Goto
<1>22. ASSUME NEW i \in Invokers, Cancel(i) PROVE NewInv'
  <2>1. \A j \in Invokers : pc'[j] \in Launches => pc[j] \in Launches
    BY <1>22 DEF Cancel, Goto
  <2>2. \A e \in Entries : busy[e] = NoInvoker => busy'[e] = NoInvoker
    BY <1>22 DEF Cancel
  <2>3. \A j \in Invokers : cand'[j] \subseteq cand[j]
    BY <1>22 DEF Cancel
  <2>4. \A j \in Invokers : pc[j] \in Launches => launched \in Entries
    BY DEF HoldInv
  <2>. QED
    BY <1>22, <2>1, <2>2, <2>3, <2>4 DEF Cancel
<1>23. ASSUME NEW o \in Owners, Retire(o) PROVE NewInv'
  BY <1>23 DEF Retire
<1>24. ASSUME NEW idle, CleanupIdle(idle) PROVE NewInv'
  BY <1>24 DEF CleanupIdle, Detach, Sweepable
<1>25. CASE RetireVersion
  BY <1>25 DEF RetireVersion, Detach, Sweepable, Disrupt
<1>26. CASE TakeWarmInstances
  BY <1>26 DEF TakeWarmInstances, Detach, Disrupt
<1>27. CASE MarkCredentialsRevoked
  BY <1>27 DEF MarkCredentialsRevoked, Disrupt
<1>28. CASE DropSessions
  BY <1>28 DEF DropSessions
<1>29. CASE RetireReleased
  BY <1>29 DEF RetireReleased, Detach, Sweepable
<1>30. ASSUME NEW d \in Deploys, UpdateFunction(d) PROVE NewInv'
  BY <1>30 DEF UpdateFunction, Disrupt
<1>31. ASSUME NEW e \in Entries, Expire(e) PROVE NewInv'
  BY <1>31 DEF Expire, Disrupt
<1>32. ASSUME NEW e \in Entries, Dies(e) PROVE NewInv'
  BY <1>32 DEF Dies, Disrupt
<1>33. CASE UNCHANGED vars
  BY <1>33 DEF vars
<1>. QED
  BY <1>1, <1>2, <1>3, <1>4, <1>5, <1>6, <1>7, <1>8, <1>9, <1>10, <1>11,
     <1>12, <1>13, <1>14, <1>15, <1>16, <1>17, <1>18, <1>19, <1>20, <1>21,
     <1>22, <1>23, <1>24, <1>25, <1>26, <1>27, <1>28, <1>29, <1>30, <1>31,
     <1>32, <1>33, <1>34
  DEF Next, Step, Reset, Owners

\* Sweeps take free instances only, and no invocation gets in afterwards.
LEMMA SweptStep == ASSUME TypeOK, HoldInv, NewInv, SweptInv, [Next]_vars PROVE SweptInv'
<1>. USE PoolAssumption DEF TypeOK, Launches, Up, entries, invocation, NoEntry, SweptInv, SweptNotInUse
<1>1. ASSUME NEW i \in Invokers, Begin(i) PROVE SweptInv'
  BY <1>1 DEF Begin, Goto
<1>2. ASSUME NEW i \in Invokers, LockStartup(i) PROVE SweptInv'
  BY <1>2 DEF LockStartup, Goto
<1>3. ASSUME NEW i \in Invokers, TakeFree(i) PROVE SweptInv'
  BY <1>3 DEF TakeFree, Reserve, Goto, FreeCurrent, Current, Free
<1>4. ASSUME NEW i \in Invokers, NoneFree(i) PROVE SweptInv'
  BY <1>4 DEF NoneFree, Goto
<1>5. ASSUME NEW i \in Invokers, EvictStaleDeploy(i) PROVE SweptInv'
  BY <1>5 DEF EvictStaleDeploy, Detach, Sweepable, Goto, Free, HoldInv
<1>6. ASSUME NEW i \in Invokers, Launch(i) PROVE SweptInv'
  BY <1>6 DEF Launch, Goto
<1>34. ASSUME NEW i \in Invokers, Create(i) PROVE SweptInv'
  BY <1>34 DEF Create, Goto
<1>7. ASSUME NEW i \in Invokers, LaunchDone(i) PROVE SweptInv'
  <2>1. slot[i] = launched /\ launched \notin swept
    BY <1>7 DEF LaunchDone, HoldInv, NewInv
  <2>. QED
    BY <1>7, <2>1 DEF LaunchDone, Goto
<1>8. ASSUME NEW i \in Invokers, LaunchFails(i) PROVE SweptInv'
  BY <1>8 DEF LaunchFails, LeftBehind, Disrupt, Goto
<1>9. ASSUME NEW i \in Invokers, AtCapacity(i) PROVE SweptInv'
  BY <1>9 DEF AtCapacity, Goto
<1>10. ASSUME NEW i \in Invokers, Candidates(i) PROVE SweptInv'
  BY <1>10 DEF Candidates, Goto
<1>11. ASSUME NEW i \in Invokers, Queue(i) PROVE SweptInv'
  BY <1>11 DEF Queue, Goto
<1>12. ASSUME NEW i \in Invokers, WaitEnds(i) PROVE SweptInv'
  BY <1>12 DEF WaitEnds, Reserve, Goto
<1>13. ASSUME NEW i \in Invokers, CheckCurrent(i) PROVE SweptInv'
  BY <1>13 DEF CheckCurrent, Release, Goto
<1>14. ASSUME NEW i \in Invokers, CheckPooled(i) PROVE SweptInv'
  BY <1>14 DEF CheckPooled, Release, Goto
<1>15. ASSUME NEW i \in Invokers, ProbeSucceeds(i) PROVE SweptInv'
  BY <1>15 DEF ProbeSucceeds, Goto
<1>16. ASSUME NEW i \in Invokers, ProbeFails(i) PROVE SweptInv'
  BY <1>16 DEF ProbeFails, Suspect, Disrupt, Goto
<1>17. ASSUME NEW i \in Invokers, Reply(i) PROVE SweptInv'
  BY <1>17 DEF Reply, Release, Goto
<1>18. ASSUME NEW i \in Invokers, Refused(i) PROVE SweptInv'
  BY <1>18 DEF Refused, Suspect, Disrupt, Goto
<1>19. ASSUME NEW i \in Invokers, Broken(i) PROVE SweptInv'
  BY <1>19 DEF Broken, Suspect, Disrupt, Goto
<1>20. ASSUME NEW i \in Invokers, EvictEntry(i) PROVE SweptInv'
  BY <1>20 DEF EvictEntry, Detach, Goto
<1>21. ASSUME NEW i \in Invokers, Evicted(i) PROVE SweptInv'
  BY <1>21 DEF Evicted, Goto
<1>22. ASSUME NEW i \in Invokers, Cancel(i) PROVE SweptInv'
  BY <1>22 DEF Cancel, Disrupt, Goto
<1>23. ASSUME NEW o \in Owners, Retire(o) PROVE SweptInv'
  BY <1>23 DEF Retire
<1>24. ASSUME NEW idle, CleanupIdle(idle) PROVE SweptInv'
  BY <1>24 DEF CleanupIdle, Detach, Sweepable, Free, HoldInv
<1>25. CASE RetireVersion
  BY <1>25 DEF RetireVersion, Detach, Sweepable, Disrupt, Free, HoldInv
<1>26. CASE TakeWarmInstances
  BY <1>26 DEF TakeWarmInstances, Detach, Disrupt
<1>27. CASE MarkCredentialsRevoked
  BY <1>27 DEF MarkCredentialsRevoked, Disrupt
<1>28. CASE DropSessions
  BY <1>28 DEF DropSessions
<1>29. CASE RetireReleased
  BY <1>29 DEF RetireReleased, Detach, Sweepable, Free, HoldInv
<1>30. ASSUME NEW d \in Deploys, UpdateFunction(d) PROVE SweptInv'
  BY <1>30 DEF UpdateFunction, Disrupt
<1>31. ASSUME NEW e \in Entries, Expire(e) PROVE SweptInv'
  BY <1>31 DEF Expire, Disrupt
<1>32. ASSUME NEW e \in Entries, Dies(e) PROVE SweptInv'
  BY <1>32 DEF Dies, Disrupt
<1>33. CASE UNCHANGED vars
  BY <1>33 DEF vars
<1>. QED
  BY <1>1, <1>2, <1>3, <1>4, <1>5, <1>6, <1>7, <1>8, <1>9, <1>10, <1>11,
     <1>12, <1>13, <1>14, <1>15, <1>16, <1>17, <1>18, <1>19, <1>20, <1>21,
     <1>22, <1>23, <1>24, <1>25, <1>26, <1>27, <1>28, <1>29, <1>30, <1>31,
     <1>32, <1>33, <1>34
  DEF Next, Step, Reset, Owners

\* Only a connection that was never made is tried again.
LEMMA OnceStep == ASSUME TypeOK, OnceInv, [Next]_vars PROVE OnceInv'
<1>. USE PoolAssumption DEF TypeOK, Launches, Up, entries, invocation, NoEntry, OnceInv, Outcomes
<1>1. ASSUME NEW i \in Invokers, Begin(i) PROVE OnceInv'
  BY <1>1 DEF Begin, Goto
<1>2. ASSUME NEW i \in Invokers, LockStartup(i) PROVE OnceInv'
  BY <1>2 DEF LockStartup, Goto
<1>3. ASSUME NEW i \in Invokers, TakeFree(i) PROVE OnceInv'
  BY <1>3 DEF TakeFree, Reserve, Goto
<1>4. ASSUME NEW i \in Invokers, NoneFree(i) PROVE OnceInv'
  BY <1>4 DEF NoneFree, Goto
<1>5. ASSUME NEW i \in Invokers, EvictStaleDeploy(i) PROVE OnceInv'
  BY <1>5 DEF EvictStaleDeploy, Detach, Sweepable, Goto
<1>6. ASSUME NEW i \in Invokers, Launch(i) PROVE OnceInv'
  BY <1>6 DEF Launch, Goto
<1>34. ASSUME NEW i \in Invokers, Create(i) PROVE OnceInv'
  BY <1>34 DEF Create, Goto
<1>7. ASSUME NEW i \in Invokers, LaunchDone(i) PROVE OnceInv'
  BY <1>7 DEF LaunchDone, Goto
<1>8. ASSUME NEW i \in Invokers, LaunchFails(i) PROVE OnceInv'
  BY <1>8 DEF LaunchFails, LeftBehind, Disrupt, Goto
<1>9. ASSUME NEW i \in Invokers, AtCapacity(i) PROVE OnceInv'
  BY <1>9 DEF AtCapacity, Goto
<1>10. ASSUME NEW i \in Invokers, Candidates(i) PROVE OnceInv'
  BY <1>10 DEF Candidates, Goto
<1>11. ASSUME NEW i \in Invokers, Queue(i) PROVE OnceInv'
  BY <1>11 DEF Queue, Goto
<1>12. ASSUME NEW i \in Invokers, WaitEnds(i) PROVE OnceInv'
  BY <1>12 DEF WaitEnds, Reserve, Goto
<1>13. ASSUME NEW i \in Invokers, CheckCurrent(i) PROVE OnceInv'
  BY <1>13 DEF CheckCurrent, Release, Goto
<1>14. ASSUME NEW i \in Invokers, CheckPooled(i) PROVE OnceInv'
  BY <1>14 DEF CheckPooled, Release, Goto
<1>15. ASSUME NEW i \in Invokers, ProbeSucceeds(i) PROVE OnceInv'
  BY <1>15 DEF ProbeSucceeds, Goto
<1>16. ASSUME NEW i \in Invokers, ProbeFails(i) PROVE OnceInv'
  BY <1>16 DEF ProbeFails, Suspect, Disrupt, Goto
<1>17. ASSUME NEW i \in Invokers, Reply(i) PROVE OnceInv'
  BY <1>17 DEF Reply, Release, Goto
<1>18. ASSUME NEW i \in Invokers, Refused(i) PROVE OnceInv'
  BY <1>18 DEF Refused, Suspect, Disrupt, Goto
<1>19. ASSUME NEW i \in Invokers, Broken(i) PROVE OnceInv'
  BY <1>19 DEF Broken, Suspect, Disrupt, Goto
<1>20. ASSUME NEW i \in Invokers, EvictEntry(i) PROVE OnceInv'
  BY <1>20 DEF EvictEntry, Detach, Goto
<1>21. ASSUME NEW i \in Invokers, Evicted(i) PROVE OnceInv'
  BY <1>21 DEF Evicted, Goto
<1>22. ASSUME NEW i \in Invokers, Cancel(i) PROVE OnceInv'
  BY <1>22 DEF Cancel, Disrupt, Goto
<1>23. ASSUME NEW o \in Owners, Retire(o) PROVE OnceInv'
  BY <1>23 DEF Retire
<1>24. ASSUME NEW idle, CleanupIdle(idle) PROVE OnceInv'
  BY <1>24 DEF CleanupIdle, Detach, Sweepable
<1>25. CASE RetireVersion
  BY <1>25 DEF RetireVersion, Detach, Sweepable, Disrupt
<1>26. CASE TakeWarmInstances
  BY <1>26 DEF TakeWarmInstances, Detach, Disrupt
<1>27. CASE MarkCredentialsRevoked
  BY <1>27 DEF MarkCredentialsRevoked, Disrupt
<1>28. CASE DropSessions
  BY <1>28 DEF DropSessions
<1>29. CASE RetireReleased
  BY <1>29 DEF RetireReleased, Detach, Sweepable
<1>30. ASSUME NEW d \in Deploys, UpdateFunction(d) PROVE OnceInv'
  BY <1>30 DEF UpdateFunction, Disrupt
<1>31. ASSUME NEW e \in Entries, Expire(e) PROVE OnceInv'
  BY <1>31 DEF Expire, Disrupt
<1>32. ASSUME NEW e \in Entries, Dies(e) PROVE OnceInv'
  BY <1>32 DEF Dies, Disrupt
<1>33. CASE UNCHANGED vars
  BY <1>33 DEF vars
<1>. QED
  BY <1>1, <1>2, <1>3, <1>4, <1>5, <1>6, <1>7, <1>8, <1>9, <1>10, <1>11,
     <1>12, <1>13, <1>14, <1>15, <1>16, <1>17, <1>18, <1>19, <1>20, <1>21,
     <1>22, <1>23, <1>24, <1>25, <1>26, <1>27, <1>28, <1>29, <1>30, <1>31,
     <1>32, <1>33, <1>34
  DEF Next, Step, Reset, Owners

\* Whoever takes an instance out of the pool answers for it, and whoever gives up a
\* launch revokes its credentials.
LEMMA OwnedStep ==
    ASSUME TypeOK, LockInv, HoldInv, NewInv, OwnedInv, [Next]_vars
    PROVE  OwnedInv'
<1>. USE PoolAssumption DEF TypeOK, Launches, Up, entries, invocation, NoEntry, OwnedInv
<1>1. ASSUME NEW i \in Invokers, Begin(i) PROVE OwnedInv'
  BY <1>1 DEF Begin, Goto
<1>2. ASSUME NEW i \in Invokers, LockStartup(i) PROVE OwnedInv'
  BY <1>2 DEF LockStartup, Goto
<1>3. ASSUME NEW i \in Invokers, TakeFree(i) PROVE OwnedInv'
  BY <1>3 DEF TakeFree, Reserve, Goto
<1>4. ASSUME NEW i \in Invokers, NoneFree(i) PROVE OwnedInv'
  BY <1>4 DEF NoneFree, Goto
<1>5. ASSUME NEW i \in Invokers, EvictStaleDeploy(i) PROVE OwnedInv'
  BY <1>5 DEF EvictStaleDeploy, Detach, Sweepable, Goto, Owners
<1>6. ASSUME NEW i \in Invokers, Launch(i) PROVE OwnedInv'
  <2>1. SUFFICES ASSUME NEW e \in 1..launched' PROVE
          \/ e \in pool'
          \/ \E o \in Owners : e \in doomed'[o]
          \/ \E j \in Invokers : pc'[j] \in Launches /\ slot'[j] = e
          \/ ~Up(e)' /\ session'[e] = "dropped"
    OBVIOUS
  <2>2. CASE e = launched + 1
    BY <1>6, <2>2 DEF Launch, Goto
  <2>3. CASE e \in 1..launched
    <3>1. session'[e] = session[e]
      BY <1>6, <2>3 DEF Launch, Entries
    <3>2. ASSUME NEW j \in Invokers, pc[j] \in Launches, slot[j] = e
          PROVE  pc'[j] \in Launches /\ slot'[j] = e
      BY <1>6, <3>2 DEF Launch, Goto
    <3>. QED
      BY <1>6, <2>3, <3>1, <3>2 DEF Launch
  <2>. QED
    BY <1>6, <2>2, <2>3 DEF Launch, Entries
<1>34. ASSUME NEW i \in Invokers, Create(i) PROVE OwnedInv'
  BY <1>34 DEF Create, Goto
<1>7. ASSUME NEW i \in Invokers, LaunchDone(i) PROVE OwnedInv'
  BY <1>7 DEF LaunchDone, Goto, HoldInv, LockInv
<1>8. ASSUME NEW i \in Invokers, LaunchFails(i) PROVE OwnedInv'
  <2>1. \A e \in Entries : Up(e)' => Up(e)
    BY <1>8, FailedNotUp
  <2>2. slot[i] = launched /\ launched \in Entries /\ ~Up(launched)
    BY <1>8 DEF LaunchFails, HoldInv, NewInv
  <2>3. session'[launched] = "dropped" /\ \A e \in Entries : e # launched => session'[e] = session[e]
    BY <1>8, <2>2 DEF LaunchFails
  <2>4. \A j \in Invokers : pc[j] \in Launches => slot[j] = launched
    BY DEF HoldInv
  <2>5. launched' = launched /\ pool' = pool /\ doomed' = doomed
    BY <1>8 DEF LaunchFails
  <2>6. 1..launched \subseteq Entries
    BY <2>2 DEF Entries
  <2>7. ASSUME NEW e \in 1..launched
        PROVE  \/ e \in pool \/ \E o \in Owners : e \in doomed[o]
               \/ session'[e] = "dropped" /\ process'[e] # "up"
    <3>1. CASE e = launched
      BY <2>1, <2>2, <2>3, <3>1
    <3>2. CASE e # launched
      BY <2>1, <2>3, <2>4, <2>6, <3>2
    <3>. QED
      BY <3>1, <3>2
  <2>. QED
    BY <2>5, <2>7
<1>9. ASSUME NEW i \in Invokers, AtCapacity(i) PROVE OwnedInv'
  BY <1>9 DEF AtCapacity, Goto
<1>10. ASSUME NEW i \in Invokers, Candidates(i) PROVE OwnedInv'
  BY <1>10 DEF Candidates, Goto
<1>11. ASSUME NEW i \in Invokers, Queue(i) PROVE OwnedInv'
  BY <1>11 DEF Queue, Goto
<1>12. ASSUME NEW i \in Invokers, WaitEnds(i) PROVE OwnedInv'
  BY <1>12 DEF WaitEnds, Reserve, Goto
<1>13. ASSUME NEW i \in Invokers, CheckCurrent(i) PROVE OwnedInv'
  BY <1>13 DEF CheckCurrent, Release, Goto
<1>14. ASSUME NEW i \in Invokers, CheckPooled(i) PROVE OwnedInv'
  BY <1>14 DEF CheckPooled, Release, Goto
<1>15. ASSUME NEW i \in Invokers, ProbeSucceeds(i) PROVE OwnedInv'
  BY <1>15 DEF ProbeSucceeds, Goto
<1>16. ASSUME NEW i \in Invokers, ProbeFails(i) PROVE OwnedInv'
  BY <1>16 DEF ProbeFails, Suspect, Disrupt, Goto
<1>17. ASSUME NEW i \in Invokers, Reply(i) PROVE OwnedInv'
  BY <1>17 DEF Reply, Release, Goto
<1>18. ASSUME NEW i \in Invokers, Refused(i) PROVE OwnedInv'
  BY <1>18 DEF Refused, Suspect, Disrupt, Goto
<1>19. ASSUME NEW i \in Invokers, Broken(i) PROVE OwnedInv'
  BY <1>19 DEF Broken, Suspect, Disrupt, Goto
<1>20. ASSUME NEW i \in Invokers, EvictEntry(i) PROVE OwnedInv'
  BY <1>20 DEF EvictEntry, Detach, Goto, Owners
<1>21. ASSUME NEW i \in Invokers, Evicted(i) PROVE OwnedInv'
  BY <1>21 DEF Evicted, Goto
<1>22. ASSUME NEW i \in Invokers, Cancel(i) PROVE OwnedInv'
  BY <1>22 DEF Cancel, Goto, HoldInv, NewInv, Disrupt
<1>23. ASSUME NEW o \in Owners, Retire(o) PROVE OwnedInv'
  BY <1>23 DEF Retire, Owners
<1>24. ASSUME NEW idle, CleanupIdle(idle) PROVE OwnedInv'
  BY <1>24 DEF CleanupIdle, Detach, Sweepable, Owners
<1>25. CASE RetireVersion
  BY <1>25 DEF RetireVersion, Detach, Sweepable, Disrupt, Owners
<1>26. CASE TakeWarmInstances
  BY <1>26 DEF TakeWarmInstances, Detach, Disrupt, Owners
<1>27. CASE MarkCredentialsRevoked
  BY <1>27 DEF MarkCredentialsRevoked, Disrupt
<1>28. CASE DropSessions
  <2>1. \A e \in 1..launched : session[e] = "dropped" => session'[e] = "dropped"
    BY <1>28 DEF DropSessions, Entries
  <2>. QED
    BY <1>28, <2>1 DEF DropSessions
<1>29. CASE RetireReleased
  BY <1>29 DEF RetireReleased, Detach, Sweepable, Owners
<1>30. ASSUME NEW d \in Deploys, UpdateFunction(d) PROVE OwnedInv'
  BY <1>30 DEF UpdateFunction, Disrupt
<1>31. ASSUME NEW e \in Entries, Expire(e) PROVE OwnedInv'
  BY <1>31 DEF Expire, Disrupt
<1>32. ASSUME NEW e \in Entries, Dies(e) PROVE OwnedInv'
  BY <1>32 DEF Dies, Disrupt
<1>33. CASE UNCHANGED vars
  BY <1>33 DEF vars
<1>. QED
  BY <1>1, <1>2, <1>3, <1>4, <1>5, <1>6, <1>7, <1>8, <1>9, <1>10, <1>11,
     <1>12, <1>13, <1>14, <1>15, <1>16, <1>17, <1>18, <1>19, <1>20, <1>21,
     <1>22, <1>23, <1>24, <1>25, <1>26, <1>27, <1>28, <1>29, <1>30, <1>31,
     <1>32, <1>33, <1>34
  DEF Next, Step, Reset, Owners

\* The numbers CapRespected compares are numbers: the pool is finite, and only
\* the holder of the startup lock launches.
LEMMA CountsAreNat ==
    ASSUME TypeOK, LockInv, NEW d \in Deploys
    PROVE  /\ IsFiniteSet(Current(d)) /\ Cardinality(Current(d)) \in Nat
           /\ IsFiniteSet(Launching(d)) /\ Cardinality(Launching(d)) \in Nat
<1>1. IsFiniteSet(Entries)
  BY PoolAssumption, FS_Interval DEF Entries
<1>2. IsFiniteSet(Current(d))
  BY <1>1, FS_Subset DEF Current, TypeOK
<1>3. Launching(d) \subseteq {startup}
  BY DEF Launching, LockInv
<1>4. IsFiniteSet(Launching(d))
  BY <1>3, FS_Subset, FS_Singleton
<1>. QED
  BY <1>2, <1>4, FS_CardinalityType

\* A step that adds no current and no launching instance keeps the cap.
LEMMA Shrinks ==
    ASSUME TypeOK, LockInv, CapRespected,
           \A d \in Deploys : Current(d)' \subseteq Current(d) /\ Launching(d)' \subseteq Launching(d)
    PROVE  CapRespected'
<1>. SUFFICES ASSUME NEW d \in Deploys
              PROVE  Cardinality(Current(d)') + Cardinality(Launching(d)') <= MaxConcurrency
  BY DEF CapRespected
<1>1. /\ Cardinality(Current(d)') \in Nat
      /\ Cardinality(Current(d)') <= Cardinality(Current(d))
  BY CountsAreNat, FS_Subset, FS_CardinalityType
<1>2. /\ Cardinality(Launching(d)') \in Nat
      /\ Cardinality(Launching(d)') <= Cardinality(Launching(d))
  BY CountsAreNat, FS_Subset, FS_CardinalityType
<1>3. Cardinality(Current(d)) + Cardinality(Launching(d)) <= MaxConcurrency
  BY DEF CapRespected
<1>. QED
  BY <1>1, <1>2, <1>3, CountsAreNat, PoolAssumption

\* Each step keeps the cap; Launch and LaunchDone are the two that add something.
LEMMA CapStep ==
    ASSUME TypeOK, LockInv, HoldInv, NewInv, CapRespected, [Next]_vars
    PROVE  CapRespected'
<1>. USE PoolAssumption DEF TypeOK, Launches, Up, entries, invocation, NoEntry
<1>1. ASSUME NEW i \in Invokers, Begin(i) PROVE CapRespected'
  BY <1>1, Shrinks DEF Begin, Goto, Current, IsCurrent, Launching
<1>2. ASSUME NEW i \in Invokers, LockStartup(i) PROVE CapRespected'
  BY <1>2, Shrinks DEF LockStartup, Goto, Current, IsCurrent, Launching
<1>3. ASSUME NEW i \in Invokers, TakeFree(i) PROVE CapRespected'
  BY <1>3, Shrinks DEF TakeFree, Reserve, Goto, Current, IsCurrent, Launching
<1>4. ASSUME NEW i \in Invokers, NoneFree(i) PROVE CapRespected'
  BY <1>4, Shrinks DEF NoneFree, Goto, Current, IsCurrent, Launching
<1>5. ASSUME NEW i \in Invokers, EvictStaleDeploy(i) PROVE CapRespected'
  BY <1>5, Shrinks DEF EvictStaleDeploy, Detach, Sweepable, Goto, Current, IsCurrent, Launching
<1>6. ASSUME NEW i \in Invokers, Launch(i) PROVE CapRespected'
  <2>1. \A j \in Invokers : pc[j] \notin Launches
    BY <1>6 DEF Launch, LockInv
  <2>2. \A d \in Deploys : Current(d)' = Current(d)
    BY <1>6 DEF Launch, Current, IsCurrent, NewInv, Entries
  <2>3. \A d \in Deploys : Launching(d)' = IF d = want[i] THEN {i} ELSE {}
    BY <1>6, <2>1 DEF Launch, Launching, Goto
  <2>4. ASSUME NEW d \in Deploys
        PROVE  Cardinality(Current(d)') + Cardinality(Launching(d)') <= MaxConcurrency
    <3>1. Cardinality(Current(d)) \in Nat /\ Cardinality(Current(d)) <= MaxConcurrency
      BY CountsAreNat DEF CapRespected
    <3>2. CASE d = want[i]
      <4>1. Cardinality(Launching(d)') = 1
        BY <2>3, <3>2, FS_Singleton
      <4>2. Cardinality(Current(d)) < MaxConcurrency
        BY <1>6, <3>2 DEF Launch
      <4>. QED
        BY <2>2, <3>1, <4>1, <4>2
    <3>3. CASE d # want[i]
      <4>1. Cardinality(Launching(d)') = 0
        BY <2>3, <3>3, FS_EmptySet
      <4>. QED
        BY <2>2, <3>1, <4>1
    <3>. QED
      BY <3>2, <3>3
  <2>. QED
    BY <2>4 DEF CapRespected
<1>34. ASSUME NEW i \in Invokers, Create(i) PROVE CapRespected'
  BY <1>34, Shrinks DEF Create, Goto, Current, IsCurrent, Launching
<1>7. ASSUME NEW i \in Invokers, LaunchDone(i) PROVE CapRespected'
  <2>1. slot[i] = launched /\ launched \in Entries /\ deploy_id[launched] = want[i]
    BY <1>7 DEF LaunchDone, HoldInv, NewInv
  <2>2. \A d \in Deploys : Current(d)' \subseteq Current(d) \cup {launched}
    BY <1>7, <2>1 DEF LaunchDone, Current, IsCurrent
  <2>3. \A d \in Deploys : d # want[i] => Current(d)' \subseteq Current(d)
    BY <1>7, <2>1 DEF LaunchDone, Current, IsCurrent
  <2>4. \A j \in Invokers : pc[j] \in Launches => j = i
    BY <1>7 DEF LaunchDone, LockInv
  <2>5. Launching(want[i]) = {i} /\ \A d \in Deploys : Launching(d)' = {}
    BY <1>7, <2>4 DEF LaunchDone, Launching, Goto
  <2>6. ASSUME NEW d \in Deploys
        PROVE  Cardinality(Current(d)') + Cardinality(Launching(d)') <= MaxConcurrency
    <3>1. Cardinality(Launching(d)') = 0
      BY <2>5, FS_EmptySet
    <3>. DEFINE S == Current(d)
    <3>a. IsFiniteSet(S) /\ Cardinality(S) \in Nat
      BY CountsAreNat
    <3>b. /\ IsFiniteSet(S \cup {launched})
          /\ Cardinality(S \cup {launched}) \in {Cardinality(S), Cardinality(S) + 1}
      <4>. HIDE DEF S
      <4>. QED
        BY <3>a, FS_AddElement
    <3>2. /\ IsFiniteSet(Current(d)) /\ IsFiniteSet(Current(d) \cup {launched})
          /\ Cardinality(Current(d)) \in Nat
          /\ Cardinality(Current(d) \cup {launched}) <= Cardinality(Current(d)) + 1
      BY <3>a, <3>b
    <3>3. CASE d = want[i]
      <4>1. Cardinality(Launching(d)) = 1
        BY <2>5, <3>3, FS_Singleton
      <4>2. Cardinality(Current(d)) + 1 <= MaxConcurrency
        BY <4>1 DEF CapRespected
      <4>3. /\ Cardinality(Current(d)') \in Nat
            /\ Cardinality(Current(d)') <= Cardinality(Current(d) \cup {launched})
        BY <2>2, <3>2, FS_Subset, FS_CardinalityType
      <4>. QED
        BY <3>1, <3>2, <4>2, <4>3, FS_CardinalityType
    <3>4. CASE d # want[i]
      <4>1. /\ Cardinality(Current(d)') \in Nat
            /\ Cardinality(Current(d)') <= Cardinality(Current(d))
        BY <2>3, <3>2, <3>4, FS_Subset, FS_CardinalityType
      <4>2. Cardinality(Current(d)) <= MaxConcurrency
        BY CountsAreNat DEF CapRespected
      <4>. QED
        BY <3>1, <3>2, <4>1, <4>2
    <3>. QED
      BY <3>3, <3>4
  <2>. QED
    BY <2>6 DEF CapRespected
<1>8. ASSUME NEW i \in Invokers, LaunchFails(i) PROVE CapRespected'
  BY <1>8, Shrinks DEF LaunchFails, LeftBehind, Disrupt, Goto, Current, IsCurrent, Launching
<1>9. ASSUME NEW i \in Invokers, AtCapacity(i) PROVE CapRespected'
  BY <1>9, Shrinks DEF AtCapacity, Goto, Current, IsCurrent, Launching
<1>10. ASSUME NEW i \in Invokers, Candidates(i) PROVE CapRespected'
  BY <1>10, Shrinks DEF Candidates, Goto, Current, IsCurrent, Launching
<1>11. ASSUME NEW i \in Invokers, Queue(i) PROVE CapRespected'
  BY <1>11, Shrinks DEF Queue, Goto, Current, IsCurrent, Launching
<1>12. ASSUME NEW i \in Invokers, WaitEnds(i) PROVE CapRespected'
  BY <1>12, Shrinks DEF WaitEnds, Reserve, Goto, Current, IsCurrent, Launching
<1>13. ASSUME NEW i \in Invokers, CheckCurrent(i) PROVE CapRespected'
  BY <1>13, Shrinks DEF CheckCurrent, Release, Goto, Current, IsCurrent, Launching
<1>14. ASSUME NEW i \in Invokers, CheckPooled(i) PROVE CapRespected'
  BY <1>14, Shrinks DEF CheckPooled, Release, Goto, Current, IsCurrent, Launching
<1>15. ASSUME NEW i \in Invokers, ProbeSucceeds(i) PROVE CapRespected'
  BY <1>15, Shrinks DEF ProbeSucceeds, Goto, Current, IsCurrent, Launching
<1>16. ASSUME NEW i \in Invokers, ProbeFails(i) PROVE CapRespected'
  BY <1>16, Shrinks DEF ProbeFails, Suspect, Disrupt, Goto, Current, IsCurrent, Launching
<1>17. ASSUME NEW i \in Invokers, Reply(i) PROVE CapRespected'
  BY <1>17, Shrinks DEF Reply, Release, Goto, Current, IsCurrent, Launching
<1>18. ASSUME NEW i \in Invokers, Refused(i) PROVE CapRespected'
  BY <1>18, Shrinks DEF Refused, Suspect, Disrupt, Goto, Current, IsCurrent, Launching
<1>19. ASSUME NEW i \in Invokers, Broken(i) PROVE CapRespected'
  BY <1>19, Shrinks DEF Broken, Suspect, Disrupt, Goto, Current, IsCurrent, Launching
<1>20. ASSUME NEW i \in Invokers, EvictEntry(i) PROVE CapRespected'
  BY <1>20, Shrinks DEF EvictEntry, Detach, Goto, Current, IsCurrent, Launching
<1>21. ASSUME NEW i \in Invokers, Evicted(i) PROVE CapRespected'
  BY <1>21, Shrinks DEF Evicted, Goto, Current, IsCurrent, Launching
<1>22. ASSUME NEW i \in Invokers, Cancel(i) PROVE CapRespected'
  BY <1>22, Shrinks DEF Cancel, Disrupt, Goto, Current, IsCurrent, Launching
<1>23. ASSUME NEW o \in Owners, Retire(o) PROVE CapRespected'
  BY <1>23, Shrinks DEF Retire, Current, IsCurrent, Launching
<1>24. ASSUME NEW idle, CleanupIdle(idle) PROVE CapRespected'
  BY <1>24, Shrinks DEF CleanupIdle, Detach, Sweepable, Current, IsCurrent, Launching
<1>25. CASE RetireVersion
  BY <1>25, Shrinks DEF RetireVersion, Detach, Sweepable, Disrupt, Current, IsCurrent, Launching
<1>26. CASE TakeWarmInstances
  BY <1>26, Shrinks DEF TakeWarmInstances, Detach, Disrupt, Current, IsCurrent, Launching
<1>27. CASE MarkCredentialsRevoked
  BY <1>27, Shrinks DEF MarkCredentialsRevoked, Disrupt, Current, IsCurrent, Launching
<1>28. CASE DropSessions
  BY <1>28, Shrinks DEF DropSessions, Current, IsCurrent, Launching
<1>29. CASE RetireReleased
  BY <1>29, Shrinks DEF RetireReleased, Detach, Sweepable, Current, IsCurrent, Launching
<1>30. ASSUME NEW d \in Deploys, UpdateFunction(d) PROVE CapRespected'
  BY <1>30, Shrinks DEF UpdateFunction, Disrupt, Current, IsCurrent, Launching
<1>31. ASSUME NEW e \in Entries, Expire(e) PROVE CapRespected'
  BY <1>31, Shrinks DEF Expire, Disrupt, Current, IsCurrent, Launching
<1>32. ASSUME NEW e \in Entries, Dies(e) PROVE CapRespected'
  BY <1>32, Shrinks DEF Dies, Disrupt, Current, IsCurrent, Launching
<1>33. CASE UNCHANGED vars
  BY <1>33, Shrinks DEF vars, Current, IsCurrent, Launching
<1>. QED
  BY <1>1, <1>2, <1>3, <1>4, <1>5, <1>6, <1>7, <1>8, <1>9, <1>10, <1>11,
     <1>12, <1>13, <1>14, <1>15, <1>16, <1>17, <1>18, <1>19, <1>20, <1>21,
     <1>22, <1>23, <1>24, <1>25, <1>26, <1>27, <1>28, <1>29, <1>30, <1>31,
     <1>32, <1>33, <1>34
  DEF Next, Step, Reset, Owners

-----------------------------------------------------------------------------
\* The inductive invariant.
IndInv ==
    /\ TypeOK /\ LockInv /\ HoldInv /\ NewInv
    /\ SweptInv /\ OnceInv /\ OwnedInv /\ CapRespected

\* The invariant holds in the beginning, ...
LEMMA InitInv == ASSUME Init PROVE IndInv
<1>. USE PoolAssumption DEF Init
<1>1. TypeOK
  BY DEF TypeOK, Entries, NoEntry, Steps
<1>2. LockInv /\ HoldInv /\ SweptInv /\ OnceInv
  BY DEF LockInv, HoldInv, Launches, SweptInv, SweptNotInUse, OnceInv
<1>3. NewInv
  BY DEF NewInv, Launches, Up
<1>4. CapRespected
  <2>1. \A d \in Deploys : Current(d) = {} /\ Launching(d) = {}
    BY DEF Current, Launching, Launches
  <2>2. \A d \in Deploys : Cardinality(Current(d)) = 0 /\ Cardinality(Launching(d)) = 0
    BY <2>1, FS_EmptySet
  <2>. QED
    BY <2>2 DEF CapRespected
<1>5. OwnedInv
  BY DEF OwnedInv
<1>. QED
  BY <1>1, <1>2, <1>3, <1>4, <1>5 DEF IndInv

\* ... each step preserves it, ...
LEMMA StepInv == ASSUME IndInv, [Next]_vars PROVE IndInv'
  BY TypeStep, LockStep, HoldStep, NewStep, SweptStep, OnceStep, OwnedStep, CapStep
  DEF IndInv

\* ... so it always holds.
LEMMA Inductive == Spec => []IndInv
  BY InitInv, StepInv, PTL DEF Spec

\* The type invariant, for any number of invocations, attempts, instances and
\* disruptions.
THEOREM TypeCorrect == Spec => []TypeOK
<1>1. IndInv => TypeOK
  BY DEF IndInv
<1>. QED
  BY <1>1, Inductive, PTL

\* However many invocations arrive together and whatever is updated, evicted or
\* cancelled meanwhile, no deploy has more instances than the cap: acquire_slot
\* decides to launch, and launches, under the startup lock.
THEOREM CapHolds == Spec => []CapRespected
<1>1. IndInv => CapRespected
  BY DEF IndInv
<1>. QED
  BY <1>1, Inductive, PTL

\* No invocation uses an instance that a sweep has taken out of the pool: a sweep
\* takes only instances whose lock is free, and whoever is given that lock later
\* looks at the pool again.
THEOREM NeverUsesSwept == Spec => []SweptNotInUse
<1>1. IndInv => SweptNotInUse
  BY DEF IndInv, SweptInv
<1>. QED
  BY <1>1, Inductive, PTL

\* The handler runs at most once per invocation, with any number of attempts.
THEOREM RunsAtMostOnce == Spec => []AtMostOnce
<1>1. IndInv => AtMostOnce
  BY DEF IndInv, OnceInv, AtMostOnce
<1>. QED
  BY <1>1, Inductive, PTL

\* Wherever invocations are cancelled, and whatever a launch that fails leaves
\* behind, credentials outlive neither a launch that comes to nothing nor a stay in
\* the pool, except those whose termination was itself cut off.
THEOREM AlwaysRevoked == Spec => []RevokedWhenGone
<1>1. IndInv => RevokedWhenGone
  BY DEF IndInv, OwnedInv, RevokedWhenGone
<1>. QED
  BY <1>1, Inductive, PTL
=============================================================================
