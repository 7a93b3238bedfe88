-------------------------- MODULE SqsLambdaPoller --------------------------
(***************************************************************************)
(* The SQS to Lambda event source mappings: one background task that polls  *)
(* the mapped queues, composed with the queues and their other consumers    *)
(* (SqsQueue).                                                              *)
(*                                                                          *)
(* The poller does not receive as a consumer does.  It hides messages in    *)
(* place, under the state's write lock, drops the lock, invokes the         *)
(* function, and takes the lock again to remove or to release them.  The    *)
(* queue goes on between any two of these steps.  Mappings are handled one  *)
(* after the other; the time is read once, when a poll begins.              *)
(*                                                                          *)
(* Bodies are left out, so which messages a filter matches, and which ones  *)
(* the function reports as failed, is a choice.                             *)
(***************************************************************************)
EXTENDS SqsQueue

CONSTANTS
    Mappings,           \* enabled event source mappings of SQS queues
    NoMapping,          \* no mapping is being processed
    SourceOf,           \* the queue of each mapping
    BatchSize,          \* BatchSize of each mapping, capped at 10
    Window,             \* its MaximumBatchingWindowInSeconds, 0 for none
    VisibilityTimeout,  \* VisibilityTimeout of the queues
    Filtering,          \* the mappings with FilterCriteria
    Reporting,          \* the mappings with ReportBatchItemFailures
    MaxFailures         \* bound: invocations with a failed message

ASSUME PollerAssumption ==
    /\ NoMapping \notin Mappings
    /\ SourceOf \in [Mappings -> Queues]
    /\ BatchSize \in [Mappings -> 1..10] /\ Window \in [Mappings -> Nat]
    /\ VisibilityTimeout \in Nat /\ MaxFailures \in Nat
    /\ Filtering \subseteq Mappings /\ Reporting \subseteq Mappings

VARIABLES
    step,      \* what the poller does next
    todo,      \* the mappings this poll has still to process
    mapping,   \* the mapping whose batch it has
    polled_at, \* `now`: when this poll began
    matched,   \* the messages for the function
    failed,    \* those of them it did not process
    window_started_at,  \* BatchingState: when a partial batch was first seen
    failures,
    observed   \* history: when a poll first held each message back

poller == <<step, todo, mapping, polled_at, matched, failed, window_started_at,
            failures, observed>>
allVars == <<vars, poller>>

PollerInit ==
    /\ Init
    /\ step = "idle" /\ todo = {} /\ mapping = NoMapping /\ polled_at = 0
    /\ matched = {} /\ failed = {}
    /\ window_started_at = [e \in Mappings |-> None]
    /\ failures = 0
    /\ observed = [i \in MsgIds |-> None]

-----------------------------------------------------------------------------
\* A tick of the poller's interval: the mappings and the time are read.
StartPoll ==
    /\ step = "idle" /\ Mappings # {}
    /\ step' = "take"
    /\ todo' = Mappings
    /\ polled_at' = now
    /\ UNCHANGED <<vars, mapping, matched, failed, window_started_at, failures, observed>>

\* Mutant: the mapping is not let go.
FinishKeepsMapping(e) ==
    /\ todo' = todo \ {e}
    /\ step' = IF todo \subseteq {e} THEN "idle" ELSE "take"
    /\ mapping' = e /\ matched' = {} /\ failed' = {}

\* process_mapping returns; the poll ends with the last mapping.
Finish(e) ==
    /\ todo' = todo \ {e}
    /\ step' = IF todo \subseteq {e} THEN "idle" ELSE "take"
    /\ mapping' = NoMapping /\ matched' = {} /\ failed' = {}

\* The first BatchSize messages that were visible when the poll began.
Batch(e) ==
    LET s == queues[SourceOf[e]].messages
        visible == {i \in DOMAIN s : s[i].visible_at = None \/ s[i].visible_at <= polled_at}
    IN  {i \in visible : Cardinality({j \in visible : j < i}) < BatchSize[e]}

BatchIds(e) == {queues[SourceOf[e]].messages[i].id : i \in Batch(e)}

\* Mutant: they are not hidden.
HiddenNot(e) == queues[SourceOf[e]]

\* The queue with its batch hidden for the visibility timeout.
Hidden(e) ==
    [queues[SourceOf[e]] EXCEPT !.messages =
        [i \in DOMAIN @ |-> IF i \in Batch(e)
                            THEN VisibleAt(@[i], polled_at + VisibilityTimeout)
                            ELSE @[i]]]

\* The queue does not exist, or has nothing visible.  Only then is the window
\* of the mapping forgotten.
FindNothing(e) ==
    /\ step = "take" /\ e \in todo
    /\ SourceOf[e] \in live => Batch(e) = {}
    /\ window_started_at' = [window_started_at EXCEPT ![e] =
                                IF SourceOf[e] \in live THEN None ELSE @]
    /\ Finish(e)
    /\ UNCHANGED <<vars, polled_at, failures, observed>>

\* When the window of a batch taken now began.
WindowStart(e) == IF window_started_at[e] = None THEN polled_at ELSE window_started_at[e]

\* A partial batch whose window is still open.
Held(e) ==
    /\ Window[e] > 0
    /\ Cardinality(Batch(e)) < BatchSize[e]
    /\ polled_at - WindowStart(e) < Window[e]

\* It is left alone; its messages stay hidden.
HoldBatch(e) ==
    LET q == SourceOf[e]
    IN  /\ step = "take" /\ e \in todo
        /\ q \in live /\ Batch(e) # {}
        /\ Held(e)
        /\ queues' = [queues EXCEPT ![q] = Hidden(e)]
        /\ window_started_at' = [window_started_at EXCEPT ![e] = WindowStart(e)]
        /\ observed' = [i \in MsgIds |-> IF i \in BatchIds(e) /\ observed[i] = None
                                         THEN polled_at ELSE observed[i]]
        /\ Finish(e)
        /\ UNCHANGED <<now, live, sent, minted, gone, accepted, polled_at, failures>>

\* A batch is taken for dispatch.
TakeBatch(e) ==
    LET q == SourceOf[e]
    IN  /\ step = "take" /\ e \in todo
        /\ q \in live /\ Batch(e) # {}
        /\ ~Held(e)
        /\ queues' = [queues EXCEPT ![q] = Hidden(e)]
        /\ window_started_at' = [window_started_at EXCEPT ![e] = None]
        /\ step' = IF e \in Filtering THEN "filter" ELSE "invoke"
        /\ mapping' = e
        /\ matched' = BatchIds(e)
        /\ UNCHANGED <<now, live, sent, minted, gone, accepted, todo, polled_at, failed,
                       failures, observed>>

\* Mutant: the removal is lost.
RemovedNothing(q, ids) == queues[q]

\* `queue.messages.retain(...)` if the queue still exists: what is in flight by
\* now stays.
Removed(q, ids) ==
    IF q \in live THEN [queues[q] EXCEPT !.messages = Without(@, ids)] ELSE queues[q]

\* The messages the filter does not match are acknowledged.
DropFiltered(dropped) ==
    LET q == SourceOf[mapping]
    IN  /\ step = "filter"
        /\ dropped \subseteq matched
        /\ queues' = [queues EXCEPT ![q] = Removed(q, dropped)]
        /\ gone' = gone \cup (dropped \cap Ids(queues[q].messages))
        /\ \/ /\ dropped # matched
              /\ step' = "invoke" /\ matched' = matched \ dropped
              /\ UNCHANGED <<todo, mapping, failed>>
           \/ /\ dropped = matched
              /\ Finish(mapping)
        /\ UNCHANGED <<now, live, sent, minted, accepted, polled_at, window_started_at,
                       failures, observed>>

\* invoke_lambda returns: without an error, with the reported failures of
\* split_batch_failures, or with an error, when the whole batch has failed.
Invoke(bad) ==
    /\ step = "invoke"
    /\ bad \subseteq matched
    /\ bad \in {{}, matched} \/ mapping \in Reporting
    /\ bad # {} => failures < MaxFailures
    /\ failures' = IF bad = {} THEN failures ELSE failures + 1
    /\ failed' = bad
    /\ step' = "settle"
    /\ UNCHANGED <<vars, todo, mapping, polled_at, matched, window_started_at, observed>>

\* A message the function did not process is counted, and visible at once.
Released(m) == [m EXCEPT !.receive_count = @ + 1, !.visible_at = None]
Release(s, ids) == [i \in DOMAIN s |-> IF s[i].id \in ids THEN Released(s[i]) ELSE s[i]]

\* Mutants: failed messages are removed too; they are put back at the end, or
\* kept hidden with nobody to release them.
SettledDropsFailed(q) == Removed(q, matched)

SettledToBack(q) ==
    LET Q == Removed(q, matched \ failed)
        back == Keep(queues[q].messages,
                     {i \in DOMAIN queues[q].messages : queues[q].messages[i].id \in failed})
    IN  IF q \in live
        THEN [Q EXCEPT !.messages = Without(@, failed) \o Release(back, failed)]
        ELSE Q

SettledHidden(q) ==
    LET Q == Removed(q, matched \ failed)
        Bump(m) == IF m.id \in failed
                   THEN [m EXCEPT !.receive_count = @ + 1, !.visible_at = MaxTime + 1] ELSE m
    IN  IF q \in live
        THEN [Q EXCEPT !.messages = [i \in DOMAIN @ |-> Bump(@[i])]]
        ELSE Q

\* What is acknowledged is removed; what failed is released.
Settled(q) ==
    LET Q == Removed(q, matched \ failed)
    IN  IF q \in live THEN [Q EXCEPT !.messages = Release(@, failed)] ELSE Q

Settle ==
    LET q == SourceOf[mapping]
    IN  /\ step = "settle"
        /\ queues' = [queues EXCEPT ![q] = Settled(q)]
        /\ gone' = gone \cup ((matched \ failed) \cap Ids(queues[q].messages))
        /\ Finish(mapping)
        /\ UNCHANGED <<now, live, sent, minted, accepted, polled_at, window_started_at,
                       failures, observed>>

Poller ==
    \/ StartPoll
    \/ \E e \in Mappings : FindNothing(e) \/ HoldBatch(e) \/ TakeBatch(e)
    \/ \E ids \in SUBSET MsgIds : DropFiltered(ids) \/ Invoke(ids)
    \/ Settle

PollerNext == Poller \/ (Next /\ UNCHANGED poller)

PollerSpec == PollerInit /\ [][PollerNext]_allVars

\* The poller is one task of the runtime: its interval keeps ticking, and every
\* invocation returns, with an answer or with an error.
PollerFairSpec == PollerSpec /\ WF_allVars(Poller)

-----------------------------------------------------------------------------
(* Properties. *)

\* The values of the poller's variables and of the queues'.
PollerTypeOK ==
    /\ TypeOK
    /\ step \in {"idle", "take", "filter", "invoke", "settle"}
    /\ todo \subseteq Mappings
    /\ mapping \in Mappings \cup {NoMapping}
    /\ (mapping = NoMapping) <=> (step \in {"idle", "take"})
    /\ polled_at \in 0..now
    /\ matched \subseteq MsgIds /\ failed \subseteq matched
    /\ window_started_at \in [Mappings -> Nat \cup {None}]
    /\ failures \in 0..MaxFailures
    /\ observed \in [MsgIds -> Nat \cup {None}]

\* Within its visibility timeout a message the poller has taken for the function
\* is the function's alone: nobody receives it, whatever else consumers do
\* between the poller's locks, until the function's answer has been applied.
HiddenFromConsumers ==
    (mapping # NoMapping /\ now < polled_at + VisibilityTimeout) =>
        matched \cap Ids(queues[SourceOf[mapping]].inflight) = {}

\* Messages of a FIFO group reach the function in order, also after failures: a
\* message is taken for it only together with every earlier message of its
\* group that is still in the queue (no consumer receives from these queues, and
\* no batch is held back).
FunctionSeesGroupsInOrder ==
    [][\A e \in Mappings :
         (/\ TakeBatch(e) /\ SourceOf[e] \in FifoQueues \ ReceivedQueues
          /\ Window[e] = 0) =>
            LET s == queues[SourceOf[e]].messages
            IN  \A i, j \in DOMAIN s :
                  (/\ s[i].id \in matched' /\ s[j].group = s[i].group /\ s[i].group # NoGroup
                   /\ s[j].seq < s[i].seq)
                      => s[j].id \in matched']_allVars

\* A visible message of a mapped queue is not forgotten: it is taken and
\* processed, or somebody else takes it, however many invocations fail first
\* (finitely many); of a mapping without a batching window.
EveryMessageHandled ==
    \A e \in {f \in Mappings : Window[f] = 0}, i \in MsgIds :
        (\E k \in DOMAIN queues[SourceOf[e]].messages :
            queues[SourceOf[e]].messages[k].id = i /\ IsVisible(queues[SourceOf[e]].messages[k]))
        ~> i \notin Ids(queues[SourceOf[e]].messages)

\* "Once BatchSize is reached or the window expires, the batch is dispatched":
\* a poll does not hold back a message that an earlier one began to hold back a
\* whole window before.
WindowExpires ==
    [][\A e \in Mappings :
         HoldBatch(e) => \A i \in BatchIds(e) :
             observed[i] # None => polled_at < observed[i] + Window[e]]_allVars
=============================================================================
