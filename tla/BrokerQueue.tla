---------------------------- MODULE BrokerQueue ----------------------------
(***************************************************************************)
(* src/jobs/redis.go, src/jobs/kafka.go and src/jobs/cron.go in one        *)
(* process: a Scheduler whose tasks enqueue messages, a queue kept by      *)
(* Redis or Kafka, and workers.  The process may end and start again; the  *)
(* broker stays.                                                           *)
(*                                                                         *)
(* What the broker was given is a log, and a value is known by its place   *)
(* in it: a message that a client sent twice has two places.  Redis        *)
(* removes a value as it hands it out.  Kafka keeps the values and an      *)
(* offset; how the offset is committed is a matter of the consumer's       *)
(* GroupID and CommitInterval (kafkaadapter.go).                           *)
(***************************************************************************)
EXTENDS Naturals, Sequences

CONSTANTS
    Entries,        \* tasks that may be added to the scheduler
    Schedule,       \* Schedule[e]: the duration after "@every", <<>> if it is none
    Workers,        \* goroutines in RunWorker
    Brokers,        \* subset of {"redis", "kafka"}
    MaxRuns,        \* bound: ticks of one entry that a task run follows
    MaxLog,         \* bound: values the broker has room for
    MaxFaults,      \* bound: failed or unanswered broker calls, crashes, foreign values
    Garbage         \* a value that does not decode to a Message

ASSUME BoundsAssumption == MaxRuns \in Nat /\ MaxLog \in Nat /\ MaxFaults \in Nat

\* Each run of a task enqueues a message of its own.
Messages == Entries \X (1..MaxRuns)

ASSUME GarbageAssumption == Garbage \notin Messages

VARIABLES
    broker,         \* "redis" or "kafka"
    commits,        \* when offsets are committed: "pop" (Redis), "read", "later" or "never"
    client,         \* the clients the queue was given: "producer", "consumer"
    open,           \* those of them that are not closed
    log,            \* the values the broker was given
    next,           \* the place of the last one that was read
    committed,      \* where reading goes on after a restart
    pc, held,       \* the workers, and the place of the value each has taken, or 0
    ctxDone,        \* their context is done
    entries,        \* s.entries
    startPc,        \* Start: "idle", "running", "returned"
    task,           \* task[e]: the goroutine of entry e
    schedDone,      \* the context of Start is done
    faults,
    \* history
    runs,           \* runs[e]: how often the task ran
    handled,        \* places whose handler has returned nil since they were read
    lives           \* restarts of the process

queueVars == <<open, log, next, committed>>
workerVars == <<pc, held, ctxDone, handled>>
schedVars == <<entries, startPc, task, schedDone, runs>>
vars == <<broker, commits, client, queueVars, workerVars, schedVars, faults, lives>>

Fault == faults < MaxFaults /\ faults' = faults + 1

\* RunWorker returns at once without a client to read from.
FirstPc == [w \in Workers |-> IF "consumer" \in client THEN "loop" ELSE "stopped"]

\* A consumer with a GroupID commits as it reads, or later if it has a
\* CommitInterval; without one, which is the default, it never does.
Init ==
    /\ broker \in Brokers
    /\ commits \in IF broker = "redis" THEN {"pop"} ELSE {"read", "later", "never"}
    /\ client \in IF broker = "redis" THEN {{}, {"producer", "consumer"}}
                  ELSE SUBSET {"producer", "consumer"}
    /\ open = client
    /\ log = <<>> /\ next = 0 /\ committed = 0
    /\ pc = FirstPc /\ held = [w \in Workers |-> 0] /\ ctxDone = FALSE
    /\ entries = {} /\ startPc = "idle" /\ schedDone = FALSE
    /\ task = [e \in Entries |-> "none"]
    /\ faults = 0
    /\ runs = [e \in Entries |-> 0]
    /\ handled = {} /\ lives = 0

----------------------------------------------------------------------------
(* Scheduler                                                                *)

parseSpec(spec) == spec # <<>> /\ spec[1] > 0

Add(e) ==
    /\ e \notin entries
    /\ parseSpec(Schedule[e])
    /\ entries' = entries \cup {e}
    /\ UNCHANGED <<broker, commits, client, queueVars, workerVars, startPc, task, schedDone, runs, faults, lives>>

\* One goroutine for each entry there is now; a later Add is not seen.
Start ==
    /\ startPc = "idle"
    /\ startPc' = "running"
    /\ task' = [e \in Entries |-> IF e \in entries THEN "select" ELSE "none"]
    /\ UNCHANGED <<broker, commits, client, queueVars, workerVars, entries, schedDone, runs, faults, lives>>

\* select: a tick, whenever the ticker has one, even if the context is done as well.
TaskRun(e) ==
    /\ task[e] = "select"
    /\ runs[e] < MaxRuns
    /\ task' = [task EXCEPT ![e] = "run"]
    /\ runs' = [runs EXCEPT ![e] = @ + 1]
    /\ UNCHANGED <<broker, commits, client, queueVars, workerVars, entries, startPc, schedDone, faults, lives>>

TaskStop(e) ==
    /\ task[e] = "select"
    /\ schedDone
    /\ task' = [task EXCEPT ![e] = "stopped"]
    /\ UNCHANGED <<broker, commits, client, queueVars, workerVars, entries, startPc, schedDone, runs, faults, lives>>

\* <-ctx.Done(), then wg.Wait().
StartReturns ==
    /\ startPc = "running"
    /\ schedDone
    /\ \A e \in Entries : task[e] \in {"none", "stopped"}
    /\ startPc' = "returned"
    /\ UNCHANGED <<broker, commits, client, queueVars, workerVars, entries, task, schedDone, runs, faults, lives>>

\* A context that is done before Start is called is one that ends at once.
CancelScheduler ==
    /\ startPc = "running"
    /\ ~schedDone
    /\ schedDone' = TRUE
    /\ UNCHANGED <<broker, commits, client, queueVars, workerVars, entries, startPc, task, runs, faults, lives>>

----------------------------------------------------------------------------
(* Enqueue, called by a task, whose error the scheduler discards.           *)

Message(e) == <<e, runs[e]>>

TaskReturns(e) == task' = [task EXCEPT ![e] = "select"]

Give(value) == Len(log) < MaxLog /\ log' = Append(log, value)

\* LPush or Publish puts the message into the broker.
Enqueue(e) ==
    /\ task[e] = "run"
    /\ "producer" \in open
    /\ Give(Message(e))
    /\ TaskReturns(e)
    /\ UNCHANGED <<broker, commits, client, open, next, committed, workerVars,
                   entries, startPc, schedDone, runs, faults, lives>>

\* It does, and the answer is lost: the client sends the message again, which makes
\* a second value of it, or gives up with an error.
EnqueueUnanswered(e) ==
    /\ task[e] = "run"
    /\ "producer" \in open
    /\ Fault
    /\ Give(Message(e))
    /\ TaskReturns(e) \/ UNCHANGED task
    /\ UNCHANGED <<broker, commits, client, open, next, committed, workerVars,
                   entries, startPc, schedDone, runs, lives>>

\* No client, a closed one, a context that is done, a broker without room, or one that
\* does not answer.
EnqueueFails(e) ==
    /\ task[e] = "run"
    /\ \/ ("producer" \notin open \/ schedDone \/ Len(log) = MaxLog) /\ UNCHANGED faults
       \/ Fault
    /\ TaskReturns(e)
    /\ UNCHANGED <<broker, commits, client, queueVars, workerVars,
                   entries, startPc, schedDone, runs, lives>>

----------------------------------------------------------------------------
(* RunWorker                                                                *)

Goto(w, where) == pc' = [pc EXCEPT ![w] = where]

\* The select with a default at the head of the loop.
LoopHead(w) ==
    /\ pc[w] = "loop"
    /\ Goto(w, IF ctxDone THEN "stopped" ELSE "pop")
    /\ UNCHANGED <<broker, commits, client, queueVars, held, ctxDone, handled, schedVars, faults, lives>>

Available == "consumer" \in open /\ next < Len(log)

Drop(w) == held' = [held EXCEPT ![w] = 0]

\* A value that does not decode is dropped; a message goes to the handler.
Decode(w, i) ==
    IF log[i] = Garbage THEN Drop(w) /\ Goto(w, "loop")
    ELSE held' = [held EXCEPT ![w] = i] /\ Goto(w, "handle")

\* Fault: the value is read and stays in the broker.
PopPeeks(w) ==
    /\ pc[w] = "pop"
    /\ Available
    /\ Decode(w, next + 1)
    /\ UNCHANGED <<broker, commits, client, queueVars, ctxDone, handled, schedVars, faults, lives>>

\* BRPop removes the oldest value; ReadMessage takes the next one and, in a
\* group, goes on to its offset.
Pop(w) ==
    /\ pc[w] = "pop"
    /\ Available
    /\ next' = next + 1
    /\ committed' = IF commits = "pop" THEN next + 1 ELSE committed
    /\ IF commits \in {"read", "later"}
       THEN held' = [held EXCEPT ![w] = next + 1] /\ Goto(w, "commit")
       ELSE Decode(w, next + 1)
    /\ UNCHANGED <<broker, commits, client, open, log, ctxDone, handled, schedVars, faults, lives>>

\* Fault: a worker that meets an error returns.
AfterErrorReturns(w) == Goto(w, "stopped")

\* What the loop does after an error: Redis waits, Kafka polls again at once.
AfterError(w) == Goto(w, IF broker = "redis" THEN "backoff" ELSE "loop")

\* ReadMessage commits the offset of its value; with a CommitInterval the reader
\* does so some time later, if the process lives that long.  Workers share the reader
\* and may commit in another order than they have read in.
Commit(w) ==
    /\ pc[w] = "commit"
    /\ committed' \in IF commits = "read" THEN {held[w]} ELSE {committed, held[w]}
    /\ Decode(w, held[w])
    /\ UNCHANGED <<broker, commits, client, open, log, next, ctxDone, handled, schedVars, faults, lives>>

\* The commit fails, or takes effect and its answer is lost: ReadMessage returns an
\* error and not the value.
CommitFails(w) ==
    /\ pc[w] = "commit"
    /\ \/ ("consumer" \notin open \/ ctxDone) /\ UNCHANGED faults
       \/ Fault
    /\ committed' \in IF commits = "read" THEN {committed, held[w]} ELSE {committed}
    /\ Drop(w)
    /\ AfterError(w)
    /\ UNCHANGED <<broker, commits, client, open, log, next, ctxDone, handled, schedVars, lives>>

\* A timeout on an empty queue, a closed client, a context that is done, a fault.
PopFails(w) ==
    /\ pc[w] = "pop"
    /\ \/ (~Available \/ ctxDone) /\ UNCHANGED faults
       \/ Fault
    /\ AfterError(w)
    /\ UNCHANGED <<broker, commits, client, queueVars, held, ctxDone, handled, schedVars, lives>>

\* BRPOP has removed the value and its answer is lost; the client tries again, or
\* gives up with an error.
PopUnanswered(w) ==
    /\ pc[w] = "pop"
    /\ broker = "redis"
    /\ Available
    /\ Fault
    /\ next' = next + 1
    /\ committed' = next + 1
    /\ AfterError(w) \/ UNCHANGED pc
    /\ UNCHANGED <<broker, commits, client, open, log, held, ctxDone, handled, schedVars, lives>>

\* Fault: the wait after an error does not look at the context, and starts over.
BackoffAgain(w) ==
    /\ pc[w] = "backoff"
    /\ Goto(w, IF next = Len(log) THEN "backoff" ELSE "loop")
    /\ UNCHANGED <<broker, commits, client, queueVars, held, ctxDone, handled, schedVars, faults, lives>>

\* The select after an error: time.After, or the context.
Backoff(w) ==
    /\ pc[w] = "backoff"
    /\ \/ Goto(w, "loop")
       \/ ctxDone /\ Goto(w, "stopped")
    /\ UNCHANGED <<broker, commits, client, queueVars, held, ctxDone, handled, schedVars, faults, lives>>

\* RunWorker discards the handler's error, and with it the message.
HandlerReturns(w) ==
    /\ pc[w] = "handle"
    /\ handled' = handled \cup {held[w]} \/ UNCHANGED handled
    /\ Drop(w)
    /\ Goto(w, "loop")
    /\ UNCHANGED <<broker, commits, client, queueVars, ctxDone, schedVars, faults, lives>>

Cancel ==
    /\ ~ctxDone
    /\ ctxDone' = TRUE
    /\ UNCHANGED <<broker, commits, client, queueVars, pc, held, handled, schedVars, faults, lives>>

\* RedisQueue.Close closes its one client, KafkaQueue.Close the producer and
\* then the consumer.  Workers are not told.
Close ==
    /\ open # {}
    /\ open' = IF broker = "kafka" /\ "producer" \in open THEN open \ {"producer"} ELSE {}
    /\ UNCHANGED <<broker, commits, client, log, next, committed, workerVars, schedVars, faults, lives>>

----------------------------------------------------------------------------
(* The environment                                                          *)

\* Another program puts a value under the same key or topic.
Foreign ==
    /\ Fault
    /\ Give(Garbage)
    /\ UNCHANGED <<broker, commits, client, open, next, committed, workerVars, schedVars, lives>>

\* The process ends and starts again: what workers held is gone, and reading goes
\* on behind the offset that was committed, whatever was handled since.
Crash ==
    /\ Fault
    /\ next' = committed
    /\ handled' = {i \in handled : i <= committed}
    /\ pc' = FirstPc /\ held' = [w \in Workers |-> 0] /\ ctxDone' = FALSE
    /\ open' = client
    /\ entries' = {} /\ startPc' = "idle" /\ schedDone' = FALSE
    /\ task' = [e \in Entries |-> "none"]
    /\ lives' = lives + 1
    /\ UNCHANGED <<broker, commits, client, log, committed, runs>>

TaskStep(e) == TaskStop(e) \/ Enqueue(e) \/ EnqueueUnanswered(e) \/ EnqueueFails(e)

WorkerStep(w) == \/ LoopHead(w) \/ Pop(w) \/ Commit(w) \/ CommitFails(w)
                 \/ PopFails(w) \/ PopUnanswered(w) \/ Backoff(w) \/ HandlerReturns(w)

Next ==
    \/ \E e \in Entries : Add(e) \/ TaskRun(e) \/ TaskStep(e)
    \/ Start \/ StartReturns \/ CancelScheduler
    \/ \E w \in Workers : WorkerStep(w)
    \/ Cancel \/ Close \/ Foreign \/ Crash

Spec == Init /\ [][Next]_vars

\* Goroutines that can run do run, and every call of a client returns.  A ticker need
\* not tick, and a select with a tick and ctx.Done() takes the tick MaxRuns times at most.
FairSpec ==
    /\ Spec
    /\ \A e \in Entries : WF_vars(TaskStep(e))
    /\ WF_vars(StartReturns)
    /\ \A w \in Workers : WF_vars(WorkerStep(w))

----------------------------------------------------------------------------
(* Properties.                                                              *)

Places == 1..MaxLog

Runs(w, i) == held[w] = i /\ pc[w] = "handle"

\* Where the value at place i is in its life; "twice" is no phase of the contract.
PhaseOf(i) ==
    IF i > Len(log) THEN "new"
    ELSE IF \E w \in Workers : Runs(w, i)
    THEN IF i \in handled \/ \E v, w \in Workers : v # w /\ Runs(v, i) /\ Runs(w, i)
         THEN "twice" ELSE "running"
    ELSE IF i \in handled THEN "done"
    ELSE IF i > next \/ \E w \in Workers : held[w] = i THEN "ready"
    ELSE "dead"

\* A value in the broker goes through the hands of a worker in the end, while the
\* queue has an open consumer and workers whose context is not done.
StoredEventuallyTaken ==
    \A i \in Places : PhaseOf(i) = "ready" ~> \/ PhaseOf(i) \in {"done", "dead"}
                                              \/ "consumer" \notin open
                                              \/ ctxDone

\* RunWorker returns after its context ends, wherever it was (a pop, the wait
\* after an error, a handler, a closed client), and so does Start.
ReturnsAfterCancel ==
    /\ ctxDone ~> ~ctxDone \/ \A w \in Workers : pc[w] = "stopped"
    /\ (schedDone /\ startPc = "running") ~> startPc # "running"

Lifecycle == INSTANCE JobLifecycle WITH
                Jobs <- Places,
                phase <- [i \in Places |-> PhaseOf(i)],
                kept <- {i \in Places : i <= committed},
                lives <- lives

\* Both queues keep the contract of a queue for every value they are given, with
\* loss where SQLBackend retries: it runs at one worker, and when its handler has
\* returned, with or without an error, or it was lost, it does not run again in
\* this life of the process, nor in a later one if its offset was committed.
ImplementsLifecycle == Lifecycle!Spec

=============================================================================
