----------------------------- MODULE SQLBackend -----------------------------
(***************************************************************************)
(* The distributed queue of src/jobs/distributed.go: one SQL table shared  *)
(* by the processes of several nodes.  A node is one SQLBackend value with *)
(* its *sql.DB pool; its workers are the goroutines in RunWorker.  Every   *)
(* statement a worker sends is one atomic step on the table, and between   *)
(* two statements anything may happen: other workers, the clock, a         *)
(* cancelled context, a broken connection, the death of the process.       *)
(***************************************************************************)
EXTENDS Naturals, FiniteSets

CONSTANTS
    Jobs,           \* the messages passed to Enqueue, one row each
    Nodes,          \* SQLBackend instances
    Workers,        \* goroutines running RunWorker
    NodeOf,         \* NodeOf[w]: the instance worker w runs on
    Skew,           \* Skew[n]: how far the wall clock of node n is ahead
    MaxConns,       \* SetMaxOpenConns of every node's pool
    RetryDelay,     \* SQLBackendConfig.RetryDelay
    NoJob,          \* "this worker holds no job"
    MaxTime,        \* bound: the clock goes no further while nothing waits for it
    MaxFailures,    \* bound: a handler fails only while attempts <= MaxFailures
    MaxFaults,      \* bound: failed statements, cancellations and crashes
    MaxClosers      \* bound: callers of Close past its check, per node

ASSUME NodesAssumption == NodeOf \in [Workers -> Nodes] /\ Skew \in [Nodes -> Nat]
ASSUME NoJobAssumption == NoJob \notin Jobs
ASSUME BoundsAssumption ==
    /\ MaxConns \in Nat \ {0}
    /\ RetryDelay \in Nat \ {0}
    /\ {MaxTime, MaxFailures, MaxFaults, MaxClosers} \subseteq Nat

VARIABLES
    tableExists,    \* CREATE TABLE IF NOT EXISTS has taken effect
    status,         \* status column; "absent" when there is no row
    attempts,       \* attempts column
    available,      \* available_at_ms column
    created,        \* created_at_ms column
    once,           \* once[n]: ensureTable's sync.Once has run on node n
    closers,        \* closers[n]: Close calls between their check and close(q.closed)
    closed,         \* closed[n]: the channel q.closed is closed
    ctxDone,        \* ctxDone[w]: the context given to RunWorker is done
    pc,             \* where worker w is in RunWorker
    held,           \* held[w]: the job id worker w has in jobID / id
    asOf,           \* asOf[w]: the time claimNext read for its SELECT, 0 once that is over
    now,            \* real time
    faults,         \* faults so far
    \* history, read by no action of the code
    inserted,       \* jobs whose INSERT took effect
    succeeded,      \* jobs for which a handler returned nil
    runs            \* runs[j]: handler calls made for j

table     == <<tableExists, status, attempts, available, created>>
instance  == <<once, closers, closed>>
worker    == <<ctxDone, pc, held, asOf>>
history   == <<inserted, succeeded, runs>>
vars      == <<table, instance, worker, now, faults, history>>

Statuses  == {"absent", "queued", "processing"}
PCs       == {"poll", "query", "claim", "handle", "ack", "retry", "stopped", "down"}

TypeOK ==
    /\ tableExists \in BOOLEAN
    /\ status    \in [Jobs -> Statuses]
    /\ attempts  \in [Jobs -> Nat]
    /\ available \in [Jobs -> Nat]
    /\ created   \in [Jobs -> Nat]
    /\ once      \in [Nodes -> BOOLEAN]
    /\ closers   \in [Nodes -> Nat]
    /\ closed    \in [Nodes -> BOOLEAN]
    /\ ctxDone   \in [Workers -> BOOLEAN]
    /\ pc        \in [Workers -> PCs]
    /\ held      \in [Workers -> Jobs \cup {NoJob}]
    /\ asOf      \in [Workers -> Nat]
    /\ now       \in Nat
    /\ faults    \in Nat
    /\ inserted  \subseteq Jobs
    /\ succeeded \subseteq Jobs
    /\ runs      \in [Jobs -> Nat]

Init ==
    /\ tableExists = FALSE
    /\ status    = [j \in Jobs |-> "absent"]
    /\ attempts  = [j \in Jobs |-> 0]
    /\ available = [j \in Jobs |-> 0]
    /\ created   = [j \in Jobs |-> 0]
    /\ once      = [n \in Nodes |-> FALSE]
    /\ closers   = [n \in Nodes |-> 0]
    /\ closed    = [n \in Nodes |-> FALSE]
    /\ ctxDone   = [w \in Workers |-> FALSE]
    /\ pc        = [w \in Workers |-> "poll"]
    /\ held      = [w \in Workers |-> NoJob]
    /\ asOf      = [w \in Workers |-> 0]
    /\ now       = 0
    /\ faults    = 0
    /\ inserted  = {}
    /\ succeeded = {}
    /\ runs      = [j \in Jobs |-> 0]

----------------------------------------------------------------------------
(* The environment of a statement.                                          *)

Clock(n) == now + Skew[n]

Down(n) == \E w \in Workers : NodeOf[w] = n /\ pc[w] = "down"

\* claimNext keeps the rows of its SELECT open until it returns, and with them
\* their connection, while the UPDATE asks the pool for another one.
Conns(n) == Cardinality({w \in Workers : NodeOf[w] = n /\ pc[w] = "claim"})

PoolFree(n) == Conns(n) < MaxConns

(* A statement takes effect and returns ("done"), fails without effect      *)
(* ("failed"), or takes effect and returns an error all the same, because    *)
(* the answer was lost or the context ended meanwhile ("lost").  A done      *)
(* context makes statements fail at no further cost; any other failure is    *)
(* one of the MaxFaults.                                                    *)
Outcomes == {"done", "failed", "lost"}

Applied(o) == o \in {"done", "lost"}

Call(n, cancelled, o) ==
    /\ o # "failed" => PoolFree(n)
    /\ o = "done" => ~cancelled
    /\ IF cancelled \/ o = "done"
       THEN faults' = faults
       ELSE faults < MaxFaults /\ faults' = faults + 1

\* ensureTable: only the first caller of an instance sends CREATE TABLE, and
\* only that caller sees its error.  Create(n, o) is that first call; a later
\* call does nothing and returns nil.
Create(n, cancelled, o) ==
    /\ ~once[n]
    /\ Call(n, cancelled, o)
    /\ once' = [once EXCEPT ![n] = TRUE]
    /\ tableExists' = (tableExists \/ Applied(o))

----------------------------------------------------------------------------
(* Enqueue.  The INSERT fails when the table is missing.                    *)

Insert(n, j, o) ==
    /\ tableExists
    /\ Call(n, FALSE, o)
    /\ Applied(o)
    /\ status'    = [status EXCEPT ![j] = "queued"]
    /\ attempts'  = [attempts EXCEPT ![j] = 0]
    /\ available' = [available EXCEPT ![j] = Clock(n)]
    /\ created'   = [created EXCEPT ![j] = Clock(n)]
    /\ inserted'  = inserted \cup {j}

\* The call that sends CREATE TABLE; when it succeeds the same Enqueue goes on
\* to Insert, which is then just the next step.
EnqueueCreate(n, o) ==
    /\ ~Down(n)
    /\ Create(n, FALSE, o)
    /\ UNCHANGED <<status, attempts, available, created, closers, closed,
                   worker, now, history>>

Enqueue(n, j, o) ==
    /\ ~Down(n)
    /\ once[n]
    /\ j \notin inserted
    /\ Insert(n, j, o)
    /\ UNCHANGED <<tableExists, instance, worker, now, succeeded, runs>>

----------------------------------------------------------------------------
(* RunWorker.  At "poll" the worker sits in its select; the ticker case     *)
(* may be taken even when another case is ready too, because Go chooses     *)
(* among the ready cases at random.                                         *)

\* The ticker fires and claimNext is the first to call ensureTable: on an
\* error it returns, otherwise it reads the clock.
PollCreate(w, o) ==
    /\ pc[w] = "poll"
    /\ Create(NodeOf[w], ctxDone[w], o)
    /\ IF o = "done"
       THEN /\ pc' = [pc EXCEPT ![w] = "query"]
            /\ asOf' = [asOf EXCEPT ![w] = Clock(NodeOf[w])]
       ELSE UNCHANGED <<pc, asOf>>
    /\ UNCHANGED <<status, attempts, available, created, closers, closed,
                   ctxDone, held, now, history>>

\* Fault: the clock is read once, before the loop.
PollFrozenClock(w) ==
    /\ pc[w] = "poll"
    /\ once[NodeOf[w]]
    /\ pc' = [pc EXCEPT ![w] = "query"]
    /\ asOf' = [asOf EXCEPT ![w] = Skew[NodeOf[w]]]
    /\ UNCHANGED <<table, instance, ctxDone, held, now, faults, history>>

Poll(w) ==
    /\ pc[w] = "poll"
    /\ once[NodeOf[w]]
    /\ pc' = [pc EXCEPT ![w] = "query"]
    /\ asOf' = [asOf EXCEPT ![w] = Clock(NodeOf[w])]
    /\ UNCHANGED <<table, instance, ctxDone, held, now, faults, history>>

\* WHERE status='queued' AND available_at_ms <= now
Due(t) == {j \in Jobs : status[j] = "queued" /\ available[j] <= t}

\* ORDER BY created_at_ms ASC LIMIT 1, ties in any order
Oldest(S) == {j \in S : \A k \in S : created[j] <= created[k]}

\* claimNext's SELECT finds a row: the worker goes on with its id.
SelectRow(w, j) ==
    /\ pc[w] = "query"
    /\ tableExists
    /\ j \in Oldest(Due(asOf[w]))
    /\ Call(NodeOf[w], ctxDone[w], "done")
    /\ pc' = [pc EXCEPT ![w] = "claim"]
    /\ held' = [held EXCEPT ![w] = j]
    /\ asOf' = [asOf EXCEPT ![w] = 0]
    /\ UNCHANGED <<table, instance, ctxDone, now, history>>

\* The SELECT fails or finds nothing: back to the select.
SelectNothing(w) ==
    /\ pc[w] = "query"
    /\ \/ /\ tableExists
          /\ Due(asOf[w]) = {}
          /\ Call(NodeOf[w], ctxDone[w], "done")
       \/ ~tableExists /\ UNCHANGED faults
       \/ Call(NodeOf[w], ctxDone[w], "failed")
    /\ pc' = [pc EXCEPT ![w] = "poll"]
    /\ asOf' = [asOf EXCEPT ![w] = 0]
    /\ UNCHANGED <<table, instance, ctxDone, held, now, history>>

\* Fault: UPDATE ... WHERE id alone.
ClaimableById(j) == TRUE

\* The UPDATE that claims the row still has to find it queued.
Claimable(j) == status[j] = "queued"

ClaimRow(j) ==
    /\ status' = [status EXCEPT ![j] = "processing"]
    /\ attempts' = [attempts EXCEPT ![j] = @ + 1]

Claim(w) ==
    /\ pc[w] = "claim"
    /\ Claimable(held[w])
    /\ Call(NodeOf[w], ctxDone[w], "done")
    /\ ClaimRow(held[w])
    /\ pc' = [pc EXCEPT ![w] = "handle"]
    /\ runs' = [runs EXCEPT ![held[w]] = @ + 1]
    /\ UNCHANGED <<tableExists, available, created, instance, ctxDone, held,
                   asOf, now, inserted, succeeded>>

\* Affected rows # 1, or an error: claimNext returns without a job.  An error
\* after the UPDATE took effect leaves the row claimed.
ClaimNothing(w, o) ==
    /\ pc[w] = "claim"
    /\ Call(NodeOf[w], ctxDone[w], o)
    /\ o = "done" => ~Claimable(held[w])
    /\ IF Applied(o) /\ Claimable(held[w])
       THEN ClaimRow(held[w])
       ELSE UNCHANGED <<status, attempts>>
    /\ pc' = [pc EXCEPT ![w] = "poll"]
    /\ held' = [held EXCEPT ![w] = NoJob]
    /\ UNCHANGED <<tableExists, available, created, instance, ctxDone, asOf,
                   now, history>>

HandlerOk(w) ==
    /\ pc[w] = "handle"
    /\ pc' = [pc EXCEPT ![w] = "ack"]
    /\ succeeded' = succeeded \cup {held[w]}
    /\ UNCHANGED <<table, instance, ctxDone, held, asOf, now, faults, inserted, runs>>

\* Fault: no continue after the error, so ack follows.
HandlerErrAcks(w) ==
    /\ pc[w] = "handle"
    /\ attempts[held[w]] <= MaxFailures
    /\ pc' = [pc EXCEPT ![w] = "ack"]
    /\ UNCHANGED <<table, instance, ctxDone, held, asOf, now, faults, history>>

\* Fault: the error is dropped without a retry.
HandlerErrDropped(w) ==
    /\ pc[w] = "handle"
    /\ attempts[held[w]] <= MaxFailures
    /\ pc' = [pc EXCEPT ![w] = "poll"]
    /\ held' = [held EXCEPT ![w] = NoJob]
    /\ UNCHANGED <<table, instance, ctxDone, asOf, now, faults, history>>

HandlerErr(w) ==
    /\ pc[w] = "handle"
    /\ attempts[held[w]] <= MaxFailures
    /\ pc' = [pc EXCEPT ![w] = "retry"]
    /\ UNCHANGED <<table, instance, ctxDone, held, asOf, now, faults, history>>

\* DELETE by id.  RunWorker ignores the error.
Ack(w, o) ==
    /\ pc[w] = "ack"
    /\ Call(NodeOf[w], ctxDone[w], o)
    /\ status' = IF Applied(o) THEN [status EXCEPT ![held[w]] = "absent"] ELSE status
    /\ pc' = [pc EXCEPT ![w] = "poll"]
    /\ held' = [held EXCEPT ![w] = NoJob]
    /\ UNCHANGED <<tableExists, attempts, available, created, instance, ctxDone,
                   asOf, now, history>>

\* UPDATE by id, with no test of the status.  RunWorker ignores the error.
\* An UPDATE of a row that is gone changes nothing.
Retry(w, o) ==
    /\ pc[w] = "retry"
    /\ Call(NodeOf[w], ctxDone[w], o)
    /\ IF Applied(o) /\ status[held[w]] # "absent"
       THEN /\ status' = [status EXCEPT ![held[w]] = "queued"]
            /\ available' = [available EXCEPT ![held[w]] = Clock(NodeOf[w]) + RetryDelay]
       ELSE UNCHANGED <<status, available>>
    /\ pc' = [pc EXCEPT ![w] = "poll"]
    /\ held' = [held EXCEPT ![w] = NoJob]
    /\ UNCHANGED <<tableExists, attempts, created, instance, ctxDone, asOf,
                   now, history>>

\* Fault: RunWorker does not listen to q.closed.
StopOnCtxOnly(w) ==
    /\ pc[w] = "poll"
    /\ ctxDone[w]
    /\ pc' = [pc EXCEPT ![w] = "stopped"]
    /\ UNCHANGED <<table, instance, ctxDone, held, asOf, now, faults, history>>

\* The select takes ctx.Done() or q.closed.
Stop(w) ==
    /\ pc[w] = "poll"
    /\ ctxDone[w] \/ closed[NodeOf[w]]
    /\ pc' = [pc EXCEPT ![w] = "stopped"]
    /\ UNCHANGED <<table, instance, ctxDone, held, asOf, now, faults, history>>

----------------------------------------------------------------------------
(* Close, cancellation, crashes, time.                                      *)

\* Close tests the channel and closes it in two steps, under no lock.
CloseCheck(n) ==
    /\ ~Down(n)
    /\ ~closed[n]
    /\ closers[n] < MaxClosers
    /\ closers' = [closers EXCEPT ![n] = @ + 1]
    /\ UNCHANGED <<table, once, closed, worker, now, faults, history>>

CloseDo(n) ==
    /\ closers[n] > 0
    /\ ~closed[n]
    /\ closed' = [closed EXCEPT ![n] = TRUE]
    /\ closers' = [closers EXCEPT ![n] = @ - 1]
    /\ UNCHANGED <<table, once, worker, now, faults, history>>

\* A process that ends takes its workers and its SQLBackend with it, and
\* leaves the table as it is.
Kill(n) ==
    /\ pc' = [w \in Workers |-> IF NodeOf[w] = n THEN "down" ELSE pc[w]]
    /\ held' = [w \in Workers |-> IF NodeOf[w] = n THEN NoJob ELSE held[w]]
    /\ asOf' = [w \in Workers |-> IF NodeOf[w] = n THEN 0 ELSE asOf[w]]
    /\ closers' = [closers EXCEPT ![n] = 0]
    /\ faults' = faults + 1
    /\ UNCHANGED <<table, once, closed, ctxDone, now, history>>

\* close of a closed channel panics.
ClosePanic(n) ==
    /\ closers[n] > 0
    /\ closed[n]
    /\ Kill(n)

Crash(n) ==
    /\ faults < MaxFaults
    /\ \E w \in Workers : NodeOf[w] = n
    /\ ~Down(n)
    /\ Kill(n)

Restart(n) ==
    /\ Down(n)
    /\ faults <= MaxFaults
    /\ once' = [once EXCEPT ![n] = FALSE]
    /\ closed' = [closed EXCEPT ![n] = FALSE]
    /\ ctxDone' = [w \in Workers |-> IF NodeOf[w] = n THEN FALSE ELSE ctxDone[w]]
    /\ pc' = [w \in Workers |-> IF NodeOf[w] = n THEN "poll" ELSE pc[w]]
    /\ UNCHANGED <<table, closers, held, asOf, now, faults, history>>

Cancel(w) ==
    /\ faults < MaxFaults
    /\ ~ctxDone[w]
    /\ pc[w] \notin {"stopped", "down"}
    /\ ctxDone' = [ctxDone EXCEPT ![w] = TRUE]
    /\ faults' = faults + 1
    /\ UNCHANGED <<table, instance, pc, held, asOf, now, history>>

\* Time goes on to MaxTime, and beyond for as long as some row waits for it.
Tick ==
    /\ \/ now < MaxTime
       \/ \E j \in Jobs, n \in Nodes : status[j] = "queued" /\ available[j] > Clock(n)
    /\ now' = now + 1
    /\ UNCHANGED <<table, instance, worker, faults, history>>

\* Every RunWorker has returned: the system may rest.
Quiet ==
    /\ \A w \in Workers : pc[w] \in {"stopped", "down"}
    /\ UNCHANGED vars

----------------------------------------------------------------------------

Select(w) == SelectNothing(w) \/ \E j \in Jobs : SelectRow(w, j)

WorkerStep(w) ==
    \/ Poll(w)
    \/ Select(w)
    \/ Claim(w)
    \/ HandlerOk(w)
    \/ HandlerErr(w)
    \/ \E o \in Outcomes : PollCreate(w, o) \/ ClaimNothing(w, o) \/ Ack(w, o) \/ Retry(w, o)

NodeStep(n) ==
    \/ CloseCheck(n) \/ CloseDo(n) \/ ClosePanic(n) \/ Crash(n) \/ Restart(n)
    \/ \E o \in Outcomes : EnqueueCreate(n, o) \/ \E j \in Jobs : Enqueue(n, j, o)

Next ==
    \/ \E w \in Workers : WorkerStep(w) \/ Stop(w) \/ Cancel(w)
    \/ \E n \in Nodes : NodeStep(n)
    \/ Tick
    \/ Quiet

Spec == Init /\ [][Next]_vars

\* A goroutine that can run does run; time passes; and select, which picks
\* among ready cases at random, does not pick the ticker for ever.
FairSpec ==
    /\ Spec
    /\ \A w \in Workers : WF_vars(WorkerStep(w)) /\ SF_vars(Stop(w))
    /\ WF_vars(Tick)

----------------------------------------------------------------------------
(* Properties.                                                              *)

\* Worker w has been given job j by claimNext and has not returned from ack or
\* retry: this is when the handler runs and its result is recorded.
Owns(w, j) == held[w] = j /\ pc[w] \in {"handle", "ack", "retry"}

\* A row marked processing that no running worker will ever touch again:
\* nothing reads reserved_by or reserved_at_ms, and no lease expires.
Stranded(j) == status[j] = "processing" /\ \A w \in Workers : ~Owns(w, j)

\* No job is in the hands of two workers, on one node or on two, although
\* SELECT and UPDATE are separate statements (claimNext): the second of two
\* workers that selected the same row must find it no longer queued, even
\* after the first has failed, retried or crashed.
MutualExclusion ==
    \A v, w \in Workers, j \in Jobs : Owns(v, j) /\ Owns(w, j) => v = w

\* A message handled successfully is never handled again, whatever becomes of
\* the ack that RunWorker sends afterwards and whose error it ignores.
HandledNeverRerun == [][\A j \in succeeded : runs'[j] = runs[j]]_vars

\* A row leaves the table only after its handler succeeded: a message that
\* Enqueue stored is never lost without a trace (ack deletes by id alone).
NoSilentLoss == \A j \in inserted : status[j] = "absent" => j \in succeeded

\* Without a failed statement, a cancelled context or the end of a process no
\* row is left in processing, so retry and ack together cover every way out of
\* the handler; with one of them a row can be stuck there for ever.
StrandedOnlyByFault == \A j \in Jobs : Stranded(j) => faults > 0

\* Someone polls for ever: a worker that nothing has told to stop.
Polling == \E w \in Workers :
    /\ pc[w] \notin {"stopped", "down"}
    /\ ~ctxDone[w]
    /\ ~closed[NodeOf[w]]

\* A queued message is handled in the end, over retries, skewed clocks and the
\* jobs in front of it, unless a fault strands it or leaves no worker polling.
QueuedEventuallyHandled ==
    \A j \in Jobs : status[j] = "queued"
                       ~> (j \in succeeded \/ Stranded(j) \/ ~Polling)

\* RunWorker returns after Close or after its context is done, wherever it was.
WorkerStops ==
    \A w \in Workers : ctxDone[w] \/ closed[NodeOf[w]] ~> pc[w] \in {"stopped", "down"}

----------------------------------------------------------------------------
(* The backend implements the contract of a queue.                          *)

PhaseOf(j) ==
    IF j \in succeeded THEN "done"
    ELSE IF j \notin inserted THEN "new"
    ELSE IF status[j] = "queued" THEN "ready"
    ELSE IF Stranded(j) THEN "dead"
    ELSE "running"

Lifecycle == INSTANCE JobLifecycle WITH
                phase <- [j \in Jobs |-> PhaseOf(j)], kept <- Jobs, lives <- 0

\* Every step of the workers, of the table and of the failures is a step of the
\* message's life cycle or invisible to it: once dead or done, always so.
ImplementsLifecycle == Lifecycle!Spec

=============================================================================
