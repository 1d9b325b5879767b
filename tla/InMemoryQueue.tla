--------------------------- MODULE InMemoryQueue ---------------------------
(***************************************************************************)
(* src/jobs/queue.go: a buffered Go channel with a closed flag guarded by  *)
(* an RWMutex.  Each message is passed to one call of Enqueue, which reads *)
(* the flag under the lock and sends outside it; workers receive without   *)
(* the lock.  A send on a closed channel panics and, as Enqueue recovers   *)
(* nothing, ends the process.                                              *)
(***************************************************************************)
EXTENDS Naturals, Sequences, FiniteSets

CONSTANTS
    Jobs,           \* messages, one Enqueue call each
    Workers,        \* goroutines in RunWorker
    Buffer,         \* NewInMemoryQueue(buffer)
    NoJob

ASSUME BufferAssumption == Buffer \in Nat
ASSUME NoJobAssumption == NoJob \notin Jobs

VARIABLES
    closed,         \* q.closed, and with it the state of the channel
    ch,             \* the messages buffered in q.ch
    call,           \* call[j]: where the Enqueue of message j is
    callCtx,        \* messages whose Enqueue context is done
    pc,             \* where worker w is in RunWorker
    held,           \* the message worker w is handling
    ctxDone,        \* workers whose context is done
    crashed,        \* the process has panicked
    \* history
    handled,        \* messages whose handler returned nil
    dropped         \* messages whose handler returned an error

vars == <<closed, ch, call, callCtx, pc, held, ctxDone, crashed, handled, dropped>>

\* NewInMemoryQueue raises a buffer below one to one.
Cap == IF Buffer < 1 THEN 1 ELSE Buffer

Init ==
    /\ closed = FALSE
    /\ ch = <<>>
    /\ call = [j \in Jobs |-> "idle"]
    /\ callCtx = {}
    /\ pc = [w \in Workers |-> "receive"]
    /\ held = [w \in Workers |-> NoJob]
    /\ ctxDone = {}
    /\ crashed = FALSE
    /\ handled = {}
    /\ dropped = {}

----------------------------------------------------------------------------
(* Enqueue                                                                  *)

\* The flag, read under the read lock.
EnqueueCheck(j) ==
    /\ ~crashed
    /\ call[j] = "idle"
    /\ call' = [call EXCEPT ![j] = IF closed THEN "refused" ELSE "sending"]
    /\ UNCHANGED <<closed, ch, callCtx, pc, held, ctxDone, crashed, handled, dropped>>

\* The select: the buffer has room.
EnqueueSend(j) ==
    /\ ~crashed
    /\ call[j] = "sending"
    /\ ~closed
    /\ Len(ch) < Cap
    /\ ch' = Append(ch, j)
    /\ call' = [call EXCEPT ![j] = "sent"]
    /\ UNCHANGED <<closed, callCtx, pc, held, ctxDone, crashed, handled, dropped>>

\* Fault: the send is left to a goroutine that goes on when the call has returned
\* ctx.Err().
EnqueueCancelledLate(j) ==
    /\ ~crashed
    /\ call[j] = "sending"
    /\ j \in callCtx
    /\ ~closed
    /\ Len(ch) < Cap
    /\ ch' = Append(ch, j)
    /\ call' = [call EXCEPT ![j] = "cancelled"]
    /\ UNCHANGED <<closed, callCtx, pc, held, ctxDone, crashed, handled, dropped>>

\* The select: ctx.Done().
EnqueueCancelled(j) ==
    /\ ~crashed
    /\ call[j] = "sending"
    /\ j \in callCtx
    /\ call' = [call EXCEPT ![j] = "cancelled"]
    /\ UNCHANGED <<closed, ch, callCtx, pc, held, ctxDone, crashed, handled, dropped>>

\* The select meets a channel that was closed after the flag was read, or while
\* the call was blocked on a full buffer.
EnqueuePanics(j) ==
    /\ ~crashed
    /\ call[j] = "sending"
    /\ closed
    /\ crashed' = TRUE
    /\ UNCHANGED <<closed, ch, call, callCtx, pc, held, ctxDone, handled, dropped>>

CancelCall(j) ==
    /\ ~crashed
    /\ call[j] \in {"idle", "sending"}
    /\ j \notin callCtx
    /\ callCtx' = callCtx \cup {j}
    /\ UNCHANGED <<closed, ch, call, pc, held, ctxDone, crashed, handled, dropped>>

----------------------------------------------------------------------------
(* Close.  The flag and the channel change under the write lock, so no      *)
(* Enqueue reads the flag between the two.                                  *)

Close ==
    /\ ~crashed
    /\ ~closed
    /\ closed' = TRUE
    /\ UNCHANGED <<ch, call, callCtx, pc, held, ctxDone, crashed, handled, dropped>>

----------------------------------------------------------------------------
(* RunWorker                                                                *)

\* A closed channel still delivers what it has buffered.
Receive(w) ==
    /\ ~crashed
    /\ pc[w] = "receive"
    /\ ch # <<>>
    /\ held' = [held EXCEPT ![w] = Head(ch)]
    /\ ch' = Tail(ch)
    /\ pc' = [pc EXCEPT ![w] = "handle"]
    /\ UNCHANGED <<closed, call, callCtx, ctxDone, crashed, handled, dropped>>

\* Fault: the worker returns at once when the queue is closed.
ReceiveClosedEarly(w) ==
    /\ ~crashed
    /\ pc[w] = "receive"
    /\ closed
    /\ pc' = [pc EXCEPT ![w] = "stopped"]
    /\ UNCHANGED <<closed, ch, call, callCtx, held, ctxDone, crashed, handled, dropped>>

\* The receive returns !ok: closed and drained.
ReceiveClosed(w) ==
    /\ ~crashed
    /\ pc[w] = "receive"
    /\ closed
    /\ ch = <<>>
    /\ pc' = [pc EXCEPT ![w] = "stopped"]
    /\ UNCHANGED <<closed, ch, call, callCtx, held, ctxDone, crashed, handled, dropped>>

StopOnCtx(w) ==
    /\ ~crashed
    /\ pc[w] = "receive"
    /\ w \in ctxDone
    /\ pc' = [pc EXCEPT ![w] = "stopped"]
    /\ UNCHANGED <<closed, ch, call, callCtx, held, ctxDone, crashed, handled, dropped>>

\* RunWorker discards the handler's error.
HandlerReturns(w, ok) ==
    /\ ~crashed
    /\ pc[w] = "handle"
    /\ IF ok
       THEN handled' = handled \cup {held[w]} /\ UNCHANGED dropped
       ELSE dropped' = dropped \cup {held[w]} /\ UNCHANGED handled
    /\ held' = [held EXCEPT ![w] = NoJob]
    /\ pc' = [pc EXCEPT ![w] = "receive"]
    /\ UNCHANGED <<closed, ch, call, callCtx, ctxDone, crashed>>

CancelWorker(w) ==
    /\ ~crashed
    /\ pc[w] # "stopped"
    /\ w \notin ctxDone
    /\ ctxDone' = ctxDone \cup {w}
    /\ UNCHANGED <<closed, ch, call, callCtx, pc, held, crashed, handled, dropped>>

----------------------------------------------------------------------------

\* The process has died, or its workers have all returned.
Quiet ==
    /\ crashed \/ \A w \in Workers : pc[w] = "stopped"
    /\ UNCHANGED vars

WorkerStep(w) ==
    \/ Receive(w) \/ ReceiveClosed(w)
    \/ \E ok \in BOOLEAN : HandlerReturns(w, ok)

CallStep(j) == EnqueueCheck(j) \/ EnqueueSend(j) \/ EnqueueCancelled(j) \/ EnqueuePanics(j)

Next ==
    \/ \E j \in Jobs : CallStep(j) \/ CancelCall(j)
    \/ \E w \in Workers : WorkerStep(w) \/ StopOnCtx(w) \/ CancelWorker(w)
    \/ Close
    \/ Quiet

Spec == Init /\ [][Next]_vars

\* Goroutines that can run do run; blocked senders are served in order, so a
\* sender is not passed over for ever; select does not avoid ctx.Done() for ever.
FairSpec ==
    /\ Spec
    /\ \A w \in Workers : WF_vars(WorkerStep(w)) /\ SF_vars(StopOnCtx(w))
    /\ \A j \in Jobs : SF_vars(EnqueueSend(j)) /\ WF_vars(EnqueueCancelled(j) \/ EnqueuePanics(j))

----------------------------------------------------------------------------
(* Properties.                                                              *)

\* Every accepted message reaches a handler, even when Close comes first, while
\* an uncancelled worker is there and the process lives.
AcceptedEventuallyHandled ==
    \A j \in Jobs : call[j] = "sent" ~> \/ j \in handled \cup dropped
                                        \/ crashed \/ ctxDone = Workers

----------------------------------------------------------------------------

\* Message j is with a worker.
Runs(j) == \E w \in Workers : held[w] = j

\* It is with two workers, or with one after a handler has returned.
RunsAgain(j) ==
    \/ Runs(j) /\ j \in handled \cup dropped
    \/ \E v, w \in Workers : v # w /\ held[v] = j /\ held[w] = j

\* "unsent" and "twice" are no phases of the contract.
PhaseOf(j) ==
    IF call[j] # "sent" THEN IF Runs(j) \/ j \in handled \cup dropped THEN "unsent" ELSE "new"
    ELSE IF RunsAgain(j) THEN "twice"
    ELSE IF j \in handled THEN "done"
    ELSE IF crashed \/ j \in dropped THEN "dead"
    ELSE IF Runs(j) THEN "running"
    ELSE "ready"

Lifecycle == INSTANCE JobLifecycle WITH
                phase <- [j \in Jobs |-> PhaseOf(j)], kept <- Jobs, lives <- 0

\* The channel keeps the contract of a queue.  Only a message whose Enqueue has
\* returned nil comes to a handler, one whose call was refused or cancelled never; it
\* runs at one worker and once.  A send that Close has overtaken panics, where the
\* caller would expect ErrQueueClosed, and loses at once all that the process held.
ImplementsLifecycle == Lifecycle!Spec

=============================================================================
