------------------------- MODULE BrokerQueueProofs -------------------------
(***************************************************************************)
(* The Redis and the Kafka queue keep the contract of a queue for any      *)
(* number of tasks, workers, values and faults.  Workers read the log in   *)
(* order, so what one of them has no other has, and nothing before the     *)
(* last place that was read comes again until the process restarts.        *)
(***************************************************************************)
EXTENDS BrokerQueue, TLAPS

\* What the broker may hold.
Value == Messages \cup {Garbage}

BrokerTyped ==
    /\ broker \in Brokers /\ commits \in {"pop", "read", "later", "never"}
    /\ client \subseteq {"producer", "consumer"} /\ open \subseteq client
    /\ log \in Seq(Value)
    /\ faults \in Nat /\ lives \in Nat

WorkersTyped ==
    /\ pc \in [Workers -> {"loop", "pop", "commit", "handle", "backoff", "stopped"}]
    /\ held \in [Workers -> Nat]
    /\ ctxDone \in BOOLEAN
    /\ handled \in SUBSET Nat

SchedTyped ==
    /\ entries \in SUBSET Entries
    /\ startPc \in {"idle", "running", "returned"} /\ schedDone \in BOOLEAN
    /\ task \in [Entries -> {"none", "select", "run", "stopped"}]
    /\ runs \in [Entries -> 0..MaxRuns]

TypeOK == BrokerTyped /\ WorkersTyped /\ SchedTyped

\* A run of a task that is under way has a number.
Counted == \A e \in Entries : task[e] = "run" => runs[e] > 0

\* A restart goes back, never forward, and nothing is read that was not given.
Offsets ==
    /\ committed \in Nat /\ next \in Nat
    /\ committed <= next /\ next <= Len(log) /\ Len(log) <= MaxLog

\* A worker has a value while it commits or handles it; the value has been read, no
\* other worker has it, and no handler has returned for it since.
Taken ==
    /\ \A w \in Workers : held[w] # 0 <=> pc[w] \in {"commit", "handle"}
    /\ \A w \in Workers : held[w] <= next /\ held[w] \notin handled
    /\ \A v, w \in Workers : held[v] # 0 /\ held[v] = held[w] => v = w
    /\ \A i \in handled : 0 < i /\ i <= next

IInv == TypeOK /\ Counted /\ Offsets /\ Taken

----------------------------------------------------------------------------
(* Types.                                                                   *)

\* What is added to a list comes last.
LEMMA AppendIs ==
  ASSUME NEW S, NEW s \in Seq(S), NEW v \in S
  PROVE  Append(s, v) \in Seq(S) /\ Len(Append(s, v)) = Len(s) + 1 /\ Len(s) \in Nat
  OBVIOUS

\* A task that is running enqueues a message.
LEMMA MessageTyped ==
  ASSUME IInv, NEW e \in Entries, task[e] = "run"
  PROVE  Message(e) \in Value
  BY BoundsAssumption DEF IInv, TypeOK, SchedTyped, Counted, Message, Messages, Value

\* Every step keeps the types.
LEMMA TypesKept ==
  ASSUME IInv, Next
  PROVE  TypeOK'
<1> USE DEF IInv, TypeOK
<1>1. ASSUME UNCHANGED <<pc, held, ctxDone, handled>> PROVE WorkersTyped'
  BY <1>1 DEF WorkersTyped
<1>2. ASSUME UNCHANGED <<entries, startPc, task, schedDone, runs>> PROVE SchedTyped'
  BY <1>2 DEF SchedTyped
<1>3. ASSUME UNCHANGED <<broker, commits, client, open, log, lives>>, faults' \in Nat
      PROVE  BrokerTyped'
  BY <1>3 DEF BrokerTyped
<1>4. Fault => faults' \in Nat
  BY DEF Fault, BrokerTyped
<1>5. ASSUME NEW e \in Entries, Add(e) \/ TaskRun(e) \/ TaskStop(e) \/ EnqueueFails(e)
      PROVE  TypeOK'
  <2>1. UNCHANGED <<broker, commits, client, open, log, lives>> /\ WorkersTyped'
    BY <1>1, <1>5 DEF Add, TaskRun, TaskStop, EnqueueFails, queueVars, workerVars
  <2>2. faults' \in Nat
    BY <1>4, <1>5 DEF Add, TaskRun, TaskStop, EnqueueFails, BrokerTyped
  <2>3. SchedTyped'
    BY <1>5, BoundsAssumption DEF Add, TaskRun, TaskStop, EnqueueFails, TaskReturns, SchedTyped
  <2> QED BY <1>3, <2>1, <2>2, <2>3
<1>6. ASSUME NEW e \in Entries, Enqueue(e) \/ EnqueueUnanswered(e) PROVE TypeOK'
  <2>1. log' \in Seq(Value)
    BY <1>6, MessageTyped, AppendIs DEF Enqueue, EnqueueUnanswered, Give, BrokerTyped
  <2>2. BrokerTyped'
    BY <1>4, <1>6, <2>1 DEF Enqueue, EnqueueUnanswered, BrokerTyped
  <2>3. SchedTyped'
    BY <1>6 DEF Enqueue, EnqueueUnanswered, TaskReturns, SchedTyped
  <2> QED BY <1>1, <1>6, <2>2, <2>3 DEF Enqueue, EnqueueUnanswered, workerVars
<1>7. CASE Start \/ StartReturns \/ CancelScheduler
  <2>1. SchedTyped'
    BY <1>7 DEF Start, StartReturns, CancelScheduler, SchedTyped
  <2>2. BrokerTyped'
    BY <1>3, <1>7 DEF Start, StartReturns, CancelScheduler, queueVars, BrokerTyped
  <2> QED BY <1>1, <1>7, <2>1, <2>2 DEF Start, StartReturns, CancelScheduler, workerVars
<1>8. CASE Cancel
  <2>1. WorkersTyped'
    BY <1>8 DEF Cancel, WorkersTyped
  <2> QED BY <1>2, <1>3, <1>8, <2>1 DEF Cancel, queueVars, schedVars, BrokerTyped
<1>9. CASE Close
  <2>1. BrokerTyped'
    BY <1>9 DEF Close, BrokerTyped
  <2> QED BY <1>1, <1>2, <1>9, <2>1 DEF Close, workerVars, schedVars
<1>10. ASSUME NEW w \in Workers,
              \/ LoopHead(w) \/ Pop(w) \/ Commit(w) \/ CommitFails(w)
              \/ PopFails(w) \/ PopUnanswered(w) \/ Backoff(w) \/ HandlerReturns(w)
       PROVE  TypeOK'
  <2>1. held[w] \in Nat /\ next + 1 \in Nat
    BY DEF WorkersTyped, Offsets
  <2>2. WorkersTyped'
    <3>1. CASE LoopHead(w) \/ PopFails(w) \/ PopUnanswered(w) \/ Backoff(w)
      <4>1. UNCHANGED <<held, ctxDone, handled>>
        BY <3>1 DEF LoopHead, PopFails, PopUnanswered, Backoff
      <4>2. pc' \in [Workers -> {"loop", "pop", "commit", "handle", "backoff", "stopped"}]
        BY <3>1 DEF LoopHead, PopFails, PopUnanswered, Backoff, Goto, AfterError, WorkersTyped
      <4> QED BY <4>1, <4>2 DEF WorkersTyped
    <3>2. CASE Pop(w) \/ Commit(w) \/ CommitFails(w)
      <4>1. UNCHANGED <<ctxDone, handled>>
        BY <3>2 DEF Pop, Commit, CommitFails
      <4>2. pc' \in [Workers -> {"loop", "pop", "commit", "handle", "backoff", "stopped"}]
        BY <3>2 DEF Pop, Commit, CommitFails, Decode, Goto, AfterError, WorkersTyped
      <4>3. held' \in [Workers -> Nat]
        BY <2>1, <3>2 DEF Pop, Commit, CommitFails, Decode, Drop, WorkersTyped
      <4> QED BY <4>1, <4>2, <4>3 DEF WorkersTyped
    <3>3. CASE HandlerReturns(w)
      <4>1. handled' \in SUBSET Nat /\ ctxDone' = ctxDone
        BY <2>1, <3>3 DEF HandlerReturns, WorkersTyped
      <4>2. /\ pc' \in [Workers -> {"loop", "pop", "commit", "handle", "backoff", "stopped"}]
            /\ held' \in [Workers -> Nat]
        BY <3>3 DEF HandlerReturns, Goto, Drop, WorkersTyped
      <4> QED BY <4>1, <4>2 DEF WorkersTyped
    <3> QED BY <1>10, <3>1, <3>2, <3>3
  <2>3. faults' \in Nat
    BY <1>4, <1>10 DEF LoopHead, Pop, Commit, CommitFails, PopFails, PopUnanswered, Backoff,
                       HandlerReturns, BrokerTyped
  <2>4. UNCHANGED <<broker, commits, client, open, log, lives>> /\ UNCHANGED schedVars
    BY <1>10 DEF LoopHead, Pop, Commit, CommitFails, PopFails, PopUnanswered, Backoff,
                 HandlerReturns, queueVars
  <2> QED BY <1>2, <1>3, <2>2, <2>3, <2>4 DEF schedVars
<1>11. CASE Foreign
  <2>1. log' \in Seq(Value)
    BY <1>11, AppendIs DEF Foreign, Give, Value, BrokerTyped
  <2>2. BrokerTyped'
    BY <1>4, <1>11, <2>1 DEF Foreign, BrokerTyped
  <2> QED BY <1>1, <1>2, <1>11, <2>2 DEF Foreign, workerVars, schedVars
<1>12. CASE Crash
  <2>1. BrokerTyped'
    BY <1>4, <1>12 DEF Crash, BrokerTyped
  <2>2. WorkersTyped'
    BY <1>12 DEF Crash, FirstPc, WorkersTyped
  <2>3. SchedTyped'
    BY <1>12 DEF Crash, SchedTyped
  <2> QED BY <2>1, <2>2, <2>3
<1> QED
  BY <1>5, <1>6, <1>7, <1>8, <1>9, <1>10, <1>11, <1>12 DEF Next, TaskStep, WorkerStep

----------------------------------------------------------------------------
(* The invariant.                                                           *)

\* Nothing has been given, and nothing read.
LEMMA InitHolds == Init => IInv
<1> SUFFICES ASSUME Init PROVE IInv
  OBVIOUS
<1> USE DEF Init
<1>1. BrokerTyped
  BY DEF BrokerTyped
<1>2. WorkersTyped
  BY DEF WorkersTyped, FirstPc
<1>3. SchedTyped
  <2>1. 0 \in 0..MaxRuns
    BY BoundsAssumption
  <2> QED BY <2>1 DEF SchedTyped
<1>4. Offsets
  BY BoundsAssumption DEF Offsets
<1>5. Counted /\ Taken
  BY DEF Counted, Taken, FirstPc
<1> QED BY <1>1, <1>2, <1>3, <1>4, <1>5 DEF IInv, TypeOK

\* Steps that neither read nor take a value.
LEMMA TakesNone ==
  ASSUME Taken, UNCHANGED <<next, held, handled>>,
         \A w \in Workers : pc'[w] \in {"commit", "handle"} <=> pc[w] \in {"commit", "handle"}
  PROVE  Taken'
  BY DEF Taken

\* The number of a run is counted before the run begins.
LEMMA CountedKept ==
  ASSUME IInv, Next
  PROVE  Counted'
<1> USE DEF IInv, TypeOK, SchedTyped, Counted
<1>1. ASSUME NEW e \in Entries, \/ TaskRun(e) \/ TaskStop(e) \/ EnqueueFails(e)
                                \/ Enqueue(e) \/ EnqueueUnanswered(e)
      PROVE  Counted'
  BY <1>1, BoundsAssumption DEF TaskRun, TaskStop, EnqueueFails, Enqueue, EnqueueUnanswered, TaskReturns
<1>2. CASE Start
  BY <1>2 DEF Start
<1>3. CASE Crash
  BY <1>3 DEF Crash
<1>4. CASE UNCHANGED <<task, runs>>
  BY <1>4
<1>5. ASSUME NEW e \in Entries, Add(e) PROVE UNCHANGED <<task, runs>>
  BY <1>5 DEF Add
<1>6. ASSUME NEW w \in Workers, WorkerStep(w) PROVE UNCHANGED <<task, runs>>
  BY <1>6 DEF WorkerStep, LoopHead, Pop, Commit, CommitFails, PopFails, PopUnanswered, Backoff,
              HandlerReturns, schedVars
<1>7. CASE StartReturns \/ CancelScheduler \/ Cancel \/ Close \/ Foreign
  BY <1>7 DEF StartReturns, CancelScheduler, Cancel, Close, Foreign, schedVars
<1> QED BY <1>1, <1>2, <1>3, <1>4, <1>5, <1>6, <1>7 DEF Next, TaskStep

\* A value comes to the end of the log.
LEMMA GiveHolds ==
  ASSUME IInv, NEW v \in Value, Give(v), UNCHANGED <<next, committed, held, handled, pc>>
  PROVE  Offsets' /\ Taken' /\ Len(log') = Len(log) + 1
<1>1. Len(log') = Len(log) + 1 /\ Len(log) \in Nat
  BY AppendIs DEF Give, IInv, TypeOK, BrokerTyped
<1>2. Offsets'
  BY <1>1, BoundsAssumption DEF Give, IInv, Offsets
<1> QED BY <1>1, <1>2, TakesNone DEF IInv

\* A worker reads the next value, and has it or has dropped it.
LEMMA ReadHolds ==
  ASSUME IInv, NEW w \in Workers, next < Len(log), next' = next + 1,
         pc[w] \notin {"commit", "handle"},
         committed' \in {committed, next + 1}, UNCHANGED <<log, handled>>,
         \/ held' = [held EXCEPT ![w] = next + 1] /\ pc'[w] \in {"commit", "handle"}
         \/ held' = [held EXCEPT ![w] = 0] /\ pc'[w] \notin {"commit", "handle"},
         \A u \in Workers \ {w} : pc'[u] = pc[u]
  PROVE  Offsets' /\ Taken'
<1> USE DEF IInv, TypeOK
<1>1. Len(log) \in Nat /\ next \in Nat
  BY DEF BrokerTyped, Offsets
<1>2. Offsets'
  BY <1>1 DEF Offsets
<1>3. \A i \in handled : i \in Nat /\ 0 < i /\ i <= next
  BY DEF Taken, WorkersTyped
<1>4. \A u \in Workers : held[u] \in Nat /\ held[u] <= next
  BY DEF Taken, WorkersTyped
<1>5. 0 \notin handled /\ next + 1 \notin handled /\ \A u \in Workers : held[u] # next + 1
  BY <1>1, <1>3, <1>4
<1>6. Taken'
  BY <1>1, <1>3, <1>4, <1>5 DEF Taken, WorkersTyped
<1> QED BY <1>2, <1>6

\* A worker that has a value goes on with it or lets go of it.
LEMMA HeldHolds ==
  ASSUME IInv, NEW w \in Workers, pc[w] \in {"commit", "handle"},
         UNCHANGED <<log, next>>, committed' \in {committed, held[w]},
         \/ /\ UNCHANGED <<held, handled>> /\ pc'[w] \in {"commit", "handle"}
         \/ /\ held' = [held EXCEPT ![w] = 0] /\ handled' \in {handled, handled \cup {held[w]}}
            /\ pc'[w] \notin {"commit", "handle"},
         \A u \in Workers \ {w} : pc'[u] = pc[u]
  PROVE  Offsets' /\ Taken'
<1> USE DEF IInv, TypeOK
<1>1. held[w] \in Nat /\ held[w] <= next /\ held[w] # 0 /\ next \in Nat
  BY DEF Taken, WorkersTyped, Offsets
<1>2. Offsets'
  BY <1>1 DEF Offsets
<1>3. \A i \in handled : i \in Nat /\ 0 < i
  BY DEF Taken, WorkersTyped
<1>4. CASE UNCHANGED <<held, handled>> /\ pc'[w] \in {"commit", "handle"}
  BY <1>2, <1>4, TakesNone
<1>5. CASE /\ held' = [held EXCEPT ![w] = 0] /\ handled' \in {handled, handled \cup {held[w]}}
           /\ pc'[w] \notin {"commit", "handle"}
  <2>1. \A i \in handled' : 0 < i /\ i <= next
    BY <1>1, <1>3, <1>5 DEF Taken
  <2>2. 0 \notin handled /\ 0 <= next
    BY <1>1, <1>3
  <2>3. \A u \in Workers : u # w /\ held[u] # 0 => held[u] # held[w]
    BY <1>1 DEF Taken
  <2>4. \A u \in Workers : held'[u] <= next /\ held'[u] \notin handled'
    BY <1>1, <1>5, <2>2, <2>3 DEF Taken, WorkersTyped
  <2>5. Taken'
    BY <1>5, <2>1, <2>4 DEF Taken, WorkersTyped
  <2> QED BY <1>2, <2>5
<1> QED BY <1>4, <1>5

\* After a restart no worker has anything and reading goes on at the committed offset.
LEMMA CrashHolds ==
  ASSUME IInv, Crash
  PROVE  Offsets' /\ Taken'
<1> USE DEF IInv, TypeOK
<1>1. Len(log) \in Nat
  BY DEF BrokerTyped
<1>2. Offsets'
  BY <1>1 DEF Crash, Offsets
<1>3. /\ handled' \subseteq {i \in handled : i <= committed} /\ next' = committed
      /\ \A w \in Workers : held'[w] = 0 /\ pc'[w] \in {"loop", "stopped"}
  BY DEF Crash, FirstPc
<1>4. 0 \notin handled' /\ 0 <= next'
  BY <1>3 DEF Taken, Offsets
<1>5. Taken'
  BY <1>3, <1>4 DEF Taken
<1> QED BY <1>2, <1>5

\* The steps of a worker.
LEMMA WorkerHolds ==
  ASSUME IInv, NEW w \in Workers, WorkerStep(w)
  PROVE  Offsets' /\ Taken'
<1> USE DEF IInv, TypeOK
<1>1. pc \in [Workers -> {"loop", "pop", "commit", "handle", "backoff", "stopped"}]
  BY DEF WorkersTyped
<1>2. CASE LoopHead(w) \/ PopFails(w) \/ Backoff(w)
  <2>1. UNCHANGED <<log, next, committed, held, handled>>
    BY <1>2 DEF LoopHead, PopFails, Backoff, queueVars
  <2>2. \A u \in Workers : pc'[u] \in {"commit", "handle"} <=> pc[u] \in {"commit", "handle"}
    BY <1>1, <1>2 DEF LoopHead, PopFails, Backoff, Goto, AfterError
  <2>3. Offsets'
    BY <2>1 DEF Offsets
  <2> QED BY <2>1, <2>2, <2>3, TakesNone
<1>3. CASE Pop(w) \/ PopUnanswered(w)
  <2>1. /\ pc[w] = "pop" /\ next < Len(log) /\ next' = next + 1
        /\ committed' \in {committed, next + 1} /\ UNCHANGED <<log, handled>>
    BY <1>3 DEF Pop, PopUnanswered, Available
  <2>2. \A u \in Workers \ {w} : pc'[u] = pc[u]
    BY <1>1, <1>3 DEF Pop, PopUnanswered, Decode, Goto, AfterError
  <2>3. CASE Pop(w)
    <3>1. \/ held' = [held EXCEPT ![w] = next + 1] /\ pc'[w] \in {"commit", "handle"}
          \/ held' = [held EXCEPT ![w] = 0] /\ pc'[w] \notin {"commit", "handle"}
      BY <1>1, <2>3 DEF Pop, Decode, Drop, Goto
    <3> QED BY <2>1, <2>2, <3>1, ReadHolds
  <2>4. CASE PopUnanswered(w)
    <3>1. held[w] = 0
      BY <2>1 DEF Taken
    <3>2. held' = [held EXCEPT ![w] = 0] /\ pc'[w] \notin {"commit", "handle"}
      BY <1>1, <2>1, <2>4, <3>1 DEF PopUnanswered, Goto, AfterError, WorkersTyped
    <3> QED BY <2>1, <2>2, <3>2, ReadHolds
  <2> QED BY <1>3, <2>3, <2>4
<1>4. CASE Commit(w) \/ CommitFails(w) \/ HandlerReturns(w)
  <2>1. /\ pc[w] \in {"commit", "handle"} /\ UNCHANGED <<log, next>>
        /\ committed' \in {committed, held[w]}
    BY <1>4 DEF Commit, CommitFails, HandlerReturns, queueVars
  <2>2. \A u \in Workers \ {w} : pc'[u] = pc[u]
    BY <1>1, <1>4 DEF Commit, CommitFails, HandlerReturns, Decode, Goto, AfterError
  <2>3. \/ UNCHANGED <<held, handled>> /\ pc'[w] \in {"commit", "handle"}
        \/ /\ held' = [held EXCEPT ![w] = 0] /\ handled' \in {handled, handled \cup {held[w]}}
           /\ pc'[w] \notin {"commit", "handle"}
    BY <1>1, <1>4 DEF Commit, CommitFails, HandlerReturns, Decode, Drop, Goto, AfterError, WorkersTyped
  <2> QED BY <2>1, <2>2, <2>3, HeldHolds
<1> QED BY <1>2, <1>3, <1>4 DEF WorkerStep

\* The invariant is inductive.
LEMMA Inductive == IInv /\ [Next]_vars => IInv'
<1> SUFFICES ASSUME IInv, [Next]_vars PROVE IInv'
  OBVIOUS
<1>1. CASE UNCHANGED vars
  BY <1>1 DEF vars, queueVars, workerVars, schedVars, IInv, TypeOK, BrokerTyped, WorkersTyped,
              SchedTyped, Counted, Offsets, Taken
<1>2. CASE Next
  <2> SUFFICES Offsets' /\ Taken'
    BY <1>2, TypesKept, CountedKept DEF IInv
  <2>1. ASSUME UNCHANGED <<log, next, committed, held, handled, pc>> PROVE Offsets' /\ Taken'
    BY <2>1, TakesNone DEF IInv, Offsets
  <2>2. ASSUME NEW e \in Entries, Add(e) \/ TaskRun(e) \/ TaskStop(e) \/ EnqueueFails(e)
        PROVE  Offsets' /\ Taken'
    BY <2>1, <2>2 DEF Add, TaskRun, TaskStop, EnqueueFails, queueVars, workerVars
  <2>3. CASE Start \/ StartReturns \/ CancelScheduler \/ Cancel \/ Close
    BY <2>1, <2>3 DEF Start, StartReturns, CancelScheduler, Cancel, Close, queueVars, workerVars
  <2>4. ASSUME NEW e \in Entries, Enqueue(e) \/ EnqueueUnanswered(e) PROVE Offsets' /\ Taken'
    BY <2>4, MessageTyped, GiveHolds DEF Enqueue, EnqueueUnanswered, workerVars
  <2>5. CASE Foreign
    BY <2>5, GiveHolds DEF Foreign, workerVars, Value
  <2> QED
    BY <1>2, <2>2, <2>3, <2>4, <2>5, WorkerHolds, CrashHolds DEF Next, TaskStep
<1> QED BY <1>1, <1>2

\* Through every crash, lost answer, resent value and failed or overtaken commit, a
\* value is with one worker at most and only after it was read, and none for which a
\* handler has returned is with a worker until a restart goes back behind it.
THEOREM Invariance == Spec => []IInv
BY InitHolds, Inductive, PTL DEF Spec

----------------------------------------------------------------------------
(* The contract of a queue.                                                 *)

Phase == [i \in Places |-> PhaseOf(i)]

HeldBy(i) == \E w \in Workers : held[w] = i

Running(i) == \E w \in Workers : Runs(w, i)

\* Under the invariant, no value is in two places.
PhaseTable ==
    \A i \in Places :
        PhaseOf(i) = IF i > Len(log) THEN "new"
                     ELSE IF Running(i) THEN "running"
                     ELSE IF i > next \/ HeldBy(i) THEN "ready"
                     ELSE IF i \in handled THEN "done"
                     ELSE "dead"

\* The invariant rules the illegal phase out.
LEMMA PhaseIs == IInv => PhaseTable
<1> SUFFICES ASSUME IInv, NEW i \in Places
             PROVE  PhaseOf(i) = IF i > Len(log) THEN "new"
                                 ELSE IF Running(i) THEN "running"
                                 ELSE IF i > next \/ HeldBy(i) THEN "ready"
                                 ELSE IF i \in handled THEN "done"
                                 ELSE "dead"
  BY DEF PhaseTable
<1> USE DEF IInv, TypeOK
<1>1. i \in Nat /\ i # 0 /\ next \in Nat /\ Len(log) \in Nat
  BY BoundsAssumption DEF Places, Offsets, BrokerTyped
<1>2. i \in handled => i <= next /\ ~HeldBy(i)
  BY DEF Taken, HeldBy
<1>3. Running(i) => ~\E v, w \in Workers : v # w /\ Runs(v, i) /\ Runs(w, i)
  BY <1>1 DEF Runs, Taken
<1>4. Running(i) => HeldBy(i)
  BY DEF Running, HeldBy, Runs
<1> QED BY <1>1, <1>2, <1>3, <1>4 DEF PhaseOf, Running, HeldBy

\* So it does after a step.
LEMMA PhaseIsNext == IInv' => PhaseTable'
  BY PhaseIs, PTL

\* A value goes one step along its life cycle while the others stay.
Advances(i) ==
    /\ \A k \in Places \ {i} : Phase'[k] = Phase[k]
    /\ \/ Phase[i] = "new"     /\ Phase'[i] = "ready"
       \/ Phase[i] = "ready"   /\ Phase'[i] = "running"
       \/ Phase[i] = "running" /\ Phase'[i] = "done"

\* Every value stays where it is or is lost to all workers.
OnlyLoses ==
    \A k \in Places : \/ Phase'[k] = Phase[k]
                      \/ Phase[k] \in {"ready", "running"} /\ Phase'[k] = "dead"

\* A step that moves one value on is one of the contract's.
LEMMA Advancing ==
  ASSUME NEW i \in Places, Advances(i)
  PROVE  Lifecycle!Next
<1>1. Phase' = [Phase EXCEPT ![i] = Phase'[i]]
  BY DEF Advances, Phase
<1>2. Lifecycle!Submit(i) \/ Lifecycle!Start(i) \/ Lifecycle!Succeed(i)
  BY <1>1 DEF Advances, Phase, Lifecycle!Submit, Lifecycle!Start, Lifecycle!Succeed
<1> QED BY <1>2 DEF Lifecycle!Next

\* So is a step that loses values; one that loses none is invisible.
LEMMA Losing ==
  ASSUME OnlyLoses
  PROVE  Lifecycle!Next \/ UNCHANGED Phase
<1> DEFINE S == {k \in Places : Phase'[k] # Phase[k]}
<1>1. CASE S = {}
  BY <1>1 DEF Phase
<1>2. CASE S # {}
  <2>1. S \in SUBSET {k \in Places : Phase[k] \in {"ready", "running"}}
    BY DEF OnlyLoses
  <2>2. Phase' = [k \in Places |-> IF k \in S THEN "dead" ELSE Phase[k]]
    BY DEF OnlyLoses, Phase
  <2>3. Lifecycle!Lose
    BY <1>2, <2>1, <2>2 DEF Lifecycle!Lose, Phase
  <2> QED BY <2>3 DEF Lifecycle!Next
<1> QED BY <1>1, <1>2

\* Values that no worker takes or lets go of keep their phase.
LEMMA SamePhase ==
  ASSUME NEW k \in Places, PhaseTable, PhaseTable',
         k > Len(log') <=> k > Len(log), k > next' <=> k > next,
         k \in handled' <=> k \in handled,
         HeldBy(k)' <=> HeldBy(k), Running(k)' <=> Running(k)
  PROVE  Phase'[k] = Phase[k]
<1>1. PhaseOf(k) = IF k > Len(log) THEN "new"
                   ELSE IF Running(k) THEN "running"
                   ELSE IF k > next \/ HeldBy(k) THEN "ready"
                   ELSE IF k \in handled THEN "done"
                   ELSE "dead"
  BY DEF PhaseTable
<1>2. PhaseOf(k)' = IF k > Len(log') THEN "new"
                    ELSE IF Running(k)' THEN "running"
                    ELSE IF k > next' \/ HeldBy(k)' THEN "ready"
                    ELSE IF k \in handled' THEN "done"
                    ELSE "dead"
  BY DEF PhaseTable
<1> QED BY <1>1, <1>2 DEF Phase

\* Steps that touch neither the log nor what workers have.
LEMMA QuietStutters ==
  ASSUME IInv, IInv', UNCHANGED <<log, next, handled, held>>,
         \A w \in Workers : pc'[w] = "handle" <=> pc[w] = "handle"
  PROVE  OnlyLoses
<1>1. \A k \in Places : (HeldBy(k)' <=> HeldBy(k)) /\ (Running(k)' <=> Running(k))
  BY DEF HeldBy, Running, Runs
<1>2. PhaseTable /\ PhaseTable'
  BY PhaseIs, PhaseIsNext
<1>3. \A k \in Places : Phase'[k] = Phase[k]
  BY <1>1, <1>2, SamePhase
<1> QED BY <1>3 DEF OnlyLoses

\* What is given to the broker is submitted: it has a place of its own.
LEMMA GiveSubmits ==
  ASSUME IInv, IInv', NEW v \in Value, Give(v), UNCHANGED <<next, committed, held, handled, pc>>
  PROVE  \E i \in Places : Advances(i)
<1> USE DEF IInv, TypeOK
<1>1. Len(log') = Len(log) + 1 /\ Len(log) \in Nat /\ Len(log) < MaxLog
  BY GiveHolds DEF Give, BrokerTyped
<1>2. PICK i \in Places : i = Len(log) + 1
  BY <1>1, BoundsAssumption DEF Places
<1>3. \A k \in Places : k \in Nat
  BY BoundsAssumption DEF Places
<1>4. next \in Nat /\ next <= Len(log) /\ \A w \in Workers : held[w] \in Nat /\ held[w] <= next
  BY DEF Offsets, Taken, WorkersTyped
<1>5. \A k \in Places : (HeldBy(k)' <=> HeldBy(k)) /\ (Running(k)' <=> Running(k))
  BY DEF HeldBy, Running, Runs
<1>6. PhaseTable /\ PhaseTable'
  BY PhaseIs, PhaseIsNext
<1>7. \A k \in Places \ {i} : Phase'[k] = Phase[k]
  <2> SUFFICES ASSUME NEW k \in Places \ {i} PROVE Phase'[k] = Phase[k]
    OBVIOUS
  <2>1. k > Len(log') <=> k > Len(log)
    BY <1>1, <1>2, <1>3
  <2> QED BY <1>5, <1>6, <2>1, SamePhase
<1>8. ~HeldBy(i) /\ ~Running(i) /\ i > next /\ i > Len(log) /\ ~(i > Len(log'))
  BY <1>1, <1>2, <1>4 DEF HeldBy, Running, Runs
<1>9. PhaseOf(i) = "new"
  BY <1>2, <1>6, <1>8 DEF PhaseTable
<1>10. PhaseOf(i)' = "ready"
  BY <1>2, <1>5, <1>6, <1>8 DEF PhaseTable
<1>11. Advances(i)
  BY <1>2, <1>7, <1>9, <1>10 DEF Advances, Phase
<1> QED BY <1>2, <1>11

\* A worker reads the next value and has it, at its handler or before the commit, or
\* has lost it.
LEMMA ReadMoves ==
  ASSUME IInv, IInv', NEW w \in Workers, next < Len(log), next' = next + 1,
         held[w] = 0, UNCHANGED <<log, handled>>,
         \/ held' = [held EXCEPT ![w] = next + 1]
         \/ held' = [held EXCEPT ![w] = 0] /\ pc'[w] # "handle",
         \A u \in Workers \ {w} : pc'[u] = pc[u]
  PROVE  OnlyLoses \/ \E i \in Places : Advances(i)
<1> USE DEF IInv, TypeOK
<1>1. Len(log) \in Nat /\ next \in Nat /\ Len(log) <= MaxLog
  BY DEF BrokerTyped, Offsets
<1>2. PICK i \in Places : i = next + 1
  BY <1>1, BoundsAssumption DEF Places
<1>3. \A k \in Places : k \in Nat /\ k # 0
  BY BoundsAssumption DEF Places
<1>4. \A u \in Workers : held[u] \in Nat /\ held[u] <= next
  BY DEF Taken, WorkersTyped
<1>5. \A k \in Places \ {i}, u \in Workers : /\ held'[u] = k <=> held[u] = k
                                             /\ Runs(u, k)' <=> Runs(u, k)
  BY <1>2, <1>3 DEF Runs, WorkersTyped
<1>6. \A k \in Places \ {i} : (HeldBy(k)' <=> HeldBy(k)) /\ (Running(k)' <=> Running(k))
  BY <1>5 DEF HeldBy, Running
<1>7. PhaseTable /\ PhaseTable'
  BY PhaseIs, PhaseIsNext
<1>8. \A k \in Places \ {i} : Phase'[k] = Phase[k]
  <2> SUFFICES ASSUME NEW k \in Places \ {i} PROVE Phase'[k] = Phase[k]
    OBVIOUS
  <2>1. k > next' <=> k > next
    BY <1>1, <1>2, <1>3
  <2> QED BY <1>6, <1>7, <2>1, SamePhase
<1>9. ~HeldBy(i) /\ ~Running(i) /\ i > next /\ ~(i > Len(log)) /\ ~(i > next')
  BY <1>1, <1>2, <1>4 DEF HeldBy, Running, Runs
<1>10. PhaseOf(i) = "ready"
  BY <1>7, <1>9 DEF PhaseTable
<1>11. i \notin handled'
  BY <1>1, <1>2 DEF Taken, WorkersTyped
<1>12. PhaseOf(i)' \in {"running", "ready", "dead"}
  BY <1>7, <1>9, <1>11 DEF PhaseTable
<1>13. CASE PhaseOf(i)' = "running"
  <2>1. Advances(i)
    BY <1>8, <1>10, <1>13 DEF Advances, Phase
  <2> QED BY <2>1
<1>14. CASE PhaseOf(i)' \in {"ready", "dead"}
  BY <1>8, <1>10, <1>14 DEF OnlyLoses, Phase
<1> QED BY <1>12, <1>13, <1>14

\* A worker that has a value begins its handler, ends it or loses the value.
LEMMA HeldMoves ==
  ASSUME IInv, IInv', NEW w \in Workers, UNCHANGED <<log, next>>,
         \/ pc[w] = "commit" /\ UNCHANGED handled /\
            ((UNCHANGED held /\ pc'[w] = "handle") \/ held' = [held EXCEPT ![w] = 0])
         \/ pc[w] = "handle" /\ held' = [held EXCEPT ![w] = 0] /\
            handled' \in {handled, handled \cup {held[w]}},
         \A u \in Workers \ {w} : pc'[u] = pc[u]
  PROVE  OnlyLoses \/ \E i \in Places : Advances(i)
<1> USE DEF IInv, TypeOK
<1>1. Len(log) \in Nat /\ next \in Nat /\ next <= Len(log) /\ Len(log) <= MaxLog
  BY DEF BrokerTyped, Offsets
<1>2. held[w] \in Nat /\ held[w] # 0 /\ held[w] <= next
  BY DEF Taken, WorkersTyped
<1>3. PICK i \in Places : i = held[w]
  BY <1>1, <1>2, BoundsAssumption DEF Places
<1>4. \A k \in Places : k \in Nat /\ k # 0
  BY BoundsAssumption DEF Places
<1>5. \A k \in Places \ {i}, u \in Workers : /\ held'[u] = k <=> held[u] = k
                                             /\ Runs(u, k)' <=> Runs(u, k)
  BY <1>3, <1>4 DEF Runs, WorkersTyped
<1>6. \A k \in Places \ {i} : (HeldBy(k)' <=> HeldBy(k)) /\ (Running(k)' <=> Running(k))
  BY <1>5 DEF HeldBy, Running
<1>7. PhaseTable /\ PhaseTable'
  BY PhaseIs, PhaseIsNext
<1>8. \A k \in Places \ {i} : Phase'[k] = Phase[k]
  <2> SUFFICES ASSUME NEW k \in Places \ {i} PROVE Phase'[k] = Phase[k]
    OBVIOUS
  <2>1. k \in handled' <=> k \in handled
    BY <1>3
  <2> QED BY <1>6, <1>7, <2>1, SamePhase
<1>9. HeldBy(i) /\ ~(i > Len(log)) /\ ~(i > next) /\ i \notin handled
  BY <1>1, <1>2, <1>3 DEF HeldBy, Taken
<1>10. \A u \in Workers : held[u] = i => u = w
  BY <1>2, <1>3 DEF Taken
<1>11. PhaseOf(i) = IF pc[w] = "handle" THEN "running" ELSE "ready"
  <2>1. Running(i) <=> pc[w] = "handle"
    BY <1>3, <1>10 DEF Running, Runs
  <2> QED BY <1>7, <1>9, <2>1 DEF PhaseTable
<1>12. CASE UNCHANGED held
  <2>1. pc[w] = "commit" /\ pc'[w] = "handle" /\ held'[w] = i
    BY <1>2, <1>3, <1>12 DEF WorkersTyped
  <2>2. Running(i)'
    BY <2>1 DEF Running, Runs
  <2>3. PhaseOf(i)' = "running"
    BY <1>7, <1>9, <2>2 DEF PhaseTable
  <2>4. Advances(i)
    BY <1>8, <1>11, <2>1, <2>3 DEF Advances, Phase
  <2> QED BY <2>4
<1>13. CASE held' = [held EXCEPT ![w] = 0]
  <2>1. \A u \in Workers : held'[u] # i
    BY <1>2, <1>3, <1>10, <1>13 DEF WorkersTyped
  <2>2. ~HeldBy(i)' /\ ~Running(i)'
    BY <2>1 DEF HeldBy, Running, Runs
  <2>3. PhaseOf(i)' = IF i \in handled' THEN "done" ELSE "dead"
    BY <1>7, <1>9, <2>2 DEF PhaseTable
  <2>4. CASE i \in handled'
    <3>1. pc[w] = "handle"
      BY <1>9, <2>4
    <3>2. Advances(i)
      BY <1>8, <1>11, <2>3, <2>4, <3>1 DEF Advances, Phase
    <3> QED BY <3>2
  <2>5. CASE i \notin handled'
    BY <1>8, <1>11, <2>3, <2>5 DEF OnlyLoses, Phase
  <2> QED BY <2>4, <2>5
<1> QED BY <1>12, <1>13

\* What a worker does to the values.
LEMMA WorkerMoves ==
  ASSUME IInv, IInv', NEW w \in Workers, WorkerStep(w)
  PROVE  OnlyLoses \/ \E i \in Places : Advances(i)
<1> USE DEF IInv, TypeOK
<1>1. /\ pc \in [Workers -> {"loop", "pop", "commit", "handle", "backoff", "stopped"}]
      /\ held \in [Workers -> Nat]
  BY DEF WorkersTyped
<1>2. CASE LoopHead(w) \/ PopFails(w) \/ Backoff(w)
  <2>1. UNCHANGED <<log, next, held, handled>>
    BY <1>2 DEF LoopHead, PopFails, Backoff, queueVars
  <2>2. \A u \in Workers : pc'[u] = "handle" <=> pc[u] = "handle"
    BY <1>1, <1>2 DEF LoopHead, PopFails, Backoff, Goto, AfterError
  <2> QED BY <2>1, <2>2, QuietStutters
<1>3. CASE Pop(w) \/ PopUnanswered(w)
  <2>1. /\ pc[w] = "pop" /\ next < Len(log) /\ next' = next + 1 /\ UNCHANGED <<log, handled>>
    BY <1>3 DEF Pop, PopUnanswered, Available
  <2>2. \A u \in Workers \ {w} : pc'[u] = pc[u]
    BY <1>1, <1>3 DEF Pop, PopUnanswered, Decode, Goto, AfterError
  <2>3. held[w] = 0
    BY <2>1 DEF Taken
  <2>4. \/ held' = [held EXCEPT ![w] = next + 1]
        \/ held' = [held EXCEPT ![w] = 0] /\ pc'[w] # "handle"
    BY <1>1, <1>3, <2>1, <2>3 DEF Pop, PopUnanswered, Decode, Drop, Goto, AfterError
  <2> QED BY <2>1, <2>2, <2>3, <2>4, ReadMoves
<1>4. CASE Commit(w) \/ CommitFails(w) \/ HandlerReturns(w)
  <2>1. UNCHANGED <<log, next>>
    BY <1>4 DEF Commit, CommitFails, HandlerReturns, queueVars
  <2>2. \A u \in Workers \ {w} : pc'[u] = pc[u]
    BY <1>1, <1>4 DEF Commit, CommitFails, HandlerReturns, Decode, Goto, AfterError
  <2>3. \/ pc[w] = "commit" /\ UNCHANGED handled /\
           ((UNCHANGED held /\ pc'[w] = "handle") \/ held' = [held EXCEPT ![w] = 0])
        \/ pc[w] = "handle" /\ held' = [held EXCEPT ![w] = 0] /\
           handled' \in {handled, handled \cup {held[w]}}
    BY <1>1, <1>4 DEF Commit, CommitFails, HandlerReturns, Decode, Drop, Goto, AfterError
  <2> QED BY <2>1, <2>2, <2>3, HeldMoves
<1> QED BY <1>2, <1>3, <1>4 DEF WorkerStep

\* A restart returns to what is behind the committed offset, and to nothing else.
LEMMA CrashRestarts ==
  ASSUME IInv, IInv', Crash
  PROVE  Lifecycle!Next
<1> USE DEF IInv, TypeOK
<1>1. \A k \in Places : k \in Nat
  BY BoundsAssumption DEF Places
<1>2. /\ next' = committed /\ handled' = {i \in handled : i <= committed}
      /\ lives' = lives + 1 /\ UNCHANGED <<log, committed>>
      /\ \A w \in Workers : held'[w] = 0
  BY DEF Crash
<1>3. committed \in Nat /\ next \in Nat /\ committed <= next /\ next <= Len(log) /\ Len(log) \in Nat
  BY DEF Offsets, BrokerTyped
<1>4. PhaseTable /\ PhaseTable'
  BY PhaseIs, PhaseIsNext
<1>5. ASSUME NEW k \in Places PROVE ~HeldBy(k)' /\ ~Running(k)'
  <2>1. k # 0
    BY BoundsAssumption DEF Places
  <2> QED BY <1>2, <2>1 DEF HeldBy, Running, Runs
<1>6. ASSUME NEW k \in Places
      PROVE  /\ Phase'[k] \in Lifecycle!Phases
             /\ Phase'[k] \in Lifecycle!Return(k)
  <2>1. PhaseOf(k)' = IF k > Len(log) THEN "new"
                      ELSE IF k > committed THEN "ready"
                      ELSE IF k \in handled THEN "done"
                      ELSE "dead"
    BY <1>1, <1>2, <1>3, <1>4, <1>5 DEF PhaseTable
  <2>2. PhaseOf(k) = IF k > Len(log) THEN "new"
                     ELSE IF Running(k) THEN "running"
                     ELSE IF k > next \/ HeldBy(k) THEN "ready"
                     ELSE IF k \in handled THEN "done"
                     ELSE "dead"
    BY <1>4 DEF PhaseTable
  <2>3. k \in handled => ~HeldBy(k) /\ ~Running(k) /\ k <= next
    BY DEF Taken, HeldBy, Running, Runs
  <2>4. Phase[k] = PhaseOf(k) /\ Phase'[k] = PhaseOf(k)'
    BY DEF Phase
  <2>5. k \in {i \in Places : i <= committed} <=> ~(k > committed)
    BY <1>1, <1>3
  <2>6. PhaseOf(k)' \in Lifecycle!Phases
    BY <2>1 DEF Lifecycle!Phases
  <2>7. PhaseOf(k)' \in Lifecycle!Return(k)
    BY <1>1, <1>3, <2>1, <2>2, <2>3, <2>5 DEF Lifecycle!Return
  <2> QED BY <2>4, <2>6, <2>7
<1>7. Phase' \in [Places -> Lifecycle!Phases]
  BY <1>6 DEF Phase
<1>8. lives' # lives
  BY <1>2 DEF BrokerTyped
<1>9. Lifecycle!Restart
  BY <1>6, <1>7, <1>8 DEF Lifecycle!Restart, Phase
<1> QED BY <1>9 DEF Lifecycle!Next

\* The Redis and the Kafka queue implement the contract of a queue for every value
\* they are given, a resent one counted twice: whatever crashes, lost answers, failed
\* and overtaken commits, foreign values and Close do to them, it runs at one worker
\* only, and after its handler has returned or it was lost it does not run again,
\* unless the process restarts and the value is behind the committed offset.
THEOREM Refinement == Spec => ImplementsLifecycle
<1>1. Init => Lifecycle!Init
  <2> SUFFICES ASSUME Init PROVE \A i \in Places : PhaseOf(i) = "new"
    BY DEF Lifecycle!Init
  <2>1. \A i \in Places : i > Len(log)
    BY BoundsAssumption DEF Init, Places
  <2> QED BY <2>1 DEF PhaseOf
<1>2. IInv /\ IInv' /\ [Next]_vars => [Lifecycle!Next]_Phase
  <2> SUFFICES ASSUME IInv, IInv', [Next]_vars
               PROVE  Lifecycle!Next \/ OnlyLoses \/ \E i \in Places : Advances(i)
    BY Advancing, Losing
  <2>1. ASSUME UNCHANGED <<log, next, handled, held, pc>> PROVE OnlyLoses
    BY <2>1, QuietStutters
  <2>2. ASSUME NEW e \in Entries, Add(e) \/ TaskRun(e) \/ TaskStop(e) \/ EnqueueFails(e)
        PROVE  OnlyLoses
    BY <2>1, <2>2 DEF Add, TaskRun, TaskStop, EnqueueFails, queueVars, workerVars
  <2>3. CASE Start \/ StartReturns \/ CancelScheduler \/ Cancel \/ Close \/ UNCHANGED vars
    BY <2>1, <2>3
       DEF Start, StartReturns, CancelScheduler, Cancel, Close, vars, queueVars, workerVars
  <2>4. ASSUME NEW e \in Entries, Enqueue(e) \/ EnqueueUnanswered(e)
        PROVE  \E i \in Places : Advances(i)
    BY <2>4, MessageTyped, GiveSubmits DEF Enqueue, EnqueueUnanswered, workerVars
  <2>5. CASE Foreign
    BY <2>5, GiveSubmits DEF Foreign, workerVars, Value
  <2> QED
    BY <2>2, <2>3, <2>4, <2>5, WorkerMoves, CrashRestarts DEF Next, TaskStep
<1> QED
  BY <1>1, <1>2, Invariance, PTL DEF Spec, ImplementsLifecycle, Lifecycle!Spec, Phase

=============================================================================
