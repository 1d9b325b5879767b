-------------------------- MODULE SQLBackendProofs --------------------------
(***************************************************************************)
(* What holds of SQLBackend for any number of nodes, workers, jobs, pool   *)
(* connections and faults.  The mutual exclusion of the workers rests on   *)
(* the status column alone, so the invariant ties what a worker holds to   *)
(* what the table says of it.  The same invariant makes every step a step  *)
(* of the contract, and a second one finds the fault behind a stuck row.   *)
(***************************************************************************)
EXTENDS SQLBackend, TLAPS

\* A worker between SELECT and the end of ack or retry holds a stored job.
HoldsStored ==
    \A w \in Workers : pc[w] \in {"claim", "handle", "ack", "retry"}
                          => held[w] \in inserted

\* An owned row is marked processing: no SELECT returns it, no claim matches it.
OwnedProcessing == \A w \in Workers, j \in Jobs : Owns(w, j) => status[j] = "processing"

\* A handled job is never queued again, and its owner can only be on the way to ack.
HandledSettled ==
    \A j \in succeeded :
        /\ status[j] # "queued"
        /\ \A w \in Workers : Owns(w, j) => pc[w] = "ack"

\* Only a handled job is acknowledged.
AckHandled == \A w \in Workers : pc[w] = "ack" => held[w] \in succeeded

\* Every row was inserted, and no other job was ever handled.
RowsInserted ==
    /\ \A j \in Jobs : status[j] # "absent" => j \in inserted
    /\ succeeded \subseteq inserted

Typed == TypeOK /\ HoldsStored /\ RowsInserted

Safe ==
    /\ OwnedProcessing
    /\ MutualExclusion
    /\ HandledSettled
    /\ AckHandled
    /\ NoSilentLoss

IInv == Typed /\ Safe

----------------------------------------------------------------------------
(* Types.                                                                   *)

\* The empty table and the idle workers have their types.
LEMMA TypedInit == Init => Typed
<1>1. ASSUME Init PROVE TypeOK
  <2>1. /\ once \in [Nodes -> BOOLEAN] /\ closed \in [Nodes -> BOOLEAN]
        /\ ctxDone \in [Workers -> BOOLEAN] /\ tableExists \in BOOLEAN
    BY <1>1 DEF Init
  <2>2. status \in [Jobs -> Statuses] /\ pc \in [Workers -> PCs]
    BY <1>1 DEF Init, Statuses, PCs
  <2> QED BY <1>1, <2>1, <2>2 DEF Init, TypeOK
<1>2. Init => HoldsStored
  BY DEF Init, HoldsStored
<1>3. Init => RowsInserted
  BY DEF Init, RowsInserted
<1> QED
  BY <1>1, <1>2, <1>3 DEF Typed

\* A statement changes faults only, and by at most one.
LEMMA CallType ==
  ASSUME NEW n, NEW c, NEW o, faults \in Nat, Call(n, c, o)
  PROVE  faults' \in Nat
  BY DEF Call

\* A node reads a natural number from its clock.
LEMMA ClockType ==
  ASSUME NEW n \in Nodes, now \in Nat
  PROVE  Clock(n) \in Nat
  BY NodesAssumption DEF Clock

\* Every step of RunWorker keeps the types, one case per action.
LEMMA TypedWorker ==
  ASSUME Typed, NEW w \in Workers, WorkerStep(w) \/ Stop(w) \/ Cancel(w)
  PROVE  Typed'
<1> NodeOf[w] \in Nodes
  BY NodesAssumption
<1>t. Clock(NodeOf[w]) \in Nat
  BY ClockType DEF Typed, TypeOK
<1> USE DEF Typed, TypeOK, HoldsStored, RowsInserted, Statuses, PCs
<1>1. CASE Poll(w)
  BY <1>1, <1>t DEF Poll, table, instance, history
<1>2. CASE SelectNothing(w)
  <2>1. faults' \in Nat
    BY <1>2, CallType DEF SelectNothing
  <2> QED BY <1>2, <2>1 DEF SelectNothing, table, instance, history
<1>3. ASSUME NEW j \in Jobs, SelectRow(w, j) PROVE Typed'
  <2>1. faults' \in Nat
    BY <1>3, CallType DEF SelectRow
  <2> QED BY <1>3, <2>1 DEF SelectRow, table, instance, history, Oldest, Due
<1>4. CASE Claim(w)
  <2>1. faults' \in Nat
    BY <1>4, CallType DEF Claim
  <2> QED BY <1>4, <2>1 DEF Claim, ClaimRow, instance
<1>5. CASE HandlerOk(w)
  BY <1>5 DEF HandlerOk, table, instance
<1>6. CASE HandlerErr(w)
  BY <1>6 DEF HandlerErr, table, instance, history
<1>7. ASSUME NEW o \in Outcomes, PollCreate(w, o) PROVE Typed'
  <2>1. faults' \in Nat
    BY <1>7, CallType DEF PollCreate, Create
  <2> QED BY <1>7, <1>t, <2>1 DEF PollCreate, Create, Applied, history
<1>8. ASSUME NEW o \in Outcomes, ClaimNothing(w, o) PROVE Typed'
  <2>1. faults' \in Nat
    BY <1>8, CallType DEF ClaimNothing
  <2> QED BY <1>8, <2>1 DEF ClaimNothing, ClaimRow, instance, history
<1>9. ASSUME NEW o \in Outcomes, Ack(w, o) PROVE Typed'
  <2>1. faults' \in Nat
    BY <1>9, CallType DEF Ack
  <2> QED BY <1>9, <2>1 DEF Ack, instance, history
<1>10. ASSUME NEW o \in Outcomes, Retry(w, o) PROVE Typed'
  <2>1. faults' \in Nat
    BY <1>10, CallType DEF Retry
  <2>2. Clock(NodeOf[w]) + RetryDelay \in Nat
    BY <1>t, BoundsAssumption
  <2> QED BY <1>10, <2>1, <2>2 DEF Retry, instance, history
<1>11. CASE Stop(w)
  BY <1>11 DEF Stop, table, instance, history
<1>12. CASE Cancel(w)
  BY <1>12 DEF Cancel, table, instance, history
<1> QED
  BY <1>1, <1>2, <1>3, <1>4, <1>5, <1>6, <1>7, <1>8, <1>9, <1>10, <1>11, <1>12
     DEF WorkerStep, Select

\* So do Enqueue, Close, and the end and the restart of a process.
LEMMA TypedNode ==
  ASSUME Typed, NEW n \in Nodes, NodeStep(n)
  PROVE  Typed'
<1>t. Clock(n) \in Nat
  BY ClockType DEF Typed, TypeOK
<1> USE DEF Typed, TypeOK, HoldsStored, RowsInserted, Statuses, PCs
<1>1. CASE CloseCheck(n)
  BY <1>1 DEF CloseCheck, table, worker, history
<1>2. CASE CloseDo(n)
  BY <1>2 DEF CloseDo, table, worker, history
<1>3. CASE ClosePanic(n) \/ Crash(n)
  BY <1>3 DEF ClosePanic, Crash, Kill, table, history
<1>4. CASE Restart(n)
  BY <1>4 DEF Restart, table, history
<1>5. ASSUME NEW o \in Outcomes, EnqueueCreate(n, o) PROVE Typed'
  <2>1. faults' \in Nat
    BY <1>5, CallType DEF EnqueueCreate, Create
  <2> QED BY <1>5, <2>1 DEF EnqueueCreate, Create, Applied, worker, history
<1>6. ASSUME NEW o \in Outcomes, NEW j \in Jobs, Enqueue(n, j, o) PROVE Typed'
  <2>1. faults' \in Nat
    BY <1>6, CallType DEF Enqueue, Insert
  <2> QED BY <1>6, <1>t, <2>1 DEF Enqueue, Insert, instance, worker
<1> QED
  BY <1>1, <1>2, <1>3, <1>4, <1>5, <1>6 DEF NodeStep

\* So does every step of the system.
LEMMA TypedNext == Typed /\ [Next]_vars => Typed'
<1> SUFFICES ASSUME Typed, [Next]_vars PROVE Typed'
  OBVIOUS
<1>1. CASE \E w \in Workers : WorkerStep(w) \/ Stop(w) \/ Cancel(w)
  BY <1>1, TypedWorker
<1>2. CASE \E n \in Nodes : NodeStep(n)
  BY <1>2, TypedNode
<1>3. CASE Tick
  BY <1>3 DEF Tick, Typed, TypeOK, HoldsStored, RowsInserted, table, instance, worker, history
<1>4. CASE UNCHANGED vars
  BY <1>4 DEF vars, table, instance, worker, history, Typed, TypeOK, HoldsStored, RowsInserted
<1> QED
  BY <1>1, <1>2, <1>3, <1>4 DEF Next, Quiet

\* Every variable of the backend keeps its type in every behaviour: row columns,
\* pool, Close and worker state (RunWorker, Enqueue, Close, crashes included).
THEOREM TypeCorrect == Spec => []TypeOK
<1>1. Spec => []Typed
  BY TypedInit, TypedNext, PTL DEF Spec
<1>2. Typed => TypeOK
  BY DEF Typed
<1> QED
  BY <1>1, <1>2, PTL

----------------------------------------------------------------------------
(* Safety.                                                                  *)

\* Nobody owns anything at the start.
LEMMA SafeInit == Init => Safe
  BY DEF Init, Safe, OwnedProcessing, MutualExclusion, HandledSettled,
         AckHandled, NoSilentLoss, Owns

\* The claim: the row was queued, so by OwnedProcessing nobody owned it.
LEMMA SafeClaim ==
  ASSUME IInv, NEW w \in Workers, Claim(w)
  PROVE  Safe'
<1> USE DEF IInv, Typed, TypeOK, HoldsStored, Claim, ClaimRow, Claimable, Owns
<1>1. held[w] \in Jobs /\ \A v \in Workers : ~Owns(v, held[w])
  BY DEF Safe, OwnedProcessing
<1>2. OwnedProcessing'
  BY DEF Safe, OwnedProcessing
<1>3. MutualExclusion'
  BY <1>1 DEF Safe, MutualExclusion
<1>4. HandledSettled' /\ AckHandled'
  BY DEF Safe, HandledSettled, AckHandled
<1>5. NoSilentLoss'
  BY DEF Safe, NoSilentLoss
<1> QED BY <1>2, <1>3, <1>4, <1>5 DEF Safe

\* A claim whose answer is lost marks the row and gives it to nobody.
LEMMA SafeClaimNothing ==
  ASSUME IInv, NEW w \in Workers, NEW o \in Outcomes, ClaimNothing(w, o)
  PROVE  Safe'
<1> USE DEF IInv, Typed, TypeOK, HoldsStored, ClaimNothing, ClaimRow, Claimable,
            Owns, history
<1>1. OwnedProcessing'
  BY DEF Safe, OwnedProcessing
<1>2. MutualExclusion'
  BY DEF Safe, MutualExclusion
<1>3. HandledSettled' /\ AckHandled'
  BY DEF Safe, HandledSettled, AckHandled
<1>4. NoSilentLoss'
  BY DEF Safe, NoSilentLoss
<1> QED BY <1>1, <1>2, <1>3, <1>4 DEF Safe

\* A handler that returns nil settles its job while its worker still owns it.
LEMMA SafeHandlerOk ==
  ASSUME IInv, NEW w \in Workers, HandlerOk(w)
  PROVE  Safe'
<1> USE DEF IInv, Typed, TypeOK, HoldsStored, HandlerOk, Owns, table
<1>1. OwnedProcessing' /\ MutualExclusion'
  BY DEF Safe, OwnedProcessing, MutualExclusion
<1>2. HandledSettled'
  BY DEF Safe, HandledSettled, OwnedProcessing, MutualExclusion
<1>3. AckHandled' /\ NoSilentLoss'
  BY DEF Safe, AckHandled, NoSilentLoss
<1> QED BY <1>1, <1>2, <1>3 DEF Safe

\* ack deletes a handled row; no other worker owned it.
LEMMA SafeAck ==
  ASSUME IInv, NEW w \in Workers, NEW o \in Outcomes, Ack(w, o)
  PROVE  Safe'
<1> USE DEF IInv, Typed, TypeOK, HoldsStored, Ack, Owns, history
<1>1. OwnedProcessing'
  BY DEF Safe, OwnedProcessing, MutualExclusion
<1>2. MutualExclusion'
  BY DEF Safe, MutualExclusion
<1>3. HandledSettled' /\ AckHandled'
  BY DEF Safe, HandledSettled, AckHandled
<1>4. NoSilentLoss'
  BY DEF Safe, NoSilentLoss, AckHandled
<1> QED BY <1>1, <1>2, <1>3, <1>4 DEF Safe

\* retry queues a row that was not handled and that no other worker owned.
LEMMA SafeRetry ==
  ASSUME IInv, NEW w \in Workers, NEW o \in Outcomes, Retry(w, o)
  PROVE  Safe'
<1> USE DEF IInv, Typed, TypeOK, HoldsStored, Retry, Owns, history
<1>1. OwnedProcessing'
  BY DEF Safe, OwnedProcessing, MutualExclusion
<1>2. MutualExclusion'
  BY DEF Safe, MutualExclusion
<1>3. held[w] \notin succeeded
  BY DEF Safe, HandledSettled
<1>4. HandledSettled' /\ AckHandled'
  BY <1>3 DEF Safe, HandledSettled, AckHandled
<1>5. NoSilentLoss'
  BY DEF Safe, NoSilentLoss
<1> QED BY <1>1, <1>2, <1>4, <1>5 DEF Safe

\* Steps that touch neither the table nor the history, and in which no worker
\* becomes the owner of a job or moves to ack, disturb nothing.
LEMMA SafeElsewhere ==
  ASSUME IInv, UNCHANGED <<status, inserted, succeeded>>,
         \A v \in Workers : \/ pc'[v] \notin {"handle", "ack", "retry"}
                            \/ pc'[v] = pc[v] /\ held'[v] = held[v]
  PROVE  Safe'
<1> USE DEF IInv, Typed, TypeOK, Owns
<1>1. OwnedProcessing'
  BY DEF Safe, OwnedProcessing
<1>2. MutualExclusion'
  BY DEF Safe, MutualExclusion
<1>3. HandledSettled' /\ AckHandled'
  BY DEF Safe, HandledSettled, AckHandled
<1>4. NoSilentLoss'
  BY DEF Safe, NoSilentLoss
<1> QED BY <1>1, <1>2, <1>3, <1>4 DEF Safe

\* A handler that fails leaves ownership and table as they are.
LEMMA SafeHandlerErr ==
  ASSUME IInv, NEW w \in Workers, HandlerErr(w)
  PROVE  Safe'
<1> USE DEF IInv, Typed, TypeOK, HoldsStored, HandlerErr, Owns, table, history
<1>1. OwnedProcessing' /\ MutualExclusion'
  BY DEF Safe, OwnedProcessing, MutualExclusion
<1>2. HandledSettled' /\ AckHandled'
  BY DEF Safe, HandledSettled, AckHandled
<1>3. NoSilentLoss'
  BY DEF Safe, NoSilentLoss
<1> QED BY <1>1, <1>2, <1>3 DEF Safe

\* Enqueue adds a row that nobody can own yet.
LEMMA SafeEnqueue ==
  ASSUME IInv, NEW n \in Nodes, NEW o \in Outcomes, NEW j \in Jobs, Enqueue(n, j, o)
  PROVE  Safe'
<1> USE DEF IInv, Typed, TypeOK, HoldsStored, RowsInserted, Enqueue, Insert, Owns, worker
<1>1. \A w \in Workers : ~Owns(w, j)
  OBVIOUS
<1>2. j \notin succeeded
  OBVIOUS
<1>3. OwnedProcessing' /\ MutualExclusion'
  BY <1>1 DEF Safe, OwnedProcessing, MutualExclusion
<1>4. HandledSettled' /\ AckHandled' /\ NoSilentLoss'
  BY <1>1, <1>2 DEF Safe, HandledSettled, AckHandled, NoSilentLoss
<1> QED BY <1>3, <1>4 DEF Safe

\* Every step of RunWorker preserves the safety invariant.
LEMMA SafeWorker ==
  ASSUME IInv, NEW w \in Workers, WorkerStep(w) \/ Stop(w) \/ Cancel(w)
  PROVE  Safe'
<1> USE DEF IInv, Typed, TypeOK
<1>1. CASE Poll(w)
  BY <1>1, SafeElsewhere DEF Poll, table, history
<1>2. CASE SelectNothing(w)
  BY <1>2, SafeElsewhere DEF SelectNothing, table, history
<1>3. ASSUME NEW j \in Jobs, SelectRow(w, j) PROVE Safe'
  BY <1>3, SafeElsewhere DEF SelectRow, table, history
<1>4. ASSUME NEW o \in Outcomes, PollCreate(w, o) PROVE Safe'
  BY <1>4, SafeElsewhere DEF PollCreate, history
<1>5. CASE Stop(w)
  BY <1>5, SafeElsewhere DEF Stop, table, history
<1>6. CASE Cancel(w)
  BY <1>6, SafeElsewhere DEF Cancel, table, history
<1> QED
  BY <1>1, <1>2, <1>3, <1>4, <1>5, <1>6, SafeClaim, SafeClaimNothing,
     SafeHandlerOk, SafeHandlerErr, SafeAck, SafeRetry
     DEF WorkerStep, Select

\* The death of a process ends its ownerships; the rows stay processing.
LEMMA SafeNode ==
  ASSUME IInv, NEW n \in Nodes, NodeStep(n)
  PROVE  Safe'
<1> USE DEF IInv, Typed, TypeOK
<1>1. CASE CloseCheck(n) \/ CloseDo(n)
  BY <1>1, SafeElsewhere DEF CloseCheck, CloseDo, table, worker, history
<1>2. CASE ClosePanic(n) \/ Crash(n)
  BY <1>2, SafeElsewhere DEF ClosePanic, Crash, Kill, table, history
<1>3. CASE Restart(n)
  BY <1>3, SafeElsewhere DEF Restart, table, history
<1>4. ASSUME NEW o \in Outcomes, EnqueueCreate(n, o) PROVE Safe'
  BY <1>4, SafeElsewhere DEF EnqueueCreate, worker, history
<1> QED
  BY <1>1, <1>2, <1>3, <1>4, SafeEnqueue DEF NodeStep

\* The invariant is inductive.
LEMMA Inductive == IInv /\ [Next]_vars => IInv'
<1> SUFFICES ASSUME IInv, [Next]_vars PROVE IInv'
  OBVIOUS
<1>1. Typed'
  BY TypedNext DEF IInv
<1>2. CASE \E w \in Workers : WorkerStep(w) \/ Stop(w) \/ Cancel(w)
  BY <1>1, <1>2, SafeWorker DEF IInv
<1>3. CASE \E n \in Nodes : NodeStep(n)
  BY <1>1, <1>3, SafeNode DEF IInv
<1>4. CASE Tick \/ UNCHANGED vars
  <2>1. UNCHANGED <<status, inserted, succeeded, pc, held>>
    BY <1>4 DEF Tick, vars, table, worker, history
  <2> QED BY <1>1, <2>1, SafeElsewhere DEF IInv
<1> QED
  BY <1>2, <1>3, <1>4 DEF Next, Quiet

\* The inductive invariant of the table and its workers: owned rows are
\* processing and have one owner, handled rows are never queued, and ack is only
\* reached by a handled job (claimNext, ack and retry in RunWorker).
THEOREM Invariance == Spec => []IInv
<1>1. Init => IInv
  BY TypedInit, SafeInit DEF IInv
<1> QED
  BY <1>1, Inductive, PTL DEF Spec

\* claimNext gives no job to two workers at a time, for any number of nodes and
\* workers and over every crash, retry, lost answer and cancelled context.
THEOREM Exclusive == Spec => []MutualExclusion
<1>1. IInv => MutualExclusion
  BY DEF IInv, Safe
<1> QED BY <1>1, Invariance, PTL

\* ack never deletes a row whose handler has not succeeded.
THEOREM NothingLost == Spec => []NoSilentLoss
<1>1. IInv => NoSilentLoss
  BY DEF IInv, Safe
<1> QED BY <1>1, Invariance, PTL

\* Only a claim calls a handler, and a claim finds the row queued.
LEMMA RerunStep ==
  ASSUME IInv, [Next]_vars, NEW j \in succeeded
  PROVE  runs'[j] = runs[j]
<1>1. CASE \E w \in Workers : Claim(w)
  <2>1. PICK w \in Workers : Claim(w)
    BY <1>1
  <2>2. held[w] # j
    BY <2>1 DEF IInv, Safe, HandledSettled, Claim, Claimable
  <2> QED BY <2>1, <2>2 DEF Claim, IInv, Typed, TypeOK
<1>2. CASE ~\E w \in Workers : Claim(w)
  <2>1. CASE \E w \in Workers : WorkerStep(w) \/ Stop(w) \/ Cancel(w)
    BY <1>2, <2>1 DEF WorkerStep, Select, Poll, SelectNothing, SelectRow, HandlerOk,
       HandlerErr, PollCreate, ClaimNothing, Ack, Retry, Stop, Cancel, history
  <2>2. CASE \E n \in Nodes : NodeStep(n)
    BY <2>2 DEF NodeStep, CloseCheck, CloseDo, ClosePanic, Crash, Kill, Restart,
       EnqueueCreate, Enqueue, history
  <2>3. CASE Tick \/ UNCHANGED vars
    BY <2>3 DEF Tick, vars, history
  <2> QED BY <2>1, <2>2, <2>3 DEF Next, Quiet
<1> QED BY <1>1, <1>2

\* A message whose handler returned nil is never given to a handler again, even
\* when the ack that follows is lost, fails, or never sent.
THEOREM HandledOnce == Spec => HandledNeverRerun
<1>1. IInv /\ [Next]_vars => [\A j \in succeeded : runs'[j] = runs[j]]_vars
  BY RerunStep
<1> QED BY <1>1, Invariance, PTL DEF Spec, HandledNeverRerun

----------------------------------------------------------------------------
(* The contract of a queue (JobLifecycle): each step of the backend moves   *)
(* at most one message along its life cycle, or loses a set of messages.    *)

Phase == [j \in Jobs |-> PhaseOf(j)]

\* A message goes one step along its life cycle while the others stay.
Advances(j) ==
    /\ \A k \in Jobs \ {j} : Phase'[k] = Phase[k]
    /\ \/ Phase[j] = "new"     /\ Phase'[j] = "ready"
       \/ Phase[j] = "ready"   /\ Phase'[j] = "running"
       \/ Phase[j] = "running" /\ Phase'[j] \in {"ready", "done"}

\* Every message stays where it is or is lost to all workers.
OnlyLoses ==
    \A k \in Jobs : \/ Phase'[k] = Phase[k]
                    \/ Phase[k] \in {"ready", "running"} /\ Phase'[k] = "dead"

\* A step that moves one message on is one of the contract's.
LEMMA Advancing ==
  ASSUME NEW j \in Jobs, Advances(j)
  PROVE  Lifecycle!Next
<1>1. Phase' = [Phase EXCEPT ![j] = Phase'[j]]
  BY DEF Advances, Phase
<1>2. Lifecycle!Submit(j) \/ Lifecycle!Start(j) \/ Lifecycle!Fail(j) \/ Lifecycle!Succeed(j)
  BY <1>1 DEF Advances, Phase, Lifecycle!Submit, Lifecycle!Start, Lifecycle!Fail, Lifecycle!Succeed
<1> QED BY <1>2 DEF Lifecycle!Next

\* So is a step that loses messages; one that loses none is invisible.
LEMMA Losing ==
  ASSUME OnlyLoses
  PROVE  Lifecycle!Next \/ UNCHANGED Phase
<1> DEFINE S == {k \in Jobs : Phase'[k] # Phase[k]}
<1>1. CASE S = {}
  BY <1>1 DEF Phase
<1>2. CASE S # {}
  <2>1. S \in SUBSET {k \in Jobs : Phase[k] \in {"ready", "running"}}
    BY DEF OnlyLoses
  <2>2. Phase' = [k \in Jobs |-> IF k \in S THEN "dead" ELSE Phase[k]]
    BY DEF OnlyLoses, Phase
  <2>3. Lifecycle!Lose
    BY <1>2, <2>1, <2>2 DEF Lifecycle!Lose, Phase
  <2> QED BY <2>3 DEF Lifecycle!Next
<1> QED BY <1>1, <1>2

\* The phase of a message depends on its row, its owners and its history alone.
LEMMA SamePhase ==
  ASSUME NEW k \in Jobs, status'[k] = status[k],
         k \in inserted' <=> k \in inserted, k \in succeeded' <=> k \in succeeded,
         \A w \in Workers : Owns(w, k)' <=> Owns(w, k)
  PROVE  PhaseOf(k)' = PhaseOf(k)
<1>1. Stranded(k)' <=> Stranded(k)
  BY DEF Stranded
<1> QED BY <1>1 DEF PhaseOf

----------------------------------------------------------------------------
(* The steps of the backend.                                                *)

\* The claim that finds the row queued starts the handler.
LEMMA ClaimStarts ==
  ASSUME IInv, NEW w \in Workers, Claim(w)
  PROVE  Lifecycle!Next
<1> USE DEF IInv, Typed, TypeOK, Claim, ClaimRow, Claimable, Owns
<1>1. PICK j \in Jobs : held[w] = j /\ j \in inserted /\ j \notin succeeded
  BY DEF HoldsStored, Safe, HandledSettled
<1>2. PhaseOf(j) = "ready"
  BY <1>1 DEF PhaseOf
<1>3. PhaseOf(j)' = "running"
  BY <1>1 DEF PhaseOf, Stranded
<1>4. \A k \in Jobs \ {j} : PhaseOf(k)' = PhaseOf(k)
  BY <1>1, SamePhase
<1>5. Advances(j)
  BY <1>2, <1>3, <1>4 DEF Advances, Phase
<1> QED BY <1>1, <1>5, Advancing

\* A claim whose answer is lost leaves the row processing without an owner: the
\* message is lost.  A claim that finds the row taken changes nothing.
LEMMA ClaimNothingLoses ==
  ASSUME IInv, NEW w \in Workers, NEW o \in Outcomes, ClaimNothing(w, o)
  PROVE  OnlyLoses
<1> USE DEF IInv, Typed, TypeOK, ClaimNothing, ClaimRow, Claimable, Owns, history
<1>1. PICK j \in Jobs : held[w] = j /\ j \in inserted
  BY DEF HoldsStored
<1>2. \A k \in Jobs \ {j} : PhaseOf(k)' = PhaseOf(k)
  BY <1>1, SamePhase
<1>3. CASE Applied(o) /\ Claimable(j)
  <2>1. j \notin succeeded
    BY <1>3 DEF Safe, HandledSettled
  <2>2. PhaseOf(j) = "ready"
    BY <1>1, <1>3, <2>1 DEF PhaseOf
  <2>3. \A v \in Workers : ~Owns(v, j)'
    BY <1>1, <1>3 DEF Safe, OwnedProcessing
  <2>4. PhaseOf(j)' = "dead"
    BY <1>1, <1>3, <2>1, <2>3 DEF PhaseOf, Stranded
  <2> QED BY <1>2, <2>2, <2>4 DEF OnlyLoses, Phase
<1>4. CASE ~(Applied(o) /\ Claimable(j))
  <2>1. PhaseOf(j)' = PhaseOf(j)
    BY <1>1, <1>4, SamePhase
  <2> QED BY <1>2, <2>1 DEF OnlyLoses, Phase
<1> QED BY <1>3, <1>4

\* A handler that returns nil succeeds.
LEMMA HandlerOkSucceeds ==
  ASSUME IInv, NEW w \in Workers, HandlerOk(w)
  PROVE  Lifecycle!Next
<1> USE DEF IInv, Typed, TypeOK, HandlerOk, Owns, table
<1>1. PICK j \in Jobs : held[w] = j /\ j \in inserted /\ j \notin succeeded
  BY DEF HoldsStored, Safe, HandledSettled
<1>2. PhaseOf(j) = "running"
  BY <1>1 DEF PhaseOf, Stranded, Safe, OwnedProcessing
<1>3. PhaseOf(j)' = "done"
  BY <1>1 DEF PhaseOf
<1>4. \A k \in Jobs \ {j} : PhaseOf(k)' = PhaseOf(k)
  BY <1>1, SamePhase
<1>5. Advances(j)
  BY <1>2, <1>3, <1>4 DEF Advances, Phase
<1> QED BY <1>1, <1>5, Advancing

\* The DELETE of a handled message is invisible, whatever becomes of it.
LEMMA AckStutters ==
  ASSUME IInv, NEW w \in Workers, NEW o \in Outcomes, Ack(w, o)
  PROVE  OnlyLoses
<1> USE DEF IInv, Typed, TypeOK, Ack, Owns, history
<1>1. PICK j \in Jobs : held[w] = j /\ j \in succeeded
  BY DEF HoldsStored, Safe, AckHandled
<1>2. PhaseOf(j)' = PhaseOf(j)
  BY <1>1 DEF PhaseOf
<1>3. \A k \in Jobs \ {j} : PhaseOf(k)' = PhaseOf(k)
  BY <1>1, SamePhase
<1> QED BY <1>2, <1>3 DEF OnlyLoses, Phase

\* retry puts the message back; a retry without effect strands it.
LEMMA RetryFailsOrLoses ==
  ASSUME IInv, NEW w \in Workers, NEW o \in Outcomes, Retry(w, o)
  PROVE  Lifecycle!Next \/ OnlyLoses
<1> USE DEF IInv, Typed, TypeOK, Retry, Owns, history
<1>1. PICK j \in Jobs : held[w] = j /\ j \in inserted /\ j \notin succeeded
  BY DEF HoldsStored, Safe, HandledSettled
<1>2. status[j] = "processing"
  BY <1>1 DEF Safe, OwnedProcessing
<1>3. PhaseOf(j) = "running"
  BY <1>1, <1>2 DEF PhaseOf, Stranded
<1>4. \A k \in Jobs \ {j} : PhaseOf(k)' = PhaseOf(k)
  BY <1>1, SamePhase
<1>5. CASE Applied(o)
  <2>1. PhaseOf(j)' = "ready"
    BY <1>1, <1>2, <1>5 DEF PhaseOf
  <2>2. Advances(j)
    BY <1>3, <1>4, <2>1 DEF Advances, Phase
  <2> QED BY <1>1, <2>2, Advancing
<1>6. CASE ~Applied(o)
  <2>1. \A v \in Workers : ~Owns(v, j)'
    BY <1>1 DEF Safe, MutualExclusion
  <2>2. PhaseOf(j)' = "dead"
    BY <1>1, <1>2, <1>6, <2>1 DEF PhaseOf, Stranded
  <2> QED BY <1>3, <1>4, <2>2 DEF OnlyLoses, Phase
<1> QED BY <1>5, <1>6

\* Enqueue submits the message.
LEMMA EnqueueSubmits ==
  ASSUME IInv, NEW n \in Nodes, NEW o \in Outcomes, NEW j \in Jobs, Enqueue(n, j, o)
  PROVE  Lifecycle!Next
<1> USE DEF IInv, Typed, TypeOK, Enqueue, Insert, Owns, worker
<1>1. PhaseOf(j) = "new" /\ PhaseOf(j)' = "ready"
  BY DEF PhaseOf, RowsInserted
<1>2. \A k \in Jobs \ {j} : PhaseOf(k)' = PhaseOf(k)
  BY SamePhase
<1>3. Advances(j)
  BY <1>1, <1>2 DEF Advances, Phase
<1> QED BY <1>3, Advancing

\* A step that only takes ownerships away loses the messages that were owned:
\* the end of a process, and every step that leaves table and owners alone.
LEMMA Disowning ==
  ASSUME IInv, UNCHANGED <<status, inserted, succeeded>>,
         \A v \in Workers : \/ pc'[v] \notin {"handle", "ack", "retry"}
                            \/ /\ held'[v] = held[v]
                               /\ pc[v] \in {"handle", "ack", "retry"}
  PROVE  OnlyLoses
<1> SUFFICES ASSUME NEW k \in Jobs
             PROVE  \/ PhaseOf(k)' = PhaseOf(k)
                    \/ PhaseOf(k) \in {"ready", "running"} /\ PhaseOf(k)' = "dead"
  BY DEF OnlyLoses, Phase
<1>1. \A v \in Workers : Owns(v, k)' => Owns(v, k)
  BY DEF Owns
<1>2. CASE Stranded(k) \/ ~Stranded(k)'
  BY <1>1, <1>2 DEF PhaseOf, Stranded
<1>3. CASE ~Stranded(k) /\ Stranded(k)'
  BY <1>1, <1>3 DEF PhaseOf, Stranded
<1> QED BY <1>2, <1>3

\* Every step of RunWorker is a step of the contract or invisible to it.
LEMMA WorkerSimulates ==
  ASSUME IInv, NEW w \in Workers, WorkerStep(w) \/ Stop(w) \/ Cancel(w)
  PROVE  Lifecycle!Next \/ OnlyLoses
<1> USE DEF IInv, Typed, TypeOK
<1>1. CASE Poll(w)
  BY <1>1, Disowning DEF Poll, table, history
<1>2. CASE SelectNothing(w)
  BY <1>2, Disowning DEF SelectNothing, table, history
<1>3. ASSUME NEW j \in Jobs, SelectRow(w, j) PROVE OnlyLoses
  BY <1>3, Disowning DEF SelectRow, table, history
<1>4. ASSUME NEW o \in Outcomes, PollCreate(w, o) PROVE OnlyLoses
  BY <1>4, Disowning DEF PollCreate, history
<1>5. CASE HandlerErr(w)
  BY <1>5, Disowning DEF HandlerErr, table, history
<1>6. CASE Stop(w)
  BY <1>6, Disowning DEF Stop, table, history
<1>7. CASE Cancel(w)
  BY <1>7, Disowning DEF Cancel, table, history
<1> QED
  BY <1>1, <1>2, <1>3, <1>4, <1>5, <1>6, <1>7, ClaimStarts, ClaimNothingLoses,
     HandlerOkSucceeds, AckStutters, RetryFailsOrLoses DEF WorkerStep, Select

\* So is every step of Enqueue and Close, a crash and a restart.
LEMMA NodeSimulates ==
  ASSUME IInv, NEW n \in Nodes, NodeStep(n)
  PROVE  Lifecycle!Next \/ OnlyLoses
<1> USE DEF IInv, Typed, TypeOK
<1>1. CASE CloseCheck(n) \/ CloseDo(n)
  BY <1>1, Disowning DEF CloseCheck, CloseDo, table, worker, history
<1>2. CASE ClosePanic(n) \/ Crash(n)
  BY <1>2, Disowning DEF ClosePanic, Crash, Kill, table, history
<1>3. CASE Restart(n)
  BY <1>3, Disowning DEF Restart, table, history
<1>4. ASSUME NEW o \in Outcomes, EnqueueCreate(n, o) PROVE OnlyLoses
  BY <1>4, Disowning DEF EnqueueCreate, worker, history
<1> QED
  BY <1>1, <1>2, <1>3, <1>4, EnqueueSubmits DEF NodeStep

\* And every step of the whole system.
LEMMA Simulates == IInv /\ [Next]_vars => [Lifecycle!Next]_Phase
<1> SUFFICES ASSUME IInv, [Next]_vars PROVE Lifecycle!Next \/ OnlyLoses
  BY Losing
<1>1. CASE \E w \in Workers : WorkerStep(w) \/ Stop(w) \/ Cancel(w)
  BY <1>1, WorkerSimulates
<1>2. CASE \E n \in Nodes : NodeStep(n)
  BY <1>2, NodeSimulates
<1>3. CASE Tick \/ UNCHANGED vars
  BY <1>3, SamePhase DEF Tick, vars, table, worker, history, OnlyLoses, Phase, Owns
<1> QED
  BY <1>1, <1>2, <1>3 DEF Next, Quiet

\* The SQL backend implements the contract of a queue: whatever the workers, the
\* clocks, lost answers, cancellations, crashes and restarts do, a message is
\* submitted once, runs at one worker at a time, goes back only from a failed run,
\* and once done or dead stays so (Enqueue, claimNext, ack, retry, Close).
THEOREM Refinement == Spec => ImplementsLifecycle
<1>1. Init => Lifecycle!Init
  BY DEF Init, Lifecycle!Init, PhaseOf
<1>2. IInv /\ [Next]_vars => [Lifecycle!Next]_Phase
  BY Simulates
<1> QED
  BY <1>1, <1>2, Invariance, PTL DEF Spec, ImplementsLifecycle, Lifecycle!Spec, Phase

----------------------------------------------------------------------------
(* Stranded rows.                                                           *)

\* Before the first fault no process has ended and no context is done, so a
\* statement that has no effect counts as a fault.
FaultFree == faults = 0 => \A w \in Workers : pc[w] # "down" /\ ~ctxDone[w]

StrandInv == FaultFree /\ StrandedOnlyByFault

\* A statement of a live context that does not simply succeed is a fault.
LEMMA CallFault ==
  ASSUME faults \in Nat, NEW n, NEW c, NEW o, Call(n, c, o), faults' = 0
  PROVE  faults = 0 /\ (~c => o = "done")
  BY DEF Call

\* Before the first fault, ownership passes from claimNext to ack or retry and
\* every statement on the way takes effect, so RunWorker strands nothing.
LEMMA StrandWorker ==
  ASSUME IInv, StrandInv, faults' = 0,
         NEW w \in Workers, WorkerStep(w) \/ Stop(w) \/ Cancel(w)
  PROVE  StrandInv'
<1> USE DEF IInv, Typed, TypeOK, StrandInv, FaultFree, StrandedOnlyByFault, Stranded, Owns
<1>1. CASE Poll(w)
  BY <1>1 DEF Poll, table, history, instance
<1>2. CASE SelectNothing(w)
  <2>1. faults = 0
    BY <1>2, CallFault DEF SelectNothing
  <2> QED BY <1>2, <2>1 DEF SelectNothing, table, history
<1>3. ASSUME NEW j \in Jobs, SelectRow(w, j) PROVE StrandInv'
  <2>1. faults = 0
    BY <1>3, CallFault DEF SelectRow
  <2> QED BY <1>3, <2>1 DEF SelectRow, table, history
<1>4. ASSUME NEW o \in Outcomes, PollCreate(w, o) PROVE StrandInv'
  <2>1. faults = 0
    BY <1>4, CallFault DEF PollCreate, Create
  <2> QED BY <1>4, <2>1 DEF PollCreate, history
<1>5. CASE Claim(w)
  <2>1. faults = 0
    BY <1>5, CallFault DEF Claim
  <2> QED BY <1>5, <2>1 DEF Claim, ClaimRow, Claimable, HoldsStored
<1>6. ASSUME NEW o \in Outcomes, ClaimNothing(w, o) PROVE StrandInv'
  <2>1. faults = 0 /\ o = "done"
    BY <1>6, CallFault DEF ClaimNothing
  <2>2. ~Claimable(held[w])
    BY <1>6, <2>1 DEF ClaimNothing
  <2> QED BY <1>6, <2>1, <2>2 DEF ClaimNothing
<1>7. CASE HandlerOk(w)
  BY <1>7 DEF HandlerOk, table
<1>8. CASE HandlerErr(w)
  BY <1>8 DEF HandlerErr, table
<1>9. ASSUME NEW o \in Outcomes, Ack(w, o) PROVE StrandInv'
  <2>1. faults = 0 /\ o = "done"
    BY <1>9, CallFault DEF Ack
  <2>2. held[w] \in Jobs /\ status' = [status EXCEPT ![held[w]] = "absent"]
    BY <1>9, <2>1 DEF Ack, Applied, HoldsStored
  <2> QED BY <1>9, <2>1, <2>2 DEF Ack
<1>10. ASSUME NEW o \in Outcomes, Retry(w, o) PROVE StrandInv'
  <2>1. faults = 0 /\ o = "done"
    BY <1>10, CallFault DEF Retry
  <2>2. held[w] \in Jobs /\ status[held[w]] = "processing"
    BY <1>10 DEF Retry, HoldsStored, Safe, OwnedProcessing
  <2>3. status' = [status EXCEPT ![held[w]] = "queued"]
    BY <1>10, <2>1, <2>2 DEF Retry, Applied
  <2> QED BY <1>10, <2>1, <2>2, <2>3 DEF Retry
<1>11. CASE Stop(w)
  BY <1>11 DEF Stop, table
<1>12. CASE Cancel(w)
  BY <1>12 DEF Cancel
<1> QED
  BY <1>1, <1>2, <1>3, <1>4, <1>5, <1>6, <1>7, <1>8, <1>9, <1>10, <1>11, <1>12
     DEF WorkerStep, Select

\* Enqueue and Close own nothing; the end of a process is a fault.
LEMMA StrandNode ==
  ASSUME IInv, StrandInv, faults' = 0, NEW n \in Nodes, NodeStep(n)
  PROVE  StrandInv'
<1> USE DEF IInv, Typed, TypeOK, StrandInv, FaultFree, StrandedOnlyByFault, Stranded, Owns
<1>1. CASE CloseCheck(n) \/ CloseDo(n)
  BY <1>1 DEF CloseCheck, CloseDo, table, worker
<1>2. CASE ClosePanic(n) \/ Crash(n)
  BY <1>2 DEF ClosePanic, Crash, Kill
<1>3. CASE Restart(n)
  BY <1>3 DEF Restart, Down
<1>4. ASSUME NEW o \in Outcomes, EnqueueCreate(n, o) PROVE StrandInv'
  <2>1. faults = 0
    BY <1>4, CallFault DEF EnqueueCreate, Create
  <2> QED BY <1>4, <2>1 DEF EnqueueCreate, worker
<1>5. ASSUME NEW o \in Outcomes, NEW j \in Jobs, Enqueue(n, j, o) PROVE StrandInv'
  <2>1. faults = 0
    BY <1>5, CallFault DEF Enqueue, Insert
  <2> QED BY <1>5, <2>1 DEF Enqueue, Insert, worker
<1> QED
  BY <1>1, <1>2, <1>3, <1>4, <1>5 DEF NodeStep

\* So nothing is stranded by any step before the first fault.
LEMMA StrandNext == IInv /\ StrandInv /\ [Next]_vars => StrandInv'
<1> SUFFICES ASSUME IInv, StrandInv, [Next]_vars PROVE StrandInv'
  OBVIOUS
<1>0. CASE faults' # 0
  <2>1. faults' \in Nat
    BY Inductive DEF IInv, Typed, TypeOK
  <2> QED BY <1>0, <2>1 DEF StrandInv, FaultFree, StrandedOnlyByFault
<1>1. CASE faults' = 0 /\ \E w \in Workers : WorkerStep(w) \/ Stop(w) \/ Cancel(w)
  BY <1>1, StrandWorker
<1>2. CASE faults' = 0 /\ \E n \in Nodes : NodeStep(n)
  BY <1>2, StrandNode
<1>3. CASE Tick \/ UNCHANGED vars
  BY <1>3 DEF Tick, vars, table, worker, StrandInv, FaultFree, StrandedOnlyByFault,
              Stranded, Owns
<1> QED
  BY <1>0, <1>1, <1>2, <1>3 DEF Next, Quiet

\* Only a failed statement, a cancelled context or the end of a process leaves a
\* row in processing with nobody to finish it: ack and retry cover every way out
\* of the handler.
THEOREM StrandedAfterFault == Spec => []StrandedOnlyByFault
<1>1. Init => StrandInv
  BY DEF Init, StrandInv, FaultFree, StrandedOnlyByFault, Stranded
<1>2. StrandInv => StrandedOnlyByFault
  BY DEF StrandInv
<1> QED
  BY <1>1, <1>2, StrandNext, Invariance, PTL DEF Spec

=============================================================================
