------------------------- MODULE InMemoryQueueProofs -------------------------
(***************************************************************************)
(* The in-memory queue keeps the contract of a queue for any number of     *)
(* messages, workers and buffer size.  A message has one place: with its   *)
(* Enqueue call, in the channel, with one worker, or behind a handler.     *)
(***************************************************************************)
EXTENDS InMemoryQueue, TLAPS

CallStates == {"idle", "sending", "sent", "cancelled", "refused"}

TypeOK ==
    /\ closed \in BOOLEAN
    /\ ch \in Seq(Jobs)
    /\ call \in [Jobs -> CallStates]
    /\ callCtx \subseteq Jobs
    /\ pc \in [Workers -> {"receive", "handle", "stopped"}]
    /\ held \in [Workers -> Jobs \cup {NoJob}]
    /\ ctxDone \subseteq Workers
    /\ crashed \in BOOLEAN
    /\ handled \subseteq Jobs
    /\ dropped \subseteq Jobs

\* The handler has returned for message j.
Over(j) == j \in handled \cup dropped

\* What has left its Enqueue call is a message that was sent.
Sent(j) == call[j] = "sent"

\* The channel holds each message at most once, and only sent ones that no
\* worker has and no handler has seen.
Buffered ==
    /\ \A i \in 1..Len(ch) : Sent(ch[i]) /\ ~Over(ch[i])
    /\ \A i, k \in 1..Len(ch) : ch[i] = ch[k] => i = k
    /\ \A i \in 1..Len(ch), w \in Workers : held[w] # ch[i]

\* A worker has a message exactly while it is at its handler, and alone.
HeldOnce ==
    /\ \A w \in Workers : held[w] # NoJob <=> pc[w] = "handle"
    /\ \A w \in Workers : held[w] # NoJob => Sent(held[w]) /\ ~Over(held[w])
    /\ \A v, w \in Workers : held[v] # NoJob /\ held[v] = held[w] => v = w

\* A handler sees only sent messages.
OverSent == \A j \in Jobs : Over(j) => Sent(j)

IInv == TypeOK /\ Buffered /\ HeldOnce /\ OverSent

----------------------------------------------------------------------------
(* The invariant.                                                           *)

\* The queue of NewInMemoryQueue is empty and no call is under way.
LEMMA InitHolds == Init => IInv
<1> SUFFICES ASSUME Init PROVE IInv
  OBVIOUS
<1> USE DEF Init
<1>1. TypeOK
  <2>1. closed \in BOOLEAN /\ crashed \in BOOLEAN
    OBVIOUS
  <2>2. ch \in Seq(Jobs) /\ call \in [Jobs -> CallStates]
    BY DEF CallStates
  <2> QED BY <2>1, <2>2 DEF TypeOK
<1>2. Len(ch) = 0
  OBVIOUS
<1> QED BY <1>1, <1>2 DEF IInv, Buffered, HeldOnce, OverSent, Over

\* Steps that leave the channel, the handlers and the sent messages alone.
LEMMA CallHolds ==
  ASSUME IInv, TypeOK', UNCHANGED <<ch, held, handled, dropped>>,
         \A j \in Jobs : Sent(j)' <=> Sent(j),
         \A w \in Workers : pc'[w] = "handle" <=> pc[w] = "handle"
  PROVE  IInv'
<1> USE DEF IInv, TypeOK
<1>1. \A i \in 1..Len(ch) : ch[i] \in Jobs
  OBVIOUS
<1>2. Buffered'
  BY <1>1 DEF Buffered, Over
<1>3. HeldOnce'
  BY DEF HeldOnce, Over
<1>4. OverSent'
  BY DEF OverSent, Over
<1> QED BY <1>2, <1>3, <1>4

\* The select of Enqueue sends: the message was nowhere else.
LEMMA SendHolds ==
  ASSUME IInv, NEW j \in Jobs, EnqueueSend(j)
  PROVE  IInv'
<1> USE DEF IInv, EnqueueSend
<1>1. TypeOK'
  BY DEF TypeOK, CallStates
<1>2. ~Sent(j) /\ ~Over(j) /\ \A w \in Workers : held[w] # j
  BY NoJobAssumption DEF Sent, OverSent, HeldOnce, TypeOK
<1>3. /\ Len(ch') = Len(ch) + 1 /\ ch'[Len(ch) + 1] = j
      /\ \A i \in 1..Len(ch) : ch'[i] = ch[i] /\ ch[i] \in Jobs /\ ch[i] # j
  BY <1>2 DEF TypeOK, Buffered
<1>4. \A k \in Jobs : Sent(k)' <=> Sent(k) \/ k = j
  BY DEF Sent, TypeOK
<1>5. \A i \in 1..Len(ch') : i \in 1..Len(ch) \/ i = Len(ch) + 1
  BY <1>3 DEF TypeOK
<1>6. Buffered'
  <2>1. (\A i \in 1..Len(ch) : Sent(ch[i]) /\ ~Over(ch[i]))'
    BY <1>2, <1>3, <1>5 DEF Buffered, Sent, Over, TypeOK
  <2>2. \A i, k \in 1..Len(ch') : ch'[i] = ch'[k] => i = k
    BY <1>3, <1>5 DEF Buffered
  <2>3. \A i \in 1..Len(ch'), w \in Workers : held'[w] # ch'[i]
    BY <1>2, <1>3, <1>5 DEF Buffered
  <2> QED BY <2>1, <2>2, <2>3 DEF Buffered
<1>7. HeldOnce'
  BY <1>4 DEF HeldOnce, Over, TypeOK
<1>8. OverSent'
  BY <1>4 DEF OverSent, Over
<1> QED BY <1>1, <1>6, <1>7, <1>8

\* What the head of a channel is, and what receiving it leaves.
LEMMA HeadTail ==
  ASSUME NEW S, NEW s \in Seq(S), s # <<>>
  PROVE  /\ Head(s) = s[1] /\ 1 \in 1..Len(s) /\ s[1] \in S
         /\ Tail(s) \in Seq(S) /\ Len(Tail(s)) = Len(s) - 1 /\ Len(s) \in Nat \ {0}
         /\ \A i \in 1..Len(Tail(s)) : Tail(s)[i] = s[i + 1] /\ i + 1 \in 1..Len(s)
  OBVIOUS

\* A receive moves the oldest message from the channel to the worker.
LEMMA ReceiveHolds ==
  ASSUME IInv, NEW w \in Workers, Receive(w)
  PROVE  IInv'
<1> USE DEF IInv, Receive
<1>1. ch \in Seq(Jobs) /\ ch # <<>>
  BY DEF TypeOK
<1>2. /\ Head(ch) = ch[1] /\ 1 \in 1..Len(ch) /\ ch[1] \in Jobs
      /\ ch' \in Seq(Jobs) /\ Len(ch') = Len(ch) - 1 /\ Len(ch) \in Nat \ {0}
      /\ \A i \in 1..Len(ch') : ch'[i] = ch[i + 1] /\ i + 1 \in 1..Len(ch)
  BY <1>1, HeadTail
<1>3. TypeOK'
  BY <1>2 DEF TypeOK
<1>4. ch[1] # NoJob /\ Sent(ch[1]) /\ ~Over(ch[1]) /\ \A v \in Workers : held[v] # ch[1]
  BY <1>2, NoJobAssumption DEF Buffered
<1>5. \A i \in 1..Len(ch') : ch'[i] # ch[1]
  BY <1>2 DEF Buffered
<1>6. held' = [held EXCEPT ![w] = ch[1]]
  BY <1>2
<1>7. Buffered'
  <2>1. (\A i \in 1..Len(ch) : Sent(ch[i]) /\ ~Over(ch[i]))'
    BY <1>2 DEF Buffered, Sent, Over
  <2>2. \A i, k \in 1..Len(ch') : ch'[i] = ch'[k] => i = k
    BY <1>2 DEF Buffered
  <2>3. \A i \in 1..Len(ch'), v \in Workers : held'[v] # ch'[i]
    BY <1>2, <1>5, <1>6 DEF Buffered, TypeOK
  <2> QED BY <2>1, <2>2, <2>3 DEF Buffered
<1>8. HeldOnce'
  BY <1>4, <1>6 DEF HeldOnce, Sent, Over, TypeOK
<1>9. OverSent'
  BY DEF OverSent, Sent, Over
<1> QED BY <1>3, <1>7, <1>8, <1>9

\* The handler returns and the worker lets go of the message.
LEMMA HandlerHolds ==
  ASSUME IInv, NEW w \in Workers, NEW ok \in BOOLEAN, HandlerReturns(w, ok)
  PROVE  IInv'
<1> USE DEF IInv, HandlerReturns
<1>1. held[w] \in Jobs /\ Sent(held[w])
  BY DEF HeldOnce, TypeOK
<1>2. TypeOK'
  BY <1>1 DEF TypeOK
<1>3. \A j : Over(j)' <=> Over(j) \/ j = held[w]
  BY DEF Over
<1>4. Buffered'
  <2>1. ch' = ch /\ call' = call
    OBVIOUS
  <2>2. \A i \in 1..Len(ch) : ch[i] # held[w]
    BY DEF Buffered
  <2>3. (\A i \in 1..Len(ch) : Sent(ch[i]) /\ ~Over(ch[i]))'
    BY <2>1, <2>2 DEF Buffered, Sent, Over
  <2>4. \A i \in 1..Len(ch), v \in Workers : held'[v] # ch[i]
    <3>1. \A i \in 1..Len(ch) : ch[i] \in Jobs
      BY DEF TypeOK
    <3> QED BY <3>1, NoJobAssumption DEF Buffered, TypeOK
  <2> QED BY <2>1, <2>3, <2>4 DEF Buffered
<1>5. HeldOnce'
  BY <1>1, <1>3 DEF HeldOnce, Sent, TypeOK
<1>6. OverSent'
  BY <1>1, <1>3 DEF OverSent, Sent
<1> QED BY <1>2, <1>4, <1>5, <1>6

\* The invariant is inductive.
LEMMA Inductive == IInv /\ [Next]_vars => IInv'
<1> SUFFICES ASSUME IInv, [Next]_vars PROVE IInv'
  OBVIOUS
<1> USE DEF IInv
<1>1. ASSUME NEW j \in Jobs, \/ EnqueueCheck(j) \/ EnqueueCancelled(j)
                             \/ EnqueuePanics(j) \/ CancelCall(j)
      PROVE  IInv'
  <2>1. TypeOK'
    BY <1>1 DEF EnqueueCheck, EnqueueCancelled, EnqueuePanics, CancelCall, TypeOK, CallStates
  <2> QED BY <1>1, <2>1, CallHolds DEF EnqueueCheck, EnqueueCancelled, EnqueuePanics,
                                       CancelCall, TypeOK, Sent
<1>2. ASSUME NEW w \in Workers, ReceiveClosed(w) \/ StopOnCtx(w) \/ CancelWorker(w)
      PROVE  IInv'
  <2>1. TypeOK'
    BY <1>2 DEF ReceiveClosed, StopOnCtx, CancelWorker, TypeOK
  <2> QED BY <1>2, <2>1, CallHolds DEF ReceiveClosed, StopOnCtx, CancelWorker, TypeOK, Sent
<1>3. CASE Close \/ UNCHANGED vars
  <2>1. TypeOK'
    BY <1>3 DEF Close, vars, TypeOK
  <2> QED BY <1>3, <2>1, CallHolds DEF Close, vars, Sent
<1> QED
  BY <1>1, <1>2, <1>3, SendHolds, ReceiveHolds, HandlerHolds
     DEF Next, CallStep, WorkerStep, Quiet

\* A message is in one place at a time, through every race of Enqueue with Close
\* and every cancellation: what the channel has buffered no worker has, what a
\* worker has no other worker has, and what a handler has seen is in neither.
THEOREM Invariance == Spec => []IInv
  BY InitHolds, Inductive, PTL DEF Spec

----------------------------------------------------------------------------
(* The contract of a queue.                                                 *)

Phase == [j \in Jobs |-> PhaseOf(j)]

\* A message goes one step along its life cycle while the others stay.
Advances(j) ==
    /\ \A k \in Jobs \ {j} : Phase'[k] = Phase[k]
    /\ \/ Phase[j] = "new"     /\ Phase'[j] = "ready"
       \/ Phase[j] = "ready"   /\ Phase'[j] = "running"
       \/ Phase[j] = "running" /\ Phase'[j] \in {"ready", "done"}

\* Every message stays where it is or is lost to all workers.
OnlyLoses ==
    \A k \in Jobs : \/ Phase'[k] = Phase[k]
                    \/ Phase[k] \in {"ready", "running"} /\ Phase'[k] = "dead"

\* A step that moves one message on is one of the contract's.
LEMMA Advancing ==
  ASSUME NEW j \in Jobs, Advances(j)
  PROVE  Lifecycle!Next
<1>1. Phase' = [Phase EXCEPT ![j] = Phase'[j]]
  BY DEF Advances, Phase
<1>2. Lifecycle!Submit(j) \/ Lifecycle!Start(j) \/ Lifecycle!Fail(j) \/ Lifecycle!Succeed(j)
  BY <1>1 DEF Advances, Phase, Lifecycle!Submit, Lifecycle!Start, Lifecycle!Fail, Lifecycle!Succeed
<1> QED BY <1>2 DEF Lifecycle!Next

\* So is a step that loses messages; one that loses none is invisible.
LEMMA Losing ==
  ASSUME OnlyLoses
  PROVE  Lifecycle!Next \/ UNCHANGED Phase
<1> DEFINE S == {k \in Jobs : Phase'[k] # Phase[k]}
<1>1. CASE S = {}
  BY <1>1 DEF Phase
<1>2. CASE S # {}
  <2>1. S \in SUBSET {k \in Jobs : Phase[k] \in {"ready", "running"}}
    BY DEF OnlyLoses
  <2>2. Phase' = [k \in Jobs |-> IF k \in S THEN "dead" ELSE Phase[k]]
    BY DEF OnlyLoses, Phase
  <2>3. Lifecycle!Lose
    BY <1>2, <2>1, <2>2 DEF Lifecycle!Lose, Phase
  <2> QED BY <2>3 DEF Lifecycle!Next
<1> QED BY <1>1, <1>2

\* Nothing is lost when neither handlers, workers nor the sent messages change.
LEMMA CallStutters ==
  ASSUME UNCHANGED <<handled, dropped, crashed, held>>,
         \A j \in Jobs : call'[j] = "sent" <=> call[j] = "sent"
  PROVE  OnlyLoses
  BY DEF OnlyLoses, Phase, PhaseOf, Runs, RunsAgain

\* A send submits the message.
LEMMA SendSubmits ==
  ASSUME IInv, NEW j \in Jobs, EnqueueSend(j)
  PROVE  Advances(j)
<1> USE DEF IInv, TypeOK, EnqueueSend
<1>1. ~Over(j) /\ \A w \in Workers : held[w] # j
  BY NoJobAssumption DEF OverSent, HeldOnce, Sent
<1>2. PhaseOf(j) = "new" /\ PhaseOf(j)' = "ready"
  BY <1>1 DEF PhaseOf, Runs, RunsAgain, Over
<1>3. \A k \in Jobs \ {j} : PhaseOf(k)' = PhaseOf(k)
  BY DEF PhaseOf, Runs, RunsAgain
<1> QED BY <1>2, <1>3 DEF Advances, Phase

\* A panic in Enqueue loses what the channel and the workers have.
LEMMA PanicLoses ==
  ASSUME IInv, NEW j \in Jobs, EnqueuePanics(j)
  PROVE  OnlyLoses
<1>1. \A k \in Jobs : ~RunsAgain(k)
  BY NoJobAssumption DEF IInv, TypeOK, HeldOnce, RunsAgain, Runs, Over
<1> QED BY <1>1 DEF EnqueuePanics, OnlyLoses, Phase, PhaseOf, Runs, RunsAgain

\* A worker that takes or lets go of a message moves no other.
LEMMA OthersSame ==
  ASSUME TypeOK, NEW w \in Workers, NEW j \in Jobs, NEW v \in Jobs \cup {NoJob},
         held' = [held EXCEPT ![w] = v], {held[w], v} \subseteq {j, NoJob},
         UNCHANGED <<call, crashed>>,
         \A k \in Jobs \ {j} : /\ k \in handled' <=> k \in handled
                               /\ k \in dropped' <=> k \in dropped
  PROVE  \A k \in Jobs \ {j} : PhaseOf(k)' = PhaseOf(k)
<1> SUFFICES ASSUME NEW k \in Jobs \ {j} PROVE PhaseOf(k)' = PhaseOf(k)
  OBVIOUS
<1>1. \A u \in Workers : held'[u] = k <=> held[u] = k
  BY NoJobAssumption DEF TypeOK
<1>2. Runs(k)' <=> Runs(k)
  BY <1>1 DEF Runs
<1>3. (k \in handled' <=> k \in handled) /\ (k \in dropped' <=> k \in dropped)
  OBVIOUS
<1>4. (\E u, x \in Workers : u # x /\ held'[u] = k /\ held'[x] = k)
       <=> \E u, x \in Workers : u # x /\ held[u] = k /\ held[x] = k
  BY <1>1
<1>5. RunsAgain(k)' <=> RunsAgain(k)
  BY <1>2, <1>3, <1>4 DEF RunsAgain
<1> QED BY <1>2, <1>3, <1>5 DEF PhaseOf

\* A receive starts the handler on the head of the channel.
LEMMA ReceiveStarts ==
  ASSUME IInv, NEW w \in Workers, Receive(w)
  PROVE  \E j \in Jobs : Advances(j)
<1> USE DEF IInv, Receive
<1>1. PICK j \in Jobs : j = Head(ch) /\ j = ch[1] /\ 1 \in 1..Len(ch)
  BY HeadTail DEF TypeOK
<1>2. call[j] = "sent" /\ ~Over(j) /\ \A v \in Workers : held[v] # j
  BY <1>1 DEF Buffered, Sent
<1>3. held' = [held EXCEPT ![w] = j] /\ held[w] = NoJob
  BY <1>1 DEF HeldOnce
<1>4. PhaseOf(j) = "ready" \/ crashed
  BY <1>2 DEF PhaseOf, Runs, RunsAgain, Over
<1>5. PhaseOf(j)' = "running"
  <2>1. Runs(j)' /\ ~RunsAgain(j)'
    BY <1>2, <1>3 DEF Runs, RunsAgain, Over, TypeOK
  <2> QED BY <1>2, <2>1 DEF PhaseOf, Over
<1>6. \A k \in Jobs \ {j} : PhaseOf(k)' = PhaseOf(k)
  BY <1>3, OthersSame
<1>7. Advances(j)
  BY <1>4, <1>5, <1>6 DEF Advances, Phase
<1> QED BY <1>7

\* A handler that returns nil succeeds; an error loses the message.
LEMMA HandlerEnds ==
  ASSUME IInv, NEW w \in Workers, NEW ok \in BOOLEAN, HandlerReturns(w, ok)
  PROVE  OnlyLoses \/ \E j \in Jobs : Advances(j)
<1> USE DEF IInv, HandlerReturns
<1>1. PICK j \in Jobs : held[w] = j /\ call[j] = "sent" /\ ~Over(j)
  BY DEF HeldOnce, TypeOK, Sent
<1>2. PhaseOf(j) = "running"
  <2>1. Runs(j) /\ ~RunsAgain(j)
    BY <1>1, NoJobAssumption DEF Runs, RunsAgain, Over, HeldOnce
  <2> QED BY <1>1, <2>1 DEF PhaseOf, Over
<1>3. \A k \in Jobs \ {j} : PhaseOf(k)' = PhaseOf(k)
  BY <1>1, OthersSame
<1>4. ~Runs(j)' /\ ~RunsAgain(j)'
  BY <1>1, NoJobAssumption DEF Runs, RunsAgain, HeldOnce, TypeOK
<1>5. CASE ok
  <2>1. PhaseOf(j)' = "done"
    BY <1>1, <1>4, <1>5 DEF PhaseOf
  <2>2. Advances(j)
    BY <1>2, <1>3, <2>1 DEF Advances, Phase
  <2> QED BY <2>2
<1>6. CASE ~ok
  <2>1. PhaseOf(j)' = "dead"
    BY <1>1, <1>4, <1>6 DEF PhaseOf, Over
  <2> QED BY <1>2, <1>3, <2>1 DEF OnlyLoses, Phase
<1> QED BY <1>5, <1>6

\* The in-memory queue implements the contract of a queue: whatever Enqueue, Close
\* and the workers do to each other, a message runs only if its Enqueue has returned
\* nil, at one worker, and once its handler has returned never again.
THEOREM Refinement == Spec => ImplementsLifecycle
<1>1. Init => Lifecycle!Init
  BY NoJobAssumption DEF Init, Lifecycle!Init, PhaseOf, Runs
<1>2. IInv /\ [Next]_vars => [Lifecycle!Next]_Phase
  <2> SUFFICES ASSUME IInv, [Next]_vars
               PROVE  OnlyLoses \/ \E j \in Jobs : Advances(j)
    BY Advancing, Losing
  <2>1. ASSUME NEW j \in Jobs, EnqueueCheck(j) \/ EnqueueCancelled(j) \/ CancelCall(j)
        PROVE  OnlyLoses
    BY <2>1, CallStutters DEF EnqueueCheck, EnqueueCancelled, CancelCall, IInv, TypeOK
  <2>2. ASSUME NEW w \in Workers, ReceiveClosed(w) \/ StopOnCtx(w) \/ CancelWorker(w)
        PROVE  OnlyLoses
    BY <2>2, CallStutters DEF ReceiveClosed, StopOnCtx, CancelWorker
  <2>3. CASE Close \/ UNCHANGED vars
    BY <2>3, CallStutters DEF Close, vars
  <2> QED
    BY <2>1, <2>2, <2>3, SendSubmits, PanicLoses, ReceiveStarts, HandlerEnds
       DEF Next, CallStep, WorkerStep, Quiet
<1> QED
  BY <1>1, <1>2, Invariance, PTL DEF Spec, ImplementsLifecycle, Lifecycle!Spec, Phase

=============================================================================
