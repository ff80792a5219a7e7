-------------------------- MODULE WorkerLoopProofs --------------------------
(***************************************************************************)
(* Proofs about WorkerLoop for every set of clients and every number of    *)
(* commands.                                                               *)
(***************************************************************************)
EXTENDS WorkerLoop, SequenceTheorems, TLAPS

(* A wakeup has been delivered, or will be by a thread that is past its
   unlock. *)
Waking == efd \/ owner = "wake" \/ \E c \in Client : cpc[c] = "wake"

(* NoLostWakeup is not inductive: that the worker may go to sleep depends on
   what it did since it cleared the eventfd.  A command that arrives after
   handle_pending found the queue empty still has its wakeup, and so has a
   Stop that arrives after handle_worker_commands looked. *)
WakeInv ==
    /\ stopReq => pc \in {"check", "end"}
    /\ pc \in {"loop", "wait", "exec", "run"} /\ cmds # <<>> => Waking
    /\ pc \in {"loop", "wait", "check", "drain", "exec", "run"} /\ wcmds > 0
           => stopReq \/ Waking

IndInv == TypeOK /\ WakeInv
(* A push keeps the queues and counters typed. *)
LEMMA EnqueueType ==
  ASSUME TypeOK, NEW p \in Pusher, NEW n \in 1..2, Enqueue(p, n)
  PROVE  /\ cmds' \in Seq(Command) /\ log' \in Seq(Command)
         /\ npushed' \in [Pusher -> 0..MaxPush]
  <1>. DEFINE new == [i \in 1..n |-> <<p, npushed[p] + i>>]
  <1>1. npushed[p] \in 0..MaxPush /\ npushed[p] + n <= MaxPush /\ MaxPush \in Nat
    BY MaxPushAssumption DEF TypeOK, Enqueue
  <1>2. \A i \in 1..n : <<p, npushed[p] + i>> \in Command
    BY <1>1 DEF Command
  <1>3. new \in Seq(Command)
    BY <1>2
  <1>4. cmds' = cmds \o new /\ log' = log \o new /\ npushed' = [npushed EXCEPT ![p] = @ + n]
    BY DEF Enqueue
  <1>. HIDE DEF new
  <1>5. cmds' \in Seq(Command) /\ log' \in Seq(Command)
    BY <1>3, <1>4, ConcatProperties DEF TypeOK
  <1>6. npushed' \in [Pusher -> 0..MaxPush]
    BY <1>1, <1>4 DEF TypeOK
  <1>. QED BY <1>5, <1>6

(* Every step keeps the types. *)
LEMMA StepTypeOK ==
  ASSUME TypeOK, [Next]_vars
  PROVE  TypeOK'
  <1>. USE DEF mailbox
  <1>1. ASSUME NEW c \in Client, push_command(c) PROVE TypeOK'
    <2>1. cmds' \in Seq(Command) /\ log' \in Seq(Command) /\ npushed' \in [Pusher -> 0..MaxPush]
      <3>1. c \in Pusher /\ 1 \in 1..2 /\ Enqueue(c, 1)
        BY <1>1 DEF push_command, Pusher
      <3>. QED BY <3>1, EnqueueType, Zenon
    <2>. QED BY <1>1, <2>1 DEF TypeOK, push_command
  <1>2. ASSUME NEW c \in Client, push_commands(c) PROVE TypeOK'
    <2>1. cmds' \in Seq(Command) /\ log' \in Seq(Command) /\ npushed' \in [Pusher -> 0..MaxPush]
      <3>1. c \in Pusher /\ 2 \in 1..2 /\ Enqueue(c, 2)
        BY <1>2 DEF push_commands, Pusher
      <3>. QED BY <3>1, EnqueueType, Zenon
    <2>. QED BY <1>2, <2>1 DEF TypeOK, push_commands
  <1>3. ASSUME NEW c \in Client, command_worker(c) PROVE TypeOK'
    BY <1>3 DEF TypeOK, command_worker
  <1>4. ASSUME NEW c \in Client, wake_event(c) PROVE TypeOK'
    BY <1>4 DEF TypeOK, wake_event
  <1>5. CASE OwnerNext
    <2>1. CASE OwnerStop
      BY <2>1 DEF TypeOK, OwnerStop
    <2>2. CASE OwnerWake
      BY <2>2 DEF TypeOK, OwnerWake
    <2>3. CASE OwnerJoin
      BY <2>3 DEF TypeOK, OwnerJoin
    <2>. QED BY <1>5, <2>1, <2>2, <2>3 DEF OwnerNext
  <1>6. CASE LoopTest \/ WaitInterrupted \/ WaitOther \/ ClearEventfd
    <2>1. CASE LoopTest
      BY <2>1 DEF TypeOK, WorkerPC, LoopTest
    <2>2. CASE WaitInterrupted
      BY <2>2 DEF TypeOK, WorkerPC, WaitInterrupted
    <2>3. CASE WaitOther
      BY <2>3 DEF TypeOK, WorkerPC, WaitOther
    <2>4. CASE ClearEventfd
      BY <2>4 DEF TypeOK, WorkerPC, ClearEventfd
    <2>. QED BY <1>6, <2>1, <2>2, <2>3, <2>4
  <1>7. CASE handle_worker_commands \/ CheckStop
    <2>1. CASE handle_worker_commands
      <3>1. wcmds' \in Nat /\ stopReq' \in BOOLEAN /\ efd' \in BOOLEAN
        <4>1. CASE wcmds = 0
          BY <2>1, <4>1, Zenon DEF TypeOK, handle_worker_commands
        <4>2. CASE wcmds # 0
          <5>1. wcmds' = wcmds - 1 /\ stopReq' = TRUE /\ efd' = TRUE
            BY <2>1, <4>2, Zenon DEF handle_worker_commands
          <5>2. wcmds' \in Nat
            BY <4>2, <5>1 DEF TypeOK
          <5>. QED BY <5>1, <5>2, Zenon
        <4>. QED BY <4>1, <4>2
      <3>. QED BY <2>1, <3>1, Zenon DEF TypeOK, WorkerPC, handle_worker_commands
    <2>2. CASE CheckStop
      BY <2>2 DEF TypeOK, WorkerPC, CheckStop
    <2>. QED BY <1>7, <2>1, <2>2
  <1>8. CASE extract_command
    <2>1. CASE cmds = <<>>
      BY <1>8, <2>1, Zenon DEF TypeOK, WorkerPC, extract_command
    <2>2. CASE cmds # <<>>
      <3>1. Head(cmds) \in Command /\ Tail(cmds) \in Seq(Command)
        BY <2>2, HeadTailProperties DEF TypeOK
      <3>2. batch' = Append(batch, Head(cmds)) /\ cmds' = Tail(cmds)
        BY <1>8, <2>2, Zenon DEF extract_command
      <3>3. batch' \in Seq(Command)
        BY <3>1, <3>2 DEF TypeOK
      <3>. QED BY <1>8, <2>2, <3>1, <3>2, <3>3, Zenon DEF TypeOK, extract_command
    <2>. QED BY <2>1, <2>2
  <1>9. ASSUME SelfPush
        PROVE  /\ cmds' \in Seq(Command) /\ log' \in Seq(Command)
               /\ npushed' \in [Pusher -> 0..MaxPush] /\ efd' \in BOOLEAN
    <2>1. CASE UNCHANGED <<cmds, npushed, log, efd>>
      BY <2>1 DEF TypeOK
    <2>2. CASE Enqueue(Self, 1) /\ efd' = TRUE
      <3>1. Self \in Pusher /\ 1 \in 1..2
        BY DEF Pusher
      <3>. QED BY <2>2, <3>1, EnqueueType, Zenon
    <2>. QED BY <1>9, <2>1, <2>2 DEF SelfPush
  <1>10. CASE Execute
    BY <1>9, <1>10 DEF TypeOK, Execute
  <1>11. CASE RunEvent
    BY <1>9, <1>11 DEF TypeOK, RunEvent
  <1>12. CASE ExecuteEnd \/ RunEnd
    BY <1>12 DEF TypeOK, WorkerPC, ExecuteEnd, RunEnd
  <1>13. CASE UNCHANGED vars
    BY <1>13 DEF TypeOK, vars
  <1>. QED BY <1>1, <1>2, <1>3, <1>4, <1>5, <1>6, <1>7, <1>8, <1>10, <1>11, <1>12, <1>13
       DEF Next, ClientNext, WorkerNext, Terminated

(* Every step keeps WakeInv. *)
LEMMA StepWakeInv ==
  ASSUME TypeOK, WakeInv, [Next]_vars
  PROVE  WakeInv'
  <1>. USE DEF mailbox
  <1>1. ASSUME NEW c \in Client, push_command(c) \/ push_commands(c) \/ command_worker(c)
        PROVE  WakeInv'
    <2>1. cpc'[c] = "wake" /\ pc' = pc /\ stopReq' = stopReq
      BY <1>1 DEF TypeOK, push_command, push_commands, command_worker
    <2>2. Waking'
      BY <2>1 DEF Waking
    <2>. QED BY <2>1, <2>2 DEF WakeInv
  <1>2. ASSUME efd' = TRUE, stopReq => stopReq', stopReq' => pc' \in {"check", "end"}
        PROVE  WakeInv'
    BY <1>2 DEF WakeInv, Waking
  <1>3. ASSUME NEW c \in Client, wake_event(c) PROVE WakeInv'
    BY <1>2, <1>3 DEF wake_event, WakeInv
  <1>4. CASE OwnerStop
    BY <1>4 DEF OwnerStop, WakeInv, Waking
  <1>5. CASE OwnerWake
    BY <1>2, <1>5 DEF OwnerWake, WakeInv
  <1>6. CASE OwnerJoin
    BY <1>6 DEF OwnerJoin, WakeInv, Waking
  <1>7. CASE LoopTest
    BY <1>7 DEF LoopTest, WakeInv, Waking
  <1>8. CASE WaitInterrupted \/ WaitOther
    BY <1>8 DEF WaitInterrupted, WaitOther, WakeInv
  <1>9. CASE ClearEventfd
    BY <1>9 DEF ClearEventfd, WakeInv
  <1>10. CASE handle_worker_commands
    <2>1. CASE wcmds = 0
      BY <1>10, <2>1 DEF handle_worker_commands, WakeInv, TypeOK
    <2>2. CASE wcmds # 0
      BY <1>2, <1>10, <2>2 DEF handle_worker_commands
    <2>. QED BY <2>1, <2>2
  <1>11. CASE CheckStop
    BY <1>11 DEF CheckStop, WakeInv, Waking
  <1>12. CASE extract_command
    BY <1>12 DEF extract_command, WakeInv, Waking
  <1>13. ASSUME SelfPush, UNCHANGED <<wcmds, stopReq, pc, cpc, owner>> PROVE WakeInv'
    <2>1. CASE UNCHANGED <<cmds, npushed, log, efd>>
      BY <1>13, <2>1 DEF WakeInv, Waking
    <2>2. CASE efd' = TRUE
      BY <1>2, <1>13, <2>2 DEF WakeInv
    <2>. QED BY <1>13, <2>1, <2>2 DEF SelfPush
  <1>14. CASE Execute \/ RunEvent
    BY <1>13, <1>14 DEF Execute, RunEvent
  <1>15. CASE ExecuteEnd \/ RunEnd
    BY <1>15 DEF ExecuteEnd, RunEnd, WakeInv, Waking
  <1>16. CASE UNCHANGED vars
    BY <1>16 DEF vars, WakeInv, Waking
  <1>. QED BY <1>1, <1>3, <1>4, <1>5, <1>6, <1>7, <1>8, <1>9, <1>10, <1>11, <1>12, <1>14, <1>15, <1>16
       DEF Next, ClientNext, OwnerNext, WorkerNext, Terminated

(* Moving the head of a queue to the end of the sequence before it changes
   nothing of their concatenation. *)
LEMMA MoveHead ==
  ASSUME NEW S, NEW a \in Seq(S), NEW b \in Seq(S), b # <<>>
  PROVE  Append(a, Head(b)) \o Tail(b) = a \o b
  <1>1. Head(b) \in S /\ Tail(b) \in Seq(S) /\ Len(Tail(b)) = Len(b) - 1 /\ Len(b) \in Nat \ {0}
    BY HeadTailProperties, EmptySeq
  <1>. DEFINE l == Append(a, Head(b)) \o Tail(b)
              r == a \o b
  <1>2. Append(a, Head(b)) \in Seq(S) /\ Len(Append(a, Head(b))) = Len(a) + 1 /\ Len(a) \in Nat
    BY <1>1
  <1>3. l \in Seq(S) /\ r \in Seq(S) /\ Len(l) = Len(a) + Len(b) /\ Len(r) = Len(a) + Len(b)
    BY <1>1, <1>2, ConcatProperties
  <1>4. ASSUME NEW i \in 1..Len(l) PROVE l[i] = r[i]
    BY <1>1, <1>2, <1>3
  <1>. QED BY <1>3, <1>4, SeqEqual

LEMMA Associate ==
  \A S : \A a, b, c \in Seq(S) : (a \o b) \o c = a \o (b \o c)
  BY ConcatAssociative, Zenon

(* A push extends both the record of pushes and the queue. *)
LEMMA EnqueueOrder ==
  ASSUME TypeOK, InPushOrder, NEW p \in Pusher, NEW n \in 1..2, Enqueue(p, n)
  PROVE  log' = (done \o batch) \o cmds'
  <1>. DEFINE new == [i \in 1..n |-> <<p, npushed[p] + i>>]
  <1>1. npushed[p] \in 0..MaxPush /\ npushed[p] + n <= MaxPush /\ MaxPush \in Nat
    BY MaxPushAssumption DEF TypeOK, Enqueue
  <1>2. \A i \in 1..n : <<p, npushed[p] + i>> \in Command
    BY <1>1 DEF Command
  <1>3. new \in Seq(Command)
    BY <1>2
  <1>4. cmds' = cmds \o new /\ log' = log \o new
    BY DEF Enqueue
  <1>. HIDE DEF new
  <1>5. PICK before \in Seq(Command), added \in Seq(Command) :
            before = done \o batch /\ added = new
    BY <1>3, ConcatProperties DEF TypeOK
  <1>6. cmds \in Seq(Command)
    BY DEF TypeOK
  <1>7. (before \o cmds) \o added = before \o (cmds \o added)
    BY <1>6, Associate, SMT
  <1>. QED BY <1>4, <1>5, <1>7 DEF InPushOrder

(* Every step keeps the order of the pushes. *)
LEMMA StepInPushOrder ==
  ASSUME TypeOK, InPushOrder, [Next]_vars
  PROVE  InPushOrder'
  <1>. USE DEF mailbox
  <1>1. ASSUME NEW p \in Pusher, NEW n \in 1..2, Enqueue(p, n), UNCHANGED <<done, batch>>
        PROVE  InPushOrder'
    BY <1>1, EnqueueOrder, Zenon DEF InPushOrder
  <1>2. ASSUME UNCHANGED <<cmds, log, batch, done>> PROVE InPushOrder'
    BY <1>2, Zenon DEF InPushOrder
  <1>3. ASSUME NEW c \in Client, push_command(c) PROVE InPushOrder'
    <2>1. c \in Pusher /\ 1 \in 1..2 /\ Enqueue(c, 1) /\ UNCHANGED <<done, batch>>
      BY <1>3 DEF push_command, Pusher
    <2>. QED BY <2>1, <1>1, Zenon
  <1>4. ASSUME NEW c \in Client, push_commands(c) PROVE InPushOrder'
    <2>1. c \in Pusher /\ 2 \in 1..2 /\ Enqueue(c, 2) /\ UNCHANGED <<done, batch>>
      BY <1>4 DEF push_commands, Pusher
    <2>. QED BY <2>1, <1>1, Zenon
  <1>5. ASSUME NEW c \in Client, command_worker(c) \/ wake_event(c) PROVE InPushOrder'
    BY <1>2, <1>5 DEF command_worker, wake_event
  <1>6. CASE extract_command
    <2>1. CASE cmds = <<>>
      BY <1>2, <1>6, <2>1 DEF extract_command
    <2>2. CASE cmds # <<>>
      <3>1. /\ batch' = Append(batch, Head(cmds)) /\ cmds' = Tail(cmds)
            /\ log' = log /\ done' = done
        BY <1>6, <2>2 DEF extract_command
      <3>7. (done \o batch') \o cmds' = (done \o batch) \o cmds
        <4>1. done \in Seq(Command) /\ batch \in Seq(Command) /\ cmds \in Seq(Command)
          BY DEF TypeOK
        <4>2. batch' \in Seq(Command) /\ cmds' \in Seq(Command)
          <5>1. Head(cmds) \in Command /\ Tail(cmds) \in Seq(Command)
            BY <2>2, <4>1, HeadTailProperties
          <5>. QED BY <3>1, <4>1, <5>1
        <4>3. batch' \o cmds' = batch \o cmds
          BY <2>2, <3>1, <4>1, MoveHead
        <4>4. (done \o batch) \o cmds = done \o (batch \o cmds)
          BY <4>1, Associate, SMTT(30)
        <4>5. (done \o batch') \o cmds' = done \o (batch' \o cmds')
          BY <4>1, <4>2, Associate, SMTT(30)
        <4>. QED BY <4>3, <4>4, <4>5, Zenon
      <3>. QED BY <3>1, <3>7 DEF InPushOrder
    <2>. QED BY <2>1, <2>2
  <1>7. CASE Execute
    <2>1. batch # <<>> /\ done' = Append(done, Head(batch)) /\ batch' = Tail(batch) /\ SelfPush
      BY <1>7 DEF Execute
    <2>2. done' \o batch' = done \o batch
      BY <2>1, MoveHead DEF TypeOK
    <2>3. CASE UNCHANGED <<cmds, npushed, log, efd>>
      BY <2>2, <2>3, Zenon DEF InPushOrder
    <2>4. CASE Enqueue(Self, 1)
      <3>1. Self \in Pusher /\ 1 \in 1..2
        BY DEF Pusher
      <3>2. log' = (done \o batch) \o cmds'
        BY <2>4, <3>1, EnqueueOrder, Zenon
      <3>. QED BY <2>2, <3>2, Zenon DEF InPushOrder
    <2>. QED BY <2>1, <2>3, <2>4 DEF SelfPush
  <1>8. CASE RunEvent
    <2>1. CASE UNCHANGED <<cmds, npushed, log, efd>>
      BY <1>2, <1>8, <2>1 DEF RunEvent
    <2>2. CASE Enqueue(Self, 1)
      <3>1. Self \in Pusher /\ 1 \in 1..2 /\ UNCHANGED <<done, batch>>
        BY <1>8 DEF Pusher, RunEvent
      <3>. QED BY <1>1, <2>2, <3>1, Zenon
    <2>. QED BY <1>8, <2>1, <2>2 DEF RunEvent, SelfPush
  <1>9. CASE OwnerNext
    BY <1>2, <1>9 DEF OwnerNext, OwnerStop, OwnerWake, OwnerJoin
  <1>10. CASE LoopTest \/ WaitInterrupted \/ WaitOther \/ ClearEventfd \/ handle_worker_commands
              \/ CheckStop \/ ExecuteEnd \/ RunEnd
    BY <1>2, <1>10 DEF LoopTest, WaitInterrupted, WaitOther, ClearEventfd, handle_worker_commands,
       CheckStop, ExecuteEnd, RunEnd
  <1>11. CASE UNCHANGED vars
    BY <1>2, <1>11 DEF vars
  <1>. QED BY <1>3, <1>4, <1>5, <1>6, <1>7, <1>8, <1>9, <1>10, <1>11
       DEF Next, ClientNext, WorkerNext, Terminated

(* The inductive invariant holds of every reachable state. *)
THEOREM Invariance == Spec => []IndInv
  <1>1. Init => IndInv
    <2>. SUFFICES ASSUME Init PROVE IndInv
      OBVIOUS
    <2>1. npushed \in [Pusher -> 0..MaxPush]
      BY MaxPushAssumption DEF Init
    <2>4. <<>> \in Seq(Command) /\ 0 \in Nat
      OBVIOUS
    <2>2. TypeOK
      BY <2>1, <2>4, Zenon DEF Init, TypeOK, WorkerPC
    <2>3. WakeInv
      BY DEF Init, WakeInv
    <2>. QED BY <2>2, <2>3 DEF IndInv
  <1>2. IndInv /\ [Next]_vars => IndInv'
    BY StepTypeOK, StepWakeInv DEF IndInv
  <1>. QED BY <1>1, <1>2, PTL DEF Spec

(* Type correctness of the mailbox. *)
THEOREM TypeCorrect == Spec => []TypeOK
  <1>1. IndInv => TypeOK
    BY DEF IndInv
  <1>. QED BY <1>1, Invariance, PTL

(* A worker never goes to sleep on a queued command or Stop whose wakeup it
   has already consumed, whatever the number of clients. *)
THEOREM WakeupsAreKept == Spec => []NoLostWakeup
  <1>1. IndInv => NoLostWakeup
    BY DEF IndInv, WakeInv, Waking, NoLostWakeup
  <1>. QED BY <1>1, Invariance, PTL

(* Commands are executed in the order of their pushes, none lost and none
   executed twice, whatever the interleaving of pushes and drains. *)
THEOREM ExecutedInPushOrder == Spec => []InPushOrder
  <1>1. Init => InPushOrder
    BY DEF Init, InPushOrder
  <1>2. TypeOK /\ InPushOrder /\ [Next]_vars => InPushOrder'
    BY StepInPushOrder
  <1>. QED BY <1>1, <1>2, TypeCorrect, PTL DEF Spec

(* Nothing is executed once a stop was requested. *)
THEOREM StopIsFinal == Spec => NothingAfterStop
  <1>1. IndInv /\ [Next]_vars => [stopReq => done' = done]_vars
    <2>. SUFFICES ASSUME IndInv, [Next]_vars, stopReq PROVE done' = done
      OBVIOUS
    <2>1. pc \in {"check", "end"}
      BY DEF IndInv, WakeInv
    <2>2. ~Execute
      BY <2>1 DEF Execute
    <2>. QED BY <2>2 DEF Next, ClientNext, OwnerNext, WorkerNext, Terminated, vars,
           push_command, push_commands, command_worker, wake_event, OwnerStop, OwnerWake, OwnerJoin,
           LoopTest, WaitInterrupted, WaitOther, ClearEventfd, handle_worker_commands, CheckStop,
           extract_command, ExecuteEnd, RunEvent, RunEnd
  <1>. QED BY <1>1, Invariance, PTL DEF Spec, NothingAfterStop

=============================================================================
