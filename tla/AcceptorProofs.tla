--------------------------- MODULE AcceptorProofs ---------------------------
(***************************************************************************)
(* Proofs about Acceptor for every finite set of clients, every number of  *)
(* workers and of calls.                                                   *)
(***************************************************************************)
EXTENDS Acceptor, SequenceTheorems, FiniteSetTheorems, TLAPS

Kinds == {"AttachConnection", "AttachProcess", "RequestStop", "RemoveConnection"}
Commands == Kinds \X Peers
Entry == [idle : SUBSET Peers, served : SUBSET Peers]
OwnerAt == {"new", "configured", "open", "locked", "joins", "stopped", "pool", "closed"}
ThreadAt == {"none", "socket", "test", "wait", "event", "fabrique", "process", "ended"}

TypeOK ==
    /\ owner \in OwnerAt /\ calls \in Nat /\ m \in {"free", "owner"} /\ fabrique \in BOOLEAN
    /\ thread \in ThreadAt /\ accepted \in Peers \cup {NoPeer}
    /\ stop \in BOOLEAN /\ eventfd \in BOOLEAN
    /\ listening \in BOOLEAN /\ edge \in BOOLEAN /\ backlog \in Seq(Peers)
    /\ missed \subseteq Peers
    /\ next \in Nat /\ mail \in [Workers -> Seq(Commands)] /\ table \in [Workers -> Entry]
    /\ peers \in [Peers -> Fate]

(* The accept thread has a connection in hand, which attach_connection gave a
   number to. *)
InHand == thread \in {"fabrique", "process"} => accepted \in Peers /\ next # 0

(* The accept thread runs only between launch and the join. *)
ThreadInv == owner \in {"new", "configured", "stopped", "pool", "closed"} => thread \in {"none", "ended"}

(* Nobody arrives before the thread listens or after the socket is closed. *)
SocketInv ==
    owner \in {"new", "configured", "pool", "closed"} \/ thread = "socket" =>
        ~listening /\ backlog = <<>>

(* No more accepts are to come than there are connections for them. *)
EventInv == Pending <= Len(backlog)

Shape == TypeOK /\ InHand /\ ThreadInv /\ SocketInv /\ EventInv

(* A connection in hand that is still there is in the worker it was given to
   or on its way to it. *)
Handed ==
    thread \in {"fabrique", "process"} /\ peers[accepted] \in {"attached", "made"} =>
        LET w == (next - 1) % NumWorkers
        IN  accepted \in Connections(w) \/ Queued(w, "AttachConnection", accepted)

(* What MadeIsServed says of one worker. *)
ServedAt(w, p) ==
    \/ p \in table[w].served
    \/ p \in table[w].idle /\ Queued(w, "AttachProcess", p)
    \/ \E i, j \in 1..Len(mail[w]) :
          i < j /\ mail[w][i] = <<"AttachConnection", p>> /\ mail[w][j] = <<"AttachProcess", p>>

IndInv == Shape /\ Handed /\ MadeIsServed

---------------------------------------------------------------------------
(* The commands a call pushes for a set of connections are a sequence. *)
LEMMA SetToSeqType ==
  ASSUME NEW S, IsFiniteSet(S)
  PROVE  SetToSeq(S) \in Seq(S)
  <1>1. Cardinality(S) \in Nat /\ ExistsBijection(1..Cardinality(S), S)
    BY FS_CardinalityType
  <1>2. PICK f \in [1..Cardinality(S) -> S] : IsInjective(f)
    BY <1>1 DEF ExistsBijection, Bijection, Injection
  <1>3. SetToSeq(S) \in [1..Cardinality(S) -> S]
    BY <1>2 DEF SetToSeq
  <1>. QED BY <1>1, <1>3, SeqDef

LEMMA PushedForAll ==
  ASSUME NEW kind \in Kinds, NEW T \in SUBSET Peers
  PROVE  SetToSeq({<<kind, p>> : p \in T}) \in Seq(Commands)
  <1>. DEFINE S == {<<kind, p>> : p \in T}
  <1>1. IsFiniteSet({kind}) /\ IsFiniteSet(Peers)
    BY FS_Singleton, AcceptorAssumption
  <1>2. IsFiniteSet({kind} \X Peers)
    BY <1>1, FS_Product
  <1>3. S \subseteq {kind} \X Peers /\ S \subseteq Commands
    BY DEF Commands
  <1>4. IsFiniteSet(S)
    BY <1>2, <1>3, FS_Subset
  <1>. HIDE DEF S
  <1>5. SetToSeq(S) \in Seq(S)
    BY <1>4, SetToSeqType
  <1>6. SetToSeq(S) \in Seq(Commands)
    BY <1>3, <1>5, SeqMonotonic
  <1>. QED BY <1>6 DEF S

LEMMA WorkersType ==
  /\ NumWorkers \in Nat \ {0} /\ \A n \in Nat : n % NumWorkers \in Workers
  BY AcceptorAssumption DEF Workers

---------------------------------------------------------------------------
(* The owner, the accept thread and the backlog.                           *)

LEMMA ShapeInit ==
  ASSUME Init
  PROVE  Shape
  <1>1. <<>> \in Seq(Peers) /\ <<>> \in Seq(Commands) /\ Len(<<>>) = 0
    BY EmptySeq
  <1>2. mail \in [Workers -> Seq(Commands)]
    BY <1>1 DEF Init
  <1>3. table \in [Workers -> Entry] /\ peers \in [Peers -> Fate]
    BY DEF Init, Entry, Fate
  <1>4. EventInv
    <2>1. ~edge /\ thread # "event" /\ Len(backlog) = 0
      BY <1>1 DEF Init
    <2>. QED BY <2>1 DEF EventInv, Pending
  <1>. QED BY <1>1, <1>2, <1>3, <1>4 DEF Init, Shape, TypeOK, InHand, ThreadInv, SocketInv,
                                         OwnerAt, ThreadAt

LEMMA ShapeOwner ==
  ASSUME Shape,
         \/ configure \/ launch \/ stop_Unlaunched \/ set_processes_at_connections
         \/ stop_Lock \/ Closing
  PROVE  Shape'
  <1>. USE DEF Shape, TypeOK, InHand, ThreadInv, SocketInv, EventInv, Pending, OwnerAt, ThreadAt,
               ownerVars, threadVars, kernelVars, poolVars
  <1>1. <<>> \in Seq(Peers) /\ <<>> \in Seq(Commands) /\ Len(<<>>) = 0
    BY EmptySeq
  <1>2. CASE configure
    BY <1>2 DEF configure
  <1>3. CASE launch
    BY <1>3 DEF launch
  <1>4. CASE stop_Unlaunched
    BY <1>4 DEF stop_Unlaunched
  <1>5. CASE set_processes_at_connections
    BY <1>5 DEF set_processes_at_connections
  <1>6. CASE stop_Lock
    BY <1>6 DEF stop_Lock
  <1>7. CASE stop_Interrupt
    BY <1>7 DEF stop_Interrupt
  <1>8. CASE stop_Join
    BY <1>8 DEF stop_Join
  <1>9. CASE graceful_close
    <2>1. peers' \in [Peers -> Fate]
      BY <1>9 DEF graceful_close, Fate
    <2>2. EventInv'
      <3>1. ~edge' /\ thread' # "event" /\ Len(backlog') = 0
        BY <1>1, <1>9 DEF graceful_close
      <3>. QED BY <3>1
    <2>. QED BY <1>1, <1>9, <2>1, <2>2 DEF graceful_close
  <1>10. CASE DestroyPool
    <2>1. peers' \in [Peers -> Fate] /\ table' \in [Workers -> Entry]
      BY <1>10 DEF DestroyPool, Fate, Entry
    <2>2. mail' \in [Workers -> Seq(Commands)]
      BY <1>1, <1>10 DEF DestroyPool
    <2>. QED BY <1>10, <2>1, <2>2 DEF DestroyPool
  <1>. QED BY <1>2, <1>3, <1>4, <1>5, <1>6, <1>7, <1>8, <1>9, <1>10 DEF Closing

LEMMA MailAppend ==
  ASSUME TypeOK, NEW w \in Workers, NEW x \in Commands
  PROVE  /\ [mail EXCEPT ![w] = Append(@, x)] \in [Workers -> Seq(Commands)]
         /\ [mail EXCEPT ![w] = Append(@, x)][w] = Append(mail[w], x)
         /\ \A v \in Workers \ {w} : [mail EXCEPT ![w] = Append(@, x)][v] = mail[v]
  <1>1. mail \in [Workers -> Seq(Commands)]
    BY DEF TypeOK
  <1>2. Append(mail[w], x) \in Seq(Commands)
    BY <1>1, AppendProperties
  <1>. QED BY <1>1, <1>2

LEMMA ConnectionsType ==
  ASSUME TypeOK, NEW w \in Workers
  PROVE  /\ table[w] \in Entry /\ Connections(w) \subseteq Peers /\ mail[w] \in Seq(Commands)
  BY DEF TypeOK, Entry, Connections

LEMMA ForConnectionsMail ==
  ASSUME TypeOK, NEW kind \in Kinds, ForConnections(kind)
  PROVE  /\ mail' \in [Workers -> Seq(Commands)]
         /\ \A w \in Workers : \E s \in Seq(Commands) : mail'[w] = mail[w] \o s
  <1>1. PICK met \in SUBSET UNION {Connections(w) : w \in Workers} :
          mail' = [w \in Workers |->
                     mail[w] \o SetToSeq({<<kind, p>> : p \in met \intersect Connections(w)})]
    BY DEF ForConnections
  <1>2. ASSUME NEW w \in Workers
        PROVE  /\ SetToSeq({<<kind, p>> : p \in met \intersect Connections(w)}) \in Seq(Commands)
               /\ mail[w] \o SetToSeq({<<kind, p>> : p \in met \intersect Connections(w)}) \in Seq(Commands)
    <2>1. met \intersect Connections(w) \in SUBSET Peers /\ mail[w] \in Seq(Commands)
      BY ConnectionsType
    <2>2. SetToSeq({<<kind, p>> : p \in met \intersect Connections(w)}) \in Seq(Commands)
      BY <2>1, PushedForAll
    <2>. QED BY <2>1, <2>2, ConcatProperties
  <1>. QED BY <1>1, <1>2

LEMMA ShapeCalls ==
  ASSUME Shape,
         \/ set_process \/ collapse
         \/ \E w \in Workers, p \in Peers : remove_connection(w, p)
  PROVE  Shape'
  <1>. USE DEF Shape, InHand, ThreadInv, SocketInv, EventInv, Pending
  <1>1. CASE set_process \/ collapse
    <2>1. PICK kind \in Kinds : ForConnections(kind)
      BY <1>1 DEF set_process, collapse, Kinds
    <2>2. mail' \in [Workers -> Seq(Commands)]
      BY <2>1, ForConnectionsMail
    <2>3. /\ calls' = calls + 1
          /\ UNCHANGED <<owner, m, fabrique, threadVars, kernelVars, next, table, peers>>
      BY <2>1 DEF ForConnections
    <2>. QED BY <2>2, <2>3 DEF TypeOK, threadVars, kernelVars
  <1>2. ASSUME NEW w \in Workers, NEW p \in Peers, remove_connection(w, p) PROVE Shape'
    <2>1. /\ calls' = calls + 1
          /\ mail' = [mail EXCEPT ![w] = Append(@, <<"RemoveConnection", p>>)]
          /\ UNCHANGED <<owner, m, fabrique, threadVars, kernelVars, next, table, peers>>
      BY <1>2 DEF remove_connection
    <2>2. <<"RemoveConnection", p>> \in Commands
      BY DEF Commands, Kinds
    <2>3. mail' \in [Workers -> Seq(Commands)]
      BY <2>1, <2>2, MailAppend
    <2>. QED BY <2>1, <2>3 DEF TypeOK, threadVars, kernelVars
  <1>. QED BY <1>1, <1>2

LEMMA RangeType ==
  ASSUME TypeOK
  PROVE  Range(backlog) \subseteq Peers
  BY RangeEquality DEF TypeOK

LEMMA ShapeThread ==
  ASSUME Shape, AcceptThread
  PROVE  Shape'
  <1>. USE DEF Shape, InHand, ThreadInv, SocketInv, EventInv, Pending, OwnerAt, ThreadAt,
               ownerVars, threadVars, kernelVars, poolVars
  <1>0. Len(backlog) \in Nat /\ edge \in BOOLEAN /\ Range(backlog) \subseteq Peers
    BY LenProperties, RangeType DEF TypeOK
  <1>1. ASSUME NEW outcome \in {"listens", "deaf", "no socket"}, OpenSocket(outcome) PROVE Shape'
    <2>1. /\ thread = "socket" /\ thread' \in {"test", "ended"} /\ listening' \in BOOLEAN
          /\ UNCHANGED <<ownerVars, m, fabrique, accepted, stop, eventfd, edge, backlog, missed,
                         poolVars, peers>>
      BY <1>1 DEF OpenSocket
    <2>2. backlog = <<>> /\ backlog' = <<>> /\ missed' = missed
      BY <2>1
    <2>3. owner' \notin {"new", "configured", "stopped", "pool", "closed"}
      BY <2>1
    <2>4. EventInv'
      BY <1>0, <2>1
    <2>. QED BY <2>1, <2>2, <2>3, <2>4 DEF TypeOK
  <1>2. CASE TestStop
    BY <1>2 DEF TestStop, TypeOK
  <1>3. CASE wait
    <2>1. /\ thread \in {"test", "wait"}
          /\ \/ edge /\ thread' = "event" /\ ~edge' /\ edge' \in BOOLEAN
             \/ ~edge /\ thread' \in {"test", "wait"} /\ edge' = edge
          /\ eventfd' \in BOOLEAN
          /\ UNCHANGED <<ownerVars, m, fabrique, accepted, stop, listening, backlog, missed, poolVars, peers>>
      BY <1>3 DEF wait, TypeOK
    <2>2. EventInv'
      BY <1>0, <2>1
    <2>. QED BY <2>1, <2>2 DEF TypeOK
  <1>4. CASE accept
    <2>. DEFINE p == Head(backlog)
    <2>1. backlog # <<>> /\ backlog \in Seq(Peers)
      BY <1>4 DEF accept, TypeOK
    <2>2. /\ p \in Peers /\ Tail(backlog) \in Seq(Peers) /\ Len(Tail(backlog)) = Len(backlog) - 1
          /\ Len(backlog) \in Nat
      BY <2>1, HeadTailProperties, LenProperties
    <2>3. <<"AttachConnection", p>> \in Commands /\ Index \in Workers /\ "attached" \in Fate
      BY <2>2, WorkersType DEF Commands, Kinds, Index, TypeOK, Fate
    <2>4. mail' \in [Workers -> Seq(Commands)]
      BY <1>4, <2>3, MailAppend DEF accept
    <2>5. peers' \in [Peers -> Fate] /\ accepted' = p
      BY <1>4, <2>3 DEF accept, TypeOK
    <2>. HIDE DEF p
    <2>. QED BY <1>4, <2>2, <2>4, <2>5 DEF accept, TypeOK
  <1>5. \A taken \in BOOLEAN : accept_Fails(taken) => Shape'
    <2>. SUFFICES ASSUME NEW taken \in BOOLEAN, accept_Fails(taken) PROVE Shape'
      OBVIOUS
    <2>1. CASE taken /\ backlog # <<>>
      <3>1. /\ Tail(backlog) \in Seq(Peers) /\ Len(Tail(backlog)) = Len(backlog) - 1
            /\ Len(backlog) \in Nat
        BY <2>1, HeadTailProperties, LenProperties DEF TypeOK
      <3>2. peers' \in [Peers -> Fate]
        BY <2>1 DEF accept_Fails, TypeOK, Fate
      <3>3. /\ thread = "event" /\ thread' = "test" /\ backlog' = Tail(backlog) /\ missed' \subseteq missed
            /\ UNCHANGED <<ownerVars, m, fabrique, accepted, stop, eventfd, listening, edge, poolVars>>
        BY <2>1 DEF accept_Fails
      <3>4. EventInv'
        BY <1>0, <3>1, <3>3
      <3>5. SocketInv'
        BY <3>3, EmptySeq, <2>1
      <3>. QED BY <3>1, <3>2, <3>3, <3>4, <3>5 DEF TypeOK
    <2>2. CASE ~(taken /\ backlog # <<>>)
      <3>. QED BY <1>0, <2>2 DEF accept_Fails, TypeOK
    <2>. QED BY <2>1, <2>2
  <1>6. CASE make_process
    <2>1. peers' \in [Peers -> Fate]
      BY <1>6 DEF make_process, TypeOK, Fate
    <2>. QED BY <1>6, <2>1 DEF make_process, TypeOK
  <1>7. CASE AttachMade
    <2>1. thread = "process" /\ accepted \in Peers /\ next - 1 \in Nat
      BY <1>7 DEF AttachMade, TypeOK
    <2>2. <<"AttachProcess", accepted>> \in Commands /\ (next - 1) % NumWorkers \in Workers
      BY <2>1, WorkersType DEF Commands, Kinds
    <2>3. mail' \in [Workers -> Seq(Commands)]
      BY <1>7, <2>2, MailAppend DEF AttachMade
    <2>. QED BY <1>7, <2>3 DEF AttachMade, TypeOK
  <1>. QED BY <1>1, <1>2, <1>3, <1>4, <1>5, <1>6, <1>7 DEF AcceptThread

LEMMA ArriveShape ==
  ASSUME Shape, NEW p \in Peers, Arrive(p)
  PROVE  Shape'
  <1>1. /\ listening /\ peers' = [peers EXCEPT ![p] = "queued"] /\ backlog' = Append(backlog, p)
        /\ edge' = TRUE
        /\ UNCHANGED <<ownerVars, m, fabrique, threadVars, listening, missed, poolVars>>
    BY DEF Arrive
  <1>2. /\ backlog' \in Seq(Peers) /\ Len(backlog') = Len(backlog) + 1 /\ Len(backlog) \in Nat
        /\ edge \in BOOLEAN
    BY <1>1, AppendProperties, LenProperties DEF Shape, TypeOK
  <1>3. peers' \in [Peers -> Fate] /\ edge' \in BOOLEAN
    BY <1>1, <1>2 DEF Shape, TypeOK, Fate
  <1>4. TypeOK'
    BY <1>1, <1>2, <1>3 DEF Shape, TypeOK, ownerVars, threadVars, poolVars
  <1>5. thread' = thread /\ owner' = owner /\ accepted' = accepted /\ next' = next
    BY <1>1 DEF ownerVars, threadVars, poolVars
  <1>6. EventInv'
    BY <1>1, <1>2, <1>3, <1>5 DEF Shape, EventInv, Pending
  <1>. QED BY <1>1, <1>4, <1>5, <1>6 DEF Shape, InHand, ThreadInv, SocketInv

(* What a worker drops and enters. *)
Dropped(w, p) ==
    table' = [table EXCEPT ![w] = [idle |-> table[w].idle \ {p}, served |-> table[w].served \ {p}]]

LEMMA TableType ==
  ASSUME TypeOK, NEW w \in Workers, NEW S \in SUBSET Peers, NEW T \in SUBSET Peers,
         table' = [table EXCEPT ![w] = [idle |-> S, served |-> T]]
  PROVE  /\ table' \in [Workers -> Entry] /\ table'[w].idle = S /\ table'[w].served = T
         /\ \A v \in Workers \ {w} : table'[v] = table[v]
  BY DEF TypeOK, Entry

(* One case for each kind of command. *)
Executes(w, kind, p) ==
    /\ Head(mail[w]) = <<kind, p>> /\ mail[w] # <<>>
    /\ mail' = [mail EXCEPT ![w] = Tail(@)]
    /\ UNCHANGED <<ownerVars, m, fabrique, threadVars, kernelVars, next>>
    /\ \/ /\ kind = "AttachConnection" /\ peers' = peers
          /\ table' = [table EXCEPT ![w] = [idle |-> table[w].idle \cup {p},
                                            served |-> table[w].served]]
       \/ /\ kind = "AttachProcess" /\ p \in Connections(w) /\ peers' = peers
          /\ table' = [table EXCEPT ![w] = [idle |-> table[w].idle \ {p},
                                            served |-> table[w].served \cup {p}]]
       \/ /\ kind = "RemoveConnection" /\ p \in Connections(w) /\ Dropped(w, p)
          /\ peers' = [peers EXCEPT ![p] = "gone"]
       \/ /\ table' = table /\ peers' = peers
          /\ kind # "AttachConnection" /\ (kind = "AttachProcess" => p \notin Connections(w))

LEMMA Executed ==
  ASSUME TypeOK, NEW w \in Workers, Execute(w)
  PROVE  \E kind \in Kinds, p \in Peers : Executes(w, kind, p)
  <1>1. mail[w] # <<>> /\ mail[w] \in Seq(Commands) /\ table[w] \in Entry
    BY ConnectionsType DEF Execute
  <1>2. Head(mail[w]) \in Commands
    BY <1>1, HeadTailProperties
  <1>3. PICK kind \in Kinds, p \in Peers : Head(mail[w]) = <<kind, p>>
    BY <1>2 DEF Commands
  <1>4. /\ mail' = [mail EXCEPT ![w] = Tail(@)]
        /\ UNCHANGED <<ownerVars, m, fabrique, threadVars, kernelVars, next>>
    BY DEF Execute
  <1>5. Head(mail[w])[1] = kind /\ Head(mail[w])[2] = p
    BY <1>3
  <1>6. CASE kind = "AttachConnection"
    <2>1. /\ peers' = peers
          /\ table' = [table EXCEPT ![w] = [idle |-> table[w].idle \union {p},
                                            served |-> table[w].served]]
      BY <1>5, <1>6 DEF Execute
    <2>. QED BY <1>1, <1>3, <1>4, <1>6, <2>1 DEF Executes
  <1>7. CASE kind = "AttachProcess" /\ p \in Connections(w)
    <2>1. /\ peers' = peers
          /\ table' = [table EXCEPT ![w] = [idle |-> table[w].idle \ {p},
                                            served |-> table[w].served \union {p}]]
      BY <1>5, <1>7 DEF Execute
    <2>. QED BY <1>1, <1>3, <1>4, <1>7, <2>1 DEF Executes
  <1>8. CASE kind = "RemoveConnection" /\ p \in Connections(w)
    <2>1. Dropped(w, p) /\ peers' = [peers EXCEPT ![p] = "gone"]
      BY <1>5, <1>8 DEF Execute, Dropped
    <2>. QED BY <1>1, <1>3, <1>4, <1>8, <2>1 DEF Executes
  <1>9. CASE /\ kind # "AttachConnection" /\ ~(kind = "AttachProcess" /\ p \in Connections(w))
             /\ ~(kind = "RemoveConnection" /\ p \in Connections(w))
    <2>1. table' = table /\ peers' = peers
      BY <1>5, <1>9 DEF Execute
    <2>. QED BY <1>1, <1>3, <1>4, <1>9, <2>1 DEF Executes
  <1>. QED BY <1>6, <1>7, <1>8, <1>9

LEMMA ShapeWorkers ==
  ASSUME Shape, NEW w \in Workers, Execute(w) \/ \E p \in Peers : Leave(w, p)
  PROVE  Shape'
  <1>0. TypeOK /\ mail \in [Workers -> Seq(Commands)] /\ peers \in [Peers -> Fate] /\ table[w] \in Entry
    BY ConnectionsType DEF Shape, TypeOK
  <1>. DEFINE Kept == /\ UNCHANGED <<ownerVars, m, fabrique, threadVars, kernelVars, next>>
                      /\ mail' \in [Workers -> Seq(Commands)] /\ table' \in [Workers -> Entry]
                      /\ peers' \in [Peers -> Fate]
  <1>1. Kept
    <2>1. CASE Execute(w)
      <3>1. PICK kind \in Kinds, p \in Peers : Executes(w, kind, p)
        BY <1>0, <2>1, Executed
      <3>2. Tail(mail[w]) \in Seq(Commands)
        BY <1>0, <3>1, HeadTailProperties DEF Executes
      <3>3. mail' \in [Workers -> Seq(Commands)]
        BY <1>0, <3>1, <3>2 DEF Executes
      <3>4. table' \in [Workers -> Entry]
        <4>1. table' = table \/ \E S, T \in SUBSET Peers : table' = [table EXCEPT ![w] = [idle |-> S, served |-> T]]
          BY <1>0, <3>1 DEF Entry, Dropped, Executes
        <4>. QED BY <1>0, <4>1, TableType DEF TypeOK
      <3>5. peers' \in [Peers -> Fate]
        BY <1>0, <3>1 DEF Fate, Executes
      <3>. QED BY <3>1, <3>3, <3>4, <3>5 DEF Executes
    <2>2. ASSUME NEW p \in Peers, Leave(w, p) PROVE Kept
      <3>1. Dropped(w, p) /\ peers' = [peers EXCEPT ![p] = "gone"] /\ mail' = mail
            /\ UNCHANGED <<ownerVars, m, fabrique, threadVars, kernelVars, next>>
        BY <2>2 DEF Leave, Dropped
      <3>2. table' \in [Workers -> Entry]
        BY <1>0, <3>1 DEF Entry, Dropped, TypeOK
      <3>3. peers' \in [Peers -> Fate]
        BY <1>0, <3>1 DEF Fate
      <3>. QED BY <1>0, <3>1, <3>2, <3>3
    <2>. QED BY <2>1, <2>2
  <1>. QED BY <1>1 DEF Shape, TypeOK, InHand, ThreadInv, SocketInv, EventInv, Pending,
                       ownerVars, threadVars, kernelVars

---------------------------------------------------------------------------
(* The connections and their processes.                                    *)

LEMMA MailLength ==
  ASSUME TypeOK, NEW w \in Workers
  PROVE  Len(mail[w]) \in Nat
  BY LenProperties DEF TypeOK

(* A mailbox that only grows keeps what is queued, in its order. *)
Grows(w) == /\ Len(mail[w]) <= Len(mail'[w]) /\ Len(mail'[w]) \in Nat
            /\ \A i \in 1..Len(mail[w]) : mail'[w][i] = mail[w][i]

LEMMA GrownKeeps ==
  ASSUME TypeOK, NEW w \in Workers, Grows(w), NEW p
  PROVE  /\ \A kind : Queued(w, kind, p) => Queued(w, kind, p)'
         /\ table'[w] = table[w] => (ServedAt(w, p) => ServedAt(w, p)')
  <1>1. Len(mail[w]) \in Nat /\ \A i \in 1..Len(mail[w]) : i \in 1..Len(mail'[w])
    BY MailLength DEF Grows
  <1>2. \A kind : Queued(w, kind, p) => Queued(w, kind, p)'
    BY <1>1 DEF Queued, Grows
  <1>3. ASSUME table'[w] = table[w], ServedAt(w, p) PROVE ServedAt(w, p)'
    <2>1. CASE p \in table[w].served
      BY <1>3, <2>1 DEF ServedAt
    <2>2. CASE p \in table[w].idle /\ Queued(w, "AttachProcess", p)
      BY <1>2, <1>3, <2>2 DEF ServedAt
    <2>3. ASSUME NEW i \in 1..Len(mail[w]), NEW j \in 1..Len(mail[w]), i < j,
                 mail[w][i] = <<"AttachConnection", p>>, mail[w][j] = <<"AttachProcess", p>>
          PROVE  ServedAt(w, p)'
      <3>1. /\ i \in 1..Len(mail'[w]) /\ j \in 1..Len(mail'[w])
            /\ mail'[w][i] = <<"AttachConnection", p>> /\ mail'[w][j] = <<"AttachProcess", p>>
        BY <1>1, <2>3 DEF Grows
      <3>. QED BY <2>3, <3>1 DEF ServedAt
    <2>. QED BY <1>3, <2>1, <2>2, <2>3 DEF ServedAt
  <1>. QED BY <1>2, <1>3

LEMMA SameGrows ==
  ASSUME TypeOK, NEW w \in Workers, mail'[w] = mail[w]
  PROVE  Grows(w)
  BY MailLength DEF Grows

LEMMA AppendGrows ==
  ASSUME TypeOK, NEW w \in Workers, NEW x \in Commands,
         mail' = [mail EXCEPT ![w] = Append(@, x)]
  PROVE  /\ \A v \in Workers : Grows(v)
         /\ Len(mail'[w]) = Len(mail[w]) + 1 /\ mail'[w][Len(mail[w]) + 1] = x
  <1>1. mail'[w] = Append(mail[w], x) /\ \A v \in Workers \ {w} : mail'[v] = mail[v]
    BY MailAppend
  <1>2. mail[w] \in Seq(Commands) /\ Len(mail[w]) \in Nat
    BY ConnectionsType, MailLength
  <1>3. /\ Len(mail'[w]) = Len(mail[w]) + 1 /\ mail'[w][Len(mail[w]) + 1] = x
        /\ \A i \in 1..Len(mail[w]) : mail'[w][i] = mail[w][i]
    BY <1>1, <1>2, AppendProperties
  <1>4. Grows(w)
    BY <1>2, <1>3 DEF Grows
  <1>. QED BY <1>1, <1>3, <1>4, SameGrows

LEMMA ConcatGrows ==
  ASSUME TypeOK, NEW w \in Workers, NEW s \in Seq(Commands), mail'[w] = mail[w] \o s
  PROVE  Grows(w)
  <1>1. mail[w] \in Seq(Commands) /\ Len(mail[w]) \in Nat /\ Len(s) \in Nat
    BY ConnectionsType, MailLength, LenProperties
  <1>2. /\ Len(mail'[w]) = Len(mail[w]) + Len(s)
        /\ \A i \in 1..(Len(mail[w]) + Len(s)) :
             mail'[w][i] = IF i <= Len(mail[w]) THEN mail[w][i] ELSE s[i - Len(mail[w])]
    BY <1>1, ConcatProperties
  <1>. QED BY <1>1, <1>2 DEF Grows

(* A command that is executed is lost to its mailbox, and only it. *)
LEMMA TailKeeps ==
  ASSUME TypeOK, NEW w \in Workers, mail[w] # <<>>, mail' = [mail EXCEPT ![w] = Tail(@)], NEW p
  PROVE  /\ \A kind : Queued(w, kind, p) => Queued(w, kind, p)' \/ Head(mail[w]) = <<kind, p>>
         /\ \A i, j \in 1..Len(mail[w]) :
              i < j /\ mail[w][i] = <<"AttachConnection", p>> /\ mail[w][j] = <<"AttachProcess", p>> =>
                \/ ServedAt(w, p)'
                \/ Head(mail[w]) = <<"AttachConnection", p>> /\ Queued(w, "AttachProcess", p)'
         /\ \A v \in Workers \ {w} : mail'[v] = mail[v]
  <1>1. /\ mail \in [Workers -> Seq(Commands)] /\ mail[w] \in Seq(Commands) /\ Len(mail[w]) \in Nat
        /\ mail'[w] = Tail(mail[w]) /\ \A v \in Workers \ {w} : mail'[v] = mail[v]
    BY MailLength DEF TypeOK
  <1>2. /\ Head(mail[w]) = mail[w][1] /\ Len(mail'[w]) = Len(mail[w]) - 1
        /\ \A i \in 1..Len(mail'[w]) : mail'[w][i] = mail[w][i + 1]
    BY <1>1, HeadTailProperties
  <1>3. \A i \in 1..Len(mail[w]) : i = 1 \/ (i - 1 \in 1..Len(mail'[w]) /\ mail'[w][i - 1] = mail[w][i])
    BY <1>1, <1>2
  <1>4. ASSUME NEW kind, Queued(w, kind, p) PROVE Queued(w, kind, p)' \/ Head(mail[w]) = <<kind, p>>
    <2>1. PICK i \in 1..Len(mail[w]) : mail[w][i] = <<kind, p>>
      BY <1>4 DEF Queued
    <2>. QED BY <1>2, <1>3, <2>1 DEF Queued
  <1>5. ASSUME NEW i \in 1..Len(mail[w]), NEW j \in 1..Len(mail[w]), i < j,
               mail[w][i] = <<"AttachConnection", p>>, mail[w][j] = <<"AttachProcess", p>>
        PROVE  \/ ServedAt(w, p)'
               \/ Head(mail[w]) = <<"AttachConnection", p>> /\ Queued(w, "AttachProcess", p)'
    <2>1. j - 1 \in 1..Len(mail'[w]) /\ mail'[w][j - 1] = <<"AttachProcess", p>>
      BY <1>1, <1>3, <1>5
    <2>2. CASE i = 1
      BY <1>2, <1>5, <2>1, <2>2 DEF Queued
    <2>3. CASE i # 1
      <3>1. /\ i - 1 \in 1..Len(mail'[w]) /\ mail'[w][i - 1] = <<"AttachConnection", p>>
            /\ i - 1 < j - 1
        BY <1>1, <1>3, <1>5, <2>3
      <3>. QED BY <2>1, <3>1 DEF ServedAt
    <2>. QED BY <2>2, <2>3
  <1>. QED BY <1>1, <1>4, <1>5

LEMMA MadeIsServedAt ==
  MadeIsServed <=> \A p \in Peers : peers[p] = "made" =>
                     (thread = "process" /\ accepted = p) \/ \E w \in Workers : ServedAt(w, p)
  BY DEF MadeIsServed, ServedAt

(* The worker the connection in hand was given to. *)
LEMMA HandWorker ==
  ASSUME Shape, thread \in {"fabrique", "process"}
  PROVE  /\ accepted \in Peers /\ next - 1 \in Nat /\ (next - 1) % NumWorkers \in Workers
  <1>1. accepted \in Peers /\ next \in Nat /\ next # 0
    BY DEF Shape, InHand, TypeOK
  <1>2. next - 1 \in Nat
    BY <1>1
  <1>. QED BY <1>1, <1>2, WorkersType

(* A connection a worker has, or has queued. *)
GivenTo(w, p) == p \in Connections(w) \/ Queued(w, "AttachConnection", p)

LEMMA HandedNext ==
  ASSUME NEW w, NEW p, w = (next' - 1) % NumWorkers, p = accepted', GivenTo(w, p)'
  PROVE  Handed'
  BY DEF Handed, Connections, Queued, GivenTo

(* A step that keeps tables and mailboxes, or lets mailboxes grow, and makes
   no connection attached or made. *)
LEMMA KeptStep ==
  ASSUME IndInv, \A w \in Workers : Grows(w) /\ table'[w] = table[w],
         \A p \in Peers : peers'[p] \in {"attached", "made"} => peers'[p] = peers[p],
         \/ thread' = thread /\ accepted' = accepted /\ next' = next
         \/ thread # "process" /\ thread' \notin {"fabrique", "process"}
  PROVE  Handed' /\ MadeIsServed'
  <1>0. Shape /\ TypeOK /\ Handed /\ MadeIsServed
    BY DEF IndInv, Shape
  <1>1. Handed'
    <2>1. CASE \/ thread' \notin {"fabrique", "process"}
               \/ peers'[accepted'] \notin {"attached", "made"}
      BY <2>1 DEF Handed
    <2>2. CASE thread' \in {"fabrique", "process"} /\ peers'[accepted'] \in {"attached", "made"}
      <3>1. /\ thread' = thread /\ accepted' = accepted /\ next' = next
            /\ thread \in {"fabrique", "process"}
        BY <2>2
      <3>2. accepted \in Peers /\ (next - 1) % NumWorkers \in Workers
        BY <1>0, <3>1, HandWorker
      <3>3. PICK w \in Workers : w = (next - 1) % NumWorkers
        BY <3>2
      <3>4. PICK p \in Peers : p = accepted
        BY <3>2
      <3>5. GivenTo(w, p)
        BY <1>0, <2>2, <3>1, <3>3, <3>4 DEF Handed, GivenTo
      <3>6. GivenTo(w, p)'
        BY <1>0, <3>5, GrownKeeps DEF GivenTo, Connections
      <3>. QED BY <3>1, <3>3, <3>4, <3>6, HandedNext
    <2>. QED BY <2>1, <2>2
  <1>2. MadeIsServed'
    <2>1. ASSUME NEW p \in Peers, peers'[p] = "made"
          PROVE  (thread' = "process" /\ accepted' = p) \/ \E w \in Workers : ServedAt(w, p)'
      <3>1. (thread = "process" /\ accepted = p) \/ \E w \in Workers : ServedAt(w, p)
        BY <1>0, <2>1, MadeIsServedAt
      <3>. QED BY <1>0, <3>1, GrownKeeps
    <2>. QED BY <2>1 DEF MadeIsServed, ServedAt
  <1>. QED BY <1>1, <1>2

LEMMA OwnerStep ==
  ASSUME IndInv,
         \/ configure \/ launch \/ stop_Unlaunched \/ set_processes_at_connections
         \/ stop_Lock \/ Closing \/ set_process \/ collapse
         \/ \E w \in Workers, p \in Peers : remove_connection(w, p)
  PROVE  IndInv'
  <1>0. Shape /\ TypeOK /\ ThreadInv
    BY DEF IndInv, Shape
  <1>1. Shape'
    BY <1>0, ShapeOwner, ShapeCalls
  <1>. SUFFICES Handed' /\ MadeIsServed'
    BY <1>1 DEF IndInv
  <1>2. CASE \/ configure \/ launch \/ stop_Unlaunched \/ set_processes_at_connections
             \/ stop_Lock \/ stop_Interrupt \/ stop_Join
    <2>1. /\ mail' = mail /\ table' = table /\ peers' = peers
          /\ \/ thread' = thread /\ accepted' = accepted /\ next' = next
             \/ thread \in {"none", "ended"} /\ thread' \in {"none", "socket"}
      BY <1>0, <1>2
         DEF configure, launch, stop_Unlaunched, set_processes_at_connections, stop_Lock, stop_Interrupt,
             stop_Join, threadVars, poolVars, ThreadInv
    <2>. QED BY <1>0, <2>1, SameGrows, KeptStep
  <1>3. CASE graceful_close
    <2>1. /\ mail' = mail /\ table' = table /\ thread' = thread /\ accepted' = accepted /\ next' = next
          /\ peers' = [p \in Peers |-> IF peers[p] = "queued" THEN "gone" ELSE peers[p]]
      BY <1>3 DEF graceful_close, threadVars, poolVars
    <2>. QED BY <1>0, <2>1, SameGrows, KeptStep
  <1>4. CASE DestroyPool
    <2>1. \A p \in Peers : peers'[p] \in {"away", "gone"}
      BY <1>4 DEF DestroyPool
    <2>2. thread' \in {"fabrique", "process"} => accepted' \in Peers
      BY <1>1 DEF Shape, InHand
    <2>. QED BY <2>1, <2>2 DEF Handed, MadeIsServed
  <1>5. CASE set_process \/ collapse
    <2>1. PICK kind \in Kinds : ForConnections(kind)
      BY <1>5 DEF set_process, collapse, Kinds
    <2>2. \A w \in Workers : Grows(w)
      BY <1>0, <2>1, ForConnectionsMail, ConcatGrows
    <2>3. table' = table /\ peers' = peers /\ thread' = thread /\ accepted' = accepted /\ next' = next
      BY <2>1 DEF ForConnections, threadVars
    <2>. QED BY <2>2, <2>3, KeptStep
  <1>6. ASSUME NEW w \in Workers, NEW p \in Peers, remove_connection(w, p)
        PROVE  Handed' /\ MadeIsServed'
    <2>1. /\ mail' = [mail EXCEPT ![w] = Append(@, <<"RemoveConnection", p>>)]
          /\ table' = table /\ peers' = peers /\ thread' = thread /\ accepted' = accepted /\ next' = next
      BY <1>6 DEF remove_connection, threadVars
    <2>2. <<"RemoveConnection", p>> \in Commands
      BY DEF Commands, Kinds
    <2>3. \A v \in Workers : Grows(v)
      BY <1>0, <2>1, <2>2, AppendGrows
    <2>. QED BY <2>1, <2>3, KeptStep
  <1>. QED BY <1>2, <1>3, <1>4, <1>5, <1>6 DEF Closing

LEMMA ThreadStep ==
  ASSUME IndInv, AcceptThread
  PROVE  IndInv'
  <1>0. Shape /\ TypeOK /\ Handed /\ MadeIsServed
    BY DEF IndInv, Shape
  <1>1. Shape'
    BY <1>0, ShapeThread
  <1>. SUFFICES Handed' /\ MadeIsServed'
    BY <1>1 DEF IndInv
  <1>2. CASE \/ \E o \in {"listens", "deaf", "no socket"} : OpenSocket(o)
             \/ TestStop \/ wait
    <2>1. /\ mail' = mail /\ table' = table /\ peers' = peers
          /\ thread # "process" /\ thread' \notin {"fabrique", "process"}
      BY <1>2 DEF OpenSocket, TestStop, wait, poolVars
    <2>. QED BY <1>0, <2>1, SameGrows, KeptStep
  <1>3. CASE \E taken \in BOOLEAN : accept_Fails(taken)
    <2>1. /\ mail' = mail /\ table' = table /\ thread = "event" /\ thread' = "test"
          /\ peers' = peers \/ peers' = [peers EXCEPT ![Head(backlog)] = "gone"]
      BY <1>3 DEF accept_Fails, poolVars
    <2>2. \A p \in Peers : peers'[p] = peers[p] \/ peers'[p] = "gone"
      BY <1>0, <2>1 DEF TypeOK
    <2>. QED BY <1>0, <2>1, <2>2, SameGrows, KeptStep
  <1>4. CASE accept
    <2>. DEFINE q == Head(backlog)
    <2>1. /\ thread = "event" /\ backlog # <<>> /\ accepted' = q /\ peers' = [peers EXCEPT ![q] = "attached"]
          /\ mail' = [mail EXCEPT ![Index] = Append(@, <<"AttachConnection", q>>)]
          /\ next' = next + 1 /\ thread' = "fabrique" /\ table' = table
      BY <1>4 DEF accept
    <2>2. q \in Peers /\ Index \in Workers /\ next \in Nat
      BY <1>0, <2>1, HeadTailProperties, WorkersType DEF TypeOK, Index
    <2>3. <<"AttachConnection", q>> \in Commands
      BY <2>2 DEF Commands, Kinds
    <2>4. /\ \A v \in Workers : Grows(v)
          /\ Len(mail'[Index]) = Len(mail[Index]) + 1
          /\ mail'[Index][Len(mail[Index]) + 1] = <<"AttachConnection", q>>
          /\ Len(mail[Index]) \in Nat
      BY <1>0, <2>1, <2>2, <2>3, AppendGrows, MailLength
    <2>5. (next' - 1) % NumWorkers = Index
      BY <2>1, <2>2 DEF Index
    <2>. HIDE DEF q
    <2>6. \E i \in 1..Len(mail'[Index]) : mail'[Index][i] = <<"AttachConnection", accepted'>>
      BY <2>1, <2>4
    <2>7. Handed'
      BY <2>1, <2>5, <2>6 DEF Handed, Queued
    <2>8. ASSUME NEW p \in Peers, peers'[p] = "made" PROVE \E w \in Workers : ServedAt(w, p)'
      <3>1. peers[p] = "made"
        BY <1>0, <2>1, <2>2, <2>8 DEF TypeOK
      <3>2. PICK w \in Workers : ServedAt(w, p)
        BY <1>0, <2>1, <3>1, MadeIsServedAt
      <3>. QED BY <1>0, <2>1, <2>4, <3>2, GrownKeeps
    <2>9. MadeIsServed'
      BY <2>8 DEF MadeIsServed, ServedAt
    <2>. QED BY <2>7, <2>9
  <1>5. CASE make_process
    <2>1. /\ thread = "fabrique" /\ mail' = mail /\ table' = table /\ next' = next /\ accepted' = accepted
          /\ \/ /\ thread' = "process"
                /\ peers' = [peers EXCEPT ![accepted] = IF @ = "attached" THEN "made" ELSE @]
             \/ thread' = "test" /\ peers' = peers
      BY <1>5 DEF make_process, poolVars
    <2>2. CASE thread' = "test" /\ peers' = peers
      BY <1>0, <2>1, <2>2, SameGrows, KeptStep
    <2>3. CASE /\ thread' = "process"
               /\ peers' = [peers EXCEPT ![accepted] = IF @ = "attached" THEN "made" ELSE @]
      <3>1. accepted \in Peers /\ (next - 1) % NumWorkers \in Workers
        BY <1>0, <2>1, HandWorker
      <3>2. /\ peers'[accepted] \in {"attached", "made"} => peers[accepted] \in {"attached", "made"}
            /\ \A p \in Peers \ {accepted} : peers'[p] = peers[p]
        BY <1>0, <2>3, <3>1 DEF TypeOK
      <3>3. Handed'
        BY <1>0, <2>1, <2>3, <3>2 DEF Handed, Connections, Queued
      <3>4. ASSUME NEW p \in Peers, peers'[p] = "made", p # accepted
            PROVE  \E w \in Workers : ServedAt(w, p)'
        <4>1. PICK w \in Workers : ServedAt(w, p)
          BY <1>0, <2>1, <3>2, <3>4, MadeIsServedAt
        <4>. QED BY <2>1, <4>1 DEF ServedAt, Queued
      <3>5. MadeIsServed'
        BY <2>1, <2>3, <3>4 DEF MadeIsServed, ServedAt
      <3>. QED BY <3>3, <3>5
    <2>. QED BY <2>1, <2>2, <2>3
  <1>6. CASE AttachMade
    <2>. DEFINE w == (next - 1) % NumWorkers
    <2>1. /\ thread = "process" /\ thread' = "test" /\ table' = table /\ peers' = peers
          /\ mail' = [mail EXCEPT ![w] = Append(@, <<"AttachProcess", accepted>>)]
      BY <1>6 DEF AttachMade
    <2>2. accepted \in Peers /\ w \in Workers
      BY <1>0, <2>1, HandWorker
    <2>3. <<"AttachProcess", accepted>> \in Commands
      BY <2>2 DEF Commands, Kinds
    <2>. HIDE DEF w
    <2>4. /\ \A v \in Workers : Grows(v)
          /\ Len(mail'[w]) = Len(mail[w]) + 1
          /\ mail'[w][Len(mail[w]) + 1] = <<"AttachProcess", accepted>>
          /\ Len(mail[w]) \in Nat
      BY <1>0, <2>1, <2>2, <2>3, AppendGrows, MailLength
    <2>5. Handed'
      BY <2>1 DEF Handed
    <2>6. ASSUME NEW p \in Peers, peers'[p] = "made" PROVE \E v \in Workers : ServedAt(v, p)'
      <3>1. CASE p = accepted
        <4>1. accepted \in Connections(w) \/ Queued(w, "AttachConnection", accepted)
          BY <1>0, <2>1, <2>6, <3>1 DEF Handed, w
        <4>2. Queued(w, "AttachProcess", accepted)'
          <5>1. Len(mail[w]) + 1 \in 1..Len(mail'[w])
            BY <2>4
          <5>2. \E i \in 1..Len(mail'[w]) : mail'[w][i] = <<"AttachProcess", accepted>>
            BY <2>4, <5>1
          <5>. QED BY <1>6, <5>2 DEF Queued, AttachMade, w
        <4>3. CASE accepted \in Connections(w)
          <5>1. accepted \in table'[w].served \/ accepted \in table'[w].idle
            BY <2>1, <4>3 DEF Connections
          <5>. QED BY <1>6, <2>2, <3>1, <4>2, <5>1 DEF ServedAt, AttachMade, w
        <4>4. CASE Queued(w, "AttachConnection", accepted)
          <5>1. PICK i \in 1..Len(mail[w]) : mail[w][i] = <<"AttachConnection", accepted>>
            BY <4>4 DEF Queued
          <5>2. /\ i \in 1..Len(mail'[w]) /\ Len(mail[w]) + 1 \in 1..Len(mail'[w]) /\ i < Len(mail[w]) + 1
                /\ mail'[w][i] = <<"AttachConnection", p>>
                /\ mail'[w][Len(mail[w]) + 1] = <<"AttachProcess", p>>
            BY <2>2, <2>4, <3>1, <5>1 DEF Grows
          <5>3. \E a, b \in 1..Len(mail'[w]) : a < b /\ mail'[w][a] = <<"AttachConnection", p>>
                                                    /\ mail'[w][b] = <<"AttachProcess", p>>
            BY <5>2
          <5>. QED BY <2>2, <5>3, <1>6 DEF ServedAt, AttachMade, w
        <4>. QED BY <4>1, <4>3, <4>4
      <3>2. CASE p # accepted
        <4>1. PICK v \in Workers : ServedAt(v, p)
          BY <1>0, <2>1, <2>6, <3>2, MadeIsServedAt
        <4>. QED BY <1>0, <2>1, <2>4, <4>1, GrownKeeps
      <3>. QED BY <3>1, <3>2
    <2>7. MadeIsServed'
      BY <2>6 DEF MadeIsServed, ServedAt
    <2>. QED BY <2>5, <2>7
  <1>. QED BY <1>2, <1>3, <1>4, <1>5, <1>6 DEF AcceptThread

(* What a command does to the entry of a connection that stays. *)
LEMMA EntryAfter ==
  ASSUME TypeOK, NEW w \in Workers, NEW kind \in Kinds, NEW p \in Peers, Executes(w, kind, p),
         NEW q \in Peers, peers'[q] # "gone"
  PROVE  /\ peers'[q] = peers[q] /\ \A v \in Workers \ {w} : table'[v] = table[v]
         /\ q \in table[w].served => q \in table'[w].served
         /\ q \in table[w].idle => q \in table'[w].idle \cup table'[w].served
         /\ Head(mail[w]) = <<"AttachConnection", q>> => q \in table'[w].idle
         /\ Head(mail[w]) = <<"AttachProcess", q>> /\ q \in Connections(w) => q \in table'[w].served
  <1>0. /\ table[w].idle \in SUBSET Peers /\ table[w].served \in SUBSET Peers
        /\ peers \in [Peers -> Fate] /\ Head(mail[w]) = <<kind, p>>
    BY DEF TypeOK, Entry, Executes
  <1>1. CASE /\ kind = "AttachConnection" /\ peers' = peers
             /\ table' = [table EXCEPT ![w] = [idle |-> table[w].idle \cup {p}, served |-> table[w].served]]
    <2>1. /\ table'[w].idle = table[w].idle \cup {p} /\ table'[w].served = table[w].served
          /\ \A v \in Workers \ {w} : table'[v] = table[v]
      BY <1>0, <1>1 DEF TypeOK
    <2>. QED BY <1>0, <1>1, <2>1
  <1>2. CASE /\ kind = "AttachProcess" /\ p \in Connections(w) /\ peers' = peers
             /\ table' = [table EXCEPT ![w] = [idle |-> table[w].idle \ {p},
                                               served |-> table[w].served \cup {p}]]
    <2>1. /\ table'[w].idle = table[w].idle \ {p} /\ table'[w].served = table[w].served \cup {p}
          /\ \A v \in Workers \ {w} : table'[v] = table[v]
      BY <1>0, <1>2 DEF TypeOK
    <2>. QED BY <1>0, <1>2, <2>1
  <1>3. CASE /\ kind = "RemoveConnection" /\ p \in Connections(w) /\ Dropped(w, p)
             /\ peers' = [peers EXCEPT ![p] = "gone"]
    <2>1. /\ table'[w].idle = table[w].idle \ {p} /\ table'[w].served = table[w].served \ {p}
          /\ \A v \in Workers \ {w} : table'[v] = table[v]
      BY <1>0, <1>3 DEF Dropped, TypeOK
    <2>2. p # q /\ peers'[q] = peers[q]
      BY <1>0, <1>3
    <2>. QED BY <1>0, <1>3, <2>1, <2>2
  <1>4. CASE /\ table' = table /\ peers' = peers
             /\ kind # "AttachConnection" /\ (kind = "AttachProcess" => p \notin Connections(w))
    BY <1>0, <1>4 DEF Connections
  <1>. QED BY <1>1, <1>2, <1>3, <1>4 DEF Executes

LEMMA ExecuteKeeps ==
  ASSUME TypeOK, NEW w \in Workers, NEW kind \in Kinds, NEW p \in Peers, Executes(w, kind, p),
         NEW q \in Peers, peers'[q] # "gone", NEW v \in Workers
  PROVE  /\ GivenTo(v, q) => GivenTo(v, q)'
         /\ ServedAt(v, q) => ServedAt(v, q)'
  <1>1. /\ mail[w] # <<>> /\ mail' = [mail EXCEPT ![w] = Tail(@)]
    BY DEF Executes
  <1>2. /\ \A x \in Workers \ {w} : table'[x] = table[x] /\ mail'[x] = mail[x]
        /\ q \in table[w].served => q \in table'[w].served
        /\ q \in table[w].idle => q \in table'[w].idle \cup table'[w].served
        /\ Head(mail[w]) = <<"AttachConnection", q>> => q \in table'[w].idle
        /\ Head(mail[w]) = <<"AttachProcess", q>> /\ q \in Connections(w) => q \in table'[w].served
    BY <1>1, EntryAfter, TailKeeps
  <1>3. CASE v # w
    BY <1>2, <1>3 DEF GivenTo, ServedAt, Connections, Queued
  <1>4. CASE v = w
    <2>1. GivenTo(w, q) => GivenTo(w, q)'
      <3>1. Queued(w, "AttachConnection", q) =>
              Queued(w, "AttachConnection", q)' \/ Head(mail[w]) = <<"AttachConnection", q>>
        BY <1>1, TailKeeps
      <3>. QED BY <1>2, <3>1 DEF GivenTo, Connections
    <2>2. ASSUME q \in table[w].idle, Queued(w, "AttachProcess", q) PROVE ServedAt(w, q)'
      <3>1. Queued(w, "AttachProcess", q)' \/ Head(mail[w]) = <<"AttachProcess", q>>
        BY <1>1, <2>2, TailKeeps
      <3>. QED BY <1>2, <2>2, <3>1 DEF ServedAt, Connections
    <2>3. ASSUME NEW i \in 1..Len(mail[w]), NEW j \in 1..Len(mail[w]), i < j,
                 mail[w][i] = <<"AttachConnection", q>>, mail[w][j] = <<"AttachProcess", q>>
          PROVE  ServedAt(w, q)'
      <3>1. \/ ServedAt(w, q)'
            \/ Head(mail[w]) = <<"AttachConnection", q>> /\ Queued(w, "AttachProcess", q)'
        BY <1>1, <2>3, TailKeeps
      <3>. QED BY <1>2, <3>1 DEF ServedAt
    <2>4. ServedAt(w, q) => ServedAt(w, q)'
      BY <1>2, <2>2, <2>3 DEF ServedAt
    <2>. QED BY <1>4, <2>1, <2>4
  <1>. QED BY <1>3, <1>4

LEMMA LeaveKeeps ==
  ASSUME TypeOK, NEW w \in Workers, NEW p \in Peers, Leave(w, p),
         NEW q \in Peers, peers'[q] # "gone", NEW v \in Workers
  PROVE  /\ peers'[q] = peers[q]
         /\ GivenTo(v, q) => GivenTo(v, q)'
         /\ ServedAt(v, q) => ServedAt(v, q)'
  <1>1. /\ table' = [table EXCEPT ![w] = [idle |-> table[w].idle \ {p}, served |-> table[w].served \ {p}]]
        /\ peers' = [peers EXCEPT ![p] = "gone"] /\ mail' = mail
    BY DEF Leave
  <1>2. /\ table[w].idle \in SUBSET Peers /\ table[w].served \in SUBSET Peers
        /\ peers \in [Peers -> Fate]
    BY DEF TypeOK, Entry
  <1>3. /\ table'[w].idle = table[w].idle \ {p} /\ table'[w].served = table[w].served \ {p}
        /\ \A x \in Workers \ {w} : table'[x] = table[x]
    BY <1>1, <1>2 DEF TypeOK
  <1>4. p # q /\ peers'[q] = peers[q]
    BY <1>1, <1>2
  <1>5. /\ q \in table[v].idle <=> q \in table'[v].idle
        /\ q \in table[v].served <=> q \in table'[v].served
    BY <1>3, <1>4
  <1>. QED BY <1>1, <1>4, <1>5 DEF GivenTo, ServedAt, Connections, Queued

LEMMA WorkerStep ==
  ASSUME IndInv, NEW w \in Workers, Execute(w) \/ \E p \in Peers : Leave(w, p)
  PROVE  IndInv'
  <1>0. Shape /\ TypeOK /\ Handed /\ MadeIsServed
    BY DEF IndInv, Shape
  <1>1. Shape'
    BY <1>0, ShapeWorkers
  <1>2. thread' = thread /\ accepted' = accepted /\ next' = next
    BY DEF Execute, Leave, threadVars
  <1>3. ASSUME NEW q \in Peers, peers'[q] # "gone", NEW v \in Workers
        PROVE  /\ peers'[q] = peers[q]
               /\ GivenTo(v, q) => GivenTo(v, q)'
               /\ ServedAt(v, q) => ServedAt(v, q)'
    <2>1. CASE Execute(w)
      <3>1. PICK kind \in Kinds, p \in Peers : Executes(w, kind, p)
        BY <1>0, <2>1, Executed
      <3>2. peers'[q] = peers[q]
        BY <1>0, <1>3, <3>1, EntryAfter
      <3>. QED BY <1>0, <1>3, <3>1, <3>2, ExecuteKeeps
    <2>2. CASE \E p \in Peers : Leave(w, p)
      BY <1>0, <1>3, <2>2, LeaveKeeps
    <2>. QED BY <2>1, <2>2
  <1>4. Handed'
    <2>1. CASE \/ thread' \notin {"fabrique", "process"}
               \/ peers'[accepted'] \notin {"attached", "made"}
      BY <2>1 DEF Handed
    <2>2. CASE thread' \in {"fabrique", "process"} /\ peers'[accepted'] \in {"attached", "made"}
      <3>1. accepted \in Peers /\ (next - 1) % NumWorkers \in Workers
        BY <1>0, <1>2, <2>2, HandWorker
      <3>2. PICK v \in Workers : v = (next - 1) % NumWorkers
        BY <3>1
      <3>3. PICK q \in Peers : q = accepted
        BY <3>1
      <3>4. peers'[q] # "gone" /\ peers'[q] = peers[q]
        BY <1>2, <1>3, <2>2, <3>3
      <3>5. GivenTo(v, q)
        BY <1>0, <1>2, <2>2, <3>2, <3>3, <3>4 DEF Handed, GivenTo
      <3>6. GivenTo(v, q)'
        BY <1>3, <3>4, <3>5
      <3>. QED BY <1>2, <3>2, <3>3, <3>6, HandedNext
    <2>. QED BY <2>1, <2>2
  <1>5. MadeIsServed'
    <2>1. ASSUME NEW q \in Peers, peers'[q] = "made"
          PROVE  (thread' = "process" /\ accepted' = q) \/ \E v \in Workers : ServedAt(v, q)'
      <3>1. peers[q] = "made"
        BY <1>3, <2>1
      <3>2. (thread = "process" /\ accepted = q) \/ \E v \in Workers : ServedAt(v, q)
        BY <1>0, <3>1, MadeIsServedAt
      <3>. QED BY <1>2, <1>3, <2>1, <3>2
    <2>. QED BY <2>1 DEF MadeIsServed, ServedAt
  <1>. QED BY <1>1, <1>4, <1>5 DEF IndInv

LEMMA NextInv ==
  ASSUME IndInv, [Next]_vars
  PROVE  IndInv'
  <1>0. Shape /\ TypeOK
    BY DEF IndInv, Shape
  <1>1. ASSUME NEW p \in Peers, Arrive(p) PROVE IndInv'
    <2>1. Shape'
      BY <1>0, <1>1, ArriveShape
    <2>2. /\ mail' = mail /\ table' = table /\ peers' = [peers EXCEPT ![p] = "queued"]
          /\ thread' = thread /\ accepted' = accepted /\ next' = next
      BY <1>1 DEF Arrive, threadVars, poolVars
    <2>3. \A q \in Peers : peers'[q] = peers[q] \/ peers'[q] = "queued"
      BY <1>0, <2>2 DEF TypeOK
    <2>. QED BY <1>0, <2>1, <2>2, <2>3, SameGrows, KeptStep DEF IndInv
  <1>2. CASE UNCHANGED vars
    <2>1. Shape'
      BY <1>0, <1>2 DEF vars, Shape, TypeOK, InHand, ThreadInv, SocketInv, EventInv, Pending
    <2>2. /\ mail' = mail /\ table' = table /\ peers' = peers
          /\ thread' = thread /\ accepted' = accepted /\ next' = next
      BY <1>2 DEF vars
    <2>. QED BY <1>0, <2>1, <2>2, SameGrows, KeptStep DEF IndInv
  <1>. QED BY <1>1, <1>2, OwnerStep, ThreadStep, WorkerStep DEF Next, Idle

LEMMA InitInv ==
  ASSUME Init
  PROVE  IndInv
  BY ShapeInit DEF Init, IndInv, Handed, MadeIsServed

(* The state of a server, for every number of clients, workers and calls:  *)
(* the accept thread runs only between launch and the join of stop, and    *)
(* what it has in its hand is with the worker next_worker_ names.          *)
THEOREM AcceptorInvariant == Spec => []IndInv
  <1>. QED BY InitInv, NextInv, PTL DEF Spec

(* A connection accept_connections made a process for gets it: the pair of *)
(* commands is never split over two workers nor executed in another order, *)
(* whatever the owner and the clients do meanwhile.                        *)
THEOREM MadeIsServedTheorem == Spec => []MadeIsServed
  <1>1. IndInv => MadeIsServed
    BY DEF IndInv
  <1>. QED BY <1>1, AcceptorInvariant, PTL

(* An accept that an event has asked for finds a connection: an interrupt, *)
(* a failed accept or a dropped connection never leaves an event behind    *)
(* that stands for nobody, so that accept does not fail for want of one.   *)
THEOREM AcceptFindsOne == Spec => [](thread = "event" => backlog # <<>>)
  <1>1. ASSUME IndInv, thread = "event" PROVE backlog # <<>>
    <2>1. Len(backlog) \in Nat /\ 1 <= Len(backlog)
      BY <1>1, LenProperties DEF IndInv, Shape, TypeOK, EventInv, Pending
    <2>. QED BY <2>1, EmptySeq
  <1>. QED BY <1>1, AcceptorInvariant, PTL
=============================================================================
