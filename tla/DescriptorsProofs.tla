------------------------- MODULE DescriptorsProofs -------------------------
(***************************************************************************)
(* Proofs about Descriptors for every number of connections, descriptors   *)
(* and calls.                                                              *)
(***************************************************************************)
EXTENDS Descriptors, SequenceTheorems, TLAPS

Ids == Conn \cup {None}
FdOrNone == Fds \cup {NoFd}
States == {"None", "Active", "Connecting", "Shutdowned", "Closed"}
Ops == {"add", "attach", "modify", "shutdown", "remove"}
Commands == [op : Ops, id : Conn, fd : FdOrNone]
Entries == [state : States, fd : FdOrNone]
Kernel == [file : [Fds -> Ids], reg : [Fds -> Ids], done : [Fds -> SUBSET Conn],
           down : SUBSET Fds, nonblock : SUBSET Fds]

(* The commands not executed yet, in their order. *)
Cmds == todo \o queue

TypeOK ==
    /\ os \in Kernel /\ tab \in [Conn -> Entries]
    /\ queue \in Seq(Commands) /\ todo \in Seq(Commands) /\ next \in Nat \ {0}
    /\ pc \in {"wait", "cmds", "events", "gone"} /\ (pc # "cmds" => todo = <<>>)

(* A connection is created by one command, which comes before its entry. *)
Creates(x) == x.op \in {"add", "attach"}
CreatedOnce ==
    /\ \A i, j \in 1..Len(Cmds) :
         Creates(Cmds[i]) /\ Creates(Cmds[j]) /\ Cmds[i].id = Cmds[j].id => i = j
    /\ \A i \in 1..Len(Cmds) : /\ Cmds[i].id < next
                               /\ Cmds[i].fd # NoFd => Creates(Cmds[i])
                               /\ Creates(Cmds[i]) => tab[Cmds[i].id] = NoEntry
    /\ \A c \in Conn : tab[c] # NoEntry => c < next

(* A descriptor of `c`, and one that is not open. *)
BelongsTo(o, f, c) == /\ o.file[f] = c /\ o.done[f] \subseteq {c} /\ o.reg[f] \in {None, c}
                      /\ f \in o.nonblock
IsFree(o, f) == o.file[f] = None /\ o.done[f] = {} /\ o.reg[f] = None

(* The Socket of a command, or of an entry, for `c`. *)
CmdHolds(f, c) == \E i \in 1..Len(Cmds) : Cmds[i].fd = f /\ Cmds[i].id = c
Holds(f, c) == tab[c].fd = f \/ CmdHolds(f, c)

(* Every Socket has the descriptor of its connection ... *)
Owned == \A f \in Fds, c \in Conn : Holds(f, c) => BelongsTo(os, f, c)

(* ... and every descriptor without one is free. *)
Accounted == \A f \in Fds : IsFree(os, f) \/ \E c \in Conn : Holds(f, c)

IndInv == TypeOK /\ CreatedOnce /\ Owned /\ Accounted

---------------------------------------------------------------------------
(* What the calls do to one descriptor.                                    *)

SameBut(o, q, f) ==
    \A g \in Fds \ {f} : /\ q.file[g] = o.file[g] /\ q.done[g] = o.done[g] /\ q.reg[g] = o.reg[g]
                         /\ g \in o.nonblock => g \in q.nonblock
Kept(o, q, f, c) == q \in Kernel /\ SameBut(o, q, f) /\ BelongsTo(q, f, c)
Lost(o, q, f) == q \in Kernel /\ SameBut(o, q, f) /\ IsFree(q, f)

LEMMA Constants == /\ MaxFd \in Nat /\ MaxConn \in Nat /\ NoFd \notin Fds /\ None \notin Conn
                   /\ Fds \subseteq Nat /\ Conn \subseteq Nat
  BY BoundsAssumption DEF Fds, Conn, NoFd, None

LEMMA ReleasedIs ==
  ASSUME NEW o \in Kernel, NEW f \in Fds
  PROVE  Lost(o, Released_(o, f), f)
  <1>1. Released_(o, f) \in Kernel
    BY DEF Released_, Kernel, Ids
  <1>. QED BY <1>1 DEF Lost, Released_, Kernel, SameBut, IsFree

(* Each of the updates, by its fields. *)
LEMMA WithFile ==
  ASSUME NEW o \in Kernel, NEW g \in [Fds -> Ids]
  PROVE  LET q == [o EXCEPT !.file = g]
         IN  /\ q \in Kernel /\ q.file = g
             /\ q.reg = o.reg /\ q.done = o.done /\ q.down = o.down /\ q.nonblock = o.nonblock
  BY DEF Kernel

LEMMA WithReg ==
  ASSUME NEW o \in Kernel, NEW g \in [Fds -> Ids]
  PROVE  LET q == [o EXCEPT !.reg = g]
         IN  /\ q \in Kernel /\ q.reg = g
             /\ q.file = o.file /\ q.done = o.done /\ q.down = o.down /\ q.nonblock = o.nonblock
  BY DEF Kernel

LEMMA WithDone ==
  ASSUME NEW o \in Kernel, NEW g \in [Fds -> SUBSET Conn]
  PROVE  LET q == [o EXCEPT !.done = g]
         IN  /\ q \in Kernel /\ q.done = g
             /\ q.file = o.file /\ q.reg = o.reg /\ q.down = o.down /\ q.nonblock = o.nonblock
  BY DEF Kernel

LEMMA WithDown ==
  ASSUME NEW o \in Kernel, NEW f \in Fds, NEW q, q = [o EXCEPT !.down = @ \cup {f}]
  PROVE  /\ q \in Kernel /\ q.file = o.file /\ q.reg = o.reg /\ q.done = o.done /\ q.nonblock = o.nonblock
  BY DEF Kernel

LEMMA WithNonblock ==
  ASSUME NEW o \in Kernel, NEW f \in Fds, NEW q, q = [o EXCEPT !.nonblock = @ \cup {f}]
  PROVE  /\ q \in Kernel /\ q.file = o.file /\ q.reg = o.reg /\ q.done = o.done
         /\ q.nonblock = o.nonblock \cup {f}
  BY DEF Kernel

LEMMA SameOrder ==
  ASSUME NEW o, NEW p, NEW q, NEW f, SameBut(o, p, f), SameBut(p, q, f)
  PROVE  SameBut(o, q, f)
  BY DEF SameBut

LEMMA SocketIs ==
  ASSUME NEW o \in Kernel, NEW c \in Conn, NEW s \in socket(o, c), \A f \in Fds : o.file[f] = None => IsFree(o, f)
  PROVE  /\ s.fd \in Fds /\ IsFree(o, s.fd) /\ Kept(o, set_no_block(s.os, s.fd), s.fd, c)
         /\ set_no_block(s.os, s.fd).reg[s.fd] = None
  <1>1. PICK f \in Fds : s = [os |-> Opened(o, f, c), fd |-> f] /\ o.file[f] = None
    BY DEF socket, Free
  <1>2. s.fd = f /\ s.os = [o EXCEPT !.file[f] = c] /\ IsFree(o, f)
    BY <1>1 DEF Opened
  <1>3. PICK p : p = [o EXCEPT !.file[f] = c]
    OBVIOUS
  <1>4. /\ p \in Kernel /\ p.file = [o.file EXCEPT ![f] = c]
        /\ p.reg = o.reg /\ p.done = o.done /\ p.nonblock = o.nonblock
    <2>. DEFINE g == [o.file EXCEPT ![f] = c]
    <2>1. g \in [Fds -> Ids]
      BY DEF Kernel, Ids
    <2>2. p = [o EXCEPT !.file = g]
      BY <1>3
    <2>. HIDE DEF g
    <2>3. /\ p \in Kernel /\ p.file = g
          /\ p.reg = o.reg /\ p.done = o.done /\ p.nonblock = o.nonblock
      BY <2>1, <2>2, WithFile
    <2>. QED BY <2>3 DEF g
  <1>5. PICK q : q = [p EXCEPT !.nonblock = @ \cup {f}]
    OBVIOUS
  <1>6. q \in Kernel /\ q.file = p.file /\ q.reg = p.reg /\ q.done = p.done /\ q.nonblock = p.nonblock \cup {f}
    BY <1>4, <1>5, WithNonblock
  <1>7. set_no_block(s.os, s.fd) = q
    BY <1>2, <1>3, <1>5, Constants DEF set_no_block
  <1>8. o.file \in [Fds -> Ids]
    BY DEF Kernel
  <1>9. Kept(o, q, f, c) /\ q.reg[f] = None
    BY <1>2, <1>4, <1>6, <1>8 DEF Kept, SameBut, BelongsTo, IsFree
  <1>. QED BY <1>2, <1>7, <1>9

LEMMA KeptSelf ==
  ASSUME NEW o \in Kernel, NEW f, NEW c, BelongsTo(o, f, c)
  PROVE  Kept(o, o, f, c)
  BY DEF Kept, SameBut

LEMMA KeptOrder ==
  ASSUME NEW o, NEW p, NEW q, NEW f, NEW c, Kept(o, p, f, c)
  PROVE  /\ p \in Kernel /\ BelongsTo(p, f, c)
         /\ Kept(p, q, f, c) => Kept(o, q, f, c)
         /\ Lost(p, q, f) => Lost(o, q, f)
  BY SameOrder DEF Kept, Lost

LEMMA DestroyedIs ==
  ASSUME NEW o \in Kernel
  PROVE  /\ Destroyed(o, NoFd) = o /\ close(o, NoFd) = o
         /\ \A f \in Fds : Lost(o, Destroyed(o, f), f) /\ Lost(o, close(o, f), f)
  BY ReleasedIs, Constants DEF Destroyed, close

LEMMA RegKept ==
  ASSUME NEW o \in Kernel, NEW f \in Fds, NEW c \in Conn, BelongsTo(o, f, c), NEW x \in {None, c}
  PROVE  Kept(o, [o EXCEPT !.reg[f] = x], f, c)
  <1>1. PICK q : q = [o EXCEPT !.reg[f] = x]
    OBVIOUS
  <1>2. x \in Ids /\ o.reg \in [Fds -> Ids]
    BY DEF Ids, Kernel
  <1>3. /\ q \in Kernel /\ q.reg = [o.reg EXCEPT ![f] = x]
        /\ q.file = o.file /\ q.done = o.done /\ q.down = o.down /\ q.nonblock = o.nonblock
    <2>. DEFINE g == [o.reg EXCEPT ![f] = x]
    <2>1. g \in [Fds -> Ids] /\ q = [o EXCEPT !.reg = g]
      BY <1>1, <1>2
    <2>. HIDE DEF g
    <2>2. /\ q \in Kernel /\ q.reg = g
          /\ q.file = o.file /\ q.done = o.done /\ q.down = o.down /\ q.nonblock = o.nonblock
      BY <2>1, WithReg
    <2>. QED BY <2>2 DEF g
  <1>4. Kept(o, q, f, c)
    BY <1>2, <1>3 DEF Kept, SameBut, BelongsTo
  <1>. QED BY <1>1, <1>4

LEMMA DoneKept ==
  ASSUME NEW o \in Kernel, NEW f \in Fds, NEW c \in Conn, BelongsTo(o, f, c)
  PROVE  /\ Kept(o, [o EXCEPT !.done[f] = @ \cup {c}], f, c)
         /\ [o EXCEPT !.done[f] = @ \cup {c}].down = o.down
  <1>1. PICK q : q = [o EXCEPT !.done[f] = @ \cup {c}]
    OBVIOUS
  <1>2. o.done \in [Fds -> SUBSET Conn]
    BY DEF Kernel
  <1>3. /\ q \in Kernel /\ q.done = [o.done EXCEPT ![f] = @ \cup {c}]
        /\ q.file = o.file /\ q.reg = o.reg /\ q.down = o.down /\ q.nonblock = o.nonblock
    <2>. DEFINE g == [o.done EXCEPT ![f] = @ \cup {c}]
    <2>1. g \in [Fds -> SUBSET Conn] /\ q = [o EXCEPT !.done = g]
      BY <1>1, <1>2
    <2>. HIDE DEF g
    <2>2. /\ q \in Kernel /\ q.done = g
          /\ q.file = o.file /\ q.reg = o.reg /\ q.down = o.down /\ q.nonblock = o.nonblock
      BY <2>1, WithDone
    <2>. QED BY <2>2 DEF g
  <1>4. Kept(o, q, f, c)
    BY <1>2, <1>3 DEF Kept, SameBut, BelongsTo
  <1>. QED BY <1>1, <1>3, <1>4

LEMMA NonblockKept ==
  ASSUME NEW o \in Kernel, NEW f \in Fds, NEW c \in Conn, BelongsTo(o, f, c)
  PROVE  Kept(o, is_non_block(o, f).os, f, c)
  <1>1. PICK q : q = [o EXCEPT !.nonblock = @ \cup {f}]
    OBVIOUS
  <1>2. q \in Kernel /\ q.file = o.file /\ q.reg = o.reg /\ q.done = o.done /\ q.nonblock = o.nonblock \cup {f}
    BY <1>1, WithNonblock
  <1>3. Kept(o, q, f, c)
    BY <1>2 DEF Kept, SameBut, BelongsTo
  <1>4. is_non_block(o, f).os = q
    BY <1>1, Constants DEF is_non_block, set_no_block
  <1>. QED BY <1>3, <1>4

LEMMA RemoveKept ==
  ASSUME NEW o \in Kernel, NEW f \in Fds, NEW c \in Conn, BelongsTo(o, f, c)
  PROVE  Kept(o, remove(o, f), f, c)
  BY RegKept, Constants DEF remove

LEMMA ModifyKept ==
  ASSUME NEW o \in Kernel, NEW f \in Fds, NEW c \in Conn, BelongsTo(o, f, c)
  PROVE  Kept(o, modify(o, f, c).os, f, c)
  <1>1. Kept(o, [o EXCEPT !.reg[f] = c], f, c) /\ Kept(o, o, f, c)
    BY RegKept, KeptSelf
  <1>2. modify(o, f, c).os = [o EXCEPT !.reg[f] = c] \/ modify(o, f, c).os = o
    BY DEF modify, EventData
  <1>. QED BY <1>1, <1>2

LEMMA AddKept ==
  ASSUME NEW o \in Kernel, NEW f \in Fds, NEW c \in Conn, BelongsTo(o, f, c), NEW r \in add(o, f, c)
  PROVE  Kept(o, r.os, f, c)
  <1>1. Kept(o, [o EXCEPT !.reg[f] = c], f, c) /\ Kept(o, o, f, c) /\ Kept(o, remove(o, f), f, c)
    BY RegKept, KeptSelf, RemoveKept
  <1>2. r.os = [o EXCEPT !.reg[f] = c] \/ r.os = o \/ r.os = remove(o, f)
    BY DEF add, EventData
  <1>. QED BY <1>1, <1>2

LEMMA OptionKept ==
  ASSUME NEW o \in Kernel, NEW f \in Fds, NEW c \in Conn, BelongsTo(o, f, c), NEW q \in SetOption(o, f, c)
  PROVE  Kept(o, q, f, c)
  <1>1. q = o \/ q = [o EXCEPT !.done[f] = @ \cup {c}]
    BY DEF SetOption
  <1>. QED BY <1>1, KeptSelf, DoneKept

LEMMA OptionsKept ==
  ASSUME NEW o \in Kernel, NEW f \in Fds, NEW c \in Conn, BelongsTo(o, f, c), NEW q \in set_options(o, f, c)
  PROVE  Kept(o, q, f, c)
  <1>1. PICK p \in SetOption(o, f, c) : q \in SetOption(p, f, c)
    BY DEF set_options
  <1>2. Kept(o, p, f, c)
    BY OptionKept
  <1>3. Kept(p, q, f, c)
    BY <1>1, <1>2, KeptOrder, OptionKept
  <1>. QED BY <1>2, <1>3, KeptOrder

LEMMA ShutdownKept ==
  ASSUME NEW o \in Kernel, NEW f \in Fds, NEW c \in Conn, BelongsTo(o, f, c), NEW r \in shutdown_all(o, f, c)
  PROVE  Kept(o, r.os, f, c)
  <1>1. r.os = o \/ r.os = [o EXCEPT !.done[f] = @ \cup {c}, !.down = @ \cup {f}]
    BY DEF shutdown_all
  <1>2. CASE r.os = o
    BY <1>2, KeptSelf
  <1>3. CASE r.os = [o EXCEPT !.done[f] = @ \cup {c}, !.down = @ \cup {f}]
    <2>1. PICK p : p = [o EXCEPT !.done[f] = @ \cup {c}]
      OBVIOUS
    <2>2. Kept(o, p, f, c) /\ p \in Kernel
      BY <2>1, DoneKept DEF Kept
    <2>3. PICK q : q = [p EXCEPT !.down = @ \cup {f}]
      OBVIOUS
    <2>4. q \in Kernel /\ q.file = p.file /\ q.reg = p.reg /\ q.done = p.done /\ q.nonblock = p.nonblock
      BY <2>2, <2>3, WithDown
    <2>5. Kept(p, q, f, c)
      BY <2>2, <2>4 DEF Kept, SameBut, BelongsTo
    <2>6. p.down = o.down
      BY <2>1, DoneKept
    <2>7. r.os = q
      BY <1>3, <2>1, <2>3, <2>6
    <2>. QED BY <2>2, <2>5, <2>7, KeptOrder
  <1>. QED BY <1>1, <1>2, <1>3

---------------------------------------------------------------------------
(* The commands.                                                           *)

LEMMA CmdsType ==
  ASSUME TypeOK
  PROVE  /\ Cmds \in Seq(Commands) /\ Len(Cmds) \in Nat /\ Len(Cmds) = Len(todo) + Len(queue)
         /\ Len(todo) \in Nat /\ Len(queue) \in Nat
         /\ \A i \in 1..Len(Cmds) : /\ Cmds[i] \in Commands
                                    /\ Cmds[i] = IF i <= Len(todo) THEN todo[i] ELSE queue[i - Len(todo)]
  <1>1. todo \in Seq(Commands) /\ queue \in Seq(Commands)
    BY DEF TypeOK
  <1>2. /\ Cmds \in Seq(Commands) /\ Len(Cmds) = Len(todo) + Len(queue)
        /\ \A i \in 1..(Len(todo) + Len(queue)) :
             Cmds[i] = IF i <= Len(todo) THEN todo[i] ELSE queue[i - Len(todo)]
    BY <1>1, ConcatProperties DEF Cmds
  <1>3. Len(todo) \in Nat /\ Len(queue) \in Nat /\ Len(Cmds) \in Nat
    BY <1>1, <1>2, LenProperties
  <1>4. \A i \in 1..Len(Cmds) : Cmds[i] \in Commands
    BY <1>2, ElementOfSeq
  <1>. QED BY <1>2, <1>3, <1>4

LEMMA CmdsPush ==
  ASSUME TypeOK, NEW x \in Commands, queue' = Append(queue, x), todo' = todo
  PROVE  /\ queue' \in Seq(Commands) /\ Len(Cmds') = Len(Cmds) + 1 /\ Cmds'[Len(Cmds) + 1] = x
         /\ \A i \in 1..Len(Cmds) : Cmds'[i] = Cmds[i]
  <1>1. todo \in Seq(Commands) /\ queue \in Seq(Commands) /\ Cmds \in Seq(Commands)
    BY CmdsType DEF TypeOK
  <1>2. Cmds' = Append(Cmds, x)
    BY <1>1, ConcatAssociative, AppendIsConcat DEF Cmds
  <1>. QED BY <1>1, <1>2, AppendProperties

LEMMA CmdsTake ==
  ASSUME TypeOK, todo # <<>>, todo' = Tail(todo), queue' = queue
  PROVE  /\ todo' \in Seq(Commands) /\ Len(Cmds) \in Nat \ {0} /\ Cmds[1] = Head(todo)
         /\ Len(Cmds') = Len(Cmds) - 1
         /\ \A i \in 1..Len(Cmds') : Cmds'[i] = Cmds[i + 1]
  <1>1. todo \in Seq(Commands) /\ queue \in Seq(Commands)
    BY DEF TypeOK
  <1>2. /\ todo' \in Seq(Commands) /\ Len(todo') = Len(todo) - 1 /\ Head(todo) = todo[1] /\ Len(todo) # 0
        /\ \A i \in 1..Len(todo') : todo'[i] = todo[i + 1]
    BY <1>1, HeadTailProperties, EmptySeq
  <1>3. /\ Len(Cmds) = Len(todo) + Len(queue) /\ Len(todo) \in Nat /\ Len(queue) \in Nat
        /\ \A i \in 1..Len(Cmds) : Cmds[i] = IF i <= Len(todo) THEN todo[i] ELSE queue[i - Len(todo)]
    BY CmdsType
  <1>4. /\ Len(Cmds') = Len(todo') + Len(queue)
        /\ \A i \in 1..(Len(todo') + Len(queue)) :
             Cmds'[i] = IF i <= Len(todo') THEN todo'[i] ELSE queue[i - Len(todo')]
    <2>1. Cmds' = todo' \o queue
      BY DEF Cmds
    <2>. QED BY <1>1, <1>2, <2>1, ConcatProperties
  <1>5. Len(Cmds) \in Nat \ {0} /\ Len(Cmds') = Len(Cmds) - 1 /\ Cmds[1] = Head(todo)
    BY <1>2, <1>3, <1>4
  <1>6. ASSUME NEW i \in 1..Len(Cmds') PROVE Cmds'[i] = Cmds[i + 1]
    <2>1. i \in 1..(Len(todo') + Len(queue)) /\ i + 1 \in 1..Len(Cmds)
      BY <1>3, <1>4, <1>5
    <2>2. CASE i <= Len(todo')
      <3>1. Cmds'[i] = todo'[i] /\ todo'[i] = todo[i + 1] /\ i + 1 <= Len(todo)
        BY <1>2, <1>3, <1>4, <2>1, <2>2
      <3>. QED BY <1>3, <2>1, <3>1
    <2>3. CASE ~(i <= Len(todo'))
      <3>1. Cmds'[i] = queue[i - Len(todo')] /\ ~(i + 1 <= Len(todo)) /\ (i + 1) - Len(todo) = i - Len(todo')
        BY <1>2, <1>3, <1>4, <2>1, <2>3
      <3>. QED BY <1>3, <2>1, <3>1
    <2>. QED BY <2>2, <2>3
  <1>. QED BY <1>2, <1>5, <1>6

LEMMA CmdsWait ==
  ASSUME TypeOK, todo = <<>>, todo' = queue, queue' = <<>>
  PROVE  Cmds' = Cmds /\ todo' \in Seq(Commands) /\ queue' \in Seq(Commands)
  BY ConcatEmptySeq, EmptySeq DEF Cmds, TypeOK

(* A step that only drops entries. *)
NoNewEntry == \A c \in Conn : tab'[c] # NoEntry => tab[c] # NoEntry
LEMMA SameCommands ==
  ASSUME TypeOK, CreatedOnce, Cmds' = Cmds, next' = next, NoNewEntry
  PROVE  CreatedOnce' /\ \A f \in Fds, c \in Conn : CmdHolds(f, c)' <=> CmdHolds(f, c)
  <1>1. \A i \in 1..Len(Cmds) : Cmds[i].id \in Conn
    BY CmdsType DEF Commands
  <1>. QED BY <1>1 DEF CreatedOnce, CmdHolds, NoNewEntry

LEMMA Pushed ==
  ASSUME TypeOK, CreatedOnce, NEW x \in Commands, queue' = Append(queue, x), todo' = todo,
         NoNewEntry, next' \in Nat, next <= next', x.id < next', x.fd # NoFd => Creates(x),
         Creates(x) => x.id = next /\ tab'[x.id] = NoEntry
  PROVE  /\ CreatedOnce'
         /\ \A f \in Fds, c \in Conn : CmdHolds(f, c)' <=> CmdHolds(f, c) \/ (x.fd = f /\ x.id = c)
  <1>1. /\ Len(Cmds') = Len(Cmds) + 1 /\ Cmds'[Len(Cmds) + 1] = x /\ Len(Cmds) \in Nat
        /\ \A i \in 1..Len(Cmds) : Cmds'[i] = Cmds[i] /\ Cmds[i] \in Commands
    BY CmdsPush, CmdsType
  <1>2. next \in Nat /\ \A i \in 1..Len(Cmds) : Cmds[i].id \in Conn /\ Cmds[i].id \in Nat
    BY <1>1, Constants DEF TypeOK, Commands
  <1>3. \A i \in 1..Len(Cmds') : (i \in 1..Len(Cmds) /\ Cmds'[i] = Cmds[i]) \/ (i = Len(Cmds) + 1 /\ Cmds'[i] = x)
    BY <1>1
  <1>4. ASSUME NEW i \in 1..Len(Cmds')
        PROVE  /\ Cmds'[i].id < next' /\ (Cmds'[i].fd # NoFd => Creates(Cmds'[i]))
               /\ Creates(Cmds'[i]) => tab'[Cmds'[i].id] = NoEntry
    <2>1. CASE i \in 1..Len(Cmds) /\ Cmds'[i] = Cmds[i]
      BY <1>2, <2>1 DEF CreatedOnce, NoNewEntry
    <2>2. CASE Cmds'[i] = x
      BY <2>2
    <2>. QED BY <1>3, <2>1, <2>2
  <1>5. ASSUME NEW i \in 1..Len(Cmds'), NEW j \in 1..Len(Cmds'),
               Creates(Cmds'[i]), Creates(Cmds'[j]), Cmds'[i].id = Cmds'[j].id
        PROVE  i = j
    <2>1. \A k \in 1..Len(Cmds) : Cmds[k].id < next
      BY DEF CreatedOnce
    <2>2. \A k \in 1..Len(Cmds) : Cmds[k].id # next
      BY <1>2, <2>1
    <2>3. CASE i \in 1..Len(Cmds) /\ Cmds'[i] = Cmds[i] /\ j \in 1..Len(Cmds) /\ Cmds'[j] = Cmds[j]
      BY <1>5, <2>3 DEF CreatedOnce
    <2>4. CASE Cmds'[i] = x
      BY <1>3, <1>5, <2>2, <2>4
    <2>5. CASE Cmds'[j] = x
      BY <1>3, <1>5, <2>2, <2>5
    <2>. QED BY <1>3, <2>3, <2>4, <2>5
  <1>6. \A c \in Conn : tab'[c] # NoEntry => c < next'
    BY <1>2, Constants DEF CreatedOnce, NoNewEntry
  <1>7. CreatedOnce'
    BY <1>4, <1>5, <1>6 DEF CreatedOnce, Creates
  <1>8. ASSUME NEW f \in Fds, NEW c \in Conn
        PROVE  CmdHolds(f, c)' <=> CmdHolds(f, c) \/ (x.fd = f /\ x.id = c)
    <2>1. CmdHolds(f, c)' => CmdHolds(f, c) \/ (x.fd = f /\ x.id = c)
      BY <1>3 DEF CmdHolds
    <2>2. x.fd = f /\ x.id = c => CmdHolds(f, c)'
      <3>1. Len(Cmds) + 1 \in 1..Len(Cmds')
        BY <1>1
      <3>. QED BY <1>1, <3>1 DEF CmdHolds
    <2>3. CmdHolds(f, c) => CmdHolds(f, c)'
      <3>1. \A i \in 1..Len(Cmds) : i \in 1..Len(Cmds')
        BY <1>1
      <3>. QED BY <1>1, <3>1 DEF CmdHolds
    <2>. QED BY <2>1, <2>2, <2>3
  <1>. QED BY <1>7, <1>8

LEMMA Taken ==
  ASSUME TypeOK, CreatedOnce, NEW op, NEW c \in Conn, NEW f, Take(op, c, f), queue' = queue, next' = next,
         \A d \in Conn : tab'[d] # NoEntry => tab[d] # NoEntry \/ (d = c /\ op \in {"add", "attach"})
  PROVE  /\ CreatedOnce' /\ todo' \in Seq(Commands) /\ c < next /\ f \in FdOrNone
         /\ op \in {"add", "attach"} => tab[c] = NoEntry
         /\ \A g \in Fds, d \in Conn : CmdHolds(g, d) <=> CmdHolds(g, d)' \/ (f = g /\ c = d)
         /\ f # NoFd => ~CmdHolds(f, c)'
  <1>1. /\ Len(Cmds) \in Nat \ {0} /\ Cmds[1] = Command(op, c, f) /\ todo' \in Seq(Commands)
        /\ Len(Cmds') = Len(Cmds) - 1 /\ \A i \in 1..Len(Cmds') : Cmds'[i] = Cmds[i + 1]
    BY CmdsTake DEF Take
  <1>2. \A i \in 1..Len(Cmds') : i + 1 \in 1..Len(Cmds) /\ i + 1 # 1
    BY <1>1
  <1>3. 1 \in 1..Len(Cmds) /\ \A i \in 1..Len(Cmds) : i = 1 \/ (i - 1 \in 1..Len(Cmds') /\ Cmds'[i - 1] = Cmds[i])
    <2>1. 1 \in 1..Len(Cmds)
      BY <1>1
    <2>2. ASSUME NEW i \in 1..Len(Cmds), i # 1 PROVE i - 1 \in 1..Len(Cmds') /\ Cmds'[i - 1] = Cmds[i]
      <3>1. i - 1 \in 1..Len(Cmds') /\ (i - 1) + 1 = i
        BY <1>1, <2>2
      <3>. QED BY <1>1, <3>1
    <2>. QED BY <2>1, <2>2
  <1>4. \A i \in 1..Len(Cmds) : Cmds[i] \in Commands
    BY CmdsType
  <1>5. Cmds[1].op = op /\ Cmds[1].id = c /\ Cmds[1].fd = f
    BY <1>1 DEF Command
  <1>6. f \in FdOrNone
    BY <1>3, <1>4, <1>5 DEF Commands
  <1>7. /\ c < next /\ (f # NoFd => op \in {"add", "attach"}) /\ (op \in {"add", "attach"} => tab[c] = NoEntry)
    BY <1>3, <1>5 DEF CreatedOnce, Creates
  <1>8. ASSUME NEW i \in 1..Len(Cmds'), Creates(Cmds'[i]), op \in {"add", "attach"} PROVE Cmds'[i].id # c
    BY <1>1, <1>2, <1>3, <1>5, <1>8 DEF CreatedOnce, Creates
  <1>9. CreatedOnce'
    <2>1. ASSUME NEW i \in 1..Len(Cmds'), NEW j \in 1..Len(Cmds'),
                 Creates(Cmds'[i]), Creates(Cmds'[j]), Cmds'[i].id = Cmds'[j].id
          PROVE  i = j
      <3>1. i + 1 = j + 1
        BY <1>1, <1>2, <2>1 DEF CreatedOnce
      <3>. QED BY <3>1
    <2>2. ASSUME NEW i \in 1..Len(Cmds')
          PROVE  /\ Cmds'[i].id < next' /\ (Cmds'[i].fd # NoFd => Creates(Cmds'[i]))
                 /\ Creates(Cmds'[i]) => tab'[Cmds'[i].id] = NoEntry
      <3>1. i + 1 \in 1..Len(Cmds) /\ Cmds'[i] = Cmds[i + 1] /\ Cmds'[i].id \in Conn
        BY <1>1, <1>2, <1>4 DEF Commands
      <3>2. /\ Cmds'[i].id < next /\ (Cmds'[i].fd # NoFd => Creates(Cmds'[i]))
            /\ Creates(Cmds'[i]) => tab[Cmds'[i].id] = NoEntry
        BY <3>1 DEF CreatedOnce
      <3>. QED BY <1>8, <3>1, <3>2
    <2>3. \A d \in Conn : tab'[d] # NoEntry => d < next'
      BY <1>7 DEF CreatedOnce
    <2>. QED BY <2>1, <2>2, <2>3 DEF CreatedOnce, Creates
  <1>10. \A g \in Fds, d \in Conn : CmdHolds(g, d) <=> CmdHolds(g, d)' \/ (f = g /\ c = d)
    <2>1. ASSUME NEW g \in Fds, NEW d \in Conn PROVE CmdHolds(g, d) <=> CmdHolds(g, d)' \/ (f = g /\ c = d)
      <3>1. CmdHolds(g, d) => CmdHolds(g, d)' \/ (f = g /\ c = d)
        BY <1>3, <1>5 DEF CmdHolds
      <3>2. CmdHolds(g, d)' => CmdHolds(g, d)
        BY <1>1, <1>2 DEF CmdHolds
      <3>3. f = g /\ c = d => CmdHolds(g, d)
        BY <1>3, <1>5 DEF CmdHolds
      <3>. QED BY <3>1, <3>2, <3>3
    <2>. QED BY <2>1
  <1>11. f # NoFd => ~CmdHolds(f, c)'
    <2>. SUFFICES ASSUME f # NoFd, NEW i \in 1..Len(Cmds'), Cmds'[i].fd = f, Cmds'[i].id = c PROVE FALSE
      BY DEF CmdHolds
    <2>1. Creates(Cmds'[i])
      BY <1>1, <1>2 DEF CreatedOnce
    <2>. QED BY <1>7, <1>8, <2>1
  <1>. QED BY <1>1, <1>6, <1>7, <1>9, <1>10, <1>11

---------------------------------------------------------------------------
(* Who holds which descriptor.                                             *)

LEMMA StillHeld ==
  ASSUME Owned, Accounted, os'.file = os.file, os'.reg = os.reg, os'.done = os.done,
         os'.nonblock = os.nonblock, \A g \in Fds, d \in Conn : Holds(g, d)' <=> Holds(g, d)
  PROVE  Owned' /\ Accounted'
  <1>1. Owned'
    BY DEF Owned, BelongsTo
  <1>2. Accounted'
    BY DEF Accounted, IsFree
  <1>. QED BY <1>1, <1>2

LEMMA Gained ==
  ASSUME Owned, Accounted, NEW f \in Fds, NEW c \in Conn, Kept(os, os', f, c),
         \A g \in Fds \ {f}, d \in Conn : Holds(g, d)' <=> Holds(g, d),
         \A d \in Conn : Holds(f, d)' <=> d = c
  PROVE  Owned' /\ Accounted'
  <1>1. ASSUME NEW g \in Fds, NEW d \in Conn, Holds(g, d)' PROVE BelongsTo(os', g, d)
    <2>1. CASE g = f
      BY <1>1, <2>1 DEF Kept
    <2>2. CASE g # f
      BY <1>1, <2>2 DEF Kept, SameBut, Owned, BelongsTo
    <2>. QED BY <2>1, <2>2
  <1>2. ASSUME NEW g \in Fds PROVE IsFree(os', g) \/ \E d \in Conn : Holds(g, d)'
    <2>1. CASE g = f
      BY <2>1
    <2>2. CASE g # f
      BY <2>2 DEF Kept, SameBut, Accounted, IsFree
    <2>. QED BY <2>1, <2>2
  <1>3. Owned'
    BY <1>1 DEF Owned, BelongsTo
  <1>4. Accounted'
    BY <1>2 DEF Accounted, IsFree
  <1>. QED BY <1>3, <1>4

LEMMA GivenUp ==
  ASSUME Owned, Accounted, NEW f \in Fds, Lost(os, os', f),
         \A g \in Fds \ {f}, d \in Conn : Holds(g, d)' <=> Holds(g, d),
         \A d \in Conn : ~Holds(f, d)'
  PROVE  Owned' /\ Accounted'
  <1>1. ASSUME NEW g \in Fds, NEW d \in Conn, Holds(g, d)' PROVE BelongsTo(os', g, d)
    BY <1>1 DEF Lost, SameBut, Owned, BelongsTo
  <1>2. ASSUME NEW g \in Fds PROVE IsFree(os', g) \/ \E d \in Conn : Holds(g, d)'
    <2>1. CASE g = f
      BY <2>1 DEF Lost
    <2>2. CASE g # f
      BY <2>2 DEF Lost, SameBut, Accounted, IsFree
    <2>. QED BY <2>1, <2>2
  <1>3. Owned'
    BY <1>1 DEF Owned, BelongsTo
  <1>4. Accounted'
    BY <1>2 DEF Accounted, IsFree
  <1>. QED BY <1>3, <1>4

(* The Socket of an entry is the only one with its descriptor. *)
LEMMA OnlyHolder ==
  ASSUME IndInv, NEW c \in Conn, tab[c].fd # NoFd
  PROVE  /\ tab[c].fd \in Fds /\ BelongsTo(os, tab[c].fd, c) /\ ~CmdHolds(tab[c].fd, c)
         /\ \A d \in Conn : Holds(tab[c].fd, d) <=> d = c
  <1>1. tab[c].fd \in Fds
    BY DEF IndInv, TypeOK, Entries, FdOrNone
  <1>2. \A d \in Conn : Holds(tab[c].fd, d) => BelongsTo(os, tab[c].fd, d)
    BY <1>1 DEF IndInv, Owned
  <1>3. Holds(tab[c].fd, c)
    BY DEF Holds
  <1>4. \A d \in Conn : Holds(tab[c].fd, d) <=> d = c
    BY <1>2, <1>3 DEF BelongsTo
  <1>5. ~CmdHolds(tab[c].fd, c)
    BY <1>1, Constants DEF IndInv, CreatedOnce, CmdHolds, NoEntry
  <1>. QED BY <1>1, <1>2, <1>3, <1>4, <1>5

(* What a call may do to the Socket of an entry: use it or close it. *)
Reached(q, c) == IF tab[c].fd = NoFd THEN q = os ELSE Kept(os, q, tab[c].fd, c)
Freed(q, c) == IF tab[c].fd = NoFd THEN q = os ELSE Lost(os, q, tab[c].fd)

LEMMA Reaches ==
  ASSUME IndInv, NEW c \in Conn
  PROVE  /\ Reached(os, c) /\ Reached(modify(os, tab[c].fd, c).os, c)
         /\ \A q \in SetOption(os, tab[c].fd, c) : Reached(q, c)
         /\ \A q \in set_options(os, tab[c].fd, c) : Reached(q, c)
         /\ \A r \in shutdown_all(os, tab[c].fd, c) : Reached(r.os, c)
  <1>0. os \in Kernel
    BY DEF IndInv, TypeOK
  <1>1. CASE tab[c].fd # NoFd
    BY <1>0, <1>1, OnlyHolder, KeptSelf, ModifyKept, OptionKept, OptionsKept, ShutdownKept DEF Reached
  <1>2. CASE tab[c].fd = NoFd
    <2>1. \A o : SetOption(o, NoFd, c) = {o}
      BY DEF SetOption
    <2>2. set_options(os, NoFd, c) = {os}
      BY <2>1 DEF set_options
    <2>. QED BY <1>2, <2>1, <2>2 DEF Reached, modify, shutdown_all
  <1>. QED BY <1>1, <1>2

LEMMA Frees ==
  ASSUME IndInv, NEW c \in Conn, NEW q, Reached(q, c)
  PROVE  /\ Freed(close(q, tab[c].fd), c) /\ Freed(Destroyed(q, tab[c].fd), c)
         /\ Freed(Destroyed(close(remove(q, tab[c].fd), tab[c].fd), NoFd), c)
  <1>0. os \in Kernel
    BY DEF IndInv, TypeOK
  <1>1. CASE tab[c].fd # NoFd
    <2>1. /\ tab[c].fd \in Fds /\ Kept(os, q, tab[c].fd, c)
          /\ q \in Kernel /\ BelongsTo(q, tab[c].fd, c)
      BY <1>0, <1>1, OnlyHolder DEF Reached, Kept
    <2>2. PICK p : p = remove(q, tab[c].fd)
      OBVIOUS
    <2>3. Kept(q, p, tab[c].fd, c) /\ p \in Kernel
      BY <2>1, <2>2, RemoveKept DEF Kept
    <2>4. Kept(os, p, tab[c].fd, c)
      BY <2>1, <2>3, KeptOrder
    <2>5. PICK r : r = close(p, tab[c].fd)
      OBVIOUS
    <2>6. Lost(os, r, tab[c].fd) /\ r \in Kernel
      BY <2>1, <2>3, <2>4, <2>5, KeptOrder, DestroyedIs DEF Lost
    <2>7. Lost(os, Destroyed(r, NoFd), tab[c].fd)
      BY <2>6, DestroyedIs
    <2>8. Lost(os, close(q, tab[c].fd), tab[c].fd) /\ Lost(os, Destroyed(q, tab[c].fd), tab[c].fd)
      <3>1. Lost(q, close(q, tab[c].fd), tab[c].fd) /\ Lost(q, Destroyed(q, tab[c].fd), tab[c].fd)
        BY <2>1, DestroyedIs
      <3>. QED BY <2>1, <3>1, KeptOrder
    <2>. QED BY <1>1, <2>2, <2>5, <2>7, <2>8 DEF Freed
  <1>2. CASE tab[c].fd = NoFd
    BY <1>0, <1>2 DEF Freed, Reached, close, remove, Destroyed
  <1>. QED BY <1>1, <1>2

LEMMA EntryReached ==
  ASSUME IndInv, NEW c \in Conn, Reached(os', c), \A d \in Conn : tab'[d].fd = tab[d].fd,
         \A g \in Fds, d \in Conn : CmdHolds(g, d)' <=> CmdHolds(g, d)
  PROVE  os' \in Kernel /\ Owned' /\ Accounted'
  <1>0. os \in Kernel /\ Owned /\ Accounted
    BY DEF IndInv, TypeOK
  <1>1. \A g \in Fds, d \in Conn : Holds(g, d)' <=> Holds(g, d)
    BY DEF Holds
  <1>2. CASE tab[c].fd # NoFd
    <2>1. PICK f \in Fds : f = tab[c].fd
      BY <1>2, OnlyHolder
    <2>2. Kept(os, os', f, c) /\ \A d \in Conn : Holds(f, d)' <=> d = c
      BY <1>1, <1>2, <2>1, OnlyHolder DEF Reached
    <2>. QED BY <1>0, <1>1, <2>2, Gained DEF Kept
  <1>3. CASE tab[c].fd = NoFd
    BY <1>0, <1>1, <1>3, StillHeld DEF Reached
  <1>. QED BY <1>2, <1>3

LEMMA EntryFreed ==
  ASSUME IndInv, NEW c \in Conn, Freed(os', c), tab'[c].fd = NoFd,
         \A d \in Conn \ {c} : tab'[d].fd = tab[d].fd,
         \A g \in Fds, d \in Conn : CmdHolds(g, d)' <=> CmdHolds(g, d)
  PROVE  os' \in Kernel /\ Owned' /\ Accounted'
  <1>0. os \in Kernel /\ Owned /\ Accounted
    BY DEF IndInv, TypeOK
  <1>1. CASE tab[c].fd # NoFd
    <2>1. PICK f \in Fds : f = tab[c].fd
      BY <1>1, OnlyHolder
    <2>2. Lost(os, os', f) /\ f # NoFd /\ ~CmdHolds(f, c) /\ \A d \in Conn : Holds(f, d) => d = c
      BY <1>1, <2>1, OnlyHolder DEF Freed
    <2>3. \A d \in Conn : ~Holds(f, d)'
      BY <2>2 DEF Holds
    <2>4. \A g \in Fds \ {f}, d \in Conn : Holds(g, d)' <=> Holds(g, d)
      BY <2>1, Constants DEF Holds
    <2>. QED BY <1>0, <2>2, <2>3, <2>4, GivenUp DEF Lost
  <1>2. CASE tab[c].fd = NoFd
    <2>1. \A g \in Fds, d \in Conn : Holds(g, d)' <=> Holds(g, d)
      BY <1>2 DEF Holds
    <2>. QED BY <1>0, <1>2, <2>1, StillHeld DEF Freed
  <1>. QED BY <1>1, <1>2

(* Entries that are stored and erased. *)
LEMMA Stored ==
  ASSUME TypeOK, NEW c \in Conn, NEW state \in States, NEW f \in FdOrNone, Store(c, state, f) \/ (Erase(c) /\ f = NoFd)
  PROVE  /\ tab' \in [Conn -> Entries] /\ tab'[c].fd = f
         /\ \A d \in Conn \ {c} : tab'[d] = tab[d]
         /\ tab[c] # NoEntry => NoNewEntry
  <1>1. NoEntry \in Entries /\ NoEntry.fd = NoFd /\ [state |-> state, fd |-> f] \in Entries
    BY DEF NoEntry, Entries, States, FdOrNone
  <1>2. PICK e \in Entries : e.fd = f /\ tab' = [tab EXCEPT ![c] = e]
    BY <1>1 DEF Store, Erase
  <1>. QED BY <1>2 DEF TypeOK, NoNewEntry

---------------------------------------------------------------------------
(* The steps.                                                              *)

(* One that leaves descriptors and entries alone. *)
LEMMA Quiet ==
  ASSUME IndInv, TypeOK', CreatedOnce', os' = os, tab' = tab,
         \A g \in Fds, d \in Conn : CmdHolds(g, d)' <=> CmdHolds(g, d)
  PROVE  IndInv'
  <1>1. \A g \in Fds, d \in Conn : Holds(g, d)' <=> Holds(g, d)
    BY DEF Holds
  <1>2. Owned' /\ Accounted'
    BY <1>1, StillHeld DEF IndInv
  <1>. QED BY <1>2 DEF IndInv

LEMMA CommandType ==
  ASSUME NEW op \in Ops, NEW c \in Conn, NEW f \in FdOrNone
  PROVE  /\ Command(op, c, f) \in Commands /\ Command(op, c, f).fd = f
         /\ Command(op, c, f).id = c /\ Command(op, c, f).op = op
  BY DEF Command, Commands

(* A command without a Socket on a connection there is. *)
LEMMA PushedCommand ==
  ASSUME IndInv, NEW op \in {"modify", "shutdown", "remove"}, NEW c \in Conn, c < next,
         Push(op, c), todo' = todo, next' = next, NoNewEntry
  PROVE  /\ CreatedOnce' /\ queue' \in Seq(Commands)
         /\ \A g \in Fds, d \in Conn : CmdHolds(g, d)' <=> CmdHolds(g, d)
  <1>0. TypeOK /\ CreatedOnce /\ next \in Nat
    BY DEF IndInv, TypeOK
  <1>1. op \in Ops /\ NoFd \in FdOrNone
    BY DEF Ops, FdOrNone
  <1>2. PICK x : x = Command(op, c, NoFd)
    OBVIOUS
  <1>3. x \in Commands /\ x.fd = NoFd /\ x.id = c /\ x.op = op /\ ~Creates(x)
    BY <1>1, <1>2, CommandType DEF Creates
  <1>4. queue' = Append(queue, x)
    BY <1>2 DEF Push
  <1>5. /\ CreatedOnce' /\ queue' \in Seq(Commands)
        /\ \A g \in Fds, d \in Conn : CmdHolds(g, d)' <=> CmdHolds(g, d) \/ (x.fd = g /\ x.id = d)
    BY <1>0, <1>3, <1>4, Pushed, CmdsPush
  <1>6. \A g \in Fds : x.fd # g
    BY <1>3, Constants
  <1>. QED BY <1>5, <1>6

LEMMA SameCommandsHold ==
  ASSUME IndInv, queue' = queue, todo' = todo, next' = next, NoNewEntry
  PROVE  CreatedOnce' /\ \A g \in Fds, d \in Conn : CmdHolds(g, d)' <=> CmdHolds(g, d)
  BY SameCommands DEF Cmds, IndInv

(* What holds of an entry in use. *)
LEMMA InUse ==
  ASSUME IndInv, NEW c \in Conn, Has(c)
  PROVE  c < next
  BY DEF IndInv, CreatedOnce, Has

LEMMA TakenCommand ==
  ASSUME IndInv, NEW op \in {"modify", "shutdown", "remove"}, NEW c \in Conn, Take(op, c, NoFd),
         queue' = queue, next' = next, NoNewEntry
  PROVE  /\ CreatedOnce' /\ todo' \in Seq(Commands)
         /\ \A g \in Fds, d \in Conn : CmdHolds(g, d)' <=> CmdHolds(g, d)
  <1>1. \A d \in Conn : tab'[d] # NoEntry => tab[d] # NoEntry
    BY DEF NoNewEntry
  <1>2. /\ CreatedOnce' /\ todo' \in Seq(Commands)
        /\ \A g \in Fds, d \in Conn : CmdHolds(g, d) <=> CmdHolds(g, d)' \/ (NoFd = g /\ c = d)
    BY <1>1, Taken DEF IndInv
  <1>. QED BY <1>2, Constants

LEMMA QuietSteps ==
  ASSUME IndInv,
         \/ AddConnection \/ wait \/ CommandsDone \/ EventsDone \/ Gone
         \/ \E c \in Conn, op \in {"modify", "shutdown", "remove"} : execute_command(op, c)
         \/ \E c \in Conn, bad \in BOOLEAN : EventGone(c, bad)
         \/ \E c \in Conn : AddConnection_NoSocket(c)
         \/ \E c \in Conn, op \in {"modify", "shutdown", "remove"} : CommandRefused(op, c)
  PROVE  IndInv'
  <1>0. TypeOK /\ CreatedOnce /\ next \in Nat
    BY DEF IndInv, TypeOK
  <1>1. CASE AddConnection
    <2>1. /\ pc # "gone" /\ next <= MaxConn /\ next' = next + 1 /\ Push("add", next)
          /\ UNCHANGED <<os, tab, todo, pending, pc, npush, unheard>>
      BY <1>1 DEF AddConnection
    <2>2. next \in Conn /\ NoNewEntry /\ next < next' /\ tab[next] = NoEntry /\ next' \in Nat \ {0}
      BY <1>0, <2>1, Constants DEF Conn, NoNewEntry, TypeOK, CreatedOnce
    <2>3. PICK x : x = Command("add", next, NoFd)
      OBVIOUS
    <2>4. x \in Commands /\ x.fd = NoFd /\ x.id = next /\ x.op = "add"
      BY <2>2, <2>3, CommandType DEF FdOrNone, Ops
    <2>5. queue' = Append(queue, x)
      BY <2>1, <2>3 DEF Push
    <2>6. /\ CreatedOnce' /\ queue' \in Seq(Commands)
          /\ \A g \in Fds, d \in Conn : CmdHolds(g, d)' <=> CmdHolds(g, d) \/ (x.fd = g /\ x.id = d)
      BY <1>0, <2>1, <2>2, <2>4, <2>5, Pushed, CmdsPush
    <2>7. TypeOK'
      BY <1>0, <2>1, <2>2, <2>6 DEF TypeOK
    <2>8. \A g \in Fds : x.fd # g
      BY <2>4, Constants
    <2>. QED BY <2>1, <2>6, <2>7, <2>8, Quiet
  <1>2. CASE wait
    <2>1. /\ pc = "wait" /\ pc' = "cmds" /\ todo' = queue /\ queue' = <<>>
          /\ UNCHANGED <<os, tab, next, npush, unheard>>
      BY <1>2 DEF wait
    <2>2. Cmds' = Cmds /\ todo' \in Seq(Commands) /\ queue' \in Seq(Commands)
      BY <1>0, <2>1, CmdsWait DEF TypeOK
    <2>3. TypeOK'
      BY <1>0, <2>1, <2>2 DEF TypeOK
    <2>4. CreatedOnce' /\ \A g \in Fds, d \in Conn : CmdHolds(g, d)' <=> CmdHolds(g, d)
      BY <1>0, <2>1, <2>2, SameCommands DEF NoNewEntry
    <2>. QED BY <2>1, <2>3, <2>4, Quiet
  <1>3. CASE CommandsDone \/ EventsDone \/ Gone \/ \E c \in Conn, bad \in BOOLEAN : EventGone(c, bad)
    <2>1. UNCHANGED <<os, tab, queue, todo, next>>
      BY <1>3 DEF CommandsDone, EventsDone, Gone, EventGone, vars
    <2>2. TypeOK'
      BY <1>0, <1>3 DEF CommandsDone, EventsDone, Gone, EventGone, Event, vars, TypeOK
    <2>3. CreatedOnce' /\ \A g \in Fds, d \in Conn : CmdHolds(g, d)' <=> CmdHolds(g, d)
      BY <2>1, SameCommandsHold DEF NoNewEntry
    <2>. QED BY <2>1, <2>2, <2>3, Quiet
  <1>4. ASSUME NEW c \in Conn, NEW op \in {"modify", "shutdown", "remove"}, execute_command(op, c)
        PROVE  IndInv'
    <2>1. c < next /\ Push(op, c) /\ UNCHANGED <<os, tab, todo, pending, pc, next, unheard>>
      BY <1>4 DEF execute_command
    <2>2. /\ CreatedOnce' /\ queue' \in Seq(Commands)
          /\ \A g \in Fds, d \in Conn : CmdHolds(g, d)' <=> CmdHolds(g, d)
      BY <2>1, PushedCommand DEF NoNewEntry
    <2>3. TypeOK'
      BY <1>0, <2>1, <2>2 DEF TypeOK
    <2>. QED BY <2>1, <2>2, <2>3, Quiet
  <1>5. ASSUME NEW c \in Conn, AddConnection_NoSocket(c) PROVE IndInv'
    <2>1. Take("add", c, NoFd) /\ UNCHANGED <<os, tab, queue, pending, pc, next, npush, unheard>>
      BY <1>5 DEF AddConnection_NoSocket
    <2>2. /\ CreatedOnce' /\ todo' \in Seq(Commands)
          /\ \A g \in Fds, d \in Conn : CmdHolds(g, d) <=> CmdHolds(g, d)' \/ (NoFd = g /\ c = d)
      BY <1>0, <2>1, Taken
    <2>3. TypeOK'
      BY <1>0, <2>1, <2>2 DEF TypeOK, Take
    <2>. QED BY <2>1, <2>2, <2>3, Quiet, Constants
  <1>6. ASSUME NEW c \in Conn, NEW op \in {"modify", "shutdown", "remove"}, CommandRefused(op, c) PROVE IndInv'
    <2>1. Take(op, c, NoFd) /\ UNCHANGED <<os, tab, queue, pending, pc, next, npush, unheard>>
      BY <1>6 DEF CommandRefused
    <2>2. /\ CreatedOnce' /\ todo' \in Seq(Commands)
          /\ \A g \in Fds, d \in Conn : CmdHolds(g, d)' <=> CmdHolds(g, d)
      BY <2>1, TakenCommand DEF NoNewEntry
    <2>3. TypeOK'
      BY <1>0, <2>1, <2>2 DEF TypeOK, Take
    <2>. QED BY <2>1, <2>2, <2>3, Quiet
  <1>. QED BY <1>1, <1>2, <1>3, <1>4, <1>5, <1>6

LEMMA PeerStep ==
  ASSUME IndInv, NEW f \in Fds, PeerGone(f)
  PROVE  IndInv'
  <1>0. TypeOK /\ os \in Kernel
    BY DEF IndInv, TypeOK
  <1>1. os' = [os EXCEPT !.down = @ \cup {f}] /\ UNCHANGED <<tab, queue, todo, pending, pc, next, npush, unheard>>
    BY DEF PeerGone
  <1>2. /\ os' \in Kernel /\ os'.file = os.file /\ os'.reg = os.reg /\ os'.done = os.done
        /\ os'.nonblock = os.nonblock
    BY <1>0, <1>1, WithDown
  <1>3. CreatedOnce' /\ \A g \in Fds, d \in Conn : CmdHolds(g, d)' <=> CmdHolds(g, d)
    BY <1>1, SameCommandsHold DEF NoNewEntry
  <1>4. \A g \in Fds, d \in Conn : Holds(g, d)' <=> Holds(g, d)
    BY <1>1, <1>3 DEF Holds
  <1>5. Owned' /\ Accounted'
    BY <1>2, <1>4, StillHeld DEF IndInv
  <1>6. TypeOK'
    BY <1>0, <1>1, <1>2 DEF TypeOK
  <1>. QED BY <1>3, <1>5, <1>6 DEF IndInv

(* The state of an entry, and its Socket, are of their types. *)
LEMMA EntryType ==
  ASSUME IndInv, NEW c \in Conn
  PROVE  tab[c].state \in States /\ tab[c].fd \in FdOrNone /\ NoFd \in FdOrNone /\ os \in Kernel
  BY DEF IndInv, TypeOK, Entries, FdOrNone

(* The calls on a handle. *)
LEMMA DirectSteps ==
  ASSUME IndInv, NEW c \in Conn,
         \/ worker_set_options(c) \/ worker_set_option(c) \/ handle_shutdown(c) \/ handle_close(c)
  PROVE  IndInv'
  <1>0. TypeOK /\ tab[c].state \in States /\ tab[c].fd \in FdOrNone /\ NoFd \in FdOrNone
    BY EntryType DEF IndInv
  <1>1. Direct(c) /\ queue' = queue /\ todo' = todo /\ pc' = pc /\ next' = next /\ Has(c)
    BY DEF worker_set_options, worker_set_option, handle_shutdown, handle_close, Direct
  <1>2. CASE worker_set_options(c) \/ worker_set_option(c)
    <2>1. tab' = tab /\ Reached(os', c)
      BY <1>2, Reaches DEF worker_set_options, worker_set_option
    <2>2. CreatedOnce' /\ \A g \in Fds, d \in Conn : CmdHolds(g, d)' <=> CmdHolds(g, d)
      BY <1>1, <2>1, SameCommandsHold DEF NoNewEntry
    <2>3. os' \in Kernel /\ Owned' /\ Accounted'
      BY <2>1, <2>2, EntryReached
    <2>. QED BY <1>0, <1>1, <2>1, <2>2, <2>3 DEF IndInv, TypeOK
  <1>3. CASE handle_shutdown(c)
    <2>1. Store(c, "Shutdowned", tab[c].fd) /\ Reached(os', c)
      BY <1>3, Reaches DEF handle_shutdown, Shut
    <2>2. tab' \in [Conn -> Entries] /\ NoNewEntry /\ \A d \in Conn : tab'[d].fd = tab[d].fd
      BY <1>0, <1>1, <2>1, Stored DEF Has, States
    <2>3. CreatedOnce' /\ \A g \in Fds, d \in Conn : CmdHolds(g, d)' <=> CmdHolds(g, d)
      BY <1>1, <2>2, SameCommandsHold
    <2>4. os' \in Kernel /\ Owned' /\ Accounted'
      BY <2>1, <2>2, <2>3, EntryReached
    <2>. QED BY <1>0, <1>1, <2>2, <2>3, <2>4 DEF IndInv, TypeOK
  <1>4. CASE handle_close(c)
    <2>1. Erase(c) /\ Freed(os', c)
      BY <1>4, Reaches, Frees DEF handle_close, close_connection
    <2>2. /\ tab' \in [Conn -> Entries] /\ NoNewEntry /\ tab'[c].fd = NoFd
          /\ \A d \in Conn \ {c} : tab'[d].fd = tab[d].fd
      BY <1>0, <1>1, <2>1, Stored DEF Has, States
    <2>3. CreatedOnce' /\ \A g \in Fds, d \in Conn : CmdHolds(g, d)' <=> CmdHolds(g, d)
      BY <1>1, <2>2, SameCommandsHold
    <2>4. os' \in Kernel /\ Owned' /\ Accounted'
      BY <2>1, <2>2, <2>3, EntryFreed
    <2>. QED BY <1>0, <1>1, <2>2, <2>3, <2>4 DEF IndInv, TypeOK
  <1>. QED BY <1>2, <1>3, <1>4

(* The commands on an entry. *)
LEMMA CommandSteps ==
  ASSUME IndInv, NEW c \in Conn,
         modifyConnectionInternal(c) \/ shutdown_connection(c) \/ removeConnectionInternal(c)
  PROVE  IndInv'
  <1>0. TypeOK /\ tab[c].state \in States /\ tab[c].fd \in FdOrNone /\ NoFd \in FdOrNone
    BY EntryType DEF IndInv
  <1>1. PICK op \in {"modify", "shutdown", "remove"} :
          /\ Take(op, c, NoFd) /\ Has(c) /\ UNCHANGED <<queue, pending, pc, next, npush, unheard>>
    BY DEF modifyConnectionInternal, shutdown_connection, removeConnectionInternal
  <1>2. pc = "cmds" /\ queue' = queue /\ next' = next /\ pc' = pc
    BY <1>1 DEF Take
  <1>3. CASE modifyConnectionInternal(c)
    <2>1. tab' = tab /\ Reached(os', c)
      BY <1>3, Reaches DEF modifyConnectionInternal
    <2>2. /\ CreatedOnce' /\ todo' \in Seq(Commands)
          /\ \A g \in Fds, d \in Conn : CmdHolds(g, d)' <=> CmdHolds(g, d)
      BY <1>1, <1>2, <2>1, TakenCommand DEF NoNewEntry
    <2>3. os' \in Kernel /\ Owned' /\ Accounted'
      BY <2>1, <2>2, EntryReached
    <2>. QED BY <1>0, <1>2, <2>1, <2>2, <2>3 DEF IndInv, TypeOK
  <1>4. CASE shutdown_connection(c)
    <2>1. Store(c, "Shutdowned", tab[c].fd) /\ Reached(os', c)
      BY <1>4, Reaches DEF shutdown_connection, Shut
    <2>2. tab' \in [Conn -> Entries] /\ NoNewEntry /\ \A d \in Conn : tab'[d].fd = tab[d].fd
      BY <1>0, <1>1, <2>1, Stored DEF Has, States
    <2>3. /\ CreatedOnce' /\ todo' \in Seq(Commands)
          /\ \A g \in Fds, d \in Conn : CmdHolds(g, d)' <=> CmdHolds(g, d)
      BY <1>1, <1>2, <2>2, TakenCommand
    <2>4. os' \in Kernel /\ Owned' /\ Accounted'
      BY <2>1, <2>2, <2>3, EntryReached
    <2>. QED BY <1>0, <1>2, <2>2, <2>3, <2>4 DEF IndInv, TypeOK
  <1>5. CASE removeConnectionInternal(c)
    <2>1. Erase(c) /\ Freed(os', c)
      <3>1. PICK r \in shutdown_all(os, tab[c].fd, c) :
              os' = IF r.err THEN Destroyed(r.os, tab[c].fd)
                    ELSE Destroyed(close(remove(r.os, tab[c].fd), tab[c].fd), NoFd)
        BY <1>5 DEF removeConnectionInternal
      <3>2. Reached(r.os, c)
        BY Reaches
      <3>. QED BY <1>5, <3>1, <3>2, Frees DEF removeConnectionInternal
    <2>2. /\ tab' \in [Conn -> Entries] /\ NoNewEntry /\ tab'[c].fd = NoFd
          /\ \A d \in Conn \ {c} : tab'[d].fd = tab[d].fd
      BY <1>0, <1>1, <2>1, Stored DEF Has, States
    <2>3. /\ CreatedOnce' /\ todo' \in Seq(Commands)
          /\ \A g \in Fds, d \in Conn : CmdHolds(g, d)' <=> CmdHolds(g, d)
      BY <1>1, <1>2, <2>2, TakenCommand
    <2>4. os' \in Kernel /\ Owned' /\ Accounted'
      BY <2>1, <2>2, <2>3, EntryFreed
    <2>. QED BY <1>0, <1>2, <2>2, <2>3, <2>4 DEF IndInv, TypeOK
  <1>. QED BY <1>3, <1>4, <1>5

(* The events: the entry keeps its Socket or loses it, and a RemoveConnection
   may be pushed. *)
LEMMA EventSteps ==
  ASSUME IndInv, NEW c \in Conn,
         handle_events(c) \/ Established(c) \/ handle_event(c) \/ handle_event_Fails(c)
  PROVE  IndInv'
  <1>0. TypeOK /\ tab[c].state \in States /\ tab[c].fd \in FdOrNone /\ NoFd \in FdOrNone
    BY EntryType DEF IndInv
  <1>1. /\ Has(c) /\ todo' = todo /\ pc' = pc /\ next' = next /\ c < next
        /\ queue' = queue \/ Push("remove", c)
    BY InUse DEF handle_events, Established, handle_event, handle_event_Fails, Abandon
  <1>2. \/ (tab' = tab \/ Store(c, "Active", tab[c].fd)) /\ Reached(os', c)
        \/ /\ (\E state \in States : Store(c, state, NoFd)) \/ Erase(c)
           /\ Freed(os', c)
    <2>1. CASE handle_events(c)
      BY <2>1, Reaches, Frees DEF handle_events, States
    <2>2. CASE Established(c)
      <3>1. \/ os' = modify(os, tab[c].fd, c).os /\ Store(c, "Active", tab[c].fd)
            \/ Abandon(c, "Active")
            \/ os' = os /\ tab' = tab
        BY <2>2 DEF Established
      <3>. QED BY <3>1, Reaches, Frees DEF Abandon, States
    <2>3. CASE handle_event(c)
      <3>1. tab' = tab /\ (os' = os \/ os' = modify(os, tab[c].fd, c).os)
        BY <2>3 DEF handle_event
      <3>. QED BY <3>1, Reaches
    <2>4. CASE handle_event_Fails(c)
      BY <1>0, <2>4, Reaches, Frees DEF handle_event_Fails, Abandon
    <2>. QED BY <2>1, <2>2, <2>3, <2>4
  <1>3. tab' \in [Conn -> Entries] /\ NoNewEntry
    <2>1. CASE tab' = tab
      BY <1>0, <2>1 DEF NoNewEntry, TypeOK
    <2>2. CASE \E state \in States, f \in FdOrNone : Store(c, state, f)
      BY <1>0, <1>1, <2>2, Stored DEF Has
    <2>3. CASE Erase(c)
      BY <1>0, <1>1, <2>3, Stored DEF Has
    <2>4. "Active" \in States
      BY DEF States
    <2>. QED BY <1>0, <1>2, <2>1, <2>2, <2>3, <2>4
  <1>4. /\ CreatedOnce' /\ queue' \in Seq(Commands)
        /\ \A g \in Fds, d \in Conn : CmdHolds(g, d)' <=> CmdHolds(g, d)
    <2>1. CASE queue' = queue
      BY <1>0, <1>1, <1>3, <2>1, SameCommandsHold DEF TypeOK
    <2>2. CASE Push("remove", c)
      BY <1>1, <1>3, <2>2, PushedCommand
    <2>. QED BY <1>1, <2>1, <2>2
  <1>5. os' \in Kernel /\ Owned' /\ Accounted'
    <2>1. CASE (tab' = tab \/ Store(c, "Active", tab[c].fd)) /\ Reached(os', c)
      <3>1. \A d \in Conn : tab'[d].fd = tab[d].fd
        BY <1>0, <2>1, Stored DEF States
      <3>. QED BY <1>4, <2>1, <3>1, EntryReached
    <2>2. CASE /\ (\E state \in States : Store(c, state, NoFd)) \/ Erase(c)
               /\ Freed(os', c)
      <3>1. tab'[c].fd = NoFd /\ \A d \in Conn \ {c} : tab'[d].fd = tab[d].fd
        BY <1>0, <2>2, Stored
      <3>. QED BY <1>4, <2>2, <3>1, EntryFreed
    <2>. QED BY <1>2, <2>1, <2>2
  <1>. QED BY <1>0, <1>1, <1>3, <1>4, <1>5 DEF IndInv, TypeOK

(* A descriptor that is not open is nobody's. *)
LEMMA Unused ==
  ASSUME IndInv
  PROVE  /\ \A f \in Fds : os.file[f] = None => IsFree(os, f)
         /\ \A f \in Fds : IsFree(os, f) => \A d \in Conn : ~Holds(f, d)
  <1>1. ASSUME NEW f \in Fds, os.file[f] = None, NEW c \in Conn PROVE ~Holds(f, c)
    <2>1. os.file[f] # c
      BY <1>1, Constants
    <2>. QED BY <1>1, <2>1 DEF IndInv, Owned, BelongsTo
  <1>2. ASSUME NEW f \in Fds, os.file[f] = None PROVE IsFree(os, f)
    BY <1>1, <1>2 DEF IndInv, Accounted
  <1>3. ASSUME NEW f \in Fds, IsFree(os, f) PROVE os.file[f] = None
    BY <1>3 DEF IsFree
  <1>. QED BY <1>1, <1>2, <1>3

(* A Socket is made and registered for the command at the head. *)
LEMMA ConnectSteps ==
  ASSUME IndInv, NEW c \in Conn, connectInternal_Fails(c) \/ connectInternal(c)
  PROVE  IndInv'
  <1>0. TypeOK /\ CreatedOnce /\ os \in Kernel /\ Owned /\ Accounted
    BY DEF IndInv, TypeOK
  <1>1. /\ Take("add", c, NoFd) /\ queue' = queue /\ next' = next /\ pc' = pc /\ pc = "cmds"
    BY DEF connectInternal_Fails, connectInternal, Take
  <1>2. PICK s \in socket(os, c) : \E r \in add(set_no_block(s.os, s.fd), s.fd, c) :
          \/ os' = Destroyed(Destroyed(r.os, s.fd), NoFd) /\ tab' = tab
          \/ /\ os' = Destroyed(r.os, NoFd)
             /\ \E state \in {"Active", "Connecting"} : Store(c, state, s.fd)
    BY DEF connectInternal_Fails, connectInternal, Move
  <1>3. PICK f \in Fds : f = s.fd /\ IsFree(os, f) /\ Kept(os, set_no_block(s.os, s.fd), f, c)
    BY <1>0, SocketIs, Unused
  <1>4. PICK o \in Kernel : o = set_no_block(s.os, s.fd) /\ BelongsTo(o, f, c) /\ Kept(os, o, f, c)
    BY <1>3 DEF Kept
  <1>5. PICK r \in add(o, f, c) :
          \/ os' = Destroyed(Destroyed(r.os, f), NoFd) /\ tab' = tab
          \/ /\ os' = Destroyed(r.os, NoFd)
             /\ \E state \in {"Active", "Connecting"} : Store(c, state, f)
    BY <1>2, <1>3, <1>4
  <1>6. Kept(os, r.os, f, c) /\ r.os \in Kernel
    BY <1>4, AddKept, KeptOrder DEF Kept
  <1>7. f # NoFd /\ \A d \in Conn : ~Holds(f, d)
    BY <1>3, Unused, Constants
  <1>8. CASE os' = Destroyed(Destroyed(r.os, f), NoFd) /\ tab' = tab
    <2>1. /\ CreatedOnce' /\ todo' \in Seq(Commands)
          /\ \A g \in Fds, d \in Conn : CmdHolds(g, d) <=> CmdHolds(g, d)' \/ (NoFd = g /\ c = d)
      BY <1>0, <1>1, <1>8, Taken
    <2>2. \A g \in Fds, d \in Conn : Holds(g, d)' <=> Holds(g, d)
      BY <1>8, <2>1, Constants DEF Holds
    <2>3. Lost(os, Destroyed(r.os, f), f)
      BY <1>6, DestroyedIs, KeptOrder
    <2>4. Lost(os, os', f)
      BY <1>8, <2>3, DestroyedIs DEF Lost
    <2>5. Owned' /\ Accounted'
      BY <1>0, <1>7, <2>2, <2>4, GivenUp
    <2>. QED BY <1>0, <1>1, <1>8, <2>1, <2>4, <2>5 DEF IndInv, TypeOK, Lost
  <1>9. CASE os' = Destroyed(r.os, NoFd) /\ \E state \in {"Active", "Connecting"} : Store(c, state, f)
    <2>1. /\ tab' \in [Conn -> Entries] /\ tab'[c].fd = f
          /\ \A d \in Conn \ {c} : tab'[d] = tab[d]
      BY <1>0, <1>9, Stored DEF States, FdOrNone
    <2>2. /\ CreatedOnce' /\ todo' \in Seq(Commands) /\ tab[c] = NoEntry
          /\ \A g \in Fds, d \in Conn : CmdHolds(g, d) <=> CmdHolds(g, d)' \/ (NoFd = g /\ c = d)
      BY <1>0, <1>1, <2>1, Taken
    <2>3. tab[c].fd = NoFd
      BY <2>2 DEF NoEntry
    <2>4. \A g \in Fds \ {f}, d \in Conn : Holds(g, d)' <=> Holds(g, d)
      BY <2>1, <2>2, <2>3, Constants DEF Holds
    <2>5. \A d \in Conn : Holds(f, d)' <=> d = c
      BY <1>7, <2>1, <2>2 DEF Holds
    <2>6. os' = r.os
      BY <1>6, <1>9, DestroyedIs
    <2>7. Owned' /\ Accounted'
      BY <1>0, <1>6, <2>4, <2>5, <2>6, Gained
    <2>. QED BY <1>0, <1>1, <1>6, <2>1, <2>2, <2>6, <2>7 DEF IndInv, TypeOK
  <1>. QED BY <1>5, <1>8, <1>9

LEMMA AttachStep ==
  ASSUME IndInv, NEW c \in Conn, NEW f \in Fds, attachConnectionInternal(c, f)
  PROVE  IndInv'
  <1>0. TypeOK /\ CreatedOnce /\ os \in Kernel /\ Owned /\ Accounted /\ f # NoFd
    BY Constants DEF IndInv, TypeOK
  <1>1. Take("attach", c, f) /\ queue' = queue /\ next' = next /\ pc' = pc /\ pc = "cmds"
    BY DEF attachConnectionInternal, Take
  <1>2. PICK r \in add(os, f, c) :
          \/ os' = Destroyed(r.os, f) /\ tab' = tab
          \/ os' = Destroyed(is_non_block(r.os, f).os, NoFd) /\ Store(c, "Active", f)
    BY DEF attachConnectionInternal, Move
  <1>3. tab' = tab \/ Store(c, "Active", f)
    BY <1>2
  <1>4. \A d \in Conn : tab'[d] # NoEntry => tab[d] # NoEntry \/ d = c
    BY <1>0, <1>3 DEF Store, TypeOK
  <1>5. /\ CreatedOnce' /\ todo' \in Seq(Commands) /\ tab[c] = NoEntry /\ ~CmdHolds(f, c)'
        /\ \A g \in Fds, d \in Conn : CmdHolds(g, d) <=> CmdHolds(g, d)' \/ (f = g /\ c = d)
    BY <1>0, <1>1, <1>4, Taken
  <1>6. tab[c].fd = NoFd /\ CmdHolds(f, c)
    BY <1>5 DEF NoEntry
  <1>7. BelongsTo(os, f, c) /\ \A d \in Conn : Holds(f, d) => d = c
    BY <1>0, <1>6 DEF Owned, Holds, BelongsTo
  <1>8. Kept(os, r.os, f, c) /\ r.os \in Kernel /\ BelongsTo(r.os, f, c)
    BY <1>0, <1>7, AddKept DEF Kept
  <1>9. CASE os' = Destroyed(r.os, f) /\ tab' = tab
    <2>1. \A g \in Fds \ {f}, d \in Conn : Holds(g, d)' <=> Holds(g, d)
      BY <1>5, <1>9 DEF Holds
    <2>2. \A d \in Conn : ~Holds(f, d)'
      BY <1>0, <1>5, <1>6, <1>7, <1>9 DEF Holds
    <2>3. Lost(os, os', f)
      BY <1>8, <1>9, DestroyedIs, KeptOrder
    <2>4. Owned' /\ Accounted'
      BY <1>0, <2>1, <2>2, <2>3, GivenUp
    <2>. QED BY <1>0, <1>1, <1>5, <1>9, <2>3, <2>4 DEF IndInv, TypeOK, Lost
  <1>10. CASE os' = Destroyed(is_non_block(r.os, f).os, NoFd) /\ Store(c, "Active", f)
    <2>1. /\ tab' \in [Conn -> Entries] /\ tab'[c].fd = f
          /\ \A d \in Conn \ {c} : tab'[d] = tab[d]
      BY <1>0, <1>10, Stored DEF States, FdOrNone
    <2>2. \A g \in Fds \ {f}, d \in Conn : Holds(g, d)' <=> Holds(g, d)
      BY <1>5, <1>6, <2>1, Constants DEF Holds
    <2>3. \A d \in Conn : Holds(f, d)' <=> d = c
      BY <1>5, <1>7, <2>1 DEF Holds
    <2>4. PICK o : o = is_non_block(r.os, f).os
      OBVIOUS
    <2>5. Kept(r.os, o, f, c)
      BY <1>8, <2>4, NonblockKept
    <2>6. Kept(os, o, f, c) /\ o \in Kernel
      BY <1>8, <2>5, KeptOrder DEF Kept
    <2>7. os' = o
      BY <1>10, <2>4, <2>6, DestroyedIs
    <2>8. Owned' /\ Accounted'
      BY <1>0, <2>2, <2>3, <2>6, <2>7, Gained
    <2>. QED BY <1>0, <1>1, <1>5, <2>1, <2>6, <2>7, <2>8 DEF IndInv, TypeOK
  <1>. QED BY <1>2, <1>9, <1>10

LEMMA AcceptStep ==
  ASSUME IndInv, accept
  PROVE  IndInv'
  <1>0. TypeOK /\ CreatedOnce /\ os \in Kernel /\ Owned /\ Accounted /\ next \in Nat \ {0}
    BY DEF IndInv, TypeOK
  <1>1. /\ next <= MaxConn /\ next' = next + 1 /\ pc # "gone"
        /\ UNCHANGED <<tab, todo, pending, pc, npush, unheard>>
    BY DEF accept
  <1>2. /\ next \in Conn /\ NoNewEntry /\ next < next' /\ tab[next] = NoEntry /\ next' \in Nat \ {0}
    BY <1>0, <1>1, Constants DEF Conn, NoNewEntry, CreatedOnce
  <1>3. PICK c \in Conn : c = next
    BY <1>2
  <1>4. PICK s \in socket(os, c) : \E o \in set_options(set_no_block(s.os, s.fd), s.fd, c) :
          queue' = Append(queue, Command("attach", c, s.fd)) /\ os' = Destroyed(o, NoFd)
    BY <1>3 DEF accept, attach_connection, Move
  <1>5. PICK f \in Fds : f = s.fd /\ IsFree(os, f) /\ Kept(os, set_no_block(s.os, s.fd), f, c)
    BY <1>0, SocketIs, Unused
  <1>6. PICK p \in Kernel : p = set_no_block(s.os, s.fd) /\ BelongsTo(p, f, c) /\ Kept(os, p, f, c)
    BY <1>5 DEF Kept
  <1>7. PICK o \in set_options(p, f, c) :
          queue' = Append(queue, Command("attach", c, f)) /\ os' = Destroyed(o, NoFd)
    BY <1>4, <1>5, <1>6
  <1>8. Kept(p, o, f, c)
    BY <1>6, OptionsKept
  <1>9. Kept(os, o, f, c) /\ o \in Kernel
    BY <1>6, <1>8, KeptOrder DEF Kept
  <1>10. os' = o
    BY <1>7, <1>9, DestroyedIs
  <1>11. PICK x : x = Command("attach", c, f)
    OBVIOUS
  <1>12. x \in Commands /\ x.fd = f /\ x.id = c /\ x.op = "attach"
    BY <1>11, CommandType DEF FdOrNone, Ops
  <1>13. /\ CreatedOnce' /\ queue' \in Seq(Commands)
         /\ \A g \in Fds, d \in Conn : CmdHolds(g, d)' <=> CmdHolds(g, d) \/ (x.fd = g /\ x.id = d)
    BY <1>0, <1>1, <1>2, <1>3, <1>7, <1>11, <1>12, Pushed, CmdsPush DEF Creates
  <1>14. \A d \in Conn : ~Holds(f, d)
    BY <1>5, Unused
  <1>15. /\ \A g \in Fds \ {f}, d \in Conn : Holds(g, d)' <=> Holds(g, d)
         /\ \A d \in Conn : Holds(f, d)' <=> d = c
    BY <1>1, <1>12, <1>13, <1>14 DEF Holds
  <1>16. Owned' /\ Accounted'
    BY <1>0, <1>9, <1>10, <1>15, Gained
  <1>. QED BY <1>0, <1>1, <1>2, <1>9, <1>10, <1>13, <1>16 DEF IndInv, TypeOK

(* What is left is destroyed: no descriptor stays open. *)
LEMMA DestroyStep ==
  ASSUME IndInv, WorkerDestroyed
  PROVE  IndInv'
  <1>0. TypeOK /\ os \in Kernel /\ Owned /\ Accounted
    BY DEF IndInv, TypeOK
  <1>1. /\ pc = "wait" /\ pc' = "gone" /\ todo = <<>> /\ todo' = todo /\ next' = next /\ queue' = <<>>
        /\ tab' = [c \in Conn |-> NoEntry]
    BY <1>0 DEF WorkerDestroyed, TypeOK
  <1>2. os' = [file |-> [f \in Fds |-> AfterAll(f).file[f]], reg |-> [f \in Fds |-> None],
               done |-> [f \in Fds |-> AfterAll(f).done[f]],
               down |-> {f \in Fds : f \in AfterAll(f).down},
               nonblock |-> {f \in Fds : f \in AfterAll(f).nonblock}]
    BY DEF WorkerDestroyed
  <1>3. Cmds = queue /\ Cmds' = <<>> /\ Len(Cmds') = 0 /\ <<>> \in Seq(Commands)
    <2>1. <<>> \in Seq(Commands) /\ queue \in Seq(Commands)
      BY <1>0, EmptySeq DEF TypeOK
    <2>. QED BY <1>1, <2>1, ConcatEmptySeq, EmptySeq DEF Cmds
  <1>4. ASSUME NEW f \in Fds PROVE AfterAll(f).file[f] = None /\ AfterAll(f).done[f] = {}
    <2>1. CASE f \in Sockets
      <3>1. Lost(os, Destroyed(os, f), f)
        BY <1>0, DestroyedIs
      <3>. QED BY <2>1, <3>1 DEF AfterAll, Lost, IsFree
    <2>2. CASE f \notin Sockets
      <3>1. \A c \in Conn : tab[c].fd # f
        BY <2>2 DEF Sockets
      <3>2. \A i \in 1..Len(queue) : queue[i].fd # f
        <4>1. DOMAIN queue = 1..Len(queue)
          BY <1>0, LenProperties DEF TypeOK
        <4>. QED BY <2>2, <4>1 DEF Sockets
      <3>3. \A c \in Conn : ~Holds(f, c)
        BY <1>3, <3>1, <3>2 DEF Holds, CmdHolds
      <3>4. IsFree(os, f)
        BY <1>0, <3>3 DEF Accounted
      <3>. QED BY <2>2, <3>4 DEF AfterAll, IsFree
    <2>. QED BY <2>1, <2>2
  <1>5. /\ os'.file = [f \in Fds |-> None] /\ os'.done = [f \in Fds |-> {}] /\ os'.reg = [f \in Fds |-> None]
        /\ os' \in Kernel
    BY <1>2, <1>4 DEF Kernel, Ids
  <1>6. \A f \in Fds, c \in Conn : ~Holds(f, c)'
    BY <1>1, <1>3, Constants DEF Holds, CmdHolds, NoEntry
  <1>7. Owned' /\ Accounted'
    BY <1>5, <1>6 DEF Owned, Accounted, IsFree
  <1>8. CreatedOnce'
    BY <1>1, <1>3 DEF CreatedOnce
  <1>9. tab' \in [Conn -> Entries]
    BY <1>1 DEF Entries, NoEntry, States, FdOrNone
  <1>. QED BY <1>0, <1>1, <1>3, <1>5, <1>7, <1>8, <1>9 DEF IndInv, TypeOK

LEMMA InitInv ==
  ASSUME Init
  PROVE  IndInv
  <1>1. /\ os = NewOs /\ tab = [c \in Conn |-> NoEntry] /\ queue = <<>> /\ todo = <<>> /\ pc = "wait" /\ next = 1
    BY DEF Init
  <1>2. Cmds = <<>> /\ Len(Cmds) = 0 /\ <<>> \in Seq(Commands)
    BY <1>1, EmptySeq, ConcatEmptySeq DEF Cmds
  <1>3. os \in Kernel /\ \A f \in Fds : IsFree(os, f)
    BY <1>1 DEF NewOs, Kernel, Ids, IsFree
  <1>4. tab \in [Conn -> Entries]
    BY <1>1 DEF Entries, NoEntry, States, FdOrNone
  <1>5. TypeOK
    BY <1>1, <1>2, <1>3, <1>4 DEF TypeOK
  <1>6. CreatedOnce
    BY <1>1, <1>2 DEF CreatedOnce
  <1>7. \A f \in Fds, c \in Conn : ~Holds(f, c)
    BY <1>1, <1>2, Constants DEF Holds, CmdHolds, NoEntry
  <1>. QED BY <1>3, <1>5, <1>6, <1>7 DEF IndInv, Owned, Accounted

LEMMA NextInv ==
  ASSUME IndInv, [Next]_vars
  PROVE  IndInv'
  <1>1. CASE Worker
    <2>1. ASSUME NEW c \in Conn, Execute(c) PROVE IndInv'
      BY <2>1, QuietSteps, ConnectSteps, AttachStep, CommandSteps DEF Execute
    <2>2. ASSUME NEW c \in Conn, Run(c) PROVE IndInv'
      BY <2>2, QuietSteps, EventSteps DEF Run
    <2>. QED BY <1>1, <2>1, <2>2, QuietSteps DEF Worker
  <1>2. CASE Others
    BY <1>2, QuietSteps, AcceptStep, DirectSteps, PeerStep DEF Others
  <1>3. CASE UNCHANGED vars
    <2>1. UNCHANGED <<os, tab, queue, todo, pc, next>>
      BY <1>3 DEF vars
    <2>2. TypeOK'
      BY <2>1 DEF IndInv, TypeOK
    <2>3. CreatedOnce' /\ \A g \in Fds, d \in Conn : CmdHolds(g, d)' <=> CmdHolds(g, d)
      BY <2>1, SameCommandsHold DEF NoNewEntry
    <2>. QED BY <2>1, <2>2, <2>3, Quiet
  <1>. QED BY <1>1, <1>2, <1>3, DestroyStep, QuietSteps DEF Next

(* The descriptors of a worker, for every number of connections,           *)
(* descriptors and calls: a connection is created by one command, each     *)
(* Socket has the descriptor opened for its connection, and the others are *)
(* closed.                                                                 *)
THEOREM DescriptorsInvariant == Spec => []IndInv
  <1>. QED BY InitInv, NextInv, PTL DEF Spec

---------------------------------------------------------------------------
(* What follows.                                                           *)

LEMMA HolderIs ==
  ASSUME IndInv, NEW h \in Holders
  PROVE  \/ \E c \in Conn : h = <<"entry", c>> /\ Held(h) = [fd |-> tab[c].fd, id |-> c] /\ tab[c].fd # NoFd
         \/ \E i \in 1..Len(queue) : /\ h = <<"queued", i>> /\ Held(h) = [fd |-> queue[i].fd, id |-> queue[i].id]
                                     /\ queue[i].fd # NoFd
         \/ \E i \in 1..Len(todo) : /\ h = <<"taken", i>> /\ Held(h) = [fd |-> todo[i].fd, id |-> todo[i].id]
                                    /\ todo[i].fd # NoFd
  <1>1. DOMAIN queue = 1..Len(queue) /\ DOMAIN todo = 1..Len(todo)
    BY LenProperties DEF IndInv, TypeOK
  <1>2. \/ \E c \in Conn : h = <<"entry", c>> /\ tab[c].fd # NoFd
        \/ \E i \in 1..Len(queue) : h = <<"queued", i>> /\ queue[i].fd # NoFd
        \/ \E i \in 1..Len(todo) : h = <<"taken", i>> /\ todo[i].fd # NoFd
    BY <1>1 DEF Holders
  <1>. QED BY <1>2 DEF Held

(* The place of a command in Cmds. *)
LEMMA PlaceOf ==
  ASSUME IndInv
  PROVE  /\ \A i \in 1..Len(todo) : i \in 1..Len(Cmds) /\ Cmds[i] = todo[i]
         /\ \A i \in 1..Len(queue) : /\ Len(todo) + i \in 1..Len(Cmds) /\ Len(todo) + i > Len(todo)
                                     /\ Cmds[Len(todo) + i] = queue[i]
         /\ \A i \in 1..Len(Cmds) : \/ i \in 1..Len(todo) /\ Cmds[i] = todo[i]
                                    \/ i - Len(todo) \in 1..Len(queue) /\ Cmds[i] = queue[i - Len(todo)]
  <1>1. /\ Len(Cmds) \in Nat /\ Len(Cmds) = Len(todo) + Len(queue) /\ Len(todo) \in Nat /\ Len(queue) \in Nat
        /\ \A i \in 1..Len(Cmds) : Cmds[i] = IF i <= Len(todo) THEN todo[i] ELSE queue[i - Len(todo)]
    BY CmdsType DEF IndInv
  <1>2. ASSUME NEW i \in 1..Len(todo) PROVE i \in 1..Len(Cmds) /\ Cmds[i] = todo[i]
    BY <1>1
  <1>3. ASSUME NEW i \in 1..Len(queue)
        PROVE  /\ Len(todo) + i \in 1..Len(Cmds) /\ Len(todo) + i > Len(todo) /\ Cmds[Len(todo) + i] = queue[i]
    <2>1. /\ Len(todo) + i \in 1..Len(Cmds) /\ ~(Len(todo) + i <= Len(todo))
          /\ (Len(todo) + i) - Len(todo) = i
      BY <1>1
    <2>. QED BY <1>1, <2>1
  <1>4. ASSUME NEW i \in 1..Len(Cmds)
        PROVE  \/ i \in 1..Len(todo) /\ Cmds[i] = todo[i]
               \/ i - Len(todo) \in 1..Len(queue) /\ Cmds[i] = queue[i - Len(todo)]
    BY <1>1
  <1>. QED BY <1>2, <1>3, <1>4

LEMMA HolderHolds ==
  ASSUME IndInv, NEW h \in Holders
  PROVE  /\ Held(h).fd \in Fds /\ Held(h).id \in Conn /\ Holds(Held(h).fd, Held(h).id)
         /\ BelongsTo(os, Held(h).fd, Held(h).id)
  <1>1. Held(h).fd # NoFd /\ Held(h).fd \in FdOrNone /\ Held(h).id \in Conn /\ Holds(Held(h).fd, Held(h).id)
    <2>1. CASE \E c \in Conn : h = <<"entry", c>> /\ Held(h) = [fd |-> tab[c].fd, id |-> c] /\ tab[c].fd # NoFd
      BY <2>1 DEF IndInv, TypeOK, Entries, Holds
    <2>2. ASSUME NEW i \in 1..Len(Cmds), Held(h) = [fd |-> Cmds[i].fd, id |-> Cmds[i].id], Cmds[i].fd # NoFd
          PROVE  Held(h).fd # NoFd /\ Held(h).fd \in FdOrNone /\ Held(h).id \in Conn /\ Holds(Held(h).fd, Held(h).id)
      <3>1. Cmds[i] \in Commands
        BY CmdsType DEF IndInv
      <3>. QED BY <2>2, <3>1 DEF Commands, Holds, CmdHolds
    <2>3. \/ \E c \in Conn : h = <<"entry", c>> /\ Held(h) = [fd |-> tab[c].fd, id |-> c] /\ tab[c].fd # NoFd
          \/ \E i \in 1..Len(Cmds) : Held(h) = [fd |-> Cmds[i].fd, id |-> Cmds[i].id] /\ Cmds[i].fd # NoFd
      BY HolderIs, PlaceOf
    <2>. QED BY <2>1, <2>2, <2>3
  <1>2. Held(h).fd \in Fds
    BY <1>1 DEF FdOrNone
  <1>. QED BY <1>1, <1>2 DEF IndInv, Owned

(* Two Sockets of one connection are one. *)
LEMMA OneHolder ==
  ASSUME IndInv, NEW h1 \in Holders, NEW h2 \in Holders, Held(h1).id = Held(h2).id
  PROVE  h1 = h2
  <1>. DEFINE Entry(h) == \E c \in Conn : h = <<"entry", c>> /\ c = Held(h).id /\ tab[c].fd # NoFd
              Place(h, i) == /\ i \in 1..Len(Cmds) /\ Cmds[i].id = Held(h).id /\ Cmds[i].fd # NoFd
                             /\ \/ i \in 1..Len(todo) /\ h = <<"taken", i>>
                                \/ i > Len(todo) /\ \E k \in 1..Len(queue) : h = <<"queued", k>> /\ i = Len(todo) + k
  <1>0. Len(todo) \in Nat /\ Len(queue) \in Nat
    BY CmdsType DEF IndInv
  <1>1. ASSUME NEW h \in Holders PROVE Entry(h) \/ \E i \in 1..Len(Cmds) : Place(h, i)
    <2>1. CASE \E c \in Conn : h = <<"entry", c>> /\ Held(h) = [fd |-> tab[c].fd, id |-> c] /\ tab[c].fd # NoFd
      BY <2>1
    <2>2. CASE \E i \in 1..Len(queue) : /\ h = <<"queued", i>> /\ Held(h) = [fd |-> queue[i].fd, id |-> queue[i].id]
                                        /\ queue[i].fd # NoFd
      <3>1. PICK k \in 1..Len(queue) : /\ h = <<"queued", k>> /\ Held(h) = [fd |-> queue[k].fd, id |-> queue[k].id]
                                       /\ queue[k].fd # NoFd
        BY <2>2
      <3>2. PICK i \in 1..Len(Cmds) : i = Len(todo) + k /\ i > Len(todo) /\ Cmds[i] = queue[k]
        BY PlaceOf
      <3>. QED BY <3>1, <3>2
    <2>3. CASE \E i \in 1..Len(todo) : /\ h = <<"taken", i>> /\ Held(h) = [fd |-> todo[i].fd, id |-> todo[i].id]
                                       /\ todo[i].fd # NoFd
      BY <2>3, PlaceOf
    <2>. QED BY <2>1, <2>2, <2>3, HolderIs
  <1>2. \A h, i : Place(h, i) => Creates(Cmds[i]) /\ tab[Held(h).id] = NoEntry
    BY DEF IndInv, CreatedOnce
  <1>3. \A h, g : Entry(h) => ~(Held(h).id = Held(g).id /\ \E i \in 1..Len(Cmds) : Place(g, i))
    BY <1>2 DEF NoEntry
  <1>4. CASE Entry(h1) /\ Entry(h2)
    BY <1>4
  <1>5. ASSUME NEW i \in 1..Len(Cmds), NEW j \in 1..Len(Cmds), Place(h1, i), Place(h2, j) PROVE h1 = h2
    <2>1. i = j
      BY <1>2, <1>5 DEF IndInv, CreatedOnce
    <2>. QED BY <1>0, <1>5, <2>1
  <1>. QED BY <1>1, <1>3, <1>4, <1>5

(* A Socket owns the open, non-blocking descriptor of its connection, and  *)
(* is the only one that does, whatever is moved, refused, reused or        *)
(* destroyed (Socket's move and close).                                    *)
THEOREM OwnDescriptorTheorem == Spec => []OwnDescriptor
  <1>1. IndInv => OwnDescriptor
    <2>. SUFFICES ASSUME IndInv PROVE OwnDescriptor
      OBVIOUS
    <2>1. \A h \in Holders : os.file[Held(h).fd] = Held(h).id /\ Held(h).fd \in os.nonblock
      BY HolderHolds DEF BelongsTo
    <2>2. ASSUME NEW h1 \in Holders, NEW h2 \in Holders, Held(h1).fd = Held(h2).fd PROVE h1 = h2
      <3>1. Held(h1).id = Held(h2).id
        BY <2>1, <2>2
      <3>. QED BY <3>1, OneHolder
    <2>. QED BY <2>1, <2>2 DEF OwnDescriptor
  <1>. QED BY <1>1, DescriptorsInvariant, PTL

(* No path of accept, connectInternal, attachConnectionInternal,           *)
(* removeConnectionInternal, handle_events or ~Worker leaves a descriptor  *)
(* open that no Socket owns.                                               *)
THEOREM NothingLeaksTheorem == Spec => []NothingLeaks
  <1>1. IndInv => NothingLeaks
    <2>. SUFFICES ASSUME IndInv, NEW f \in Fds, os.file[f] # None PROVE \E h \in Holders : Held(h).fd = f
      BY DEF NothingLeaks
    <2>1. PICK c \in Conn : Holds(f, c)
      BY DEF IndInv, Accounted, IsFree
    <2>2. f # NoFd /\ DOMAIN queue = 1..Len(queue) /\ DOMAIN todo = 1..Len(todo)
      BY Constants, LenProperties DEF IndInv, TypeOK
    <2>3. CASE tab[c].fd = f
      <3>1. <<"entry", c>> \in Holders
        BY <2>2, <2>3 DEF Holders
      <3>2. Held(<<"entry", c>>).fd = f
        BY <2>3 DEF Held
      <3>. QED BY <3>1, <3>2
    <2>4. CASE \E i \in 1..Len(todo) : todo[i].fd = f
      <3>1. PICK i \in 1..Len(todo) : todo[i].fd = f
        BY <2>4
      <3>2. <<"taken", i>> \in Holders
        BY <2>2, <3>1 DEF Holders
      <3>3. Held(<<"taken", i>>).fd = f
        BY <3>1 DEF Held
      <3>. QED BY <3>2, <3>3
    <2>5. CASE \E i \in 1..Len(queue) : queue[i].fd = f
      <3>1. PICK i \in 1..Len(queue) : queue[i].fd = f
        BY <2>5
      <3>2. <<"queued", i>> \in Holders
        BY <2>2, <3>1 DEF Holders
      <3>3. Held(<<"queued", i>>).fd = f
        BY <3>1 DEF Held
      <3>. QED BY <3>2, <3>3
    <2>. QED BY <2>1, <2>3, <2>4, <2>5, PlaceOf DEF Holds, CmdHolds
  <1>. QED BY <1>1, DescriptorsInvariant, PTL

(* No option, shutdown or registration made for one connection reaches the *)
(* descriptor of another that was given its number.                        *)
THEOREM ReachesOwnTheorem == Spec => []ReachesOwn
  <1>1. IndInv => ReachesOwn
    BY DEF IndInv, Owned, Accounted, BelongsTo, IsFree, ReachesOwn
  <1>. QED BY <1>1, DescriptorsInvariant, PTL
=============================================================================
