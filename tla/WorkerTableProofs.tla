------------------------- MODULE WorkerTableProofs -------------------------
(***************************************************************************)
(* Proofs about WorkerTable for every set of connections and every number  *)
(* of commands.                                                            *)
(***************************************************************************)
EXTENDS WorkerTable, SequenceTheorems, TLAPS

Events == Interest \cup {"Bad"}
Links == {"none", "pending", "up", "down"}

(* What holds of one connection: d has the entry e, is registered for r, its
   link is l, the events p are pending, m happened to it and K is the set of
   commands that wait.  The first four parts are the properties; a link that
   is down, a "Bad" event and a waiting shutdown each have their reason, and
   a process on a socket that is still connecting came early. *)
Fine(d, e, r, l, p, m, K) ==
    /\ IF e # NoEntry /\ e.sock THEN r = e.ev \/ "torn" \in m ELSE r = {}
    /\ e # NoEntry /\ ~e.sock => Cmd("remove", d) \in K
    /\ "In" \in r => e.proc \/ "sync" \in m
    /\ Cmd("remove", d) \in K => m \cap {"asked", "lost", "failed", "early"} # {}
    /\ Cmd("shutdown", d) \in K => "asked" \in m
    /\ l = "down" => m \cap {"asked", "lost"} # {}
    /\ "Bad" \in p => m \cap {"asked", "lost"} # {}
    /\ e # NoEntry /\ e.sock /\ e.proc /\ e.state = "Connecting" => "early" \in m

(* Between rounds the local list of handle_pending is empty. *)
RoundOver == pc # "cmds" => todo = <<>>

IndInv == /\ TypeOK /\ RoundOver
          /\ \A d \in Conn : Fine(d, tab[d], reg[d], link[d], pending[d], marks[d], Unexecuted)

(* Two commands are equal when they do the same to the same connection. *)
LEMMA CmdEquality ==
  \A o1, o2, c1, c2 : (Cmd(o1, c1) = Cmd(o2, c2)) <=> (o1 = o2 /\ c1 = c2)
  BY DEF Cmd

LEMMA CmdType ==
  ASSUME NEW op \in Op, NEW c \in Conn
  PROVE  Cmd(op, c) \in Command
  BY DEF Cmd, Command

LEMMA RangeAppend ==
  ASSUME NEW S, NEW s \in Seq(S), NEW x \in S
  PROVE  Append(s, x) \in Seq(S) /\ Range(Append(s, x)) = Range(s) \cup {x}
  <1>1. /\ Append(s, x) \in Seq(S) /\ Len(Append(s, x)) = Len(s) + 1 /\ Len(s) \in Nat
        /\ \A i \in 1..Len(s) : Append(s, x)[i] = s[i]
        /\ Append(s, x)[Len(s) + 1] = x
    BY AppendProperties, LenProperties
  <1>2. /\ Range(s) = {s[i] : i \in 1..Len(s)}
        /\ Range(Append(s, x)) = {Append(s, x)[i] : i \in 1..(Len(s) + 1)}
    BY <1>1, RangeEquality
  <1>3. ASSUME NEW y \in Range(Append(s, x)) PROVE y \in Range(s) \cup {x}
    <2>1. PICK i \in 1..(Len(s) + 1) : y = Append(s, x)[i]
      BY <1>2, <1>3
    <2>. QED BY <1>1, <1>2, <2>1
  <1>4. ASSUME NEW y \in Range(s) PROVE y \in Range(Append(s, x))
    <2>1. PICK i \in 1..Len(s) : y = s[i]
      BY <1>2, <1>4
    <2>. QED BY <1>1, <1>2, <2>1
  <1>5. x \in Range(Append(s, x))
    BY <1>1, <1>2
  <1>. QED BY <1>1, <1>3, <1>4, <1>5

LEMMA RangeTail ==
  ASSUME NEW S, NEW s \in Seq(S), s # <<>>
  PROVE  /\ Tail(s) \in Seq(S)
         /\ Head(s) \in Range(s)
         /\ Range(Tail(s)) \subseteq Range(s)
         /\ Range(s) \subseteq Range(Tail(s)) \cup {Head(s)}
  <1>1. Tail(s) \in Seq(S) /\ Len(s) >= 1 /\ Head(s) = s[1]
    BY EmptySeq, LenProperties
  <1>2. \A i \in 1..Len(s) : i = 1 \/ (i - 1 \in 1..Len(Tail(s)) /\ Tail(s)[i - 1] = s[i])
    BY <1>1
  <1>3. \A i \in 1..Len(Tail(s)) : i + 1 \in 1..Len(s) /\ Tail(s)[i] = s[i + 1]
    BY <1>1
  <1>4. Range(s) = {s[i] : i \in 1..Len(s)} /\ Range(Tail(s)) = {Tail(s)[i] : i \in 1..Len(Tail(s))}
    BY <1>1, RangeEquality
  <1>5. Head(s) \in Range(s)
    BY <1>1, <1>4
  <1>6. Range(Tail(s)) \subseteq Range(s)
    BY <1>3, <1>4
  <1>7. ASSUME NEW x \in Range(s) PROVE x \in Range(Tail(s)) \cup {Head(s)}
    <2>1. PICK i \in 1..Len(s) : x = s[i]
      BY <1>4, <1>7
    <2>. QED BY <1>1, <1>2, <1>4, <2>1
  <1>. QED BY <1>1, <1>5, <1>6, <1>7

(* How the commands that wait change: a push ... *)
LEMMA Pushed ==
  ASSUME TypeOK, NEW x \in Command, queue' = Append(queue, x), todo' = todo
  PROVE  queue' \in Seq(Command) /\ Unexecuted' = Unexecuted \cup {x}
  <1>1. queue \in Seq(Command)
    BY DEF TypeOK
  <1>2. queue' \in Seq(Command) /\ Range(queue') = Range(queue) \cup {x}
    BY <1>1, RangeAppend
  <1>. QED BY <1>2 DEF Unexecuted

(* ... the execution of a command ... *)
LEMMA Taken ==
  ASSUME TypeOK, NEW op \in Op, NEW c \in Conn, Take(op, c)
  PROVE  /\ todo' \in Seq(Command) /\ pc = "cmds"
         /\ Cmd(op, c) \in Unexecuted
         /\ Range(todo') \subseteq Range(todo)
         /\ Range(todo) \subseteq Range(todo') \cup {Cmd(op, c)}
  <1>1. todo \in Seq(Command) /\ todo # <<>> /\ Head(todo) = Cmd(op, c) /\ todo' = Tail(todo)
        /\ pc = "cmds"
    BY DEF TypeOK, Take
  <1>. QED BY <1>1, RangeTail DEF Unexecuted

LEMMA Executed ==
  ASSUME TypeOK, NEW op \in Op, NEW c \in Conn, Take(op, c), queue' = queue
  PROVE  /\ todo' \in Seq(Command) /\ queue' \in Seq(Command) /\ pc = "cmds"
         /\ Cmd(op, c) \in Unexecuted
         /\ Unexecuted' \subseteq Unexecuted
         /\ Unexecuted \subseteq Unexecuted' \cup {Cmd(op, c)}
  <1>1. queue \in Seq(Command)
    BY DEF TypeOK
  <1>. QED BY <1>1, Taken DEF Unexecuted

(* ... and one that pushes a RemoveConnection. *)
LEMMA ExecutedWithRemove ==
  ASSUME TypeOK, NEW op \in Op, NEW c \in Conn, Take(op, c),
         queue' = Append(queue, Cmd("remove", c))
  PROVE  /\ todo' \in Seq(Command) /\ queue' \in Seq(Command) /\ pc = "cmds"
         /\ Cmd(op, c) \in Unexecuted
         /\ Cmd("remove", c) \in Unexecuted'
         /\ Unexecuted' \subseteq Unexecuted \cup {Cmd("remove", c)}
         /\ Unexecuted \subseteq Unexecuted' \cup {Cmd(op, c)}
  <1>1. queue \in Seq(Command) /\ Cmd("remove", c) \in Command
    BY CmdType DEF TypeOK, Op
  <1>2. queue' \in Seq(Command) /\ Range(queue') = Range(queue) \cup {Cmd("remove", c)}
    BY <1>1, RangeAppend
  <1>. QED BY <1>2, Taken DEF Unexecuted

(* A step that changes one connection only and adds and takes only commands
   for it. *)
LEMMA OneConnection ==
  ASSUME IndInv, NEW c \in Conn,
         NEW e \in Entry \cup {NoEntry}, NEW r \in SUBSET Interest, NEW l \in Links,
         NEW p \in SUBSET Events, NEW m \in SUBSET Mark, NEW o1 \in Op, NEW o2 \in Op,
         tab' = [tab EXCEPT ![c] = e], reg' = [reg EXCEPT ![c] = r],
         link' = [link EXCEPT ![c] = l], pending' = [pending EXCEPT ![c] = p],
         marks' = [marks EXCEPT ![c] = m],
         queue' \in Seq(Command), todo' \in Seq(Command), RoundOver',
         pc' \in {"wait", "cmds", "events"}, stale' \in BOOLEAN,
         npush' \in 0..MaxPush,
         Unexecuted' \subseteq Unexecuted \cup {Cmd(o1, c)},
         Unexecuted \subseteq Unexecuted' \cup {Cmd(o2, c)},
         Fine(c, e, r, l, p, m, Unexecuted')
  PROVE  IndInv'
  <1>1. TypeOK'
    BY DEF IndInv, TypeOK, Links, Events
  <1>2. ASSUME NEW d \in Conn
        PROVE  Fine(d, tab[d], reg[d], link[d], pending[d], marks[d], Unexecuted)'
    <2>1. /\ tab \in [Conn -> Entry \cup {NoEntry}] /\ reg \in [Conn -> SUBSET Interest]
          /\ link \in [Conn -> Links] /\ pending \in [Conn -> SUBSET Events]
          /\ marks \in [Conn -> SUBSET Mark]
      BY DEF IndInv, TypeOK, Links, Events
    <2>2. CASE d = c
      <3>1. tab'[d] = e /\ reg'[d] = r /\ link'[d] = l /\ pending'[d] = p /\ marks'[d] = m
        BY <2>1, <2>2
      <3>. QED BY <2>2, <3>1, Zenon
    <2>3. CASE d # c
      <3>1. /\ tab'[d] = tab[d] /\ reg'[d] = reg[d] /\ link'[d] = link[d]
            /\ pending'[d] = pending[d] /\ marks'[d] = marks[d]
        BY <2>1, <2>3
      <3>2. \A o : Cmd(o, d) \in Unexecuted' <=> Cmd(o, d) \in Unexecuted
        BY <2>3, CmdEquality
      <3>3. Fine(d, tab[d], reg[d], link[d], pending[d], marks[d], Unexecuted)
        BY DEF IndInv
      <3>. QED BY <3>1, <3>2, <3>3 DEF Fine
    <2>. QED BY <2>2, <2>3
  <1>. QED BY <1>1, <1>2 DEF IndInv

(* The parts of an entry, and what a function is that changes nothing. *)
LEMMA Typed ==
  ASSUME IndInv, NEW c \in Conn
  PROVE  /\ TypeOK /\ tab[c] \in Entry \cup {NoEntry} /\ reg[c] \in SUBSET Interest
         /\ link[c] \in Links /\ pending[c] \in SUBSET Events /\ marks[c] \in SUBSET Mark
         /\ tab = [tab EXCEPT ![c] = tab[c]] /\ reg = [reg EXCEPT ![c] = reg[c]]
         /\ link = [link EXCEPT ![c] = link[c]] /\ pending = [pending EXCEPT ![c] = pending[c]]
         /\ marks = [marks EXCEPT ![c] = marks[c]]
         /\ Fine(c, tab[c], reg[c], link[c], pending[c], marks[c], Unexecuted)
         /\ pc \in {"wait", "cmds", "events"} /\ stale \in BOOLEAN
         /\ npush \in 0..MaxPush
         /\ queue \in Seq(Command) /\ todo \in Seq(Command) /\ RoundOver
  BY DEF IndInv, TypeOK, Links, Events

(* A push, of whatever command. *)
LEMMA PushStep ==
  ASSUME IndInv, NEW c \in Conn, NEW op \in Op, Push(op, c)
  PROVE  IndInv'
  <1>. DEFINE m == marks[c] \cup (CASE op = "add" -> {"made"}
                                    [] op \in {"shutdown", "remove"} -> {"asked"}
                                    [] OTHER -> {})
  <1>1. m \in SUBSET Mark /\ marks[c] \subseteq m /\ (op \in {"shutdown", "remove"} => "asked" \in m)
    BY Typed DEF Mark, Op
  <1>2. /\ queue' = Append(queue, Cmd(op, c)) /\ todo' = todo
        /\ marks' = [marks EXCEPT ![c] = m]
        /\ UNCHANGED <<tab, reg, link, pending, pc, stale>>
    BY DEF Push
  <1>3. npush' \in 0..MaxPush
    BY Typed, MaxPushAssumption DEF Push
  <1>. HIDE DEF m
  <1>4. Cmd(op, c) \in Command
    BY CmdType
  <1>5. queue' \in Seq(Command) /\ Unexecuted' = Unexecuted \cup {Cmd(op, c)}
    BY <1>2, <1>4, Typed, Pushed
  <1>6. Fine(c, tab[c], reg[c], link[c], pending[c], m, Unexecuted')
    <2>1. Fine(c, tab[c], reg[c], link[c], pending[c], marks[c], Unexecuted)
      BY Typed
    <2>2. \A o : Cmd(o, c) \in Unexecuted' <=> Cmd(o, c) \in Unexecuted \/ o = op
      BY <1>5, CmdEquality
    <2>. QED BY <1>1, <2>1, <2>2 DEF Fine
  <1>7. RoundOver'
    BY <1>2, Typed DEF RoundOver
  <1>8. /\ tab' = [tab EXCEPT ![c] = tab[c]] /\ reg' = [reg EXCEPT ![c] = reg[c]]
        /\ link' = [link EXCEPT ![c] = link[c]] /\ pending' = [pending EXCEPT ![c] = pending[c]]
        /\ pc' \in {"wait", "cmds", "events"} /\ stale' \in BOOLEAN /\ todo' \in Seq(Command)
    BY <1>2, Typed
  <1>9. /\ tab[c] \in Entry \cup {NoEntry} /\ reg[c] \in SUBSET Interest
        /\ link[c] \in Links /\ pending[c] \in SUBSET Events
        /\ Unexecuted' \subseteq Unexecuted \cup {Cmd(op, c)}
        /\ Unexecuted \subseteq Unexecuted' \cup {Cmd(op, c)}
    BY <1>5, Typed
  <1>. QED BY <1>1, <1>2, <1>3, <1>5, <1>6, <1>7, <1>8, <1>9, OneConnection, ZenonT(90)

(* The execution of a command for c ... *)
LEMMA ExecuteStep ==
  ASSUME IndInv, NEW c \in Conn, NEW op \in Op, Take(op, c),
         NEW e \in Entry \cup {NoEntry}, NEW r \in SUBSET Interest, NEW l \in Links,
         NEW m \in SUBSET Mark,
         tab' = [tab EXCEPT ![c] = e], reg' = [reg EXCEPT ![c] = r],
         link' = [link EXCEPT ![c] = l], marks' = [marks EXCEPT ![c] = m],
         UNCHANGED <<pending, pc, stale, npush>>,
         queue' = queue \/ queue' = Append(queue, Cmd("remove", c)),
         Fine(c, e, r, l, pending[c], m, Unexecuted')
  PROVE  IndInv'
  <1>1. /\ pending' = [pending EXCEPT ![c] = pending[c]] /\ pending[c] \in SUBSET Events
        /\ pc' \in {"wait", "cmds", "events"} /\ stale' \in BOOLEAN
        /\ npush' \in 0..MaxPush /\ TypeOK
    BY Typed
  <1>2. /\ todo' \in Seq(Command) /\ queue' \in Seq(Command) /\ pc = "cmds"
        /\ Unexecuted' \subseteq Unexecuted \cup {Cmd("remove", c)}
        /\ Unexecuted \subseteq Unexecuted' \cup {Cmd(op, c)}
    <2>1. CASE queue' = queue
      BY <1>1, <2>1, Executed
    <2>2. CASE queue' = Append(queue, Cmd("remove", c))
      BY <1>1, <2>2, ExecutedWithRemove
    <2>. QED BY <2>1, <2>2
  <1>3. RoundOver' /\ "remove" \in Op
    BY <1>2 DEF RoundOver, Op
  <1>. QED BY <1>1, <1>2, <1>3, OneConnection, ZenonT(90)

(* ... and the handling of an event of c. *)
LEMMA EventStep ==
  ASSUME IndInv, NEW c \in Conn, NEW ev \in SUBSET Events, Event(c, ev),
         NEW e \in Entry \cup {NoEntry}, NEW r \in SUBSET Interest, NEW l \in Links,
         NEW m \in SUBSET Mark,
         tab' = [tab EXCEPT ![c] = e], reg' = [reg EXCEPT ![c] = r],
         link' = [link EXCEPT ![c] = l], marks' = [marks EXCEPT ![c] = m],
         UNCHANGED <<todo, pc, npush>>, stale' \in BOOLEAN,
         queue' = queue \/ queue' = Append(queue, Cmd("remove", c)),
         Fine(c, e, r, l, {}, m, Unexecuted')
  PROVE  IndInv'
  <1>1. /\ pc' \in {"wait", "cmds", "events"} /\ todo' \in Seq(Command)
        /\ npush' \in 0..MaxPush /\ TypeOK
        /\ queue \in Seq(Command) /\ RoundOver
    BY Typed
  <1>2. /\ queue' \in Seq(Command)
        /\ Unexecuted' \subseteq Unexecuted \cup {Cmd("remove", c)}
        /\ Unexecuted \subseteq Unexecuted' \cup {Cmd("remove", c)}
    <2>1. CASE queue' = queue
      BY <1>1, <2>1 DEF Unexecuted
    <2>2. CASE queue' = Append(queue, Cmd("remove", c))
      <3>1. Cmd("remove", c) \in Command
        BY CmdType DEF Op
      <3>. QED BY <1>1, <2>2, <3>1, Pushed
    <2>. QED BY <2>1, <2>2
  <1>3. RoundOver' /\ "remove" \in Op
    BY <1>1 DEF RoundOver, Op
  <1>4. pending' = [pending EXCEPT ![c] = {}] /\ {} \in SUBSET Events
    BY DEF Event
  <1>. QED BY <1>1, <1>2, <1>3, <1>4, OneConnection, ZenonT(90)

(* The commands for c that wait after one was executed, without and with the
   push of a RemoveConnection, and after such a push alone. *)
LEMMA ExecutedOwn ==
  ASSUME IndInv, NEW c \in Conn, NEW op \in Op, Take(op, c), queue' = queue
  PROVE  /\ Cmd(op, c) \in Unexecuted
         /\ \A o : Cmd(o, c) \in Unexecuted' => Cmd(o, c) \in Unexecuted
         /\ \A o : o # op /\ Cmd(o, c) \in Unexecuted => Cmd(o, c) \in Unexecuted'
  <1>1. TypeOK
    BY Typed
  <1>2. /\ Cmd(op, c) \in Unexecuted
        /\ Unexecuted' \subseteq Unexecuted
        /\ Unexecuted \subseteq Unexecuted' \cup {Cmd(op, c)}
    BY <1>1, Executed
  <1>. QED BY <1>2, CmdEquality

LEMMA ExecutedWithRemoveOwn ==
  ASSUME IndInv, NEW c \in Conn, NEW op \in Op, Take(op, c),
         queue' = Append(queue, Cmd("remove", c))
  PROVE  /\ Cmd("remove", c) \in Unexecuted'
         /\ Cmd("shutdown", c) \in Unexecuted' => Cmd("shutdown", c) \in Unexecuted
  <1>1. TypeOK
    BY Typed
  <1>2. /\ Cmd("remove", c) \in Unexecuted'
        /\ Unexecuted' \subseteq Unexecuted \cup {Cmd("remove", c)}
    BY <1>1, ExecutedWithRemove
  <1>. QED BY <1>2, CmdEquality

LEMMA PushedOwn ==
  ASSUME IndInv, NEW c \in Conn, queue' = Append(queue, Cmd("remove", c)), todo' = todo
  PROVE  /\ Cmd("remove", c) \in Unexecuted'
         /\ Cmd("shutdown", c) \in Unexecuted' => Cmd("shutdown", c) \in Unexecuted
  <1>1. TypeOK
    BY Typed
  <1>2. Cmd("remove", c) \in Command
    BY CmdType DEF Op
  <1>3. Unexecuted' = Unexecuted \cup {Cmd("remove", c)}
    BY <1>1, <1>2, Pushed
  <1>. QED BY <1>3, CmdEquality

(* A new entry and one that gets a process. *)
LEMMA NewEntryType ==
  ASSUME NEW state \in {"Connecting", "Active"}, NEW ev \in SUBSET Interest
  PROVE  LET e == NewEntry(state, ev)
         IN  e \in Entry /\ e # NoEntry /\ e.sock /\ ~e.proc /\ e.ev = ev /\ e.state = state
  <1>1. NewEntry(state, ev) \in Entry
    BY DEF NewEntry, Entry
  <1>. QED BY <1>1, NoEntryAssumption DEF NewEntry

LEMMA WithProcessType ==
  ASSUME NEW c \in Conn, tab[c] \in Entry \cup {NoEntry}, Attachable(c), NEW ev \in SUBSET Interest
  PROVE  LET e == [WithProcess(c) EXCEPT !.ev = ev]
         IN  /\ WithProcess(c) \in Entry /\ WithProcess(c) # NoEntry
             /\ WithProcess(c).sock = tab[c].sock /\ WithProcess(c).proc
             /\ WithProcess(c).state = tab[c].state
             /\ e \in Entry /\ e # NoEntry /\ e.sock = tab[c].sock /\ e.proc
             /\ e.ev = ev /\ e.state = tab[c].state
  <1>1. tab[c] \in Entry /\ tab[c] # NoEntry
    BY DEF Attachable, Has
  <1>2. WithProcess(c) \in Entry
    BY <1>1 DEF WithProcess, Entry, Interest
  <1>3. [WithProcess(c) EXCEPT !.ev = ev] \in Entry
    BY <1>2 DEF Entry
  <1>. QED BY <1>1, <1>2, <1>3, NoEntryAssumption DEF WithProcess, Entry

(* What a callback leaves behind are sets of events, without In if there was
   none, and it is marked if they differ. *)
LEMMA CallbackType ==
  ASSUME NEW t \in SUBSET Interest, NEW q \in SUBSET Interest, NEW x \in AfterCallback(t, q)
  PROVE  /\ x.tab \in SUBSET Interest /\ x.ep \in SUBSET Interest
         /\ "In" \in x.ep => "In" \in t \cup q
         /\ Torn(x) \in SUBSET Mark
         /\ x.ep = x.tab \/ "torn" \in Torn(x)
  <1>1. \A n \in OutWays(t) : n \in SUBSET Interest /\ ("In" \in n => "In" \in t)
    BY DEF OutWays, Interest
  <1>2. /\ x.tab \in SUBSET Interest /\ x.ep \in SUBSET Interest
        /\ "In" \in x.ep => "In" \in t \cup q
    <2>1. CASE x = [tab |-> t, ep |-> q]
      BY <2>1
    <2>2. CASE \E n \in OutWays(t), p \in OutWays(t) : x = [tab |-> n, ep |-> p]
      BY <1>1, <2>2
    <2>3. CASE \E n \in OutWays(t) : x = [tab |-> n, ep |-> n \ {"In"}]
      BY <1>1, <2>3
    <2>. QED BY <2>1, <2>2, <2>3 DEF AfterCallback
  <1>. QED BY <1>2 DEF Torn, Mark

LEMMA OutWaysType ==
  ASSUME NEW t \in SUBSET Interest, NEW ev \in OutWays(t)
  PROVE  ev \in SUBSET Interest
  BY DEF OutWays, Interest

(* The commands, one by one. *)
LEMMA AddFailsStep ==
  ASSUME IndInv, NEW c \in Conn, AddFails(c)
  PROVE  IndInv'
  <1>. DEFINE e == tab[c]
             r == reg[c]
             l == link[c]
             m == marks[c]
  <1>1. /\ Fine(c, tab[c], reg[c], link[c], pending[c], marks[c], Unexecuted)
        /\ tab[c] \in Entry \cup {NoEntry} /\ reg[c] \in SUBSET Interest
        /\ link[c] \in Links /\ marks[c] \in SUBSET Mark /\ "add" \in Op
    BY Typed DEF Op
  <1>2. Take("add", c) /\ queue' = queue /\ UNCHANGED <<pending, pc, stale, npush>>
    BY DEF AddFails
  <1>3. /\ tab' = [tab EXCEPT ![c] = e] /\ reg' = [reg EXCEPT ![c] = r]
        /\ link' = [link EXCEPT ![c] = l] /\ marks' = [marks EXCEPT ![c] = m]
    BY Typed DEF AddFails, Store, Register, Note
  <1>4. r \in SUBSET Interest /\ l \in Links /\ m \in SUBSET Mark
    BY <1>1 DEF Interest, Links, Mark
  <1>5. e \in Entry \cup {NoEntry} /\ e = tab[c]
    BY <1>1 DEF Fine
  <1>6. /\ Cmd("add", c) \in Unexecuted
        /\ \A o : Cmd(o, c) \in Unexecuted' => Cmd(o, c) \in Unexecuted
        /\ \A o : o # "add" /\ Cmd(o, c) \in Unexecuted => Cmd(o, c) \in Unexecuted'
    BY <1>1, <1>2, ExecutedOwn
  <1>. HIDE DEF e
  <1>7. Fine(c, e, r, l, pending[c], m, Unexecuted')
    BY <1>1, <1>5, <1>6 DEF Fine
  <1>. HIDE DEF r, l, m
  <1>. QED BY <1>1, <1>2, <1>3, <1>4, <1>5, <1>7, ExecuteStep, ZenonT(90)

LEMMA ConnectNowStep ==
  ASSUME IndInv, NEW c \in Conn, connectInternal_Now(c)
  PROVE  IndInv'
  <1>. DEFINE e == NewEntry("Active", {"In"})
             r == {"In"}
             l == "up"
             m == marks[c] \cup {"sync"}
  <1>1. /\ Fine(c, tab[c], reg[c], link[c], pending[c], marks[c], Unexecuted)
        /\ tab[c] \in Entry \cup {NoEntry} /\ reg[c] \in SUBSET Interest
        /\ link[c] \in Links /\ marks[c] \in SUBSET Mark /\ "add" \in Op
    BY Typed DEF Op
  <1>2. Take("add", c) /\ queue' = queue /\ UNCHANGED <<pending, pc, stale, npush>>
    BY DEF connectInternal_Now
  <1>3. /\ tab' = [tab EXCEPT ![c] = e] /\ reg' = [reg EXCEPT ![c] = r]
        /\ link' = [link EXCEPT ![c] = l] /\ marks' = [marks EXCEPT ![c] = m]
    BY Typed DEF connectInternal_Now, Store, Register, Note
  <1>4. r \in SUBSET Interest /\ l \in Links /\ m \in SUBSET Mark
    BY <1>1 DEF Interest, Links, Mark
  <1>5. e \in Entry \cup {NoEntry} /\ e # NoEntry /\ e.sock /\ ~e.proc /\ e.ev = {"In"} /\ e.state = "Active"
    BY <1>1, NewEntryType DEF Interest
  <1>6. /\ Cmd("add", c) \in Unexecuted
        /\ \A o : Cmd(o, c) \in Unexecuted' => Cmd(o, c) \in Unexecuted
        /\ \A o : o # "add" /\ Cmd(o, c) \in Unexecuted => Cmd(o, c) \in Unexecuted'
    BY <1>1, <1>2, ExecutedOwn
  <1>. HIDE DEF e
  <1>7. Fine(c, e, r, l, pending[c], m, Unexecuted')
    BY <1>1, <1>5, <1>6 DEF Fine
  <1>. HIDE DEF r, l, m
  <1>. QED BY <1>1, <1>2, <1>3, <1>4, <1>5, <1>7, ExecuteStep, ZenonT(90)

LEMMA ConnectStep ==
  ASSUME IndInv, NEW c \in Conn, connectInternal(c)
  PROVE  IndInv'
  <1>. DEFINE e == NewEntry("Connecting", {"Out"})
             r == {"Out"}
             l == "pending"
             m == marks[c]
  <1>1. /\ Fine(c, tab[c], reg[c], link[c], pending[c], marks[c], Unexecuted)
        /\ tab[c] \in Entry \cup {NoEntry} /\ reg[c] \in SUBSET Interest
        /\ link[c] \in Links /\ marks[c] \in SUBSET Mark /\ "add" \in Op
    BY Typed DEF Op
  <1>2. Take("add", c) /\ queue' = queue /\ UNCHANGED <<pending, pc, stale, npush>>
    BY DEF connectInternal
  <1>3. /\ tab' = [tab EXCEPT ![c] = e] /\ reg' = [reg EXCEPT ![c] = r]
        /\ link' = [link EXCEPT ![c] = l] /\ marks' = [marks EXCEPT ![c] = m]
    BY Typed DEF connectInternal, Store, Register, Note
  <1>4. r \in SUBSET Interest /\ l \in Links /\ m \in SUBSET Mark
    BY <1>1 DEF Interest, Links, Mark
  <1>5. e \in Entry \cup {NoEntry} /\ e # NoEntry /\ e.sock /\ ~e.proc /\ e.ev = {"Out"} /\ e.state = "Connecting"
    BY <1>1, NewEntryType DEF Interest
  <1>6. /\ Cmd("add", c) \in Unexecuted
        /\ \A o : Cmd(o, c) \in Unexecuted' => Cmd(o, c) \in Unexecuted
        /\ \A o : o # "add" /\ Cmd(o, c) \in Unexecuted => Cmd(o, c) \in Unexecuted'
    BY <1>1, <1>2, ExecutedOwn
  <1>. HIDE DEF e
  <1>7. Fine(c, e, r, l, pending[c], m, Unexecuted')
    BY <1>1, <1>5, <1>6 DEF Fine
  <1>. HIDE DEF r, l, m
  <1>. QED BY <1>1, <1>2, <1>3, <1>4, <1>5, <1>7, ExecuteStep, ZenonT(90)

LEMMA AttachConnectionStep ==
  ASSUME IndInv, NEW c \in Conn, attachConnectionInternal(c)
  PROVE  IndInv'
  <1>. DEFINE e == NewEntry("Active", {})
             r == {}
             l == "up"
             m == marks[c]
  <1>1. /\ Fine(c, tab[c], reg[c], link[c], pending[c], marks[c], Unexecuted)
        /\ tab[c] \in Entry \cup {NoEntry} /\ reg[c] \in SUBSET Interest
        /\ link[c] \in Links /\ marks[c] \in SUBSET Mark /\ "add" \in Op
    BY Typed DEF Op
  <1>2. Take("add", c) /\ queue' = queue /\ UNCHANGED <<pending, pc, stale, npush>>
    BY DEF attachConnectionInternal
  <1>3. /\ tab' = [tab EXCEPT ![c] = e] /\ reg' = [reg EXCEPT ![c] = r]
        /\ link' = [link EXCEPT ![c] = l] /\ marks' = [marks EXCEPT ![c] = m]
    BY Typed DEF attachConnectionInternal, Store, Register, Note
  <1>4. r \in SUBSET Interest /\ l \in Links /\ m \in SUBSET Mark
    BY <1>1 DEF Interest, Links, Mark
  <1>5. e \in Entry \cup {NoEntry} /\ e # NoEntry /\ e.sock /\ ~e.proc /\ e.ev = {} /\ e.state = "Active"
    BY <1>1, NewEntryType DEF Interest
  <1>6. /\ Cmd("add", c) \in Unexecuted
        /\ \A o : Cmd(o, c) \in Unexecuted' => Cmd(o, c) \in Unexecuted
        /\ \A o : o # "add" /\ Cmd(o, c) \in Unexecuted => Cmd(o, c) \in Unexecuted'
    BY <1>1, <1>2, ExecutedOwn
  <1>. HIDE DEF e
  <1>7. Fine(c, e, r, l, pending[c], m, Unexecuted')
    BY <1>1, <1>5, <1>6 DEF Fine
  <1>. HIDE DEF r, l, m
  <1>. QED BY <1>1, <1>2, <1>3, <1>4, <1>5, <1>7, ExecuteStep, ZenonT(90)

LEMMA RemoveStep ==
  ASSUME IndInv, NEW c \in Conn, removeConnectionInternal(c)
  PROVE  IndInv'
  <1>. DEFINE e == NoEntry
             r == {}
             l == "none"
             m == marks[c]
  <1>1. /\ Fine(c, tab[c], reg[c], link[c], pending[c], marks[c], Unexecuted)
        /\ tab[c] \in Entry \cup {NoEntry} /\ reg[c] \in SUBSET Interest
        /\ link[c] \in Links /\ marks[c] \in SUBSET Mark /\ "remove" \in Op
    BY Typed DEF Op
  <1>2. Take("remove", c) /\ queue' = queue /\ UNCHANGED <<pending, pc, stale, npush>>
    BY DEF removeConnectionInternal
  <1>3. /\ tab' = [tab EXCEPT ![c] = e] /\ reg' = [reg EXCEPT ![c] = r]
        /\ link' = [link EXCEPT ![c] = l] /\ marks' = [marks EXCEPT ![c] = m]
    BY Typed DEF removeConnectionInternal, Store, Register, Note
  <1>4. r \in SUBSET Interest /\ l \in Links /\ m \in SUBSET Mark
    BY <1>1 DEF Interest, Links, Mark
  <1>5. e \in Entry \cup {NoEntry} /\ e = NoEntry
    BY <1>1 DEF Interest
  <1>6. /\ Cmd("remove", c) \in Unexecuted
        /\ \A o : Cmd(o, c) \in Unexecuted' => Cmd(o, c) \in Unexecuted
        /\ \A o : o # "remove" /\ Cmd(o, c) \in Unexecuted => Cmd(o, c) \in Unexecuted'
    BY <1>1, <1>2, ExecutedOwn
  <1>. HIDE DEF e
  <1>7. Fine(c, e, r, l, pending[c], m, Unexecuted')
    BY <1>1, <1>5, <1>6 DEF Fine
  <1>. HIDE DEF r, l, m
  <1>. QED BY <1>1, <1>2, <1>3, <1>4, <1>5, <1>7, ExecuteStep, ZenonT(90)

LEMMA ShutdownStep ==
  ASSUME IndInv, NEW c \in Conn, shutdown_connection(c)
  PROVE  IndInv'
  <1>. DEFINE e == IF Has(c) THEN [tab[c] EXCEPT !.state = "Shutdowned"] ELSE NoEntry
             r == reg[c]
             l == IF Has(c) /\ tab[c].sock THEN "down" ELSE link[c]
             m == marks[c]
  <1>1. /\ Fine(c, tab[c], reg[c], link[c], pending[c], marks[c], Unexecuted)
        /\ tab[c] \in Entry \cup {NoEntry} /\ reg[c] \in SUBSET Interest
        /\ link[c] \in Links /\ marks[c] \in SUBSET Mark /\ "shutdown" \in Op
    BY Typed DEF Op
  <1>2. Take("shutdown", c) /\ queue' = queue /\ UNCHANGED <<pending, pc, stale, npush>>
    BY DEF shutdown_connection
  <1>3. /\ tab' = [tab EXCEPT ![c] = e] /\ reg' = [reg EXCEPT ![c] = r]
        /\ link' = [link EXCEPT ![c] = l] /\ marks' = [marks EXCEPT ![c] = m]
    BY Typed DEF shutdown_connection, Store, Register, Note, Has
  <1>4. r \in SUBSET Interest /\ l \in Links /\ m \in SUBSET Mark
    BY <1>1 DEF Interest, Links, Mark, Has
  <1>5. /\ e \in Entry \cup {NoEntry} /\ (e # NoEntry <=> Has(c))
        /\ Has(c) => e.sock = tab[c].sock /\ e.proc = tab[c].proc /\ e.ev = tab[c].ev
                     /\ e.state = "Shutdowned"
    BY <1>1, NoEntryAssumption DEF Has, Entry
  <1>6. /\ Cmd("shutdown", c) \in Unexecuted
        /\ \A o : Cmd(o, c) \in Unexecuted' => Cmd(o, c) \in Unexecuted
        /\ \A o : o # "shutdown" /\ Cmd(o, c) \in Unexecuted => Cmd(o, c) \in Unexecuted'
    BY <1>1, <1>2, ExecutedOwn
  <1>. HIDE DEF e
  <1>7. Fine(c, e, r, l, pending[c], m, Unexecuted')
    BY <1>1, <1>5, <1>6 DEF Fine, Has
  <1>. HIDE DEF r, l, m
  <1>. QED BY <1>1, <1>2, <1>3, <1>4, <1>5, <1>7, ExecuteStep, ZenonT(90)

LEMMA RefusedStep ==
  ASSUME IndInv, NEW c \in Conn, AttachProcessRefused(c)
  PROVE  IndInv'
  <1>. DEFINE e == tab[c]
             r == reg[c]
             l == link[c]
             m == marks[c]
  <1>1. /\ Fine(c, tab[c], reg[c], link[c], pending[c], marks[c], Unexecuted)
        /\ tab[c] \in Entry \cup {NoEntry} /\ reg[c] \in SUBSET Interest
        /\ link[c] \in Links /\ marks[c] \in SUBSET Mark /\ "process" \in Op
    BY Typed DEF Op
  <1>2. Take("process", c) /\ queue' = queue /\ UNCHANGED <<pending, pc, stale, npush>>
    BY DEF AttachProcessRefused
  <1>3. /\ tab' = [tab EXCEPT ![c] = e] /\ reg' = [reg EXCEPT ![c] = r]
        /\ link' = [link EXCEPT ![c] = l] /\ marks' = [marks EXCEPT ![c] = m]
    BY Typed DEF AttachProcessRefused, Store, Register, Note
  <1>4. r \in SUBSET Interest /\ l \in Links /\ m \in SUBSET Mark
    BY <1>1 DEF Interest, Links, Mark
  <1>5. e \in Entry \cup {NoEntry} /\ e = tab[c]
    BY <1>1 DEF Fine
  <1>6. /\ Cmd("process", c) \in Unexecuted
        /\ \A o : Cmd(o, c) \in Unexecuted' => Cmd(o, c) \in Unexecuted
        /\ \A o : o # "process" /\ Cmd(o, c) \in Unexecuted => Cmd(o, c) \in Unexecuted'
    BY <1>1, <1>2, ExecutedOwn
  <1>. HIDE DEF e
  <1>7. Fine(c, e, r, l, pending[c], m, Unexecuted')
    BY <1>1, <1>5, <1>6 DEF Fine
  <1>. HIDE DEF r, l, m
  <1>. QED BY <1>1, <1>2, <1>3, <1>4, <1>5, <1>7, ExecuteStep, ZenonT(90)

LEMMA AttachClosedStep ==
  ASSUME IndInv, NEW c \in Conn, AttachProcessClosed(c)
  PROVE  IndInv'
  <1>. DEFINE e == WithProcess(c)
             r == reg[c]
             l == link[c]
             m == marks[c]
  <1>1. /\ Fine(c, tab[c], reg[c], link[c], pending[c], marks[c], Unexecuted)
        /\ tab[c] \in Entry \cup {NoEntry} /\ reg[c] \in SUBSET Interest
        /\ link[c] \in Links /\ marks[c] \in SUBSET Mark /\ "process" \in Op
    BY Typed DEF Op
  <1>2. Take("process", c) /\ queue' = queue /\ UNCHANGED <<pending, pc, stale, npush>>
    BY DEF AttachProcessClosed
  <1>3. /\ tab' = [tab EXCEPT ![c] = e] /\ reg' = [reg EXCEPT ![c] = r]
        /\ link' = [link EXCEPT ![c] = l] /\ marks' = [marks EXCEPT ![c] = m]
    BY Typed DEF AttachProcessClosed, Store, Register, Note
  <1>4. r \in SUBSET Interest /\ l \in Links /\ m \in SUBSET Mark
    BY <1>1 DEF Interest, Links, Mark
  <1>5. e \in Entry \cup {NoEntry} /\ ~e.sock /\ e.proc /\ ~tab[c].sock /\ tab[c] # NoEntry
    BY <1>1, WithProcessType DEF AttachProcessClosed, Attachable, Has, Interest
  <1>6. /\ Cmd("process", c) \in Unexecuted
        /\ \A o : Cmd(o, c) \in Unexecuted' => Cmd(o, c) \in Unexecuted
        /\ \A o : o # "process" /\ Cmd(o, c) \in Unexecuted => Cmd(o, c) \in Unexecuted'
    BY <1>1, <1>2, ExecutedOwn
  <1>. HIDE DEF e
  <1>7. Fine(c, e, r, l, pending[c], m, Unexecuted')
    BY <1>1, <1>5, <1>6 DEF Fine
  <1>. HIDE DEF r, l, m
  <1>. QED BY <1>1, <1>2, <1>3, <1>4, <1>5, <1>7, ExecuteStep, ZenonT(90)

LEMMA AttachProcessStep ==
  ASSUME IndInv, NEW c \in Conn, AttachProcess(c)
  PROVE  IndInv'
  <1>a. tab[c] \in Entry /\ tab[c] # NoEntry
    BY Typed DEF AttachProcess, Attachable, Has
  <1>w. WithProcess(c).ev \in SUBSET Interest
    BY <1>a DEF WithProcess, Entry, Interest
  <1>p. PICK x \in AfterCallback(WithProcess(c).ev, WithProcess(c).ev) :
             /\ Store(c, [WithProcess(c) EXCEPT !.ev = x.tab]) /\ Register(c, x.ep)
             /\ Note(c, Early(c) \cup NullCall(c) \cup Torn(x))
    BY DEF AttachProcess
  <1>t. /\ x.tab \in SUBSET Interest /\ x.ep \in SUBSET Interest
        /\ Torn(x) \in SUBSET Mark /\ (x.ep = x.tab \/ "torn" \in Torn(x))
    BY <1>w, <1>p, CallbackType
  <1>. DEFINE e == [WithProcess(c) EXCEPT !.ev = x.tab]
             r == x.ep
             l == link[c]
             m == marks[c] \cup (Early(c) \cup NullCall(c) \cup Torn(x))
  <1>1. /\ Fine(c, tab[c], reg[c], link[c], pending[c], marks[c], Unexecuted)
        /\ tab[c] \in Entry \cup {NoEntry} /\ reg[c] \in SUBSET Interest
        /\ link[c] \in Links /\ marks[c] \in SUBSET Mark /\ "process" \in Op
    BY Typed DEF Op
  <1>2. Take("process", c) /\ queue' = queue /\ UNCHANGED <<pending, pc, stale, npush>>
    BY <1>p DEF AttachProcess
  <1>3. /\ tab' = [tab EXCEPT ![c] = e] /\ reg' = [reg EXCEPT ![c] = r]
        /\ link' = [link EXCEPT ![c] = l] /\ marks' = [marks EXCEPT ![c] = m]
    BY <1>p, Typed DEF AttachProcess, Store, Register, Note, Early, NullCall
  <1>4. r \in SUBSET Interest /\ l \in Links /\ m \in SUBSET Mark
    BY <1>1, <1>p, <1>a, <1>t DEF Interest, Links, Mark, Early, NullCall
  <1>5. /\ e \in Entry \cup {NoEntry} /\ e # NoEntry /\ e.sock /\ e.proc /\ e.ev = x.tab
        /\ e.state = tab[c].state
    BY <1>p, <1>1, <1>t, WithProcessType DEF AttachProcess
  <1>6. /\ Cmd("process", c) \in Unexecuted
        /\ \A o : Cmd(o, c) \in Unexecuted' => Cmd(o, c) \in Unexecuted
        /\ \A o : o # "process" /\ Cmd(o, c) \in Unexecuted => Cmd(o, c) \in Unexecuted'
    BY <1>1, <1>2, ExecutedOwn
  <1>. HIDE DEF e
  <1>7. Fine(c, e, r, l, pending[c], m, Unexecuted')
    BY <1>p, <1>1, <1>5, <1>6, <1>a, <1>t DEF Fine, Early, NullCall
  <1>. HIDE DEF r, l, m
  <1>. QED BY <1>1, <1>2, <1>3, <1>4, <1>5, <1>7, ExecuteStep, ZenonT(90)

LEMMA AttachFailsStep ==
  ASSUME IndInv, NEW c \in Conn, AttachProcessFails(c)
  PROVE  IndInv'
  <1>a. tab[c] \in Entry /\ tab[c] # NoEntry
    BY Typed DEF AttachProcessFails, Attachable, Has
  <1>p. PICK ev \in OutWays(WithProcess(c).ev) : Abandon(c, tab[c].state, ev)
    BY DEF AttachProcessFails
  <1>t. ev \in SUBSET Interest
    BY <1>a, <1>p DEF OutWays, WithProcess, Entry, Interest
  <1>. DEFINE e == [state |-> tab[c].state, proc |-> FALSE, io |-> FALSE, sock |-> FALSE, ev |-> ev]
             r == {}
             l == "none"
             m == marks[c] \cup ({"failed"} \cup Early(c) \cup NullCall(c))
  <1>1. /\ Fine(c, tab[c], reg[c], link[c], pending[c], marks[c], Unexecuted)
        /\ tab[c] \in Entry \cup {NoEntry} /\ reg[c] \in SUBSET Interest
        /\ link[c] \in Links /\ marks[c] \in SUBSET Mark /\ "process" \in Op
    BY Typed DEF Op
  <1>2. Take("process", c) /\ queue' = Append(queue, Cmd("remove", c)) /\ UNCHANGED <<pending, pc, stale, npush>>
    BY <1>p DEF AttachProcessFails, Abandon
  <1>3. /\ tab' = [tab EXCEPT ![c] = e] /\ reg' = [reg EXCEPT ![c] = r]
        /\ link' = [link EXCEPT ![c] = l] /\ marks' = [marks EXCEPT ![c] = m]
    BY <1>p, Typed DEF AttachProcessFails, Store, Register, Note, Abandon, Early, NullCall
  <1>4. r \in SUBSET Interest /\ l \in Links /\ m \in SUBSET Mark
    BY <1>1, <1>p, <1>a, <1>t DEF Interest, Links, Mark, Early, NullCall
  <1>5. e \in Entry \cup {NoEntry} /\ ~e.sock
    BY <1>p, <1>1, <1>a, <1>t DEF Entry
  <1>6. /\ Cmd("remove", c) \in Unexecuted'
        /\ Cmd("shutdown", c) \in Unexecuted' => Cmd("shutdown", c) \in Unexecuted
    BY <1>1, <1>2, ExecutedWithRemoveOwn
  <1>. HIDE DEF e
  <1>7. Fine(c, e, r, l, pending[c], m, Unexecuted')
    BY <1>p, <1>1, <1>5, <1>6, <1>a, <1>t DEF Fine, Early, NullCall
  <1>. HIDE DEF r, l, m
  <1>. QED BY <1>1, <1>2, <1>3, <1>4, <1>5, <1>7, ExecuteStep, ZenonT(90)

LEMMA CallProcessStep ==
  ASSUME IndInv, NEW c \in Conn, CallProcess(c)
  PROVE  IndInv'
  <1>1. /\ Fine(c, tab[c], reg[c], link[c], pending[c], marks[c], Unexecuted)
        /\ tab[c] \in Entry \cup {NoEntry} /\ reg[c] \in SUBSET Interest
        /\ link[c] \in Links /\ marks[c] \in SUBSET Mark /\ "call" \in Op
    BY Typed DEF Op
  <1>2. Take("call", c) /\ queue' = queue /\ UNCHANGED <<pending, pc, stale, npush>>
        /\ link' = [link EXCEPT ![c] = link[c]]
    BY Typed DEF CallProcess
  <1>3. /\ \A o : Cmd(o, c) \in Unexecuted' => Cmd(o, c) \in Unexecuted
        /\ \A o : o # "call" /\ Cmd(o, c) \in Unexecuted => Cmd(o, c) \in Unexecuted'
    BY <1>1, <1>2, ExecutedOwn
  <1>4. CASE Has(c) /\ tab[c].proc
    <2>1. PICK x \in AfterCallback(tab[c].ev, reg[c]) :
              /\ Store(c, [tab[c] EXCEPT !.ev = x.tab])
              /\ Register(c, IF tab[c].sock THEN x.ep ELSE {})
              /\ Note(c, NullCall(c) \cup Torn(x))
      BY <1>4 DEF CallProcess
    <2>. DEFINE e == [tab[c] EXCEPT !.ev = x.tab]
               r == IF tab[c].sock THEN x.ep ELSE {}
               m == marks[c] \cup (NullCall(c) \cup Torn(x))
    <2>2. tab[c] \in Entry /\ tab[c] # NoEntry
      BY <1>1, <1>4 DEF Has
    <2>3. /\ x.tab \in SUBSET Interest /\ x.ep \in SUBSET Interest
          /\ Torn(x) \in SUBSET Mark /\ (x.ep = x.tab \/ "torn" \in Torn(x))
      <3>1. tab[c].ev \in SUBSET Interest
        BY <2>2 DEF Entry
      <3>. QED BY <1>1, <2>1, <3>1, CallbackType
    <2>4. tab' = [tab EXCEPT ![c] = e] /\ reg' = [reg EXCEPT ![c] = r] /\ marks' = [marks EXCEPT ![c] = m]
      BY <1>4, <2>1 DEF CallProcess, Store, Register, Note
    <2>5. /\ e \in Entry /\ e # NoEntry /\ e.sock = tab[c].sock /\ e.proc /\ e.ev = x.tab
          /\ e.state = tab[c].state
      BY <1>4, <2>2, <2>3, NoEntryAssumption DEF Entry
    <2>6. r \in SUBSET Interest /\ m \in SUBSET Mark
      BY <1>1, <2>3 DEF NullCall, Mark
    <2>. HIDE DEF e
    <2>7. Fine(c, e, r, link[c], pending[c], m, Unexecuted')
      BY <1>1, <1>3, <1>4, <2>2, <2>3, <2>5 DEF Fine
    <2>. HIDE DEF r, m
    <2>. QED BY <1>1, <1>2, <2>4, <2>5, <2>6, <2>7, ExecuteStep, ZenonT(90)
  <1>5. CASE ~(Has(c) /\ tab[c].proc)
    <2>1. /\ tab' = [tab EXCEPT ![c] = tab[c]] /\ reg' = [reg EXCEPT ![c] = reg[c]]
          /\ marks' = [marks EXCEPT ![c] = marks[c]]
      BY <1>5, Typed DEF CallProcess
    <2>2. Fine(c, tab[c], reg[c], link[c], pending[c], marks[c], Unexecuted')
      BY <1>1, <1>3 DEF Fine
    <2>. QED BY <1>1, <1>2, <2>1, <2>2, ExecuteStep, ZenonT(90)
  <1>. QED BY <1>4, <1>5

(* The events, one by one. *)
LEMMA RunGoneStep ==
  ASSUME IndInv, NEW c \in Conn, NEW evs \in SUBSET Events, RunGone(c, evs)
  PROVE  IndInv'
  <1>. DEFINE e == tab[c]
             r == reg[c]
             l == link[c]
             m == marks[c]
  <1>1. /\ Fine(c, tab[c], reg[c], link[c], pending[c], marks[c], Unexecuted)
        /\ tab[c] \in Entry \cup {NoEntry} /\ reg[c] \in SUBSET Interest
        /\ link[c] \in Links /\ marks[c] \in SUBSET Mark /\ stale \in BOOLEAN
    BY Typed
  <1>2. /\ Event(c, evs) /\ queue' = queue /\ UNCHANGED <<todo, pc, npush>>
        /\ stale' \in BOOLEAN
    BY <1>1 DEF RunGone
  <1>3. /\ tab' = [tab EXCEPT ![c] = e] /\ reg' = [reg EXCEPT ![c] = r]
        /\ link' = [link EXCEPT ![c] = l] /\ marks' = [marks EXCEPT ![c] = m]
    BY Typed DEF RunGone, Store, Register, Note
  <1>4. r \in SUBSET Interest /\ l \in Links /\ m \in SUBSET Mark
    BY <1>1 DEF Interest, Links, Mark
  <1>5. e \in Entry \cup {NoEntry} /\ e = tab[c]
    BY <1>1 DEF Fine
  <1>6. Unexecuted' = Unexecuted
    BY <1>2 DEF Unexecuted
  <1>7. Fine(c, e, r, l, {}, m, Unexecuted')
    BY <1>1, <1>5, <1>6, Typed DEF Fine
  <1>. HIDE DEF e, r, l, m
  <1>. QED BY <1>1, <1>2, <1>3, <1>4, <1>5, <1>7, EventStep, ZenonT(90)

LEMMA ErrorErasedStep ==
  ASSUME IndInv, NEW c \in Conn, NEW evs \in SUBSET Events, handle_events(c, evs), stale
  PROVE  IndInv'
  <1>. DEFINE e == NoEntry
             r == {}
             l == "none"
             m == marks[c]
  <1>1. /\ Fine(c, tab[c], reg[c], link[c], pending[c], marks[c], Unexecuted)
        /\ tab[c] \in Entry \cup {NoEntry} /\ reg[c] \in SUBSET Interest
        /\ link[c] \in Links /\ marks[c] \in SUBSET Mark /\ stale \in BOOLEAN
    BY Typed
  <1>2. /\ Event(c, evs) /\ queue' = Append(queue, Cmd("remove", c)) /\ UNCHANGED <<todo, pc, npush>>
        /\ stale' \in BOOLEAN
    BY <1>1 DEF handle_events
  <1>3. /\ tab' = [tab EXCEPT ![c] = e] /\ reg' = [reg EXCEPT ![c] = r]
        /\ link' = [link EXCEPT ![c] = l] /\ marks' = [marks EXCEPT ![c] = m]
    BY Typed DEF handle_events, Store, Register, Note
  <1>4. r \in SUBSET Interest /\ l \in Links /\ m \in SUBSET Mark
    BY <1>1 DEF Interest, Links, Mark
  <1>5. e \in Entry \cup {NoEntry} /\ e = NoEntry /\ marks[c] \cap {"asked", "lost"} # {}
    BY <1>1 DEF handle_events, Event, Fine
  <1>6. /\ Cmd("remove", c) \in Unexecuted'
        /\ Cmd("shutdown", c) \in Unexecuted' => Cmd("shutdown", c) \in Unexecuted
    BY <1>2, PushedOwn
  <1>7. Fine(c, e, r, l, {}, m, Unexecuted')
    BY <1>1, <1>5, <1>6, Typed DEF Fine
  <1>. HIDE DEF e, r, l, m
  <1>. QED BY <1>1, <1>2, <1>3, <1>4, <1>5, <1>7, EventStep, ZenonT(90)

LEMMA ErrorStep ==
  ASSUME IndInv, NEW c \in Conn, NEW evs \in SUBSET Events, handle_events(c, evs), ~stale
  PROVE  IndInv'
  <1>. DEFINE e == [state |-> "Closed", proc |-> FALSE, io |-> FALSE, sock |-> FALSE, ev |-> tab[c].ev]
             r == {}
             l == "none"
             m == marks[c]
  <1>1. /\ Fine(c, tab[c], reg[c], link[c], pending[c], marks[c], Unexecuted)
        /\ tab[c] \in Entry \cup {NoEntry} /\ reg[c] \in SUBSET Interest
        /\ link[c] \in Links /\ marks[c] \in SUBSET Mark /\ stale \in BOOLEAN
    BY Typed
  <1>2. /\ Event(c, evs) /\ queue' = Append(queue, Cmd("remove", c)) /\ UNCHANGED <<todo, pc, npush>>
        /\ stale' \in BOOLEAN
    BY <1>1 DEF handle_events, Abandon
  <1>3. /\ tab' = [tab EXCEPT ![c] = e] /\ reg' = [reg EXCEPT ![c] = r]
        /\ link' = [link EXCEPT ![c] = l] /\ marks' = [marks EXCEPT ![c] = m]
    BY Typed DEF handle_events, Store, Register, Note, Abandon
  <1>4. r \in SUBSET Interest /\ l \in Links /\ m \in SUBSET Mark
    BY <1>1 DEF Interest, Links, Mark, Abandon
  <1>5. e \in Entry \cup {NoEntry} /\ ~e.sock /\ marks[c] \cap {"asked", "lost"} # {}
    BY <1>1 DEF handle_events, Event, Fine, Has, Entry
  <1>6. /\ Cmd("remove", c) \in Unexecuted'
        /\ Cmd("shutdown", c) \in Unexecuted' => Cmd("shutdown", c) \in Unexecuted
    BY <1>2, PushedOwn
  <1>7. Fine(c, e, r, l, {}, m, Unexecuted')
    BY <1>1, <1>5, <1>6, Typed DEF Fine, Abandon
  <1>. HIDE DEF e, r, l, m
  <1>. QED BY <1>1, <1>2, <1>3, <1>4, <1>5, <1>7, EventStep, ZenonT(90)

LEMMA EstablishFailsStep ==
  ASSUME IndInv, NEW c \in Conn, NEW evs \in SUBSET Events, EstablishFails(c, evs)
  PROVE  IndInv'
  <1>. DEFINE e == tab[c]
             r == reg[c]
             l == link[c]
             m == marks[c]
  <1>1. /\ Fine(c, tab[c], reg[c], link[c], pending[c], marks[c], Unexecuted)
        /\ tab[c] \in Entry \cup {NoEntry} /\ reg[c] \in SUBSET Interest
        /\ link[c] \in Links /\ marks[c] \in SUBSET Mark /\ stale \in BOOLEAN
    BY Typed
  <1>2. /\ Event(c, evs) /\ queue' = Append(queue, Cmd("remove", c)) /\ UNCHANGED <<todo, pc, npush>>
        /\ stale' \in BOOLEAN
    BY <1>1 DEF EstablishFails, Establishing, Has, Entry
  <1>3. /\ tab' = [tab EXCEPT ![c] = e] /\ reg' = [reg EXCEPT ![c] = r]
        /\ link' = [link EXCEPT ![c] = l] /\ marks' = [marks EXCEPT ![c] = m]
    BY Typed DEF EstablishFails, Store, Register, Note, Establishing, Has, Entry
  <1>4. r \in SUBSET Interest /\ l \in Links /\ m \in SUBSET Mark
    BY <1>1 DEF Interest, Links, Mark, Establishing, Has, Entry
  <1>5. e \in Entry \cup {NoEntry} /\ e = tab[c]
        /\ marks[c] \cap {"asked", "lost", "failed", "early"} # {}
    BY <1>1 DEF EstablishFails, Establishing, Has, Entry, Fine
  <1>6. /\ Cmd("remove", c) \in Unexecuted'
        /\ Cmd("shutdown", c) \in Unexecuted' => Cmd("shutdown", c) \in Unexecuted
    BY <1>2, PushedOwn
  <1>7. Fine(c, e, r, l, {}, m, Unexecuted')
    BY <1>1, <1>5, <1>6, Typed DEF Fine, Establishing, Has, Entry
  <1>. HIDE DEF e, r, l, m
  <1>. QED BY <1>1, <1>2, <1>3, <1>4, <1>5, <1>7, EventStep, ZenonT(90)

LEMMA EstablishStep ==
  ASSUME IndInv, NEW c \in Conn, NEW evs \in SUBSET Events, Establish(c, evs)
  PROVE  IndInv'
  <1>. DEFINE e == [tab[c] EXCEPT !.state = "Active", !.ev = {}]
             r == {}
             l == link[c]
             m == marks[c]
  <1>1. /\ Fine(c, tab[c], reg[c], link[c], pending[c], marks[c], Unexecuted)
        /\ tab[c] \in Entry \cup {NoEntry} /\ reg[c] \in SUBSET Interest
        /\ link[c] \in Links /\ marks[c] \in SUBSET Mark /\ stale \in BOOLEAN
    BY Typed
  <1>2. /\ Event(c, evs) /\ queue' = queue /\ UNCHANGED <<todo, pc, npush>>
        /\ stale' \in BOOLEAN
    BY <1>1 DEF Establish
  <1>3. /\ tab' = [tab EXCEPT ![c] = e] /\ reg' = [reg EXCEPT ![c] = r]
        /\ link' = [link EXCEPT ![c] = l] /\ marks' = [marks EXCEPT ![c] = m]
    BY Typed DEF Establish, Store, Register, Note
  <1>4. r \in SUBSET Interest /\ l \in Links /\ m \in SUBSET Mark
    BY <1>1 DEF Interest, Links, Mark
  <1>5. /\ e \in Entry \cup {NoEntry} /\ e # NoEntry /\ e.sock /\ e.ev = {} /\ e.state = "Active"
    BY <1>1, NoEntryAssumption DEF Establish, Establishing, Has, Entry, Interest
  <1>6. Unexecuted' = Unexecuted
    BY <1>2 DEF Unexecuted
  <1>7. Fine(c, e, r, l, {}, m, Unexecuted')
    BY <1>1, <1>5, <1>6, Typed DEF Fine
  <1>. HIDE DEF e, r, l, m
  <1>. QED BY <1>1, <1>2, <1>3, <1>4, <1>5, <1>7, EventStep, ZenonT(90)

LEMMA EstablishWithProcessStep ==
  ASSUME IndInv, NEW c \in Conn, NEW evs \in SUBSET Events, EstablishWithProcess(c, evs)
  PROVE  IndInv'
  <1>1. /\ Fine(c, tab[c], reg[c], link[c], pending[c], marks[c], Unexecuted)
        /\ tab[c] \in Entry \cup {NoEntry} /\ reg[c] \in SUBSET Interest
        /\ link[c] \in Links /\ marks[c] \in SUBSET Mark /\ stale \in BOOLEAN
    BY Typed
  <1>2. PICK fails \in BOOLEAN, x \in AfterCallback({}, {}) :
          /\ stale' = fails
          /\ IF fails
             THEN /\ Abandon(c, "Active", x.tab)
                  /\ Note(c, NullCall(c) \cup {"failed"})
             ELSE /\ Store(c, [state |-> "Active", proc |-> FALSE, io |-> FALSE,
                               sock |-> TRUE, ev |-> x.tab])
                  /\ Register(c, x.ep)
                  /\ Note(c, NullCall(c) \cup Torn(x))
                  /\ queue' = Append(queue, Cmd("remove", c))
                  /\ UNCHANGED link
    BY DEF EstablishWithProcess
  <1>4. /\ x.tab \in SUBSET Interest /\ x.ep \in SUBSET Interest /\ "In" \notin x.ep
        /\ Torn(x) \in SUBSET Mark /\ (x.ep = x.tab \/ "torn" \in Torn(x))
    <2>1. {} \in SUBSET Interest
      OBVIOUS
    <2>. QED BY <1>2, <2>1, CallbackType
  <1>. DEFINE e == [state |-> "Active", proc |-> FALSE, io |-> FALSE, sock |-> ~fails, ev |-> x.tab]
             r == IF fails THEN {} ELSE x.ep
             l == IF fails THEN "none" ELSE link[c]
             m == marks[c] \cup (NullCall(c) \cup IF fails THEN {"failed"} ELSE Torn(x))
  <1>5. /\ Event(c, evs) /\ UNCHANGED <<todo, pc, npush>> /\ stale' \in BOOLEAN
        /\ queue' = Append(queue, Cmd("remove", c))
    BY <1>2 DEF EstablishWithProcess, Abandon
  <1>6. /\ tab' = [tab EXCEPT ![c] = e] /\ reg' = [reg EXCEPT ![c] = r]
        /\ link' = [link EXCEPT ![c] = l] /\ marks' = [marks EXCEPT ![c] = m]
    <2>1. CASE fails
      BY <1>2, <2>1 DEF Abandon, Store, Register, Note
    <2>2. CASE ~fails
      BY <1>2, <2>2, Typed DEF Store, Register, Note
    <2>. QED BY <2>1, <2>2
  <1>7. e \in Entry /\ r \in SUBSET Interest /\ l \in Links /\ m \in SUBSET Mark
    BY <1>1, <1>4 DEF Entry, Links, Mark, NullCall
  <1>8. /\ e # NoEntry /\ e.sock = ~fails /\ e.ev = x.tab /\ e.state = "Active"
    BY <1>7, NoEntryAssumption
  <1>9. /\ Cmd("remove", c) \in Unexecuted'
        /\ Cmd("shutdown", c) \in Unexecuted' => Cmd("shutdown", c) \in Unexecuted
    BY <1>5, PushedOwn
  <1>10. "early" \in marks[c]
    BY <1>1 DEF EstablishWithProcess, Establishing, Has, Fine
  <1>. HIDE DEF e
  <1>11. Fine(c, e, r, l, {}, m, Unexecuted')
    BY <1>1, <1>4, <1>8, <1>9, <1>10 DEF Fine
  <1>. HIDE DEF r, l, m
  <1>. QED BY <1>5, <1>6, <1>7, <1>11, EventStep, ZenonT(90)

LEMMA RunProcessStep ==
  ASSUME IndInv, NEW c \in Conn, NEW evs \in SUBSET Events, RunProcess(c, evs)
  PROVE  IndInv'
  <1>1. /\ Fine(c, tab[c], reg[c], link[c], pending[c], marks[c], Unexecuted)
        /\ tab[c] \in Entry \cup {NoEntry} /\ reg[c] \in SUBSET Interest
        /\ link[c] \in Links /\ marks[c] \in SUBSET Mark /\ stale \in BOOLEAN
    BY Typed
  <1>2. /\ Event(c, evs) /\ queue' = queue /\ UNCHANGED <<todo, pc, npush>>
        /\ stale' \in BOOLEAN /\ link' = [link EXCEPT ![c] = link[c]]
    BY <1>1, Typed DEF RunProcess
  <1>3. Unexecuted' = Unexecuted
    BY <1>2 DEF Unexecuted
  <1>4. CASE tab[c].proc
    <2>1. PICK x \in AfterCallback(tab[c].ev, reg[c]) :
              /\ Store(c, [tab[c] EXCEPT !.ev = x.tab])
              /\ Register(c, IF tab[c].sock THEN x.ep ELSE {})
              /\ Note(c, NullCall(c) \cup Torn(x))
      BY <1>4 DEF RunProcess
    <2>. DEFINE e == [tab[c] EXCEPT !.ev = x.tab]
               r == IF tab[c].sock THEN x.ep ELSE {}
               m == marks[c] \cup (NullCall(c) \cup Torn(x))
    <2>2. tab[c] \in Entry /\ tab[c] # NoEntry
      BY <1>1 DEF RunProcess, Ordinary, Has
    <2>3. /\ x.tab \in SUBSET Interest /\ x.ep \in SUBSET Interest
          /\ Torn(x) \in SUBSET Mark /\ (x.ep = x.tab \/ "torn" \in Torn(x))
      <3>1. tab[c].ev \in SUBSET Interest
        BY <2>2 DEF Entry
      <3>. QED BY <1>1, <2>1, <3>1, CallbackType
    <2>4. tab' = [tab EXCEPT ![c] = e] /\ reg' = [reg EXCEPT ![c] = r] /\ marks' = [marks EXCEPT ![c] = m]
      BY <1>4, <2>1 DEF RunProcess, Store, Register, Note
    <2>5. /\ e \in Entry /\ e # NoEntry /\ e.sock = tab[c].sock /\ e.proc /\ e.ev = x.tab
          /\ e.state = tab[c].state
      BY <1>4, <2>2, <2>3, NoEntryAssumption DEF Entry
    <2>6. r \in SUBSET Interest /\ m \in SUBSET Mark
      BY <1>1, <2>3 DEF NullCall, Mark
    <2>. HIDE DEF e
    <2>7. Fine(c, e, r, link[c], {}, m, Unexecuted')
      BY <1>1, <1>3, <1>4, <2>2, <2>3, <2>5 DEF Fine
    <2>. HIDE DEF r, m
    <2>. QED BY <1>1, <1>2, <2>4, <2>5, <2>6, <2>7, EventStep, ZenonT(90)
  <1>5. CASE ~tab[c].proc
    <2>1. /\ tab' = [tab EXCEPT ![c] = tab[c]] /\ reg' = [reg EXCEPT ![c] = reg[c]]
          /\ marks' = [marks EXCEPT ![c] = marks[c]]
      BY <1>5, Typed DEF RunProcess
    <2>2. Fine(c, tab[c], reg[c], link[c], {}, marks[c], Unexecuted')
      BY <1>1, <1>3 DEF Fine
    <2>. QED BY <1>1, <1>2, <2>1, <2>2, EventStep, ZenonT(90)
  <1>. QED BY <1>4, <1>5

LEMMA RunProcessFailsStep ==
  ASSUME IndInv, NEW c \in Conn, NEW evs \in SUBSET Events, RunProcessFails(c, evs)
  PROVE  IndInv'
  <1>a. tab[c] \in Entry
    BY Typed DEF RunProcessFails, Ordinary, Has
  <1>p. PICK ev \in OutWays(tab[c].ev) : Abandon(c, tab[c].state, ev)
    BY DEF RunProcessFails
  <1>t. ev \in SUBSET Interest
    BY <1>a, <1>p DEF OutWays, Entry, Interest
  <1>. DEFINE e == [state |-> tab[c].state, proc |-> FALSE, io |-> FALSE, sock |-> FALSE, ev |-> ev]
             r == {}
             l == "none"
             m == marks[c] \cup ({"failed"} \cup NullCall(c))
  <1>1. /\ Fine(c, tab[c], reg[c], link[c], pending[c], marks[c], Unexecuted)
        /\ tab[c] \in Entry \cup {NoEntry} /\ reg[c] \in SUBSET Interest
        /\ link[c] \in Links /\ marks[c] \in SUBSET Mark /\ stale \in BOOLEAN
    BY Typed
  <1>2. /\ Event(c, evs) /\ queue' = Append(queue, Cmd("remove", c)) /\ UNCHANGED <<todo, pc, npush>>
        /\ stale' \in BOOLEAN
    BY <1>1, <1>p DEF RunProcessFails, NullCall, Abandon
  <1>3. /\ tab' = [tab EXCEPT ![c] = e] /\ reg' = [reg EXCEPT ![c] = r]
        /\ link' = [link EXCEPT ![c] = l] /\ marks' = [marks EXCEPT ![c] = m]
    BY Typed, <1>p DEF RunProcessFails, Store, Register, Note, NullCall, Abandon
  <1>4. r \in SUBSET Interest /\ l \in Links /\ m \in SUBSET Mark
    BY <1>1 DEF Interest, Links, Mark, NullCall, Abandon
  <1>5. e \in Entry \cup {NoEntry} /\ ~e.sock
    BY <1>1, <1>p, <1>a, <1>t DEF Entry
  <1>6. /\ Cmd("remove", c) \in Unexecuted'
        /\ Cmd("shutdown", c) \in Unexecuted' => Cmd("shutdown", c) \in Unexecuted
    BY <1>2, PushedOwn
  <1>7. Fine(c, e, r, l, {}, m, Unexecuted')
    BY <1>1, <1>5, <1>6, Typed DEF Fine, NullCall, Abandon
  <1>. HIDE DEF e, r, l, m
  <1>. QED BY <1>1, <1>2, <1>3, <1>4, <1>5, <1>7, EventStep, ZenonT(90)

(* The network and epoll. *)
LEMMA NetworkStep ==
  ASSUME IndInv, NEW c \in Conn, LinkUp(c) \/ LinkDown(c) \/ Report(c)
  PROVE  IndInv'
  <1>. DEFINE l == link'[c]
             p == pending'[c]
             m == marks'[c]
  <1>1. /\ Fine(c, tab[c], reg[c], link[c], pending[c], marks[c], Unexecuted)
        /\ tab[c] \in Entry \cup {NoEntry} /\ reg[c] \in SUBSET Interest
        /\ link[c] \in Links /\ marks[c] \in SUBSET Mark /\ stale \in BOOLEAN
        /\ pending[c] \in SUBSET Events
    BY Typed
  <1>2. /\ UNCHANGED <<queue, todo, pc, stale, npush>>
        /\ tab' = [tab EXCEPT ![c] = tab[c]] /\ reg' = [reg EXCEPT ![c] = reg[c]]
    BY Typed DEF LinkUp, LinkDown, Report
  <1>3. /\ link' = [link EXCEPT ![c] = l] /\ l \in Links
        /\ pending' = [pending EXCEPT ![c] = p] /\ p \in SUBSET Events
        /\ marks' = [marks EXCEPT ![c] = m] /\ m \in SUBSET Mark
        /\ marks[c] \subseteq m
        /\ l = "down" => link[c] = "down" \/ "lost" \in m
        /\ "Bad" \in p => "Bad" \in pending[c] \/ link[c] = "down"
    <2>0. /\ link \in [Conn -> Links] /\ pending \in [Conn -> SUBSET Events]
          /\ marks \in [Conn -> SUBSET Mark]
      BY DEF IndInv, TypeOK, Links, Events
    <2>1. CASE LinkUp(c)
      BY <1>1, <2>0, <2>1 DEF LinkUp, Links
    <2>2. CASE LinkDown(c)
      BY <1>1, <2>0, <2>2 DEF LinkDown, Links, Mark
    <2>3. CASE Report(c)
      <3>1. PICK e \in (SUBSET reg[c]) \cup {{"Bad"}} :
              /\ IF link[c] = "down" THEN e = {"Bad"} ELSE link[c] = "up" /\ e # {"Bad"}
              /\ pending' = [pending EXCEPT ![c] = e]
        BY <2>3 DEF Report
      <3>2. link' = link /\ marks' = marks
        BY <2>3 DEF Report
      <3>3. e \in SUBSET Events /\ ("Bad" \in e => link[c] = "down")
        <4>1. CASE link[c] = "down"
          BY <3>1, <4>1 DEF Events
        <4>2. CASE link[c] # "down"
          <5>1. e \in SUBSET reg[c]
            BY <3>1, <4>2
          <5>. QED BY <1>1, <5>1 DEF Interest, Events
        <4>. QED BY <4>1, <4>2
      <3>. QED BY <1>1, <2>0, <3>1, <3>2, <3>3
    <2>. QED BY <2>1, <2>2, <2>3
  <1>4. Unexecuted' = Unexecuted /\ RoundOver' /\ "add" \in Op
    BY <1>2, Typed DEF Unexecuted, RoundOver, Op
  <1>. HIDE DEF l, p, m
  <1>5. Fine(c, tab[c], reg[c], l, p, m, Unexecuted')
    BY <1>1, <1>3, <1>4 DEF Fine
  <1>6. /\ queue' \in Seq(Command) /\ todo' \in Seq(Command)
        /\ pc' \in {"wait", "cmds", "events"} /\ stale' \in BOOLEAN
        /\ npush' \in 0..MaxPush
    BY <1>2, Typed
  <1>7. /\ Unexecuted' \subseteq Unexecuted \cup {Cmd("add", c)}
        /\ Unexecuted \subseteq Unexecuted' \cup {Cmd("add", c)}
    BY <1>4
  <1>. QED BY <1>1, <1>2, <1>3, <1>4, <1>5, <1>6, <1>7, OneConnection, ZenonT(90)

(* The thread goes on: no connection changes, no command is lost. *)
LEMMA RoundStep ==
  ASSUME IndInv, WaitReturns \/ CommandsDone \/ EventsDone
  PROVE  IndInv'
  <1>1. TypeOK /\ RoundOver /\ queue \in Seq(Command) /\ todo \in Seq(Command)
    BY DEF IndInv, TypeOK
  <1>2. UNCHANGED <<tab, reg, link, pending, npush, marks>>
    BY DEF WaitReturns, CommandsDone, EventsDone
  <1>3. /\ queue' \in Seq(Command) /\ todo' \in Seq(Command) /\ RoundOver'
        /\ Unexecuted' = Unexecuted
    <2>0. <<>> \in Seq(Command) /\ Range(<<>>) = {}
      BY DEF Range
    <2>1. CASE WaitReturns
      BY <1>1, <2>0, <2>1 DEF WaitReturns, Unexecuted, RoundOver
    <2>2. CASE CommandsDone \/ EventsDone
      BY <1>1, <2>2 DEF CommandsDone, EventsDone, Unexecuted, RoundOver
    <2>. QED BY <2>1, <2>2
  <1>4. pc' \in {"wait", "cmds", "events"} /\ stale' \in BOOLEAN
    BY <1>1 DEF WaitReturns, CommandsDone, EventsDone, TypeOK
  <1>5. TypeOK'
    BY <1>1, <1>2, <1>3, <1>4 DEF TypeOK
  <1>6. \A d \in Conn : Fine(d, tab[d], reg[d], link[d], pending[d], marks[d], Unexecuted)'
    BY <1>2, <1>3, Zenon DEF IndInv
  <1>. QED BY <1>3, <1>5, <1>6 DEF IndInv

LEMMA Step ==
  ASSUME IndInv, [Next]_vars
  PROVE  IndInv'
  <1>1. CASE UNCHANGED vars
    BY <1>1 DEF vars, IndInv, TypeOK, RoundOver, Unexecuted
  <1>2. ASSUME NEW c \in Conn, Execute(c) PROVE IndInv'
    BY <1>2, AddFailsStep, ConnectNowStep, ConnectStep, AttachConnectionStep, RemoveStep,
       ShutdownStep, RefusedStep, AttachClosedStep, AttachProcessStep, AttachFailsStep,
       CallProcessStep, Zenon DEF Execute
  <1>3. ASSUME NEW c \in Conn, NEW e \in SUBSET Events, RunEvent(c, e) PROVE IndInv'
    <2>1. CASE handle_events(c, e)
      <3>1. CASE stale
        BY <2>1, <3>1, ErrorErasedStep
      <3>2. CASE ~stale
        BY <2>1, <3>2, ErrorStep
      <3>. QED BY <3>1, <3>2
    <2>. QED BY <1>3, <2>1, RunGoneStep, EstablishFailsStep, EstablishStep,
                EstablishWithProcessStep, RunProcessStep, RunProcessFailsStep, Zenon DEF RunEvent
  <1>4. CASE Worker
    BY <1>2, <1>3, <1>4, RoundStep, NetworkStep, Zenon DEF Worker, Events
  <1>5. CASE \E c \in Conn : Network(c) \/ \E op \in Op : Push(op, c)
    BY <1>5, NetworkStep, PushStep, Zenon DEF Network
  <1>. QED BY <1>1, <1>4, <1>5, Zenon DEF Next

LEMMA Initial ==
  ASSUME Init
  PROVE  IndInv
  <1>1. <<>> \in Seq(Command) /\ Range(<<>>) = {}
    BY DEF Range
  <1>2. Unexecuted = {} /\ RoundOver
    BY <1>1 DEF Init, Unexecuted, RoundOver
  <1>3. TypeOK
    <2>1. npush \in 0..MaxPush
      BY MaxPushAssumption DEF Init
    <2>. QED BY <1>1, <2>1, Zenon DEF Init, TypeOK
  <1>4. ASSUME NEW d \in Conn
        PROVE  Fine(d, tab[d], reg[d], link[d], pending[d], marks[d], Unexecuted)
    <2>1. /\ tab[d] = NoEntry /\ reg[d] = {} /\ link[d] = "none" /\ pending[d] = {}
          /\ marks[d] = {}
      BY DEF Init
    <2>. QED BY <1>2, <2>1 DEF Fine
  <1>. QED BY <1>2, <1>3, <1>4 DEF IndInv

(* The inductive invariant holds in every state of every behaviour, for every
   set of connections and any role of the worker. *)
THEOREM Invariance == Spec => []IndInv
  <1>1. Init => IndInv
    BY Initial
  <1>2. IndInv /\ [Next]_vars => IndInv'
    BY Step
  <1>. QED BY <1>1, <1>2, PTL DEF Spec

(* The table, the registrations and the queues keep their types. *)
THEOREM TypeCorrect == Spec => []TypeOK
  <1>1. IndInv => TypeOK
    BY DEF IndInv
  <1>. QED BY <1>1, Invariance, PTL

(* Whatever commands, events and failures come in whatever order, the table
   and epoll agree on the events of a connection unless one of its callbacks
   set them apart, and a closed socket is registered for nothing. *)
THEOREM TableMatchesEpoll == Spec => []InterestAgrees
  <1>1. IndInv => InterestAgrees
    BY DEF IndInv, Fine, InterestAgrees, Has
  <1>. QED BY <1>1, Invariance, PTL

(* No entry with a closed socket is left without the command that erases it. *)
THEOREM NoForgottenEntry == Spec => []ZombieQueued
  <1>1. IndInv => ZombieQueued
    BY DEF IndInv, Fine, ZombieQueued, Has, Queued
  <1>. QED BY <1>1, Invariance, PTL

(* A RemoveConnection in the queue always has its reason. *)
THEOREM NoDropWithoutReason == Spec => []DroppedForAReason
  <1>1. IndInv => DroppedForAReason
    BY DEF IndInv, Fine, DroppedForAReason, Queued
  <1>. QED BY <1>1, Invariance, PTL

(* A connection registered for In has a process to read, unless it connected
   at once. *)
THEOREM NoUnreadIn == Spec => []NoIdleIn
  <1>1. IndInv => NoIdleIn
    BY DEF IndInv, Fine, NoIdleIn
  <1>. QED BY <1>1, Invariance, PTL
=============================================================================
