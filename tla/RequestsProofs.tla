--------------------------- MODULE RequestsProofs ---------------------------
(***************************************************************************)
(* Proofs about Requests for every number of requests.  Whatever happens   *)
(* to the writes, every variable has its type and no request is forgotten. *)
(* And as long as no command has reported an error for a request that the  *)
(* process keeps: a request that succeeded has its own answer, no promise  *)
(* is set twice, and TaskDone always finds its task ready.                 *)
(***************************************************************************)
EXTENDS Requests, SequenceTheorems, TLAPS

Early == {"start", "connecting", "late", "no handle", "handle"}
Stages == Early \cup {"calls", "waits", "stopping", "end"}
Kinds == {"AddConnection", "AttachProcess", "RequestData", "RequestStop", "RemoveConnection"}
Commands == Kinds \X (0..MaxRequests)
Promises == Requests \cup {Connection}
Outcome == {"unset", "ok", "error"}

ClientType ==
    [queue : Seq(Requests), active : Requests \cup {Nobody}, buffer : Seq(Requests),
     begun : BOOLEAN, cut : BOOLEAN, out : {"off", "on", "deaf"},
     err : {"none", "nobufs", "hard"}, written : Seq(Messages),
     promise : [Promises -> Outcome], answer : [Requests -> Messages \cup {Nobody}],
     dropped : BOOLEAN, orphans : SUBSET Requests, aborted : BOOLEAN]

TaskStates == {"none", "running", "set", "done"}
ServerType ==
    [alive : BOOLEAN, mode : {"Thread", "Sync"}, task : TaskStates,
     request : Messages \cup {Nobody}, old : TaskStates, early : BOOLEAN, unsent : BOOLEAN]

TypeOK ==
    /\ pc \in Stages \X Nat
    /\ pc[1] = "calls" => pc[2] \in 1..(MaxRequests + 1)
    /\ pc[1] = "waits" => pc[2] \in Requests
    /\ mail \in Seq(Commands)
    /\ conn \in {"none", "connecting", "active", "closed"}
    /\ proc \in BOOLEAN /\ link \in {"none", "up", "down"}
    /\ c \in ClientType /\ server \in ServerType
    /\ server.task # "none" => server.request \in Messages
    /\ toServer \in Seq(Messages) /\ toClient \in Seq(Messages)
    /\ smail \in Seq({"TaskDone"}) /\ lost \subseteq Requests

(* x occurs at most once in s. *)
Once(s, x) == \A i, j \in 1..Len(s) : s[i] = x /\ s[j] = x => i = j

(* The requests a process has. *)
Carries(p) == Range(p.queue) \cup ({p.active} \ {Nobody})

Somewhere(r) ==
    \/ ready(c, r) \/ Mailed(r) \/ r \in lost \/ pc[2] < r \/ r \in Carries(c)
    \/ pc = <<"calls", r>> \/ pc[1] \in {"stopping", "end"}

(* What holds whatever the writes and the commands do. *)
Basic == TypeOK /\ c.written = <<>> /\ \A r \in Requests : Somewhere(r)

(* The process and its promises: what it has is not answered and is there
   once, and what was answered was answered right. *)
Sane(p) ==
    /\ ~p.aborted
    /\ \A r \in Carries(p) : p.promise[r] = "unset"
    /\ \A r \in Requests : Once(p.queue, r)
    /\ p.active \notin Range(p.queue)
    /\ \A r \in Requests : p.promise[r] = "ok" => p.answer[r] = r

(* Only the active request is in the buffer. *)
Fits(p) == \/ p.buffer = <<>> /\ ~p.begun
           \/ p.active # Nobody /\ p.buffer = <<p.active>>

Good(p) == p \in ClientType /\ Sane(p) /\ Fits(p)

(* The active request has left the buffer, to the socket or for nothing. *)
Sent(p) == p.active # Nobody /\ p.buffer = <<>>

(* Nothing is written behind a message that was cut. *)
Whole(p) == p.cut => Sent(p)

(* Requests the caller has not made yet. *)
Unasked(r) == \/ pc[1] \in Early
              \/ pc[1] = "calls" /\ pc[2] <= r
              \/ pc[1] = "waits" /\ pc[2] < r

NoneOf(kind) == \A x \in Range(mail) : x[1] # kind

(* Until the AddConnection is executed there is nothing but it. *)
AddInv ==
    /\ pc[1] = "start" => mail = <<>>
    /\ pc[1] = "start" \/ ~NoneOf("AddConnection") =>
          /\ pc[1] \in {"start", "connecting", "late", "no handle"}
          /\ conn = "none" /\ link = "none" /\ c.promise[Connection] = "unset"
          /\ \A x \in Range(mail) : x = <<"AddConnection", 0>>
          /\ Once(mail, <<"AddConnection", 0>>)

(* A process is attached once, to a connection that has not been used. *)
AttachInv ==
    /\ pc[1] \in Early => NoneOf("AttachProcess")
    /\ pc[1] \in Early \/ ~NoneOf("AttachProcess") => ~proc /\ ~c.cut /\ toClient = <<>>
    /\ Once(mail, <<"AttachProcess", 0>>)

(* A request is made once, and given to the process when it is executed. *)
RequestInv(r) ==
    /\ Once(mail, <<"RequestData", r>>)
    /\ Unasked(r) => ~Mailed(r)
    /\ Unasked(r) \/ Mailed(r) => c.promise[r] = "unset" /\ r \notin Carries(c)

MailInv ==
    /\ AddInv /\ AttachInv /\ \A r \in Requests : RequestInv(r)
    /\ \A x \in Range(mail) : x[1] # "RequestData" => x[2] = 0

ProcInv ==
    /\ proc => conn \in {"active", "connecting"}
    /\ conn \in {"active", "connecting"} => link # "none"
    /\ ~proc => c.queue = <<>> /\ c.active = Nobody /\ c.buffer = <<>>

Quiet == toServer = <<>> /\ smail = <<>> /\ toClient = <<>> /\ server.task \in {"none", "done"}

(* A request on its way: to the server, in its task, or back. *)
InFlight(r) ==
    \/ toServer = <<r>> /\ smail = <<>> /\ toClient = <<>> /\ server.task \in {"none", "done"}
    \/ /\ toServer = <<>> /\ toClient = <<>> /\ server.request = r
       /\ \/ server.task \in {"running", "set"} /\ smail = <<>>
          \/ server.task = "done" /\ smail = <<"TaskDone">>
    \/ toServer = <<>> /\ smail = <<>> /\ toClient = <<r>> /\ server.task \in {"none", "done"}

(* As long as the link is up at most one request is on its way, and it is
   the active one; what is left to read afterwards is its answer. *)
Flow ==
    /\ link = "none" => Quiet
    /\ link = "up" => Quiet \/ (proc /\ Sent(c) /\ ~c.cut /\ c.out = "off" /\ InFlight(c.active))
    /\ link = "down" /\ proc => toClient = <<>> \/ (Sent(c) /\ toClient = <<c.active>>)

ServerInv ==
    /\ server.old \in {"none", "done"} /\ ~server.early
    /\ smail = <<>> \/ (smail = <<"TaskDone">> /\ server.task \in {"none", "done"})

(* On a link that is up requests queue only behind one that is active. *)
NoneWaits == proc /\ link = "up" => Whole(c) /\ (c.queue # <<>> => c.active # Nobody)

(* What holds while no command has reported an error for a request that the
   process has all the same. *)
Calm == Good(c) /\ MailInv /\ ProcInv /\ Flow /\ ServerInv /\ NoneWaits

IndInv == Basic /\ (c.orphans = {} => Calm)

---------------------------------------------------------------------------
(* Sequences.                                                              *)

LEMMA RangeAppend ==
  ASSUME NEW S, NEW s \in Seq(S), NEW x \in S
  PROVE  Append(s, x) \in Seq(S) /\ Range(Append(s, x)) = Range(s) \cup {x}
  <1>1. /\ Append(s, x) \in Seq(S) /\ Len(Append(s, x)) = Len(s) + 1 /\ Len(s) \in Nat
        /\ \A i \in 1..Len(s) : Append(s, x)[i] = s[i]
        /\ Append(s, x)[Len(s) + 1] = x
    BY AppendProperties, LenProperties
  <1>2. /\ Range(s) = {s[i] : i \in 1..Len(s)}
        /\ Range(Append(s, x)) = {Append(s, x)[i] : i \in 1..(Len(s) + 1)}
    BY <1>1, RangeEquality
  <1>3. ASSUME NEW y \in Range(Append(s, x)) PROVE y \in Range(s) \cup {x}
    <2>1. PICK i \in 1..(Len(s) + 1) : y = Append(s, x)[i]
      BY <1>2, <1>3
    <2>. QED BY <1>1, <1>2, <2>1
  <1>4. ASSUME NEW y \in Range(s) PROVE y \in Range(Append(s, x))
    <2>1. PICK i \in 1..Len(s) : y = s[i]
      BY <1>2, <1>4
    <2>. QED BY <1>1, <1>2, <2>1
  <1>5. x \in Range(Append(s, x))
    BY <1>1, <1>2
  <1>. QED BY <1>1, <1>3, <1>4, <1>5

LEMMA RangeTail ==
  ASSUME NEW S, NEW s \in Seq(S), s # <<>>
  PROVE  /\ Tail(s) \in Seq(S)
         /\ Head(s) \in Range(s) /\ Head(s) \in S
         /\ Range(Tail(s)) \subseteq Range(s)
         /\ Range(s) \subseteq Range(Tail(s)) \cup {Head(s)}
  <1>1. Tail(s) \in Seq(S) /\ Len(s) >= 1 /\ Head(s) = s[1] /\ Head(s) \in S
    BY EmptySeq, LenProperties
  <1>2. \A i \in 1..Len(s) : i = 1 \/ (i - 1 \in 1..Len(Tail(s)) /\ Tail(s)[i - 1] = s[i])
    BY <1>1
  <1>3. \A i \in 1..Len(Tail(s)) : i + 1 \in 1..Len(s) /\ Tail(s)[i] = s[i + 1]
    BY <1>1
  <1>4. Range(s) = {s[i] : i \in 1..Len(s)} /\ Range(Tail(s)) = {Tail(s)[i] : i \in 1..Len(Tail(s))}
    BY <1>1, RangeEquality
  <1>5. Head(s) \in Range(s)
    BY <1>1, <1>4
  <1>6. Range(Tail(s)) \subseteq Range(s)
    BY <1>3, <1>4
  <1>7. ASSUME NEW x \in Range(s) PROVE x \in Range(Tail(s)) \cup {Head(s)}
    <2>1. PICK i \in 1..Len(s) : x = s[i]
      BY <1>4, <1>7
    <2>. QED BY <1>1, <1>2, <1>4, <2>1
  <1>. QED BY <1>1, <1>5, <1>6, <1>7

(* What is appended to a sequence that does not have it is there once. *)
LEMMA OnceAppend ==
  ASSUME NEW S, NEW s \in Seq(S), NEW x \in S, NEW y, Once(s, y), x = y => y \notin Range(s)
  PROVE  Once(Append(s, x), y)
  <1>1. /\ Append(s, x) \in Seq(S) /\ Len(Append(s, x)) = Len(s) + 1 /\ Len(s) \in Nat
        /\ \A i \in 1..Len(s) : Append(s, x)[i] = s[i]
        /\ Append(s, x)[Len(s) + 1] = x
    BY AppendProperties, LenProperties
  <1>2. \A i \in 1..Len(s) : s[i] \in Range(s)
    BY RangeEquality
  <1>. QED BY <1>1, <1>2 DEF Once

(* The tail keeps what is there once, and loses it with the head. *)
LEMMA OnceTail ==
  ASSUME NEW S, NEW s \in Seq(S), s # <<>>, NEW y, Once(s, y)
  PROVE  Once(Tail(s), y) /\ (Head(s) = y => y \notin Range(Tail(s)))
  <1>1. Tail(s) \in Seq(S) /\ Len(s) \in Nat /\ Len(s) >= 1 /\ Head(s) = s[1]
    BY EmptySeq, LenProperties
  <1>2. \A i \in 1..Len(Tail(s)) : i \in Nat /\ i + 1 \in 1..Len(s) /\ Tail(s)[i] = s[i + 1]
    BY <1>1
  <1>3. Range(Tail(s)) = {Tail(s)[i] : i \in 1..Len(Tail(s))}
    BY <1>1, RangeEquality
  <1>4. Once(Tail(s), y)
    BY <1>2 DEF Once
  <1>5. ASSUME Head(s) = y, y \in Range(Tail(s)) PROVE FALSE
    <2>1. PICK i \in 1..Len(Tail(s)) : y = Tail(s)[i]
      BY <1>3, <1>5
    <2>2. i + 1 \in 1..Len(s) /\ s[i + 1] = y /\ i + 1 # 1 /\ 1 \in 1..Len(s) /\ s[1] = y
      BY <1>1, <1>2, <1>5, <2>1
    <2>. QED BY <2>2 DEF Once
  <1>. QED BY <1>4, <1>5

(* Sequences of one element. *)
LEMMA OneElement ==
  ASSUME NEW S, NEW x \in S
  PROVE  /\ <<x>> \in Seq(S) /\ <<x>> # <<>> /\ Head(<<x>>) = x /\ Tail(<<x>>) = <<>>
         /\ Append(<<>>, x) = <<x>> /\ <<>> \in Seq(S) /\ Range(<<>>) = {} /\ <<>> \o <<x>> = <<x>>
  <1>1. <<>> \in Seq(S) /\ <<x>> \in Seq(S) /\ <<x>> # <<>> /\ Len(<<x>>) = 1
    OBVIOUS
  <1>2. Head(<<x>>) = x
    OBVIOUS
  <1>3. Tail(<<x>>) = <<>>
    OBVIOUS
  <1>4. Append(<<>>, x) = <<x>>
    OBVIOUS
  <1>5. Range(<<>>) = {}
    BY <1>1, EmptySeq DEF Range
  <1>6. <<>> \o <<x>> = <<x>>
    BY <1>1, ConcatEmptySeq
  <1>. QED BY <1>1, <1>2, <1>3, <1>4, <1>5, <1>6

---------------------------------------------------------------------------
(* The process, whatever state it is in.                                   *)

LEMMA Constants ==
  /\ Requests \subseteq Promises /\ Connection \in Promises /\ Requests \subseteq Messages
  /\ Nobody \notin Requests /\ Connection \notin Requests /\ Requests \subseteq Nat
  BY RequestsAssumption DEF Requests, Promises, Messages, Nobody, Connection

LEMMA CarriesType ==
  ASSUME NEW p \in ClientType
  PROVE  /\ Carries(p) \subseteq Requests /\ Carries(p) \subseteq Promises
         /\ p.active # Nobody => p.active \in Carries(p)
         /\ Range(p.queue) \subseteq Carries(p)
  <1>1. p.queue \in Seq(Requests) /\ p.active \in Requests \cup {Nobody}
    BY DEF ClientType
  <1>2. Range(p.queue) \subseteq Requests
    BY <1>1, RangeOfSeq
  <1>. QED BY <1>1, <1>2, Constants DEF Carries

(* A process that works keeps its requests until their promises are set, and
   no promise is taken back. *)
Keeps(p, q) ==
    /\ q \in ClientType /\ p.orphans \subseteq q.orphans
    /\ \A r \in Requests : ready(p, r) => ready(q, r)
    /\ \A r \in Carries(p) : r \in Carries(q) \/ ready(q, r)

(* A write changes neither the requests nor their promises. *)
Same(p, q) ==
    /\ q \in ClientType /\ q.queue = p.queue /\ q.active = p.active
    /\ q.promise = p.promise /\ q.answer = p.answer
    /\ q.orphans = p.orphans /\ q.aborted = p.aborted

LEMMA SameKeeps ==
  ASSUME NEW p, NEW q, Same(p, q)
  PROVE  Keeps(p, q) /\ Carries(q) = Carries(p)
  BY DEF Same, Keeps, Carries, ready

LEMMA KeepsTransitive ==
  ASSUME NEW p \in ClientType, NEW q, NEW s, Keeps(p, q), Keeps(q, s)
  PROVE  Keeps(p, s)
  BY CarriesType DEF Keeps

LEMMA KeepsReflexive ==
  ASSUME NEW p \in ClientType
  PROVE  Keeps(p, p)
  BY DEF Keeps

LEMMA ErrorSet ==
  ASSUME NEW p \in ClientType, NEW x \in Promises, NEW e \in {"ok", "error"}
  PROVE  LET q == set_error(p, x, e)
         IN  /\ Keeps(p, q) /\ ready(q, x) /\ Carries(q) = Carries(p)
             /\ q.queue = p.queue /\ q.active = p.active /\ q.buffer = p.buffer
             /\ q.begun = p.begun /\ q.cut = p.cut /\ q.err = p.err /\ q.written = p.written
             /\ q.orphans = p.orphans /\ q.answer = p.answer
             /\ p.promise[x] = "unset" => /\ q.promise = [p.promise EXCEPT ![x] = e]
                                          /\ q.aborted = p.aborted
  <1>. DEFINE q == set_error(p, x, e)
              f == [p.promise EXCEPT ![x] = e]
  <1>1. p.promise \in [Promises -> Outcome]
    BY DEF ClientType
  <1>2. f \in [Promises -> Outcome] /\ f[x] = e /\ \A y \in Promises : y # x => f[y] = p.promise[y]
    BY <1>1 DEF Outcome
  <1>3. CASE p.promise[x] = "unset"
    <2>1. q = [p EXCEPT !.promise = f]
      BY <1>3 DEF set_error, ClientType
    <2>. HIDE DEF q, f
    <2>2. /\ q \in ClientType /\ q.queue = p.queue /\ q.active = p.active /\ q.buffer = p.buffer
          /\ q.begun = p.begun /\ q.cut = p.cut /\ q.err = p.err /\ q.written = p.written
          /\ q.orphans = p.orphans /\ q.answer = p.answer /\ q.promise = f
          /\ q.aborted = p.aborted
      BY <1>2, <2>1 DEF ClientType
    <2>3. Carries(q) = Carries(p)
      BY <2>2 DEF Carries
    <2>4. ready(q, x) /\ \A r \in Requests : ready(p, r) => ready(q, r)
      BY <1>2, <2>2, Constants DEF ready
    <2>. QED BY <2>2, <2>3, <2>4 DEF Keeps, q, f
  <1>4. CASE p.promise[x] # "unset"
    <2>1. q = [p EXCEPT !.aborted = TRUE]
      BY <1>4 DEF set_error
    <2>. HIDE DEF q
    <2>2. /\ q \in ClientType /\ q.queue = p.queue /\ q.active = p.active /\ q.buffer = p.buffer
          /\ q.begun = p.begun /\ q.cut = p.cut /\ q.err = p.err /\ q.written = p.written
          /\ q.orphans = p.orphans /\ q.answer = p.answer /\ q.promise = p.promise
      BY <2>1 DEF ClientType
    <2>3. Carries(q) = Carries(p)
      BY <2>2 DEF Carries
    <2>. QED BY <1>4, <2>2, <2>3 DEF Keeps, ready, q
  <1>. QED BY <1>3, <1>4

(* The end of the active request: its promise is set. *)
LEMMA Completes ==
  ASSUME NEW p \in ClientType, NEW e \in {"ok", "error"}
  PROVE  LET q == complete_current_request(p, e)
         IN  /\ Keeps(p, q) /\ q.active = Nobody /\ q.queue = p.queue /\ q.buffer = p.buffer
             /\ q.begun = p.begun /\ q.cut = p.cut /\ q.err = p.err /\ q.written = p.written
             /\ q.orphans = p.orphans /\ q.answer = p.answer
             /\ p.active = Nobody => q.promise = p.promise /\ q.aborted = p.aborted
             /\ p.active # Nobody /\ p.promise[p.active] = "unset" =>
                    /\ q.promise = [p.promise EXCEPT ![p.active] = e]
                    /\ q.aborted = p.aborted
  <1>. DEFINE q == complete_current_request(p, e)
              s == IF p.active = Nobody THEN p ELSE set_error(p, p.active, e)
  <1>1. /\ Keeps(p, s) /\ Carries(s) = Carries(p) /\ (p.active # Nobody => ready(s, p.active))
        /\ s.queue = p.queue /\ s.active = p.active /\ s.buffer = p.buffer
        /\ s.begun = p.begun /\ s.cut = p.cut /\ s.err = p.err /\ s.written = p.written
        /\ s.orphans = p.orphans /\ s.answer = p.answer
        /\ p.active = Nobody => s.promise = p.promise /\ s.aborted = p.aborted
        /\ p.active # Nobody /\ p.promise[p.active] = "unset" =>
                    /\ s.promise = [p.promise EXCEPT ![p.active] = e]
                    /\ s.aborted = p.aborted
    <2>1. CASE p.active = Nobody
      BY <2>1, KeepsReflexive
    <2>2. CASE p.active # Nobody
      <3>. DEFINE t == set_error(p, p.active, e)
      <3>1. p.active \in Promises
        BY <2>2, CarriesType
      <3>2. /\ Keeps(p, t) /\ ready(t, p.active) /\ Carries(t) = Carries(p)
            /\ t.queue = p.queue /\ t.active = p.active /\ t.buffer = p.buffer
            /\ t.begun = p.begun /\ t.cut = p.cut /\ t.err = p.err /\ t.written = p.written
            /\ t.orphans = p.orphans /\ t.answer = p.answer
            /\ p.promise[p.active] = "unset" => /\ t.promise = [p.promise EXCEPT ![p.active] = e]
                                                /\ t.aborted = p.aborted
        BY <3>1, ErrorSet
      <3>3. s = t
        BY <2>2
      <3>. HIDE DEF s, t
      <3>. QED BY <2>2, <3>2, <3>3
    <2>. QED BY <2>1, <2>2
  <1>2. q = [s EXCEPT !.active = Nobody]
    BY DEF complete_current_request
  <1>. HIDE DEF q, s
  <1>3. s \in ClientType
    BY <1>1 DEF Keeps
  <1>4. /\ q \in ClientType /\ q.active = Nobody /\ q.queue = s.queue /\ q.buffer = s.buffer
        /\ q.begun = s.begun /\ q.cut = s.cut /\ q.err = s.err /\ q.written = s.written
        /\ q.orphans = s.orphans /\ q.answer = s.answer /\ q.promise = s.promise
        /\ q.aborted = s.aborted
    BY <1>2, <1>3 DEF ClientType
  <1>5. \A r \in Carries(p) : r = p.active \/ r \in Carries(q)
    BY <1>1, <1>4 DEF Carries
  <1>6. Keeps(p, q)
    <2>1. \A r \in Requests : ready(p, r) => ready(q, r)
      BY <1>1, <1>4 DEF Keeps, ready
    <2>2. \A r \in Carries(p) : r \in Carries(q) \/ ready(q, r)
      <3>1. p.active # Nobody => ready(q, p.active)
        BY <1>1, <1>4 DEF ready
      <3>2. Nobody \notin Carries(p)
        BY CarriesType, Constants
      <3>. QED BY <1>5, <3>1, <3>2
    <2>. QED BY <1>1, <1>4, <2>1, <2>2 DEF Keeps
  <1>. QED BY <1>1, <1>4, <1>6 DEF q

LEMMA Fatal ==
  ASSUME NEW p \in ClientType
  PROVE  LET q == at_fatal_error(p)
         IN  /\ Keeps(p, q) /\ q.active = Nobody /\ q.queue = p.queue /\ q.buffer = <<>>
             /\ ~q.begun /\ q.cut = p.cut /\ q.err = "none" /\ q.written = p.written
             /\ q.orphans = p.orphans /\ q.answer = p.answer
             /\ p.active = Nobody => q.promise = p.promise /\ q.aborted = p.aborted
             /\ p.active # Nobody /\ p.promise[p.active] = "unset" =>
                    /\ q.promise = [p.promise EXCEPT ![p.active] = "error"]
                    /\ q.aborted = p.aborted
  <1>. DEFINE s == complete_current_request(p, "error")
              q == at_fatal_error(p)
  <1>1. /\ Keeps(p, s) /\ s.active = Nobody /\ s.queue = p.queue /\ s.cut = p.cut
        /\ s.written = p.written /\ s.orphans = p.orphans /\ s.answer = p.answer
        /\ p.active = Nobody => s.promise = p.promise /\ s.aborted = p.aborted
        /\ p.active # Nobody /\ p.promise[p.active] = "unset" =>
                    /\ s.promise = [p.promise EXCEPT ![p.active] = "error"]
                    /\ s.aborted = p.aborted
    BY Completes
  <1>2. q = [s EXCEPT !.buffer = <<>>, !.begun = FALSE, !.err = "none"]
    BY DEF at_fatal_error
  <1>3. s \in ClientType /\ <<>> \in Seq(Requests)
    BY <1>1, EmptySeq DEF Keeps
  <1>. HIDE DEF q, s
  <1>4. /\ Same(s, q) /\ q.buffer = <<>> /\ ~q.begun /\ q.cut = s.cut /\ q.err = "none"
        /\ q.written = s.written
    BY <1>2, <1>3 DEF ClientType, Same
  <1>5. Keeps(p, q)
    BY <1>1, <1>4, SameKeeps, KeepsTransitive
  <1>. QED BY <1>1, <1>4, <1>5 DEF Same, q

(* A request taken from the queue replaces one whose promise is set. *)
LEMMA Next_request ==
  ASSUME NEW p \in ClientType, HasNext(p)
  PROVE  LET q == next_request(p)
         IN  /\ Keeps(p, q) /\ q.active # Nobody /\ q.buffer = p.buffer /\ q.begun = p.begun
             /\ q.cut = p.cut /\ q.err = p.err /\ q.written = p.written
             /\ q.orphans = p.orphans /\ q.answer = p.answer /\ q.promise = p.promise
             /\ q.aborted = p.aborted
             /\ p.queue # <<>> => q.active = Head(p.queue) /\ q.queue = Tail(p.queue)
  <1>. DEFINE q == next_request(p)
  <1>1. CASE p.queue = <<>>
    BY <1>1, KeepsReflexive DEF next_request, HasNext
  <1>2. CASE p.queue # <<>>
    <2>1. q = [p EXCEPT !.active = Head(p.queue), !.queue = Tail(p.queue)]
      BY <1>2 DEF next_request
    <2>2. p.queue \in Seq(Requests)
      BY DEF ClientType
    <2>3. /\ Tail(p.queue) \in Seq(Requests) /\ Head(p.queue) \in Requests
          /\ Range(p.queue) \subseteq Range(Tail(p.queue)) \cup {Head(p.queue)}
      BY <1>2, <2>2, RangeTail
    <2>. HIDE DEF q
    <2>4. /\ q \in ClientType /\ q.active = Head(p.queue) /\ q.queue = Tail(p.queue)
          /\ q.buffer = p.buffer /\ q.begun = p.begun /\ q.cut = p.cut /\ q.err = p.err
          /\ q.written = p.written /\ q.orphans = p.orphans /\ q.answer = p.answer
          /\ q.promise = p.promise /\ q.aborted = p.aborted
      BY <2>1, <2>3 DEF ClientType
    <2>5. Range(p.queue) \subseteq Carries(q)
      BY <2>3, <2>4, Constants DEF Carries
    <2>6. p.active # Nobody => ready(q, p.active)
      BY <2>4 DEF HasNext, is_active_request, ready
    <2>7. Keeps(p, q)
      BY <2>4, <2>5, <2>6 DEF Keeps, Carries, ready
    <2>. QED BY <1>2, <2>3, <2>4, <2>7, Constants DEF q
  <1>. QED BY <1>1, <1>2

LEMMA Sends ==
  ASSUME NEW p \in ClientType, NEW up \in BOOLEAN, NEW q \in SendInternal(p, up)
  PROVE  Same(p, q)
  <1>1. /\ p.buffer \in Seq(Requests) /\ Len(p.buffer) \in Nat /\ p.written \in Seq(Messages)
        /\ <<>> \in Seq(Requests) /\ Armed(p) \in {"off", "on", "deaf"}
    BY EmptySeq, LenProperties DEF ClientType, Armed
  <1>2. ASSUME NEW n \in 0..Len(p.buffer), NEW b \in BOOLEAN, q = Takes(p, n, b)
        PROVE  Same(p, q)
    <2>. DEFINE rest == SubSeq(p.buffer, n + 1, Len(p.buffer))
                w == p.written \o [i \in 1..n |-> AsRead(p, p.buffer[i])]
    <2>1. rest \in Seq(Requests)
      BY <1>1
    <2>2. [i \in 1..n |-> AsRead(p, p.buffer[i])] \in Seq(Messages)
      <3>1. \A i \in 1..n : p.buffer[i] \in Requests
        BY <1>1
      <3>2. \A i \in 1..n : AsRead(p, p.buffer[i]) \in Messages
        BY <3>1 DEF AsRead, Messages
      <3>. QED BY <3>2
    <2>3. w \in Seq(Messages)
      BY <1>1, <2>2, ConcatProperties
    <2>4. q = [p EXCEPT !.buffer = rest, !.begun = b, !.err = "none",
                        !.out = IF rest = <<>> THEN "off" ELSE Armed(p), !.written = w]
      BY <1>2 DEF Takes, ClientType
    <2>. HIDE DEF rest, w
    <2>. QED BY <1>1, <2>1, <2>3, <2>4 DEF ClientType, Same
  <1>3. ASSUME q = Blocks(p) \/ q = Refused(p) \/ q = Breaks(p)
        PROVE  Same(p, q)
    BY <1>1, <1>3, ZenonT(40) DEF Blocks, Refused, Breaks, ClientType, Same
  <1>4. \/ \E n \in 0..Len(p.buffer), b \in BOOLEAN : q = Takes(p, n, b)
        \/ q = Blocks(p) \/ q = Refused(p) \/ q = Breaks(p)
    <2>1. CASE ~up
      BY <2>1 DEF SendInternal
    <2>2. CASE up
      <3>1. \A n \in 0..Len(p.buffer) : (n < Len(p.buffer)) \in BOOLEAN
        OBVIOUS
      <3>2. \A n \in 1..Len(p.buffer) : n \in 0..Len(p.buffer)
        BY <1>1
      <3>3. \/ \E n \in 0..Len(p.buffer) : q = Takes(p, n, n < Len(p.buffer))
            \/ \E n \in 1..Len(p.buffer) : q = Takes(p, n, FALSE)
            \/ q = Blocks(p) \/ q = Refused(p)
        BY <2>2 DEF SendInternal
      <3>. QED BY <3>1, <3>2, <3>3
    <2>. QED BY <2>1, <2>2
  <1>. QED BY <1>2, <1>3, <1>4

LEMMA Errors ==
  ASSUME NEW p \in ClientType, NEW e \in {"none", "nobufs", "hard"}
  PROVE  /\ Same(p, [p EXCEPT !.err = e]) /\ [p EXCEPT !.err = e].err = e
         /\ [p EXCEPT !.err = e].buffer = p.buffer /\ [p EXCEPT !.err = e].begun = p.begun
         /\ [p EXCEPT !.err = e].cut = p.cut /\ [p EXCEPT !.err = e].written = p.written
  <1>. DEFINE q == [p EXCEPT !.err = e]
  <1>1. /\ q \in ClientType /\ q.queue = p.queue /\ q.active = p.active
        /\ q.promise = p.promise /\ q.answer = p.answer
        /\ q.orphans = p.orphans /\ q.aborted = p.aborted /\ q.err = e
        /\ q.buffer = p.buffer /\ q.begun = p.begun /\ q.cut = p.cut /\ q.written = p.written
    BY DEF ClientType
  <1>. QED BY <1>1 DEF Same

(* A message that is appended to the buffer. *)
LEMMA Buffered ==
  ASSUME NEW p \in ClientType, p.active # Nobody
  PROVE  LET q == [p EXCEPT !.buffer = Append(@, p.active)]
         IN  /\ Same(p, q) /\ q.buffer = Append(p.buffer, p.active) /\ q.begun = p.begun
             /\ q.cut = p.cut /\ q.written = p.written /\ q.err = p.err
  <1>. DEFINE b == Append(p.buffer, p.active)
              q == [p EXCEPT !.buffer = Append(@, p.active)]
  <1>1. p.buffer \in Seq(Requests) /\ p.active \in Requests
    BY DEF ClientType
  <1>2. b \in Seq(Requests)
    BY <1>1, AppendProperties
  <1>3. q = [p EXCEPT !.buffer = b]
    BY DEF ClientType
  <1>. HIDE DEF b, q
  <1>4. /\ q \in ClientType /\ q.buffer = b /\ q.queue = p.queue /\ q.active = p.active
        /\ q.promise = p.promise /\ q.answer = p.answer
        /\ q.orphans = p.orphans /\ q.aborted = p.aborted /\ q.err = p.err
        /\ q.begun = p.begun /\ q.cut = p.cut /\ q.written = p.written
    BY <1>2, <1>3 DEF ClientType
  <1>. QED BY <1>4 DEF Same, b, q

LEMMA HandledKeeps ==
  ASSUME NEW p \in ClientType
  PROVE  Keeps(p, handle_sending_error(p))
  <1>1. CASE p.err = "hard"
    BY <1>1, Fatal DEF handle_sending_error
  <1>2. CASE p.err # "hard"
    BY <1>2, Errors, SameKeeps DEF handle_sending_error
  <1>. QED BY <1>1, <1>2

LEMMA SendNextKeeps ==
  ASSUME NEW p \in ClientType, NEW up \in BOOLEAN, NEW q \in SendNext(p, up)
  PROVE  Keeps(p, q)
  <1>1. CASE p.err = "hard"
    BY <1>1, Fatal DEF SendNext
  <1>2. CASE p.err # "hard" /\ HasNext(p)
    <2>. DEFINE n == next_request(p)
                m == [n EXCEPT !.buffer = Append(@, n.active)]
    <2>1. PICK u \in SendInternal(m, up) : q = handle_sending_error(u)
      BY <1>2 DEF SendNext, send
    <2>2. Keeps(p, n) /\ n.active # Nobody
      BY <1>2, Next_request
    <2>3. n \in ClientType
      BY <2>2 DEF Keeps
    <2>4. Same(n, m)
      BY <2>2, <2>3, Buffered
    <2>. HIDE DEF n, m
    <2>5. m \in ClientType
      BY <2>4 DEF Same
    <2>6. Same(m, u)
      BY <2>1, <2>5, Sends
    <2>7. u \in ClientType
      BY <2>6 DEF Same
    <2>8. Keeps(u, q)
      BY <2>1, <2>7, HandledKeeps
    <2>9. Keeps(n, m) /\ Keeps(m, u)
      BY <2>4, <2>6, SameKeeps
    <2>10. Keeps(n, u)
      BY <2>3, <2>9, KeepsTransitive
    <2>11. Keeps(n, q)
      BY <2>3, <2>8, <2>10, KeepsTransitive
    <2>. QED BY <2>2, <2>11, KeepsTransitive
  <1>3. CASE p.err # "hard" /\ ~HasNext(p)
    BY <1>3, KeepsReflexive DEF SendNext
  <1>. QED BY <1>1, <1>2, <1>3

LEMMA OnWriteKeeps ==
  ASSUME NEW p \in ClientType, NEW up \in BOOLEAN, NEW q \in on_write(p, up)
  PROVE  Keeps(p, q)
  <1>. DEFINE p0 == [p EXCEPT !.err = "none"]
  <1>1. PICK t \in send_rest(p0, up) : q \in SendNext(t, up)
    BY DEF on_write
  <1>2. Same(p, p0)
    BY Errors
  <1>. HIDE DEF p0
  <1>3. p0 \in ClientType
    BY <1>2 DEF Same
  <1>4. t = p0 \/ t \in SendInternal(p0, up)
    BY DEF send_rest
  <1>5. Keeps(p0, t) /\ t \in ClientType
    <2>1. CASE t = p0
      BY <1>3, <2>1, KeepsReflexive
    <2>2. CASE t \in SendInternal(p0, up)
      <3>1. Same(p0, t)
        BY <1>3, <2>2, Sends
      <3>. QED BY <3>1, SameKeeps DEF Same
    <2>. QED BY <1>4, <2>1, <2>2
  <1>6. Keeps(t, q)
    BY <1>1, <1>5, SendNextKeeps
  <1>7. Keeps(p0, q)
    BY <1>3, <1>5, <1>6, KeepsTransitive
  <1>8. Keeps(p, p0)
    BY <1>2, SameKeeps
  <1>. QED BY <1>7, <1>8, KeepsTransitive

LEMMA TwiceKeeps ==
  ASSUME NEW p \in ClientType, NEW up \in BOOLEAN, NEW q \in on_write_Twice(p, up)
  PROVE  Keeps(p, q)
  <1>1. PICK t \in on_write(p, up) : q \in on_write(t, up)
    BY DEF on_write_Twice
  <1>2. Keeps(p, t)
    BY OnWriteKeeps
  <1>3. t \in ClientType
    BY <1>2 DEF Keeps
  <1>4. Keeps(t, q)
    BY <1>1, <1>3, OnWriteKeeps
  <1>. QED BY <1>2, <1>4, KeepsTransitive

(* A request can be queued behind the others. *)
LEMMA Pushed ==
  ASSUME NEW p \in ClientType, NEW r \in Requests
  PROVE  LET q == [p EXCEPT !.queue = Append(@, r)]
         IN  /\ Keeps(p, q) /\ Carries(q) = Carries(p) \cup {r}
             /\ q.queue = Append(p.queue, r) /\ q.active = p.active /\ q.buffer = p.buffer
             /\ q.begun = p.begun /\ q.cut = p.cut /\ q.err = p.err /\ q.written = p.written
             /\ q.promise = p.promise /\ q.answer = p.answer /\ q.orphans = p.orphans
             /\ q.aborted = p.aborted
  <1>. DEFINE s == Append(p.queue, r)
              q == [p EXCEPT !.queue = Append(@, r)]
  <1>1. p.queue \in Seq(Requests)
    BY DEF ClientType
  <1>2. s \in Seq(Requests) /\ Range(s) = Range(p.queue) \cup {r}
    BY <1>1, RangeAppend
  <1>3. q = [p EXCEPT !.queue = s]
    BY DEF ClientType
  <1>. HIDE DEF q, s
  <1>4. /\ q \in ClientType /\ q.queue = s /\ q.active = p.active /\ q.buffer = p.buffer
        /\ q.begun = p.begun /\ q.cut = p.cut /\ q.err = p.err /\ q.written = p.written
        /\ q.promise = p.promise /\ q.answer = p.answer /\ q.orphans = p.orphans
        /\ q.aborted = p.aborted
    BY <1>2, <1>3 DEF ClientType
  <1>5. Carries(q) = Carries(p) \cup {r}
    BY <1>2, <1>4, Constants DEF Carries
  <1>6. Keeps(p, q)
    BY <1>4, <1>5 DEF Keeps, ready
  <1>. QED BY <1>4, <1>5, <1>6 DEF q, s

LEMMA PushKeeps ==
  ASSUME NEW p \in ClientType, NEW r \in Requests, NEW up \in BOOLEAN,
         NEW q \in push_request(p, r, up)
  PROVE  Keeps([p EXCEPT !.queue = Append(@, r)], q)
  <1>. DEFINE p0 == [p EXCEPT !.queue = Append(@, r)]
  <1>1. PICK t \in on_write(p0, up) : q \in (IF t.err = "none" THEN on_write(t, up) ELSE {t})
    BY DEF push_request
  <1>2. p0 \in ClientType
    BY Pushed DEF Keeps
  <1>. HIDE DEF p0
  <1>3. Keeps(p0, t)
    BY <1>2, OnWriteKeeps
  <1>4. t \in ClientType
    BY <1>3 DEF Keeps
  <1>5. CASE t.err = "none"
    <2>1. Keeps(t, q)
      BY <1>1, <1>4, <1>5, OnWriteKeeps
    <2>2. Keeps(p0, q)
      BY <1>2, <1>3, <2>1, KeepsTransitive
    <2>. QED BY <2>2 DEF p0
  <1>6. CASE t.err # "none"
    BY <1>1, <1>3, <1>6 DEF p0
  <1>. QED BY <1>5, <1>6

(* A process gone from p to q keeps the requests of p and got r or refused it. *)
LEMMA EmplacedKeeps ==
  ASSUME c \in ClientType, NEW r \in Requests, NEW q \in Emplaced(r)
  PROVE  Keeps(c, q) /\ (r \in Carries(q) \/ ready(q, r))
  <1>1. CASE conn = "none" \/ ~proc
    <2>1. q = set_error(c, r, "error") /\ r \in Promises
      BY <1>1, Constants DEF Emplaced
    <2>. QED BY <2>1, ErrorSet
  <1>2. CASE ~(conn = "none" \/ ~proc)
    <2>. DEFINE up == (link = "up")
                p0 == [c EXCEPT !.queue = Append(@, r)]
    <2>1. PICK p \in push_request(c, r, up) :
            q = IF p.err = "none" THEN p
                ELSE [set_error(p, r, "error") EXCEPT !.orphans = @ \union {r}]
      BY <1>2 DEF Emplaced
    <2>2. Keeps(c, p0) /\ Carries(p0) = Carries(c) \cup {r}
      BY Pushed
    <2>3. up \in BOOLEAN
      OBVIOUS
    <2>. HIDE DEF up
    <2>4. Keeps(p0, p)
      BY <2>1, <2>3, PushKeeps
    <2>. HIDE DEF p0
    <2>5. Keeps(c, p) /\ p \in ClientType /\ (r \in Carries(p) \/ ready(p, r))
      BY <2>2, <2>4, KeepsTransitive DEF Keeps
    <2>6. CASE p.err = "none"
      BY <2>1, <2>5, <2>6
    <2>7. CASE p.err # "none"
      <3>. DEFINE s == set_error(p, r, "error")
      <3>1. Keeps(p, s) /\ ready(s, r)
        BY <2>5, Constants, ErrorSet
      <3>2. q = [s EXCEPT !.orphans = s.orphans \union {r}] /\ s \in ClientType
        BY <2>1, <2>7, <3>1 DEF Keeps
      <3>. HIDE DEF s
      <3>3. /\ q \in ClientType /\ q.orphans = s.orphans \cup {r} /\ q.promise = s.promise
            /\ q.queue = s.queue /\ q.active = s.active
        BY <3>2 DEF ClientType
      <3>4. Keeps(s, q) /\ ready(q, r)
        BY <3>1, <3>3 DEF Keeps, Carries, ready
      <3>5. Keeps(c, s)
        BY <2>5, <3>1, KeepsTransitive
      <3>. QED BY <3>4, <3>5, KeepsTransitive
    <2>. QED BY <2>6, <2>7
  <1>. QED BY <1>1, <1>2

LEMMA Answer ==
  ASSUME NEW p \in ClientType, p.active # Nobody, NEW a \in Messages
  PROVE  LET q == [p EXCEPT !.answer[p.active] = a]
         IN  /\ Keeps(p, q) /\ Carries(q) = Carries(p)
             /\ q.queue = p.queue /\ q.active = p.active /\ q.buffer = p.buffer
             /\ q.begun = p.begun /\ q.cut = p.cut /\ q.err = p.err /\ q.written = p.written
             /\ q.promise = p.promise /\ q.orphans = p.orphans /\ q.aborted = p.aborted
             /\ q.answer = [p.answer EXCEPT ![p.active] = a]
  <1>. DEFINE f == [p.answer EXCEPT ![p.active] = a]
              q == [p EXCEPT !.answer[p.active] = a]
  <1>1. p.active \in Requests /\ p.answer \in [Requests -> Messages \cup {Nobody}]
    BY DEF ClientType
  <1>2. f \in [Requests -> Messages \cup {Nobody}]
    BY <1>1
  <1>3. q = [p EXCEPT !.answer = f]
    BY DEF ClientType
  <1>. HIDE DEF f, q
  <1>4. /\ q \in ClientType /\ q.queue = p.queue /\ q.active = p.active /\ q.buffer = p.buffer
        /\ q.begun = p.begun /\ q.cut = p.cut /\ q.err = p.err /\ q.written = p.written
        /\ q.promise = p.promise /\ q.orphans = p.orphans /\ q.aborted = p.aborted
        /\ q.answer = f
    BY <1>2, <1>3 DEF ClientType
  <1>5. Carries(q) = Carries(p)
    BY <1>4 DEF Carries
  <1>. QED BY <1>4, <1>5 DEF Keeps, ready, f, q

LEMMA OnReadKeeps ==
  ASSUME NEW p \in ClientType, is_active_request(p), NEW a \in Messages \cup {Nobody},
         NEW up \in BOOLEAN, NEW q \in on_read(p, a, up)
  PROVE  Keeps(p, q)
  <1>1. CASE a = Nobody
    <2>1. Keeps(p, at_fatal_error(p)) /\ q \in on_write(at_fatal_error(p), up)
      BY <1>1, Fatal DEF on_read
    <2>2. at_fatal_error(p) \in ClientType
      BY <2>1 DEF Keeps
    <2>3. Keeps(at_fatal_error(p), q)
      BY <2>1, <2>2, OnWriteKeeps
    <2>. QED BY <2>1, <2>3, KeepsTransitive
  <1>2. CASE a # Nobody
    <2>. DEFINE p0 == [p EXCEPT !.answer[p.active] = a]
                d == complete_current_request(p0, "ok")
    <2>1. p.active # Nobody /\ a \in Messages
      BY <1>2 DEF is_active_request
    <2>2. Keeps(p, p0)
      BY <2>1, Answer
    <2>3. q \in on_write_Twice(d, up)
      BY <1>2 DEF on_read
    <2>4. p0 \in ClientType
      BY <2>2 DEF Keeps
    <2>. HIDE DEF p0
    <2>5. Keeps(p0, d)
      BY <2>4, Completes
    <2>6. d \in ClientType
      BY <2>5 DEF Keeps
    <2>. HIDE DEF d
    <2>7. Keeps(d, q)
      BY <2>3, <2>6, TwiceKeeps
    <2>8. Keeps(p, d)
      BY <2>2, <2>5, KeepsTransitive
    <2>. QED BY <2>7, <2>8, KeepsTransitive
  <1>. QED BY <1>1, <1>2

(* What the process wrote is on the way. *)
LEMMA Became ==
  ASSUME NEW q \in ClientType, Becomes(q)
  PROVE  /\ Same(q, c') /\ Carries(c') = Carries(q) /\ c'.written = <<>>
         /\ c'.buffer = q.buffer /\ c'.begun = q.begun /\ c'.cut = q.cut
         /\ toServer' = toServer \o q.written /\ q.written \in Seq(Messages)
  <1>1. /\ c' = [q EXCEPT !.written = <<>>, !.err = "none"] /\ toServer' = toServer \o q.written
        /\ <<>> \in Seq(Messages)
    BY EmptySeq DEF Becomes
  <1>2. /\ c' \in ClientType /\ c'.queue = q.queue /\ c'.active = q.active
        /\ c'.promise = q.promise /\ c'.answer = q.answer /\ c'.aborted = q.aborted
        /\ c'.orphans = q.orphans /\ c'.buffer = q.buffer /\ c'.begun = q.begun
        /\ c'.cut = q.cut /\ c'.written = <<>> /\ q.written \in Seq(Messages)
    BY <1>1 DEF ClientType
  <1>3. Same(q, c')
    BY <1>2 DEF Same
  <1>. QED BY <1>1, <1>2, <1>3, SameKeeps

(* The process destroyed. *)
LEMMA WasReset ==
  ASSUME NEW q \in ClientType, ResetProcess(q)
  PROVE  /\ c' \in ClientType /\ c'.queue = <<>> /\ c'.active = Nobody /\ c'.buffer = <<>>
         /\ ~c'.begun /\ c'.cut = q.cut /\ c'.written = <<>> /\ Carries(c') = {}
         /\ c'.promise = q.promise /\ c'.answer = q.answer /\ c'.orphans = q.orphans
         /\ c'.aborted = q.aborted /\ \A r : Once(c'.queue, r)
         /\ lost' = lost \cup Carries(q) /\ proc' = FALSE
  <1>1. /\ lost' = lost \cup Carries(q) /\ proc' = FALSE
        /\ c' = [q EXCEPT !.queue = <<>>, !.active = Nobody, !.buffer = <<>>, !.begun = FALSE,
                          !.err = "none", !.written = <<>>]
    BY DEF ResetProcess, Carries
  <1>2. <<>> \in Seq(Requests) /\ <<>> \in Seq(Messages) /\ Range(<<>>) = {} /\ Len(<<>>) = 0
    BY EmptySeq DEF Range
  <1>3. /\ c' \in ClientType /\ c'.queue = <<>> /\ c'.active = Nobody /\ c'.buffer = <<>>
        /\ ~c'.begun /\ c'.cut = q.cut /\ c'.written = <<>>
        /\ c'.promise = q.promise /\ c'.answer = q.answer /\ c'.orphans = q.orphans
        /\ c'.aborted = q.aborted
    BY <1>1, <1>2 DEF ClientType
  <1>4. Carries(c') = {} /\ \A r : Once(c'.queue, r)
    BY <1>2, <1>3 DEF Carries, Once
  <1>. QED BY <1>1, <1>3, <1>4

---------------------------------------------------------------------------
(* The mailbox.                                                            *)

LEMMA PushedCommand ==
  ASSUME mail \in Seq(Commands), NEW kind \in Kinds, NEW r \in 0..MaxRequests, push_command(kind, r)
  PROVE  /\ mail' \in Seq(Commands) /\ Range(mail') = Range(mail) \cup {<<kind, r>>}
         /\ \A y : Once(mail, y) /\ (y = <<kind, r>> => y \notin Range(mail)) => Once(mail', y)
  <1>1. <<kind, r>> \in Commands /\ mail' = Append(mail, <<kind, r>>)
    BY DEF Commands, push_command
  <1>. QED BY <1>1, RangeAppend, OnceAppend

LEMMA ExecutedCommand ==
  ASSUME mail \in Seq(Commands), NEW kind, NEW r, Executes(kind, r)
  PROVE  /\ mail' \in Seq(Commands) /\ <<kind, r>> \in Range(mail)
         /\ Range(mail') \subseteq Range(mail)
         /\ Range(mail) \subseteq Range(mail') \cup {<<kind, r>>}
         /\ \A y : Once(mail, y) => Once(mail', y)
         /\ Once(mail, <<kind, r>>) => <<kind, r>> \notin Range(mail')
  <1>1. mail # <<>> /\ Head(mail) = <<kind, r>> /\ mail' = Tail(mail)
    BY DEF Executes
  <1>. QED BY <1>1, RangeTail, OnceTail

LEMMA PushedRemove ==
  ASSUME mail \in Seq(Commands), push_command("RemoveConnection", 0)
  PROVE  /\ mail' \in Seq(Commands)
         /\ \A x \in Range(mail') : x \in Range(mail) \/ x = <<"RemoveConnection", 0>>
         /\ \A y : y # <<"RemoveConnection", 0>> /\ Once(mail, y) => Once(mail', y)
         /\ Range(mail) \subseteq Range(mail')
  <1>1. "RemoveConnection" \in Kinds /\ 0 \in 0..MaxRequests
    BY RequestsAssumption DEF Kinds
  <1>. QED BY <1>1, PushedCommand

---------------------------------------------------------------------------
(* Whatever the writes and the commands do, every variable has its type and
   every request is somewhere.                                             *)

(* What a step of the worker does to the requests. *)
KeepsAll ==
    /\ c.orphans \subseteq c'.orphans
    /\ \A r \in Requests : /\ ready(c, r) => ready(c', r)
                           /\ r \in lost => r \in lost'
                           /\ r \in Carries(c) => r \in Carries(c') \/ ready(c', r) \/ r \in lost'

LEMMA WorkerSomewhere ==
  ASSUME Basic, pc' = pc, KeepsAll,
         \A r \in Requests : Mailed(r) => <<"RequestData", r>> \in Range(mail')
                                             \/ ready(c', r) \/ r \in Carries(c')
  PROVE  \A r \in Requests : Somewhere(r)'
  <1>. SUFFICES ASSUME NEW r \in Requests PROVE Somewhere(r)'
    OBVIOUS
  <1>1. Somewhere(r)
    BY DEF Basic
  <1>2. /\ ready(c, r)' <=> ready(c', r)
        /\ Carries(c)' = Carries(c')
        /\ Mailed(r)' <=> <<"RequestData", r>> \in Range(mail')
    BY DEF ready, Carries, Mailed
  <1>. QED BY <1>1, <1>2 DEF Somewhere, KeepsAll

(* A process that keeps its requests keeps them all. *)
LEMMA KeptAll ==
  ASSUME c \in ClientType, NEW q, Keeps(c, q),
         lost \subseteq lost' /\ c'.orphans = q.orphans /\ c'.promise = q.promise
            /\ Carries(q) \subseteq Carries(c') \cup lost'
  PROVE  KeepsAll
  BY DEF Keeps, KeepsAll, ready

(* A request stays where it is, and the caller's counter says which are to come. *)
LEMMA CallerSomewhere ==
  ASSUME Basic, CallerKeeps, Range(mail) \subseteq Range(mail'), NEW r \in Requests,
         \/ pc'[1] \in {"stopping", "end"} \/ pc'[2] < r \/ pc' = <<"calls", r>>
         \/ Mailed(r)'
         \/ ~(pc[2] < r) /\ pc # <<"calls", r>> /\ pc[1] \notin {"stopping", "end"}
  PROVE  Somewhere(r)'
  <1>1. Somewhere(r)
    BY DEF Basic
  <1>2. UNCHANGED <<c, lost>>
    BY DEF CallerKeeps
  <1>3. ready(c, r)' = ready(c, r) /\ Carries(c)' = Carries(c) /\ (Mailed(r) => Mailed(r)')
    BY <1>2 DEF ready, Carries, Mailed
  <1>. QED BY <1>1, <1>2, <1>3 DEF Somewhere

LEMMA CallerBasic ==
  ASSUME Basic, Caller
  PROVE  Basic' /\ CallerKeeps
  <1>0. /\ TypeOK /\ pc \in Stages \X Nat /\ mail \in Seq(Commands) /\ MaxRequests \in Nat \ {0}
        /\ c.written = <<>>
    BY RequestsAssumption DEF Basic, TypeOK
  <1>a. 0 \in 0..MaxRequests /\ \A r \in Requests : 0 < r /\ r \in 0..MaxRequests /\ r \in Nat
    BY <1>0 DEF Requests
  <1>b. ASSUME CallerKeeps, pc' \in Stages \X Nat, pc'[1] = "calls" => pc'[2] \in 1..(MaxRequests + 1),
               pc'[1] = "waits" => pc'[2] \in Requests, mail' \in Seq(Commands),
               \A r \in Requests : Somewhere(r)'
        PROVE  Basic'
    BY <1>0, <1>b DEF Basic, TypeOK, CallerKeeps
  <1>1. CASE connect
    <2>1. pc' = <<"connecting", 0>> /\ push_command("AddConnection", 0) /\ CallerKeeps
      BY <1>1 DEF connect
    <2>2. mail' \in Seq(Commands)
      BY <1>0, <1>a, <2>1, PushedCommand DEF Kinds
    <2>3. \A r \in Requests : Somewhere(r)'
      BY <1>a, <2>1 DEF Somewhere
    <2>4. pc' \in Stages \X Nat /\ pc'[1] = "connecting"
      BY <2>1 DEF Stages, Early
    <2>. QED BY <1>b, <2>1, <2>2, <2>3, <2>4
  <1>2. CASE connect_Returns
    <2>1. /\ mail' = mail /\ CallerKeeps
          /\ \/ pc' = <<"handle", 0>> \/ pc' = <<"late", 0>> \/ pc' = <<"no handle", 0>>
      BY <1>2 DEF connect_Returns
    <2>2. pc'[1] \in {"handle", "late", "no handle"} /\ pc'[2] = 0 /\ pc' \in Stages \X Nat
      <3>1. CASE pc' = <<"handle", 0>>
        BY <3>1 DEF Stages, Early
      <3>2. CASE pc' = <<"late", 0>>
        BY <3>2 DEF Stages, Early
      <3>3. CASE pc' = <<"no handle", 0>>
        BY <3>3 DEF Stages, Early
      <3>. QED BY <2>1, <3>1, <3>2, <3>3
    <2>3. \A r \in Requests : Somewhere(r)'
      BY <1>a, <2>2 DEF Somewhere
    <2>. QED BY <1>0, <1>b, <2>1, <2>2, <2>3
  <1>3. CASE add_process
    <2>1. pc' = <<"calls", 1>> /\ push_command("AttachProcess", 0) /\ CallerKeeps
      BY <1>3 DEF add_process
    <2>2. mail' \in Seq(Commands) /\ Range(mail) \subseteq Range(mail')
      BY <1>0, <1>a, <2>1, PushedCommand DEF Kinds
    <2>3. \A r \in Requests : pc'[2] < r \/ pc' = <<"calls", r>>
      BY <1>0, <2>1 DEF Requests
    <2>4. \A r \in Requests : Somewhere(r)'
      BY <2>3 DEF Somewhere
    <2>5. pc' \in Stages \X Nat /\ pc'[1] = "calls" /\ pc'[2] \in 1..(MaxRequests + 1)
      BY <1>0, <2>1 DEF Stages
    <2>. QED BY <1>b, <2>1, <2>2, <2>4, <2>5
  <1>4. CASE request
    <2>1. /\ pc[1] = "calls" /\ pc[2] \in Requests /\ pc' = <<"waits", pc[2]>>
          /\ push_command("RequestData", pc[2]) /\ CallerKeeps
      BY <1>4 DEF request
    <2>2. mail' \in Seq(Commands) /\ Range(mail) \subseteq Range(mail') /\ Mailed(pc[2])'
      BY <1>0, <1>a, <2>1, PushedCommand DEF Kinds, Mailed
    <2>3. \A r \in Requests : pc'[2] < r \/ (~(pc[2] < r) /\ pc # <<"calls", r>>) \/ Mailed(r)'
      BY <1>0, <2>1, <2>2 DEF Requests
    <2>4. \A r \in Requests : Somewhere(r)'
      BY <2>1, <2>2, <2>3, CallerSomewhere
    <2>5. pc' \in Stages \X Nat /\ pc'[1] = "waits" /\ pc'[2] \in Requests
      BY <1>a, <2>1 DEF Stages
    <2>. QED BY <1>b, <2>1, <2>2, <2>4, <2>5
  <1>5. CASE wait_ready
    <2>1. pc[1] = "waits" /\ pc' = <<"calls", pc[2] + 1>> /\ mail' = mail /\ CallerKeeps
      BY <1>5 DEF wait_ready
    <2>2. pc[2] \in Requests
      BY <1>0, <2>1 DEF TypeOK
    <2>3. \A r \in Requests : pc'[2] < r \/ pc' = <<"calls", r>> \/ (~(pc[2] < r) /\ pc # <<"calls", r>>)
      BY <1>0, <2>1, <2>2 DEF Requests
    <2>4. \A r \in Requests : Somewhere(r)'
      BY <2>1, <2>3, CallerSomewhere
    <2>5. pc' \in Stages \X Nat /\ pc'[1] = "calls" /\ pc'[2] \in 1..(MaxRequests + 1)
      BY <1>0, <2>1, <2>2 DEF Stages, Requests
    <2>. QED BY <1>0, <1>b, <2>1, <2>4, <2>5
  <1>6. CASE request_stop \/ disconnect
    <2>1. CallerKeeps /\ (pc' = <<"stopping", 0>> \/ pc' = <<"end", 0>>)
      BY <1>6 DEF request_stop, disconnect
    <2>2. PICK kind \in {"RequestStop", "RemoveConnection"} : push_command(kind, 0)
      BY <1>6 DEF request_stop, disconnect
    <2>3. pc'[1] \in {"stopping", "end"} /\ pc' \in Stages \X Nat
      <3>1. CASE pc' = <<"stopping", 0>>
        BY <1>a, <3>1 DEF Stages
      <3>2. CASE pc' = <<"end", 0>>
        BY <1>a, <3>2 DEF Stages
      <3>. QED BY <2>1, <3>1, <3>2
    <2>4. mail' \in Seq(Commands)
      BY <1>0, <1>a, <2>2, PushedCommand DEF Kinds
    <2>5. \A r \in Requests : Somewhere(r)'
      BY <2>3 DEF Somewhere
    <2>. QED BY <1>b, <2>1, <2>3, <2>4, <2>5
  <1>. QED BY <1>1, <1>2, <1>3, <1>4, <1>5, <1>6
          DEF Caller, connect, connect_Returns, add_process, request, wait_ready, request_stop, disconnect

(* A step of the worker that leaves the caller and the server alone. *)
LEMMA WorkerBasic ==
  ASSUME Basic, KeepsAll, UNCHANGED <<pc, server, smail>>, mail' \in Seq(Commands),
         conn' \in {"none", "connecting", "active", "closed"}, proc' \in BOOLEAN,
         link' \in {"none", "up", "down"}, c' \in ClientType, c'.written = <<>>,
         toServer' \in Seq(Messages), toClient' \in Seq(Messages), lost' \subseteq Requests,
         \A r \in Requests : Mailed(r) => <<"RequestData", r>> \in Range(mail')
                                             \/ ready(c', r) \/ r \in Carries(c')
  PROVE  Basic'
  <1>1. TypeOK'
    BY DEF Basic, TypeOK
  <1>2. \A r \in Requests : Somewhere(r)'
    BY WorkerSomewhere
  <1>. QED BY <1>1, <1>2 DEF Basic

(* The process goes on as q, which has kept the requests. *)
LEMMA BecameBasic ==
  ASSUME Basic, NEW q, Keeps(c, q), Becomes(q), lost' = lost
  PROVE  KeepsAll /\ c' \in ClientType /\ c'.written = <<>> /\ toServer' \in Seq(Messages)
  <1>1. c \in ClientType /\ q \in ClientType /\ toServer \in Seq(Messages)
    BY DEF Basic, TypeOK, Keeps
  <1>2. /\ Same(q, c') /\ Carries(c') = Carries(q) /\ c'.written = <<>>
        /\ toServer' = toServer \o q.written /\ q.written \in Seq(Messages)
    BY <1>1, Became
  <1>3. KeepsAll
    BY <1>1, <1>2, KeptAll DEF Same
  <1>4. toServer' \in Seq(Messages)
    BY <1>1, <1>2, ConcatProperties
  <1>. QED BY <1>2, <1>3, <1>4 DEF Same

(* The process is destroyed after it became q. *)
LEMMA ResetBasic ==
  ASSUME Basic, NEW q, Keeps(c, q), ResetProcess(q)
  PROVE  /\ KeepsAll /\ c' \in ClientType /\ c'.written = <<>> /\ lost' \subseteq Requests
         /\ proc' \in BOOLEAN
  <1>1. c \in ClientType /\ q \in ClientType /\ lost \subseteq Requests
    BY DEF Basic, TypeOK, Keeps
  <1>2. /\ c' \in ClientType /\ c'.written = <<>> /\ c'.promise = q.promise
        /\ c'.orphans = q.orphans /\ lost' = lost \cup Carries(q) /\ proc' = FALSE
    BY <1>1, WasReset
  <1>3. KeepsAll
    BY <1>1, <1>2, KeptAll
  <1>. QED BY <1>1, <1>2, <1>3, CarriesType

(* What a read takes from the socket. *)
LEMMA ReadType ==
  ASSUME Basic, NEW a, Readable(a)
  PROVE  toClient' \in Seq(Messages)
  <1>1. toClient \in Seq(Messages)
    BY DEF Basic, TypeOK
  <1>. QED BY <1>1, RangeTail DEF Readable

LEMMA WorkerKeepsBasic ==
  ASSUME Basic, Worker \/ WriteEvent
  PROVE  Basic' /\ c.orphans \subseteq c'.orphans
  <1>0. /\ TypeOK /\ c \in ClientType /\ c.written = <<>> /\ mail \in Seq(Commands)
        /\ toClient \in Seq(Messages) /\ toServer \in Seq(Messages) /\ lost \subseteq Requests
        /\ conn \in {"none", "connecting", "active", "closed"} /\ proc \in BOOLEAN
        /\ link \in {"none", "up", "down"}
    BY DEF Basic, TypeOK
  <1>a. Keeps(c, c)
    BY <1>0, KeepsReflexive
  <1>1. CASE AttachProcess \/ RequestStop
    <2>1. PICK kind \in {"AttachProcess", "RequestStop"} : Executes(kind, 0)
      BY <1>1 DEF AttachProcess, RequestStop
    <2>2. /\ UNCHANGED <<pc, conn, link, c, toServer, toClient, server, smail, lost>>
          /\ proc' \in BOOLEAN
      BY <1>0, <1>1 DEF AttachProcess, RequestStop
    <2>3. mail' \in Seq(Commands) /\ Range(mail) \subseteq Range(mail') \cup {<<kind, 0>>}
      BY <1>0, <2>1, ExecutedCommand
    <2>4. KeepsAll
      BY <2>2 DEF KeepsAll, Carries, ready
    <2>. QED BY <1>0, <2>2, <2>3, <2>4, WorkerBasic DEF Mailed, KeepsAll
  <1>2. CASE RemoveConnection
    <2>1. /\ Executes("RemoveConnection", 0) /\ ResetProcess(c)
          /\ conn' = "none" /\ link' \in {"none", "up", "down"}
          /\ UNCHANGED <<pc, toServer, toClient, server, smail>>
      BY <1>0, <1>2 DEF RemoveConnection
    <2>2. mail' \in Seq(Commands) /\ Range(mail) \subseteq Range(mail') \cup {<<"RemoveConnection", 0>>}
      BY <1>0, <2>1, ExecutedCommand
    <2>3. /\ KeepsAll /\ c' \in ClientType /\ c'.written = <<>> /\ lost' \subseteq Requests
          /\ proc' \in BOOLEAN
      BY <1>a, <2>1, ResetBasic
    <2>. QED BY <1>0, <2>1, <2>2, <2>3, WorkerBasic DEF Mailed, KeepsAll
  <1>3. CASE Established
    <2>1. /\ conn' = "active" /\ UNCHANGED <<pc, link, toServer, toClient, server, smail>>
          /\ \/ ResetProcess(c) /\ push_command("RemoveConnection", 0)
             \/ UNCHANGED <<c, lost, proc, mail>>
      BY <1>3 DEF Established
    <2>2. CASE ResetProcess(c) /\ push_command("RemoveConnection", 0)
      <3>1. /\ KeepsAll /\ c' \in ClientType /\ c'.written = <<>> /\ lost' \subseteq Requests
            /\ proc' \in BOOLEAN
        BY <1>a, <2>2, ResetBasic
      <3>2. mail' \in Seq(Commands) /\ Range(mail) \subseteq Range(mail')
        BY <1>0, <2>2, PushedRemove
      <3>. QED BY <1>0, <2>1, <3>1, <3>2, WorkerBasic DEF Mailed, KeepsAll
    <2>3. CASE UNCHANGED <<c, lost, proc, mail>>
      <3>1. KeepsAll
        BY <2>3 DEF KeepsAll, Carries, ready
      <3>. QED BY <1>0, <2>1, <2>3, <3>1, WorkerBasic DEF Mailed, KeepsAll
    <2>. QED BY <2>1, <2>2, <2>3
  <1>4. ASSUME NEW o \in Outcomes, AddConnection(o)
        PROVE  Basic' /\ c.orphans \subseteq c'.orphans
    <2>1. /\ Executes("AddConnection", 0) /\ UNCHANGED <<pc, proc, toServer, toClient, smail, lost>>
          /\ conn' \in {"none", "active", "connecting"} /\ link' \in {"none", "up"}
          /\ server' = [server EXCEPT !.alive = (link' = "up")]
          /\ \/ c' = c
             \/ \E err \in {"ok", "error"} : c' = set_error(c, Connection, err)
      BY <1>4 DEF AddConnection, Outcomes
    <2>2. mail' \in Seq(Commands) /\ Range(mail) \subseteq Range(mail') \cup {<<"AddConnection", 0>>}
      BY <1>0, <2>1, ExecutedCommand
    <2>3. Keeps(c, c') /\ Carries(c') = Carries(c) /\ c'.written = <<>>
      <3>1. CASE c' = c
        BY <1>0, <1>a, <3>1
      <3>2. ASSUME NEW err \in {"ok", "error"}, c' = set_error(c, Connection, err)
            PROVE  Keeps(c, c') /\ Carries(c') = Carries(c) /\ c'.written = <<>>
        <4>. DEFINE q == set_error(c, Connection, err)
        <4>1. Connection \in Promises
          BY Constants
        <4>2. Keeps(c, q) /\ Carries(q) = Carries(c) /\ q.written = c.written
          BY <1>0, <4>1, ErrorSet
        <4>3. c' = q
          BY <3>2
        <4>. HIDE DEF q
        <4>. QED BY <1>0, <4>2, <4>3
      <3>. QED BY <2>1, <3>1, <3>2
    <2>4. KeepsAll
      BY <1>0, <2>1, <2>3, KeptAll
    <2>5. /\ server' \in ServerType
          /\ server'.task = server.task /\ server'.request = server.request
      BY <1>0, <2>1 DEF TypeOK, ServerType
    <2>6. TypeOK'
      BY <1>0, <2>1, <2>2, <2>3, <2>5 DEF TypeOK, Keeps
    <2>7. \A r \in Requests : Somewhere(r)'
      BY <2>1, <2>2, <2>4, WorkerSomewhere DEF Mailed
    <2>. QED BY <2>3, <2>4, <2>6, <2>7 DEF Basic, KeepsAll
  <1>5. ASSUME NEW r \in Requests, RequestData(r)
        PROVE  Basic' /\ c.orphans \subseteq c'.orphans
    <2>1. /\ Executes("RequestData", r)
          /\ UNCHANGED <<pc, conn, proc, link, toClient, server, smail, lost>>
      BY <1>5 DEF RequestData
    <2>2. PICK q \in Emplaced(r) : Becomes(q)
      BY <1>5 DEF RequestData
    <2>3. Keeps(c, q) /\ (r \in Carries(q) \/ ready(q, r))
      BY <1>0, EmplacedKeeps
    <2>4. KeepsAll /\ c' \in ClientType /\ c'.written = <<>> /\ toServer' \in Seq(Messages)
      BY <2>1, <2>2, <2>3, BecameBasic
    <2>5. r \in Carries(c') \/ ready(c', r)
      BY <2>2, <2>3, Became DEF Keeps, Same, ready
    <2>6. mail' \in Seq(Commands) /\ Range(mail) \subseteq Range(mail') \cup {<<"RequestData", r>>}
      BY <1>0, <2>1, ExecutedCommand
    <2>7. \A x \in Requests : Mailed(x) => x = r \/ <<"RequestData", x>> \in Range(mail')
      BY <2>6 DEF Mailed
    <2>. QED BY <1>0, <2>1, <2>4, <2>5, <2>6, <2>7, WorkerBasic DEF KeepsAll
  <1>6. ASSUME NEW a \in Messages \cup {Nobody}, ReadEvent(a)
        PROVE  Basic' /\ c.orphans \subseteq c'.orphans
    <2>. DEFINE up == (link = "up")
    <2>1. /\ is_active_request(c) /\ Readable(a) /\ up \in BOOLEAN
          /\ UNCHANGED <<pc, mail, conn, proc, link, server, smail, lost>>
      BY <1>6 DEF ReadEvent
    <2>2. PICK q \in on_read(c, a, up) : Becomes(q)
      BY <1>6 DEF ReadEvent
    <2>. HIDE DEF up
    <2>3. Keeps(c, q)
      BY <1>0, <2>1, <2>2, OnReadKeeps
    <2>4. KeepsAll /\ c' \in ClientType /\ c'.written = <<>> /\ toServer' \in Seq(Messages)
      BY <2>1, <2>2, <2>3, BecameBasic
    <2>5. toClient' \in Seq(Messages)
      BY <2>1, ReadType
    <2>. QED BY <1>0, <2>1, <2>4, <2>5, WorkerBasic DEF Mailed, KeepsAll
  <1>7. ASSUME NEW a \in Messages \cup {Nobody}, HangUp(a)
        PROVE  Basic' /\ c.orphans \subseteq c'.orphans
    <2>1. /\ conn' = "closed" /\ push_command("RemoveConnection", 0)
          /\ UNCHANGED <<pc, link, toServer, server, smail>>
      BY <1>7 DEF HangUp
    <2>2. PICK q : Keeps(c, q) /\ ResetProcess(q)
      <3>1. CASE is_active_request(c) /\ \E p \in on_read(c, a, FALSE) : ResetProcess(p)
        <4>1. PICK p \in on_read(c, a, FALSE) : ResetProcess(p)
          BY <3>1
        <4>2. Keeps(c, p)
          BY <1>0, <3>1, OnReadKeeps
        <4>. QED BY <4>1, <4>2
      <3>2. CASE ResetProcess(c)
        BY <1>a, <3>2
      <3>. QED BY <1>7, <3>1, <3>2 DEF HangUp
    <2>3. /\ KeepsAll /\ c' \in ClientType /\ c'.written = <<>> /\ lost' \subseteq Requests
          /\ proc' \in BOOLEAN
      BY <2>2, ResetBasic
    <2>4. mail' \in Seq(Commands) /\ Range(mail) \subseteq Range(mail')
      BY <1>0, <2>1, PushedRemove
    <2>5. toClient' \in Seq(Messages)
      <3>1. Readable(a) \/ toClient' = toClient
        BY <1>7 DEF HangUp
      <3>. QED BY <1>0, <3>1, ReadType
    <2>. QED BY <1>0, <2>1, <2>3, <2>4, <2>5, WorkerBasic DEF Mailed, KeepsAll
  <1>8. CASE WriteEvent
    <2>1. UNCHANGED <<pc, mail, conn, proc, link, toClient, server, smail, lost>>
      BY <1>8 DEF WriteEvent
    <2>2. PICK q \in on_write(c, TRUE) : Becomes(q)
      BY <1>8 DEF WriteEvent
    <2>3. Keeps(c, q)
      BY <1>0, OnWriteKeeps
    <2>4. KeepsAll /\ c' \in ClientType /\ c'.written = <<>> /\ toServer' \in Seq(Messages)
      BY <2>1, <2>2, <2>3, BecameBasic
    <2>. QED BY <1>0, <2>1, <2>4, WorkerBasic DEF Mailed, KeepsAll
  <1>. QED BY <1>1, <1>2, <1>3, <1>4, <1>5, <1>6, <1>7, <1>8 DEF Worker

---------------------------------------------------------------------------
(* The server changes what is on its way only.                             *)

LEMMA ServerBasic ==
  ASSUME Basic, ServerKeeps, server' \in ServerType, toServer' \in Seq(Messages),
         server'.task # "none" => server'.request \in Messages,
         toClient' \in Seq(Messages), smail' \in Seq({"TaskDone"})
  PROVE  Basic' /\ c' = c
  <1>1. UNCHANGED <<pc, mail, conn, proc, link, c, lost>>
    BY DEF ServerKeeps
  <1>2. TypeOK'
    BY <1>1 DEF Basic, TypeOK
  <1>3. \A r \in Requests : Somewhere(r)'
    BY <1>1 DEF Basic, Somewhere, Mailed, ready, Carries
  <1>. QED BY <1>1, <1>2, <1>3 DEF Basic

LEMMA ServerKeepsBasic ==
  ASSUME Basic, ServerWorker \/ Task
  PROVE  Basic' /\ c' = c
  <1>0. /\ server \in ServerType /\ toServer \in Seq(Messages) /\ toClient \in Seq(Messages)
        /\ smail \in Seq({"TaskDone"}) /\ <<>> \in Seq(Messages)
        /\ server.task # "none" => server.request \in Messages
    BY EmptySeq DEF Basic, TypeOK
  <1>1. ASSUME NEW written \in BOOLEAN, emplace_task(written)
        PROVE  Basic' /\ c' = c
    <2>1. /\ ServerKeeps /\ toServer # <<>> /\ toServer' = Tail(toServer) /\ smail' = smail
          /\ \/ server' = [server EXCEPT !.request = Head(toServer), !.old = server.task,
                                         !.task = "done", !.unsent = server.unsent \/ ~written]
             \/ server' = [server EXCEPT !.request = Head(toServer), !.old = server.task,
                                         !.task = "running"]
          /\ toClient' = Append(toClient, Head(toServer)) \/ toClient' = toClient
      BY <1>1 DEF emplace_task, Answers
    <2>2. Tail(toServer) \in Seq(Messages) /\ Head(toServer) \in Messages
      BY <1>0, <2>1, RangeTail
    <2>3. server' \in ServerType /\ server'.request \in Messages
      BY <1>0, <2>1, <2>2 DEF ServerType, TaskStates
    <2>a. Append(toClient, Head(toServer)) \in Seq(Messages)
      BY <1>0, <2>2, AppendProperties
    <2>4. toClient' \in Seq(Messages)
      BY <1>0, <2>1, <2>a
    <2>. QED BY <1>0, <2>1, <2>2, <2>3, <2>4, ServerBasic
  <1>2. ASSUME NEW t \in {"task", "old"}, TaskReturns(t) \/ TaskCallback(t)
        PROVE  Basic' /\ c' = c
    <2>1. /\ ServerKeeps /\ toServer' = toServer /\ toClient' = toClient
          /\ smail' = smail \/ smail' = Append(smail, "TaskDone")
          /\ server' = [server EXCEPT ![t] = "set"] \/ server' = [server EXCEPT ![t] = "done"]
          /\ server[t] \in {"running", "set"}
      BY <1>2 DEF TaskReturns, TaskCallback
    <2>a. "TaskDone" \in {"TaskDone"}
      OBVIOUS
    <2>b. Append(smail, "TaskDone") \in Seq({"TaskDone"})
      BY <1>0, <2>a, AppendProperties
    <2>2. smail' \in Seq({"TaskDone"})
      BY <1>0, <2>1, <2>b
    <2>3. server' \in ServerType /\ server'.request = server.request
      BY <1>0, <2>1 DEF ServerType, TaskStates
    <2>4. server'.task # "none" => server.task # "none" \/ t = "task"
      BY <1>0, <2>1 DEF ServerType
    <2>5. t = "task" => server.task # "none"
      BY <2>1
    <2>. QED BY <1>0, <2>1, <2>2, <2>3, <2>4, <2>5, ServerBasic
  <1>3. ASSUME NEW written \in BOOLEAN, TaskDone(written)
        PROVE  Basic' /\ c' = c
    <2>1. /\ ServerKeeps /\ smail # <<>> /\ smail' = Tail(smail) /\ toServer' = toServer
          /\ \/ server' = server /\ toClient' = toClient
             \/ /\ server.task # "none"
                /\ server' = [server EXCEPT !.early = server.early \/ ~TaskReady,
                                            !.unsent = server.unsent \/ ~written]
                /\ toClient' = Append(toClient, server.request) \/ toClient' = toClient
      BY <1>3 DEF TaskDone, Answers
    <2>2. smail' \in Seq({"TaskDone"})
      BY <1>0, <2>1, RangeTail
    <2>a. server.task # "none" => Append(toClient, server.request) \in Seq(Messages)
      BY <1>0, AppendProperties
    <2>3. toClient' \in Seq(Messages)
      BY <1>0, <2>1, <2>a
    <2>4. (server.early \/ ~TaskReady) \in BOOLEAN /\ (server.unsent \/ ~written) \in BOOLEAN
      OBVIOUS
    <2>5. /\ server' \in ServerType /\ server'.request = server.request
          /\ server'.task = server.task
      BY <1>0, <2>1, <2>4 DEF ServerType
    <2>. QED BY <1>0, <2>1, <2>2, <2>3, <2>5, ServerBasic
  <1>4. CASE ServerHangUp
    <2>1. /\ ServerKeeps /\ server' = [server EXCEPT !.alive = FALSE, !.task = "none"]
          /\ toServer' = <<>> /\ toClient' = toClient /\ smail' = smail
      BY <1>4 DEF ServerHangUp
    <2>2. server' \in ServerType /\ server'.task = "none"
      BY <1>0, <2>1 DEF ServerType, TaskStates
    <2>. QED BY <1>0, <2>1, <2>2, ServerBasic
  <1>. QED BY <1>1, <1>2, <1>3, <1>4 DEF ServerWorker, Task

LEMMA OthersBasic ==
  ASSUME Basic, LinkBreaks \/ UNCHANGED vars
  PROVE  Basic' /\ c' = c
  <1>1. /\ UNCHANGED <<pc, mail, conn, proc, c, toServer, server, smail, lost>>
        /\ link' \in {link, "down"} /\ toClient' \in {toClient, <<>>}
    BY DEF LinkBreaks, vars
  <1>2. <<>> \in Seq(Messages)
    BY EmptySeq
  <1>3. TypeOK'
    BY <1>1, <1>2 DEF Basic, TypeOK
  <1>4. \A r \in Requests : Somewhere(r)'
    BY <1>1 DEF Basic, Somewhere, Mailed, ready, Carries
  <1>. QED BY <1>1, <1>3, <1>4 DEF Basic

(* No step forgets a request, and none takes back that a command has lied. *)
LEMMA NextBasic ==
  ASSUME Basic, [Next]_vars
  PROVE  Basic' /\ c.orphans \subseteq c'.orphans
  <1>1. CASE Caller
    BY <1>1, CallerBasic DEF CallerKeeps
  <1>2. CASE Worker \/ WriteEvent
    BY <1>2, WorkerKeepsBasic
  <1>3. CASE ServerWorker \/ Task
    BY <1>3, ServerKeepsBasic
  <1>4. CASE LinkBreaks \/ Idle \/ UNCHANGED vars
    BY <1>4, OthersBasic DEF Idle
  <1>. QED BY <1>1, <1>2, <1>3, <1>4 DEF Next

---------------------------------------------------------------------------
(* The process as long as it is sane.                                      *)

(* How a process may change while it works: it takes no request from
   elsewhere, sets only promises of its own requests, and lets a request go
   only with its promise set. *)
Rel(p, q) ==
    /\ Carries(q) \subseteq Carries(p)
    /\ \A x \in Promises : q.promise[x] = p.promise[x] \/ (x \in Carries(p) /\ ready(q, x))
    /\ \A r \in Carries(p) : r \in Carries(q) \/ ready(q, r)

LEMMA RelTransitive ==
  ASSUME NEW p \in ClientType, NEW q, NEW s, Rel(p, q), Rel(q, s)
  PROVE  Rel(p, s)
  <1>1. Carries(p) \subseteq Promises
    BY CarriesType
  <1>. QED BY <1>1 DEF Rel, ready

LEMMA RelReflexive ==
  ASSUME NEW p
  PROVE  Rel(p, p)
  BY DEF Rel

LEMMA SaneKept ==
  ASSUME NEW p, NEW q, Sane(p), Same(p, q)
  PROVE  Sane(q) /\ Rel(p, q)
  <1>1. Carries(q) = Carries(p)
    BY SameKeeps
  <1>. QED BY <1>1 DEF Sane, Same, Rel

(* The active request is gone, its promise set for the first time. *)
Ended(p, q, e) ==
    /\ q \in ClientType /\ q.active = Nobody /\ q.queue = p.queue /\ q.answer = p.answer
    /\ p.active = Nobody => q.promise = p.promise /\ q.aborted = p.aborted
    /\ p.active # Nobody /\ p.promise[p.active] = "unset" =>
           /\ q.promise = [p.promise EXCEPT ![p.active] = e]
           /\ q.aborted = p.aborted

LEMMA EndedSane ==
  ASSUME NEW p \in ClientType, Sane(p), NEW e \in {"ok", "error"}, NEW q, Ended(p, q, e),
         p.active # Nobody /\ e = "ok" => p.answer[p.active] = p.active
  PROVE  Sane(q) /\ Rel(p, q)
  <1>1. /\ q \in ClientType /\ q.active = Nobody /\ q.queue = p.queue /\ q.answer = p.answer
        /\ Carries(p) \subseteq Requests /\ Requests \subseteq Promises /\ Nobody \notin Requests
    BY CarriesType, Constants DEF Ended
  <1>2. Carries(q) = Range(p.queue) /\ Range(p.queue) \subseteq Carries(p)
    BY <1>1, CarriesType DEF Carries
  <1>3. CASE p.active = Nobody
    <2>1. q.promise = p.promise /\ q.aborted = p.aborted /\ Carries(q) = Carries(p)
      BY <1>1, <1>2, <1>3 DEF Ended, Carries
    <2>. QED BY <1>1, <1>3, <2>1 DEF Sane, Rel
  <1>4. CASE p.active # Nobody
    <2>1. p.active \in Carries(p) /\ p.promise[p.active] = "unset" /\ p.active \notin Range(p.queue)
      BY <1>4, CarriesType DEF Sane
    <2>2. q.promise = [p.promise EXCEPT ![p.active] = e] /\ q.aborted = p.aborted
      BY <1>4, <2>1 DEF Ended
    <2>3. p.promise \in [Promises -> Outcome]
      BY DEF ClientType
    <2>4. /\ q.promise[p.active] = e
          /\ \A x \in Promises : x # p.active => q.promise[x] = p.promise[x]
      BY <1>1, <2>1, <2>2, <2>3
    <2>5. Carries(p) = Range(p.queue) \cup {p.active}
      BY <1>4 DEF Carries
    <2>6. \A r \in Carries(q) : q.promise[r] = "unset"
      BY <1>1, <1>2, <2>1, <2>4, <2>5 DEF Sane
    <2>7. \A r \in Requests : q.promise[r] = "ok" => q.answer[r] = r
      BY <1>1, <1>4, <2>4 DEF Sane
    <2>8. Sane(q)
      BY <1>1, <1>2, <2>2, <2>6, <2>7 DEF Sane
    <2>9. Rel(p, q)
      BY <1>2, <2>1, <2>4, <2>5 DEF Rel, ready
    <2>. QED BY <2>8, <2>9
  <1>. QED BY <1>3, <1>4

LEMMA FatalSane ==
  ASSUME NEW p \in ClientType, Sane(p)
  PROVE  LET q == at_fatal_error(p)
         IN  /\ Good(q) /\ Rel(p, q) /\ q.active = Nobody /\ q.written = p.written
             /\ q.orphans = p.orphans
  <1>. DEFINE q == at_fatal_error(p)
  <1>1. /\ Keeps(p, q) /\ q.active = Nobody /\ q.queue = p.queue /\ q.buffer = <<>>
        /\ ~q.begun /\ q.written = p.written /\ q.orphans = p.orphans /\ q.answer = p.answer
        /\ p.active = Nobody => q.promise = p.promise /\ q.aborted = p.aborted
        /\ p.active # Nobody /\ p.promise[p.active] = "unset" =>
               /\ q.promise = [p.promise EXCEPT ![p.active] = "error"]
               /\ q.aborted = p.aborted
    BY Fatal
  <1>. HIDE DEF q
  <1>2. Ended(p, q, "error")
    BY <1>1 DEF Ended, Keeps
  <1>3. Sane(q) /\ Rel(p, q)
    BY <1>2, EndedSane
  <1>. QED BY <1>1, <1>3 DEF Good, Fits, Keeps, q

(* The answer to the active request. *)
LEMMA Answered ==
  ASSUME NEW p, Good(p), Sent(p)
  PROVE  LET q == complete_current_request([p EXCEPT !.answer[p.active] = p.active], "ok")
         IN  /\ Good(q) /\ Rel(p, q) /\ q.active = Nobody /\ q.cut = p.cut
             /\ q.written = p.written /\ q.orphans = p.orphans
  <1>. DEFINE s == [p EXCEPT !.answer[p.active] = p.active]
              q == complete_current_request(s, "ok")
  <1>1. /\ p \in ClientType /\ Sane(p) /\ p.active # Nobody /\ p.active \in Requests
        /\ p.active \in Messages /\ p.buffer = <<>>
    BY Constants DEF Good, Sent, ClientType
  <1>2. ~p.begun
    BY <1>1, OneElement DEF Good, Fits
  <1>3. /\ Keeps(p, s) /\ Carries(s) = Carries(p)
        /\ s.queue = p.queue /\ s.active = p.active /\ s.buffer = p.buffer
        /\ s.begun = p.begun /\ s.cut = p.cut /\ s.written = p.written
        /\ s.promise = p.promise /\ s.orphans = p.orphans /\ s.aborted = p.aborted
        /\ s.answer = [p.answer EXCEPT ![p.active] = p.active]
    BY <1>1, Answer
  <1>4. s \in ClientType
    BY <1>3 DEF Keeps
  <1>. HIDE DEF s
  <1>5. p.answer \in [Requests -> Messages \cup {Nobody}]
    BY <1>1 DEF ClientType
  <1>6. /\ s.answer[s.active] = s.active
        /\ \A r \in Requests : r # p.active => s.answer[r] = p.answer[r]
    BY <1>1, <1>3, <1>5
  <1>7. Sane(s)
    BY <1>1, <1>3, <1>6 DEF Sane
  <1>8. /\ Keeps(s, q) /\ q.active = Nobody /\ q.queue = s.queue /\ q.buffer = s.buffer
        /\ q.begun = s.begun /\ q.cut = s.cut /\ q.written = s.written
        /\ q.orphans = s.orphans /\ q.answer = s.answer
        /\ s.active = Nobody => q.promise = s.promise /\ q.aborted = s.aborted
        /\ s.active # Nobody /\ s.promise[s.active] = "unset" =>
               /\ q.promise = [s.promise EXCEPT ![s.active] = "ok"]
               /\ q.aborted = s.aborted
    BY <1>4, Completes
  <1>. HIDE DEF q
  <1>9. Ended(s, q, "ok")
    BY <1>8 DEF Ended, Keeps
  <1>10. Sane(q) /\ Rel(s, q)
    BY <1>4, <1>6, <1>7, <1>9, EndedSane
  <1>11. Rel(p, q)
    BY <1>3, <1>10 DEF Rel
  <1>12. Good(q)
    BY <1>1, <1>2, <1>3, <1>8, <1>10 DEF Good, Fits, Keeps
  <1>. QED BY <1>3, <1>8, <1>11, <1>12 DEF q, s

(* What a write of the active request does: it stays, or it leaves the buffer
   for nothing, or it goes whole. *)
Wrote(p, q, up) ==
    /\ Same(p, q) /\ (q.err = "hard" <=> ~up)
    /\ \/ up /\ q.buffer = p.buffer /\ q.cut = p.cut /\ q.written = p.written
       \/ q.buffer = <<>> /\ ~q.begun /\ q.written = p.written
       \/ /\ up /\ q.buffer = <<>> /\ ~q.begun /\ ~q.cut /\ q.out = "off"
          /\ q.written = Append(p.written, p.active)

LEMMA WritesOne ==
  ASSUME NEW p \in ClientType, p.active # Nobody, p.buffer = <<p.active>>, NEW up \in BOOLEAN,
         up => ~p.cut, NEW q \in SendInternal(p, up)
  PROVE  Wrote(p, q, up)
  <1>1. Same(p, q)
    BY Sends
  <1>a. p.active \in Requests /\ p.written \in Seq(Messages) /\ p.active \in Messages
    BY Constants DEF ClientType
  <1>b. \A x \in Requests : /\ Len(<<x>>) = 1 /\ <<x>>[1] = x /\ SubSeq(<<x>>, 1, 1) = <<x>>
                            /\ SubSeq(<<x>>, 2, 1) = <<>>
    <2>1. ASSUME NEW x \in Requests
          PROVE  Len(<<x>>) = 1 /\ <<x>>[1] = x
      OBVIOUS
    <2>2. ASSUME NEW x \in Requests
          PROVE  SubSeq(<<x>>, 1, 1) = <<x>>
      <3>1. <<x>> \in Seq(Requests)
        OBVIOUS
      <3>2. SubSeq(<<x>>, 1, Len(<<x>>)) = <<x>>
        BY <3>1, SubSeqFull
      <3>. QED BY <2>1, <3>2
    <2>3. ASSUME NEW x \in Requests
          PROVE  SubSeq(<<x>>, 2, 1) = <<>>
      OBVIOUS
    <2>. QED BY <2>1, <2>2, <2>3
  <1>2. /\ p.active \in Requests /\ Len(p.buffer) = 1 /\ p.buffer[1] = p.active
        /\ SubSeq(p.buffer, 1, 1) = p.buffer /\ SubSeq(p.buffer, 2, 1) = <<>>
        /\ p.written \in Seq(Messages) /\ p.active \in Messages
    BY <1>a, <1>b
  <1>3. CASE ~up
    <2>1. q = [p EXCEPT !.buffer = <<>>, !.begun = FALSE, !.err = "hard", !.out = "deaf"]
      BY <1>3 DEF SendInternal, Breaks
    <2>2. q.buffer = <<>> /\ ~q.begun /\ q.err = "hard" /\ q.written = p.written
      BY <2>1 DEF ClientType
    <2>. QED BY <1>1, <1>3, <2>2 DEF Wrote
  <1>4. CASE up
    <2>1. ASSUME q = Blocks(p) \/ q = Refused(p)
          PROVE  Wrote(p, q, up)
      <3>1. CASE q = Blocks(p)
        <4>1. q.buffer = <<>> /\ ~q.begun /\ q.err = "none" /\ q.written = p.written
          BY <3>1 DEF Blocks, ClientType
        <4>. QED BY <1>1, <1>4, <4>1 DEF Wrote
      <3>2. CASE q = Refused(p)
        <4>1. /\ q.buffer = p.buffer /\ q.cut = p.cut /\ q.err = "nobufs"
              /\ q.written = p.written
          BY <3>2 DEF Refused, ClientType
        <4>. QED BY <1>1, <1>4, <4>1 DEF Wrote
      <3>. QED BY <2>1, <3>1, <3>2
    <2>2. ASSUME NEW b \in BOOLEAN, q = Takes(p, 0, b)
          PROVE  Wrote(p, q, up)
      <3>1. SubSeq(p.buffer, 0 + 1, Len(p.buffer)) = p.buffer
        BY <1>2
      <3>2. [i \in 1..0 |-> AsRead(p, p.buffer[i])] = <<>>
        OBVIOUS
      <3>3. p.written \o <<>> = p.written
        BY <1>2, ConcatEmptySeq
      <3>4. q = [p EXCEPT !.buffer = p.buffer, !.begun = b, !.err = "none",
                          !.out = IF p.buffer = <<>> THEN "off" ELSE Armed(p),
                          !.written = p.written]
        BY <2>2, <3>1, <3>2, <3>3 DEF Takes, ClientType
      <3>5. q.buffer = p.buffer /\ q.cut = p.cut /\ q.err = "none" /\ q.written = p.written
        BY <3>4 DEF ClientType
      <3>. QED BY <1>1, <1>4, <3>5 DEF Wrote
    <2>3. ASSUME q = Takes(p, 1, FALSE)
          PROVE  Wrote(p, q, up)
      <3>1. SubSeq(p.buffer, 1 + 1, Len(p.buffer)) = <<>>
        BY <1>2
      <3>2. [i \in 1..1 |-> AsRead(p, p.buffer[i])] = <<p.active>>
        <4>1. AsRead(p, p.buffer[1]) = p.active
          BY <1>2, <1>4 DEF AsRead
        <4>. QED BY <4>1
      <3>3. p.written \o <<p.active>> = Append(p.written, p.active)
        BY <1>2
      <3>4. q = [p EXCEPT !.buffer = <<>>, !.begun = FALSE, !.err = "none", !.out = "off",
                          !.written = Append(p.written, p.active)]
        BY <2>3, <3>1, <3>2, <3>3 DEF Takes, ClientType
      <3>5. /\ q.buffer = <<>> /\ ~q.begun /\ q.cut = p.cut /\ q.err = "none"
            /\ q.out = "off" /\ q.written = Append(p.written, p.active)
        BY <3>4 DEF ClientType
      <3>. QED BY <1>1, <1>4, <3>5 DEF Wrote
    <2>4. \/ \E b \in BOOLEAN : q = Takes(p, 0, b)
          \/ q = Takes(p, 1, FALSE)
          \/ q = Blocks(p) \/ q = Refused(p)
      <3>1. \/ \E n \in 0..1 : q = Takes(p, n, n < 1)
            \/ \E n \in 1..1 : q = Takes(p, n, FALSE)
            \/ q = Blocks(p) \/ q = Refused(p)
        BY <1>2, <1>4 DEF SendInternal
      <3>2. ASSUME NEW n \in 0..1, q = Takes(p, n, n < 1)
            PROVE  q = Takes(p, 0, TRUE) \/ q = Takes(p, 1, FALSE)
        <4>. DEFINE b == n < 1
        <4>1. (n = 0 /\ b = TRUE) \/ (n = 1 /\ b = FALSE)
          OBVIOUS
        <4>2. q = Takes(p, n, b)
          BY <3>2
        <4>. HIDE DEF b
        <4>. QED BY <4>1, <4>2
      <3>3. ASSUME NEW n \in 1..1, q = Takes(p, n, FALSE)
            PROVE  q = Takes(p, 1, FALSE)
        <4>1. n = 1
          OBVIOUS
        <4>. QED BY <3>3, <4>1
      <3>. QED BY <3>1, <3>2, <3>3
    <2>. QED BY <2>1, <2>2, <2>3, <2>4
  <1>. QED BY <1>3, <1>4

(* A process that has nothing to send has nothing in the buffer. *)
LEMMA FitsNobody ==
  ASSUME NEW p \in ClientType, Fits(p), p.active = Nobody
  PROVE  p.buffer = <<>> /\ ~p.begun
  BY DEF Fits

(* A process whose buffer has the active request. *)
LEMMA FitsSome ==
  ASSUME NEW p \in ClientType, Fits(p), p.buffer # <<>>
  PROVE  p.active # Nobody /\ p.buffer = <<p.active>>
  BY DEF Fits

(* After a write the process is as good as before. *)
LEMMA WroteGood ==
  ASSUME NEW p, Sane(p), p.active # Nobody, p.buffer = <<p.active>>, NEW up \in BOOLEAN,
         up => ~p.cut, NEW q, Wrote(p, q, up)
  PROVE  /\ Good(q) /\ Rel(p, q) /\ (up => Whole(q))
         /\ \/ q.written = p.written
            \/ up /\ q.written = Append(p.written, p.active) /\ Sent(q) /\ ~q.cut /\ q.out = "off"
  <1>1. Sane(q) /\ Rel(p, q)
    BY SaneKept DEF Wrote
  <1>2. q \in ClientType /\ q.active = p.active
    BY DEF Wrote, Same
  <1>3. Fits(q)
    BY <1>2 DEF Wrote, Fits
  <1>4. up => Whole(q)
    BY <1>2 DEF Wrote, Whole, Sent
  <1>5. \/ q.written = p.written
        \/ up /\ q.written = Append(p.written, p.active) /\ Sent(q) /\ ~q.cut /\ q.out = "off"
    BY <1>2 DEF Wrote, Sent
  <1>. QED BY <1>1, <1>2, <1>3, <1>4, <1>5 DEF Good

(* next_request takes the head of the queue when nothing is active. *)
LEMMA NextGood ==
  ASSUME NEW p, Good(p), HasNext(p)
  PROVE  LET q == next_request(p)
         IN  /\ p.active = Nobody /\ q \in ClientType /\ Sane(q) /\ Rel(p, q) /\ q.active # Nobody
             /\ q.buffer = <<>> /\ q.cut = p.cut /\ q.written = p.written /\ q.orphans = p.orphans
  <1>. DEFINE q == next_request(p)
  <1>1. /\ p \in ClientType /\ Sane(p) /\ Fits(p) /\ p.queue \in Seq(Requests)
        /\ Nobody \notin Requests
    BY Constants DEF Good, ClientType
  <1>2. p.active = Nobody /\ p.queue # <<>>
    <2>1. p.active # Nobody => p.promise[p.active] = "unset"
      BY <1>1, CarriesType DEF Sane
    <2>. QED BY <2>1 DEF HasNext, is_active_request, ready
  <1>3. /\ Keeps(p, q) /\ q.active # Nobody /\ q.buffer = p.buffer
        /\ q.cut = p.cut /\ q.written = p.written
        /\ q.orphans = p.orphans /\ q.answer = p.answer /\ q.promise = p.promise
        /\ q.aborted = p.aborted /\ q.active = Head(p.queue) /\ q.queue = Tail(p.queue)
    BY <1>1, <1>2, Next_request
  <1>. HIDE DEF q
  <1>4. p.buffer = <<>>
    BY <1>1, <1>2, FitsNobody
  <1>5. /\ Range(p.queue) = Range(Tail(p.queue)) \cup {Head(p.queue)} /\ Head(p.queue) \in Requests
    BY <1>1, <1>2, RangeTail
  <1>6. /\ \A r \in Requests : Once(p.queue, r) => Once(Tail(p.queue), r)
        /\ Once(p.queue, Head(p.queue)) => Head(p.queue) \notin Range(Tail(p.queue))
    BY <1>1, <1>2, OnceTail
  <1>7. /\ \A r \in Requests : Once(Tail(p.queue), r)
        /\ Head(p.queue) \notin Range(Tail(p.queue))
    BY <1>1, <1>5, <1>6 DEF Sane
  <1>8. Carries(q) = Carries(p)
    BY <1>1, <1>2, <1>3, <1>5 DEF Carries
  <1>9. Sane(q)
    BY <1>1, <1>3, <1>7, <1>8 DEF Sane
  <1>10. Rel(p, q)
    BY <1>3, <1>8 DEF Rel
  <1>. QED BY <1>2, <1>3, <1>4, <1>9, <1>10 DEF q, Keeps

(* What calls of on_write do: a process whose request is on its way is left
   alone, requests are not left queued on a link that is up, and at most one
   request is written, the active one. *)
Worked(p, q, up) ==
    /\ Good(q) /\ Rel(p, q) /\ q.orphans = p.orphans
    /\ up => Whole(q) /\ (q.queue # <<>> => q.active # Nobody)
    /\ Sent(p) => /\ q.active = p.active /\ q.buffer = p.buffer /\ q.cut = p.cut
                  /\ q.out = p.out /\ q.written = p.written
    /\ \/ q.written = p.written
       \/ /\ up /\ ~Sent(p) /\ q.written = Append(p.written, q.active)
          /\ Sent(q) /\ ~q.cut /\ q.out = "off"

(* The next request of a process that has nothing active is sent. *)
LEMMA NextSent ==
  ASSUME NEW t, Good(t), NEW up \in BOOLEAN, up => Whole(t), t.err # "hard", HasNext(t),
         NEW q \in SendNext(t, up)
  PROVE  Worked(t, q, up)
  <1>. DEFINE n == next_request(t)
              m == [n EXCEPT !.buffer = Append(@, n.active)]
  <1>1. PICK u \in SendInternal(m, up) : q = handle_sending_error(u)
    BY DEF SendNext, send
  <1>2. /\ t.active = Nobody /\ n \in ClientType /\ Sane(n) /\ Rel(t, n) /\ n.active # Nobody
        /\ n.buffer = <<>> /\ n.cut = t.cut /\ n.written = t.written /\ n.orphans = t.orphans
    BY NextGood
  <1>3. up => ~t.cut
    BY <1>2 DEF Whole, Sent
  <1>. HIDE DEF n
  <1>4. n.active \in Requests
    BY <1>2 DEF ClientType
  <1>5. /\ Same(n, m) /\ m.buffer = Append(n.buffer, n.active)
        /\ m.cut = n.cut /\ m.written = n.written
    BY <1>2, Buffered
  <1>. HIDE DEF m
  <1>6. /\ m \in ClientType /\ m.active = n.active /\ m.orphans = n.orphans
        /\ m.buffer = <<m.active>>
    BY <1>2, <1>4, <1>5, OneElement DEF Same
  <1>7. Sane(m) /\ Rel(n, m)
    BY <1>2, <1>5, SaneKept
  <1>8. Wrote(m, u, up)
    BY <1>1, <1>2, <1>3, <1>5, <1>6, WritesOne
  <1>9. /\ Good(u) /\ Rel(m, u) /\ (up => Whole(u))
        /\ \/ u.written = m.written
           \/ up /\ u.written = Append(m.written, m.active) /\ Sent(u) /\ ~u.cut /\ u.out = "off"
    BY <1>2, <1>3, <1>5, <1>6, <1>7, <1>8, WroteGood
  <1>10. /\ u \in ClientType /\ u.active = m.active /\ u.orphans = m.orphans
         /\ (u.err = "hard" <=> ~up)
    BY <1>8 DEF Wrote, Same
  <1>11. Rel(t, u)
    <2>1. t \in ClientType
      BY DEF Good
    <2>2. Rel(n, u)
      BY <1>2, <1>7, <1>9, RelTransitive
    <2>. QED BY <1>2, <2>1, <2>2, RelTransitive
  <1>12. CASE ~up
    <2>1. q = at_fatal_error(u)
      BY <1>1, <1>10, <1>12 DEF handle_sending_error
    <2>2. /\ Good(q) /\ Rel(u, q) /\ q.written = u.written /\ q.orphans = u.orphans
      BY <1>9, <1>10, <2>1, FatalSane DEF Good
    <2>3. Rel(t, q)
      BY <1>11, <2>2, RelTransitive DEF Good
    <2>. QED BY <1>2, <1>5, <1>6, <1>9, <1>10, <1>12, <2>2, <2>3 DEF Worked, Sent
  <1>13. CASE up
    <2>1. q = [u EXCEPT !.err = "none"]
      BY <1>1, <1>10, <1>13 DEF handle_sending_error
    <2>2. /\ Same(u, q) /\ q.buffer = u.buffer /\ q.begun = u.begun /\ q.cut = u.cut
          /\ q.written = u.written /\ q.out = u.out
      BY <1>10, <2>1, Errors DEF ClientType
    <2>3. Sane(q) /\ Rel(u, q)
      BY <1>9, <2>2, SaneKept DEF Good
    <2>4. q \in ClientType /\ q.active = u.active /\ q.orphans = u.orphans
      BY <2>2 DEF Same
    <2>5. Good(q) /\ Whole(q) /\ (Sent(u) => Sent(q))
      BY <1>9, <1>13, <2>2, <2>3, <2>4 DEF Good, Fits, Whole, Sent
    <2>6. Rel(t, q)
      BY <1>11, <2>3, RelTransitive DEF Good
    <2>7. q.active # Nobody /\ q.orphans = t.orphans /\ ~Sent(t)
      BY <1>2, <1>5, <1>6, <1>10, <2>4 DEF Sent
    <2>8. \/ q.written = t.written
          \/ up /\ q.written = Append(t.written, q.active) /\ Sent(q) /\ ~q.cut /\ q.out = "off"
      BY <1>2, <1>5, <1>6, <1>9, <1>10, <2>2, <2>4, <2>5
    <2>. QED BY <2>5, <2>6, <2>7, <2>8 DEF Worked
  <1>. QED BY <1>12, <1>13

LEMMA SendNextWorked ==
  ASSUME NEW t, Good(t), NEW up \in BOOLEAN, up => Whole(t), t.err = "hard" => ~up /\ ~Sent(t),
         NEW q \in SendNext(t, up)
  PROVE  Worked(t, q, up)
  <1>1. CASE t.err = "hard"
    <2>1. q = at_fatal_error(t)
      BY <1>1 DEF SendNext
    <2>2. /\ Good(q) /\ Rel(t, q) /\ q.written = t.written /\ q.orphans = t.orphans
      BY <2>1, FatalSane DEF Good
    <2>. QED BY <1>1, <2>2 DEF Worked
  <1>2. CASE t.err # "hard" /\ HasNext(t)
    BY <1>2, NextSent
  <1>3. CASE t.err # "hard" /\ ~HasNext(t)
    <2>1. q = t
      BY <1>3 DEF SendNext
    <2>2. t.queue # <<>> => t.active # Nobody
      BY <1>3 DEF HasNext, is_active_request
    <2>. QED BY <2>1, <2>2, RelReflexive DEF Worked
  <1>. QED BY <1>1, <1>2, <1>3

(* Nothing is in the buffer: on_write sends the next request, if any. *)
LEMMA OnWriteEmpty ==
  ASSUME NEW p, Good(p), p.buffer = <<>>, NEW up \in BOOLEAN, up => Whole(p),
         NEW q \in on_write(p, up)
  PROVE  Worked(p, q, up)
  <1>. DEFINE t == [p EXCEPT !.err = "none"]
  <1>1. /\ Same(p, t) /\ t.err = "none" /\ t.buffer = p.buffer /\ t.begun = p.begun
        /\ t.cut = p.cut /\ t.written = p.written /\ t.out = p.out
    BY Errors DEF Good, ClientType
  <1>2. PICK s \in send_rest(t, up) : q \in SendNext(s, up)
    BY DEF on_write
  <1>. HIDE DEF t
  <1>3. s = t
    BY <1>1, <1>2 DEF send_rest
  <1>4. Sane(t) /\ Rel(p, t) /\ t \in ClientType
    BY <1>1, SaneKept DEF Good, Same
  <1>5. /\ t.queue = p.queue /\ t.active = p.active /\ t.orphans = p.orphans
        /\ (Sent(t) <=> Sent(p))
    BY <1>1 DEF Same, Sent
  <1>6. Good(t) /\ (up => Whole(t))
    BY <1>1, <1>4, <1>5 DEF Good, Fits, Whole
  <1>7. Worked(t, q, up)
    BY <1>1, <1>2, <1>3, <1>6, SendNextWorked
  <1>8. Rel(p, q)
    BY <1>4, <1>7, RelTransitive DEF Worked, Good
  <1>. QED BY <1>1, <1>5, <1>7, <1>8 DEF Worked

(* The active request is in the buffer: on_write writes it. *)
LEMMA OnWriteFull ==
  ASSUME NEW p, Good(p), p.buffer # <<>>, NEW up \in BOOLEAN, up => Whole(p),
         NEW q \in on_write(p, up)
  PROVE  Worked(p, q, up)
  <1>. DEFINE t == [p EXCEPT !.err = "none"]
  <1>0. /\ p \in ClientType /\ Sane(p) /\ p.active # Nobody /\ p.buffer = <<p.active>>
        /\ ~Sent(p) /\ (up => ~p.cut)
    BY FitsSome DEF Good, Sent, Whole
  <1>1. /\ Same(p, t) /\ t.buffer = p.buffer /\ t.cut = p.cut /\ t.written = p.written
    BY <1>0, Errors
  <1>2. PICK s \in send_rest(t, up) : q \in SendNext(s, up)
    BY DEF on_write
  <1>. HIDE DEF t
  <1>3. s \in SendInternal(t, up)
    BY <1>1, <1>2 DEF send_rest
  <1>4. Sane(t) /\ Rel(p, t) /\ t \in ClientType /\ t.active = p.active /\ t.orphans = p.orphans
    BY <1>0, <1>1, SaneKept DEF Same
  <1>5. Wrote(t, s, up)
    BY <1>0, <1>1, <1>3, <1>4, WritesOne
  <1>6. /\ Good(s) /\ Rel(t, s) /\ (up => Whole(s))
        /\ \/ s.written = t.written
           \/ up /\ s.written = Append(t.written, t.active) /\ Sent(s) /\ ~s.cut /\ s.out = "off"
    BY <1>0, <1>1, <1>4, <1>5, WroteGood
  <1>7. s \in ClientType /\ s.active = p.active /\ s.orphans = p.orphans /\ (s.err = "hard" <=> ~up)
    BY <1>4, <1>5 DEF Wrote, Same
  <1>8. Rel(p, s)
    BY <1>0, <1>4, <1>6, RelTransitive
  <1>9. CASE ~up
    <2>1. q = at_fatal_error(s)
      BY <1>2, <1>7, <1>9 DEF SendNext
    <2>2. /\ Good(q) /\ Rel(s, q) /\ q.written = s.written /\ q.orphans = s.orphans
      BY <1>6, <2>1, FatalSane DEF Good
    <2>3. Rel(p, q)
      BY <1>0, <1>8, <2>2, RelTransitive
    <2>. QED BY <1>0, <1>1, <1>6, <1>7, <1>9, <2>2, <2>3 DEF Worked
  <1>10. CASE up
    <2>1. ~HasNext(s)
      <3>1. s.active \in Carries(s) /\ s.promise[s.active] = "unset"
        BY <1>0, <1>6, <1>7, CarriesType DEF Good, Sane
      <3>. QED BY <1>0, <1>7, <3>1 DEF HasNext, is_active_request, ready
    <2>2. q = s
      BY <1>2, <1>7, <1>10, <2>1 DEF SendNext
    <2>. QED BY <1>0, <1>1, <1>4, <1>6, <1>7, <1>8, <2>2 DEF Worked
  <1>. QED BY <1>9, <1>10

LEMMA OnWrite ==
  ASSUME NEW p, Good(p), NEW up \in BOOLEAN, up => Whole(p), NEW q \in on_write(p, up)
  PROVE  Worked(p, q, up)
  BY OnWriteEmpty, OnWriteFull

LEMMA WorkedTwice ==
  ASSUME NEW p, Good(p), NEW up \in BOOLEAN, NEW q, NEW s, Worked(p, q, up), Worked(q, s, up)
  PROVE  Worked(p, s, up)
  <1>1. Rel(p, s)
    BY RelTransitive DEF Worked, Good
  <1>2. /\ Good(s) /\ s.orphans = p.orphans
        /\ up => Whole(s) /\ (s.queue # <<>> => s.active # Nobody)
    BY DEF Worked
  <1>3. Sent(p) => Sent(q)
    BY DEF Worked, Sent
  <1>4. Sent(p) => /\ s.active = p.active /\ s.buffer = p.buffer /\ s.cut = p.cut
                   /\ s.out = p.out /\ s.written = p.written
    BY <1>3 DEF Worked
  <1>5. CASE q.written = p.written
    BY <1>1, <1>2, <1>3, <1>4, <1>5 DEF Worked
  <1>6. CASE /\ up /\ ~Sent(p) /\ q.written = Append(p.written, q.active)
             /\ Sent(q) /\ ~q.cut /\ q.out = "off"
    <2>1. /\ s.active = q.active /\ s.buffer = q.buffer /\ ~s.cut
          /\ s.out = "off" /\ s.written = Append(p.written, s.active)
      BY <1>6 DEF Worked
    <2>2. Sent(s)
      BY <1>6, <2>1 DEF Sent
    <2>. QED BY <1>1, <1>2, <1>6, <2>1, <2>2 DEF Worked
  <1>. QED BY <1>5, <1>6 DEF Worked

LEMMA OnWriteTwice ==
  ASSUME NEW p, Good(p), NEW up \in BOOLEAN, up => Whole(p), NEW s \in on_write_Twice(p, up)
  PROVE  Worked(p, s, up)
  <1>1. PICK q \in on_write(p, up) : s \in on_write(q, up)
    BY DEF on_write_Twice
  <1>2. Worked(p, q, up)
    BY <1>1, OnWrite
  <1>3. Good(q) /\ (up => Whole(q))
    BY <1>2 DEF Worked
  <1>4. Worked(q, s, up)
    BY <1>1, <1>3, OnWrite
  <1>. QED BY <1>2, <1>4, WorkedTwice

(* A request that nobody has and nobody answered can be queued. *)
LEMMA Queued ==
  ASSUME NEW p, Good(p), NEW r \in Requests, p.promise[r] = "unset", r \notin Carries(p)
  PROVE  LET q == [p EXCEPT !.queue = Append(@, r)]
         IN  /\ Good(q) /\ Carries(q) = Carries(p) \cup {r} /\ q.promise = p.promise
             /\ q.active = p.active /\ q.buffer = p.buffer /\ q.cut = p.cut /\ q.out = p.out
             /\ q.written = p.written /\ q.orphans = p.orphans
  <1>. DEFINE q == [p EXCEPT !.queue = Append(@, r)]
  <1>1. p \in ClientType /\ p.queue \in Seq(Requests) /\ Sane(p) /\ Fits(p)
    BY DEF Good, ClientType
  <1>2. /\ Keeps(p, q) /\ Carries(q) = Carries(p) \cup {r}
        /\ q.queue = Append(p.queue, r) /\ q.active = p.active /\ q.buffer = p.buffer
        /\ q.begun = p.begun /\ q.cut = p.cut /\ q.err = p.err /\ q.written = p.written
        /\ q.promise = p.promise /\ q.answer = p.answer /\ q.orphans = p.orphans
        /\ q.aborted = p.aborted
    BY <1>1, Pushed
  <1>3. q.out = p.out
    BY <1>1 DEF ClientType
  <1>. HIDE DEF q
  <1>4. r \notin Range(p.queue) /\ r # p.active
    BY <1>1, CarriesType, Constants DEF Carries
  <1>5. /\ Range(Append(p.queue, r)) = Range(p.queue) \cup {r}
        /\ \A x \in Requests : Once(p.queue, x) => Once(Append(p.queue, r), x)
    BY <1>1, <1>4, RangeAppend, OnceAppend
  <1>6. Sane(q)
    BY <1>1, <1>2, <1>4, <1>5 DEF Sane
  <1>7. Good(q)
    BY <1>1, <1>2, <1>6 DEF Good, Fits, Keeps
  <1>. QED BY <1>2, <1>3, <1>7 DEF q

LEMMA OnRead ==
  ASSUME NEW p, Good(p), NEW a, NEW up \in BOOLEAN,
         a = Nobody => ~up,
         a # Nobody => a = p.active /\ Sent(p) /\ (up => ~p.cut),
         NEW q \in on_read(p, a, up)
  PROVE  /\ Good(q) /\ Rel(p, q) /\ q.orphans = p.orphans
         /\ up => Whole(q) /\ (q.queue # <<>> => q.active # Nobody)
         /\ \/ q.written = p.written
            \/ up /\ q.written = Append(p.written, q.active) /\ Sent(q) /\ ~q.cut /\ q.out = "off"
  <1>1. CASE a = Nobody
    <2>. DEFINE e == at_fatal_error(p)
    <2>1. Good(e) /\ Rel(p, e) /\ e.written = p.written /\ e.orphans = p.orphans
      BY FatalSane DEF Good
    <2>2. q \in on_write(e, up)
      BY <1>1 DEF on_read
    <2>. HIDE DEF e
    <2>3. Worked(e, q, up)
      BY <1>1, <2>1, <2>2, OnWrite
    <2>4. Rel(p, q)
      BY <2>1, <2>3, RelTransitive DEF Worked, Good
    <2>. QED BY <2>1, <2>3, <2>4 DEF Worked
  <1>2. CASE a # Nobody
    <2>. DEFINE e == complete_current_request([p EXCEPT !.answer[p.active] = p.active], "ok")
    <2>1. /\ Good(e) /\ Rel(p, e) /\ e.active = Nobody /\ e.cut = p.cut
          /\ e.written = p.written /\ e.orphans = p.orphans
      BY <1>2, Answered
    <2>2. q \in on_write_Twice(e, up)
      BY <1>2 DEF on_read
    <2>. HIDE DEF e
    <2>3. up => Whole(e)
      BY <1>2, <2>1 DEF Whole
    <2>4. Worked(e, q, up)
      BY <2>1, <2>2, <2>3, OnWriteTwice
    <2>5. Rel(p, q)
      BY <2>1, <2>4, RelTransitive DEF Worked, Good
    <2>. QED BY <2>1, <2>4, <2>5 DEF Worked
  <1>. QED BY <1>1, <1>2

---------------------------------------------------------------------------
(* The commands on their way.                                              *)

(* The connection has been asked for and the command was executed. *)
Connected == pc[1] # "start" /\ NoneOf("AddConnection")

LEMMA CommandShape ==
  ASSUME mail \in Seq(Commands), MailInv
  PROVE  /\ Range(mail) \subseteq Commands
         /\ \A x \in Range(mail) : x[1] # "RequestData" => x = <<x[1], 0>>
  <1>1. Range(mail) \subseteq Commands
    BY RangeOfSeq
  <1>2. \A x \in Commands : x = <<x[1], x[2]>>
    BY DEF Commands
  <1>. QED BY <1>1, <1>2 DEF MailInv

(* What a worker's step keeps of MailInv: it adds no command but a
   RemoveConnection, and leaves what has not been asked for alone. *)
LEMMA WorkerMail ==
  ASSUME MailInv, Connected, pc' = pc,
         \A x \in Range(mail') : x \in Range(mail) \/ x = <<"RemoveConnection", 0>>,
         \A y : y # <<"RemoveConnection", 0>> /\ Once(mail, y) => Once(mail', y),
         pc[1] \in Early \/ (\E x \in Range(mail') : x[1] = "AttachProcess")
            => ~proc' /\ ~c'.cut /\ toClient' = <<>>,
         \A r \in Requests : Unasked(r) \/ <<"RequestData", r>> \in Range(mail') =>
             c'.promise[r] = "unset" /\ r \notin Carries(c')
  PROVE  MailInv'
  <1>1. NoneOf("AddConnection")' /\ pc[1] # "start"
    BY DEF Connected, NoneOf
  <1>2. pc[1] \in Early => NoneOf("AttachProcess")'
    <2>1. pc[1] \in Early => NoneOf("AttachProcess")
      BY DEF MailInv, AttachInv
    <2>. QED BY <2>1 DEF NoneOf
  <1>3. pc[1] \in Early \/ ~NoneOf("AttachProcess")' => ~proc' /\ ~c'.cut /\ toClient' = <<>>
    BY DEF NoneOf
  <1>4. Once(mail', <<"AttachProcess", 0>>)
    BY DEF MailInv, AttachInv
  <1>5. \A x \in Range(mail') : x[1] # "RequestData" => x[2] = 0
    <2>1. \A x \in Range(mail) : x[1] # "RequestData" => x[2] = 0
      BY DEF MailInv
    <2>. QED BY <2>1
  <1>6. ASSUME NEW r \in Requests
        PROVE  /\ Once(mail', <<"RequestData", r>>)
               /\ Unasked(r)' => ~Mailed(r)'
               /\ Unasked(r)' \/ Mailed(r)' => c'.promise[r] = "unset" /\ r \notin Carries(c')
    <2>1. Once(mail', <<"RequestData", r>>)
      BY DEF MailInv, RequestInv
    <2>2. Unasked(r)' <=> Unasked(r)
      BY DEF Unasked
    <2>3. Mailed(r)' => Mailed(r)
      BY DEF Mailed
    <2>4. Unasked(r) => ~Mailed(r)
      BY DEF MailInv, RequestInv
    <2>. QED BY <2>1, <2>2, <2>3, <2>4 DEF Mailed
  <1>7. Carries(c)' = Carries(c')
    BY DEF Carries
  <1>. QED BY <1>1, <1>2, <1>3, <1>4, <1>5, <1>6, <1>7 DEF MailInv, AddInv, AttachInv, RequestInv

---------------------------------------------------------------------------
(* The caller changes pc and mail only.                                    *)

LEMMA CallerRest ==
  ASSUME Calm, CallerKeeps, MailInv'
  PROVE  Calm'
  <1>1. Good(c)' /\ ProcInv' /\ ServerInv' /\ NoneWaits'
    BY DEF Calm, CallerKeeps, ProcInv, ServerInv, NoneWaits, Whole, Sent, Good, Sane, Fits, Carries
  <1>2. Flow'
    BY DEF Calm, CallerKeeps, Flow, Quiet, Sent, InFlight
  <1>. QED BY <1>1, <1>2 DEF Calm

(* A command that is pushed once the caller has its handle. *)
LEMMA CallerMail ==
  ASSUME Basic, Calm, CallerKeeps, NEW kind \in Kinds \ {"AddConnection"}, NEW n \in 0..MaxRequests,
         push_command(kind, n),
         pc[1] \in {"handle", "calls", "stopping"}, pc'[1] \notin Early,
         kind = "AttachProcess" => pc[1] = "handle",
         IF kind = "RequestData" THEN n \in Requests /\ Unasked(n) ELSE n = 0,
         \A r \in Requests : Unasked(r)' => Unasked(r) /\ ~(kind = "RequestData" /\ n = r)
  PROVE  MailInv'
  <1>0. mail \in Seq(Commands) /\ kind \in Kinds /\ MailInv
    BY DEF Basic, TypeOK, Calm
  <1>1. /\ mail' \in Seq(Commands) /\ Range(mail') = Range(mail) \cup {<<kind, n>>}
        /\ \A y : Once(mail, y) /\ (y = <<kind, n>> => y \notin Range(mail)) => Once(mail', y)
    BY <1>0, PushedCommand
  <1>2. UNCHANGED <<conn, proc, link, c, toServer, toClient, server, smail, lost>>
    BY DEF CallerKeeps
  <1>3. AddInv'
    <2>1. NoneOf("AddConnection")
      BY <1>0 DEF MailInv, AddInv
    <2>2. NoneOf("AddConnection")'
      BY <1>1, <2>1 DEF NoneOf
    <2>. QED BY <2>2 DEF AddInv, Early
  <1>4. AttachInv'
    <2>1. AttachInv
      BY <1>0 DEF MailInv
    <2>2. CASE kind = "AttachProcess"
      <3>1. NoneOf("AttachProcess") /\ ~proc /\ ~c.cut /\ toClient = <<>>
        BY <2>1, <2>2 DEF AttachInv, Early
      <3>2. <<"AttachProcess", 0>> \notin Range(mail)
        BY <3>1 DEF NoneOf
      <3>3. Once(mail', <<"AttachProcess", 0>>)
        BY <1>1, <2>1, <3>2 DEF AttachInv
      <3>. QED BY <1>2, <3>1, <3>3 DEF AttachInv
    <2>3. CASE kind # "AttachProcess"
      <3>1. NoneOf("AttachProcess") => NoneOf("AttachProcess")'
        BY <1>1, <2>3 DEF NoneOf
      <3>2. Once(mail', <<"AttachProcess", 0>>)
        BY <1>1, <2>1, <2>3 DEF AttachInv
      <3>. QED BY <1>2, <2>1, <3>1, <3>2 DEF AttachInv
    <2>. QED BY <2>2, <2>3
  <1>5. ASSUME NEW r \in Requests PROVE RequestInv(r)'
    <2>1. RequestInv(r)
      BY <1>0 DEF MailInv
    <2>2. Carries(c)' = Carries(c)
      BY <1>2 DEF Carries
    <2>3. CASE kind = "RequestData" /\ n = r
      <3>1. Unasked(r) /\ ~Mailed(r) /\ ~Unasked(r)'
        BY <2>1, <2>3 DEF RequestInv
      <3>2. Once(mail', <<"RequestData", r>>)
        BY <1>1, <2>1, <3>1 DEF RequestInv, Mailed
      <3>. QED BY <1>2, <2>1, <2>2, <3>1, <3>2 DEF RequestInv
    <2>4. CASE ~(kind = "RequestData" /\ n = r)
      <3>1. <<kind, n>> # <<"RequestData", r>>
        BY <2>4
      <3>2. Mailed(r)' <=> Mailed(r)
        BY <1>1, <3>1 DEF Mailed
      <3>3. Once(mail', <<"RequestData", r>>)
        BY <1>1, <2>1, <3>1 DEF RequestInv
      <3>. QED BY <1>2, <2>1, <2>2, <3>2, <3>3 DEF RequestInv
    <2>. QED BY <2>3, <2>4
  <1>6. \A x \in Range(mail') : x[1] # "RequestData" => x[2] = 0
    <2>1. \A x \in Range(mail) : x[1] # "RequestData" => x[2] = 0
      BY <1>0 DEF MailInv
    <2>. QED BY <1>1, <2>1
  <1>. QED BY <1>1, <1>3, <1>4, <1>5, <1>6 DEF MailInv

LEMMA CallerStep ==
  ASSUME Basic, Calm, Caller
  PROVE  Calm'
  <1>0. /\ TypeOK /\ MailInv /\ pc \in Stages \X Nat /\ mail \in Seq(Commands)
        /\ MaxRequests \in Nat \ {0}
    BY RequestsAssumption DEF Basic, Calm, TypeOK
  <1>a. 0 \in 0..MaxRequests /\ CallerKeeps
    BY <1>0, CallerBasic
  <1>. SUFFICES MailInv'
    BY <1>a, CallerRest
  <1>1. CASE connect
    <2>1. /\ pc = <<"start", 0>> /\ pc' = <<"connecting", 0>> /\ push_command("AddConnection", 0)
          /\ CallerKeeps
      BY <1>1 DEF connect
    <2>2. mail = <<>> /\ Range(mail) = {}
      BY <1>0, <2>1, OneElement DEF MailInv, AddInv
    <2>3. "AddConnection" \in Kinds /\ 0 \in 0..MaxRequests
      BY <1>0 DEF Kinds
    <2>4. /\ mail' \in Seq(Commands) /\ Range(mail') = {<<"AddConnection", 0>>}
          /\ \A y : Once(mail, y) => Once(mail', y)
      BY <1>0, <2>1, <2>2, <2>3, PushedCommand
    <2>6. AddInv'
      <3>1. /\ conn = "none" /\ link = "none" /\ c.promise[Connection] = "unset"
            /\ Once(mail, <<"AddConnection", 0>>)
        BY <1>0, <2>1 DEF MailInv, AddInv
      <3>. QED BY <2>1, <2>4, <3>1 DEF AddInv, CallerKeeps
    <2>7. AttachInv'
      <3>1. NoneOf("AttachProcess")'
        BY <2>4 DEF NoneOf
      <3>2. ~proc /\ ~c.cut /\ toClient = <<>> /\ Once(mail, <<"AttachProcess", 0>>)
        BY <1>0, <2>1 DEF MailInv, AttachInv, Early
      <3>. QED BY <2>1, <2>4, <3>1, <3>2 DEF AttachInv, CallerKeeps
    <2>8. ASSUME NEW r \in Requests PROVE RequestInv(r)'
      <3>1. RequestInv(r) /\ Unasked(r)
        BY <1>0, <2>1 DEF MailInv, Unasked, Early
      <3>2. ~Mailed(r)' /\ Carries(c)' = Carries(c)
        BY <2>1, <2>4 DEF Mailed, Carries, CallerKeeps
      <3>. QED BY <2>1, <2>4, <3>1, <3>2 DEF RequestInv, CallerKeeps
    <2>. QED BY <2>4, <2>6, <2>7, <2>8 DEF MailInv
  <1>2. CASE connect_Returns
    <2>1. /\ pc[1] \in {"connecting", "late"} /\ mail' = mail /\ CallerKeeps
          /\ \/ pc' = <<"handle", 0>> /\ ready(c, Connection)
             \/ pc' = <<"late", 0>>
             \/ pc' = <<"no handle", 0>>
      BY <1>2 DEF connect_Returns
    <2>a. /\ pc'[1] \in {"handle", "late", "no handle"} /\ pc'[2] = 0
          /\ pc'[1] = "handle" => ready(c, Connection)
      <3>1. CASE pc' = <<"handle", 0>> /\ ready(c, Connection)
        BY <3>1
      <3>2. CASE pc' = <<"late", 0>>
        BY <3>2
      <3>3. CASE pc' = <<"no handle", 0>>
        BY <3>3
      <3>. QED BY <2>1, <3>1, <3>2, <3>3
    <2>3. UNCHANGED <<mail, conn, proc, link, c, toClient>>
      BY <2>1 DEF CallerKeeps
    <2>4. AddInv'
      <3>1. AddInv /\ (NoneOf("AddConnection")' <=> NoneOf("AddConnection"))
        BY <1>0, <2>3 DEF MailInv, NoneOf
      <3>2. CASE NoneOf("AddConnection")
        BY <2>a, <3>1, <3>2 DEF AddInv
      <3>3. CASE ~NoneOf("AddConnection")
        <4>1. ~ready(c, Connection)
          BY <3>1, <3>3 DEF AddInv, ready
        <4>. QED BY <2>1, <2>a, <2>3, <3>1, <3>3, <4>1 DEF AddInv
      <3>. QED BY <3>2, <3>3
    <2>5. AttachInv'
      <3>1. AttachInv /\ (NoneOf("AttachProcess")' <=> NoneOf("AttachProcess"))
        BY <1>0, <2>3 DEF MailInv, NoneOf
      <3>. QED BY <2>1, <2>3, <3>1 DEF AttachInv, Early
    <2>6. ASSUME NEW r \in Requests PROVE RequestInv(r)'
      <3>1. RequestInv(r) /\ Unasked(r)
        BY <1>0, <2>1 DEF MailInv, Unasked, Early
      <3>2. Mailed(r)' = Mailed(r) /\ Carries(c)' = Carries(c)
        BY <2>3 DEF Mailed, Carries
      <3>. QED BY <2>3, <3>1, <3>2 DEF RequestInv
    <2>. QED BY <1>0, <2>3, <2>4, <2>5, <2>6 DEF MailInv
  <1>3. CASE add_process
    <2>1. /\ pc = <<"handle", 0>> /\ pc' = <<"calls", 1>> /\ push_command("AttachProcess", 0)
          /\ CallerKeeps
      BY <1>3 DEF add_process
    <2>2. \A r \in Requests : Unasked(r)
      BY <2>1 DEF Unasked, Early
    <2>3. pc[1] = "handle" /\ pc'[1] \notin Early /\ 0 \in 0..MaxRequests
      BY <1>0, <2>1 DEF Early
    <2>4. "AttachProcess" \in Kinds \ {"AddConnection"}
      BY DEF Kinds
    <2>. QED BY <2>1, <2>2, <2>3, <2>4, CallerMail
  <1>4. CASE request
    <2>1. /\ pc[1] = "calls" /\ pc[2] \in Requests /\ pc' = <<"waits", pc[2]>>
          /\ push_command("RequestData", pc[2]) /\ CallerKeeps
      BY <1>4 DEF request
    <2>2. /\ Unasked(pc[2])
          /\ \A r \in Requests : Unasked(r)' => Unasked(r) /\ pc[2] # r
      BY <1>0, <2>1 DEF Unasked, Early, Requests
    <2>3. pc'[1] \notin Early /\ pc[2] \in 0..MaxRequests
      BY <1>0, <2>1 DEF Early, Requests
    <2>4. "RequestData" \in Kinds \ {"AddConnection"}
      BY DEF Kinds
    <2>. QED BY <2>1, <2>2, <2>3, <2>4, CallerMail
  <1>5. CASE wait_ready
    <2>1. pc[1] = "waits" /\ pc' = <<"calls", pc[2] + 1>> /\ mail' = mail /\ CallerKeeps
      BY <1>5 DEF wait_ready
    <2>2. pc[2] \in Requests
      BY <1>0, <2>1 DEF TypeOK
    <2>4. UNCHANGED <<mail, conn, proc, link, c, toClient>>
      BY <2>1 DEF CallerKeeps
    <2>5. AddInv' /\ AttachInv'
      <3>1. AddInv /\ AttachInv /\ \A k : NoneOf(k)' <=> NoneOf(k)
        BY <1>0, <2>4 DEF MailInv, NoneOf
      <3>2. NoneOf("AddConnection")
        BY <2>1, <3>1 DEF AddInv
      <3>. QED BY <2>1, <2>4, <3>1, <3>2 DEF AddInv, AttachInv, Early
    <2>6. ASSUME NEW r \in Requests PROVE RequestInv(r)'
      <3>1. RequestInv(r) /\ (Unasked(r)' => Unasked(r))
        BY <1>0, <2>1, <2>2 DEF MailInv, Unasked, Early, Requests
      <3>2. Mailed(r)' = Mailed(r) /\ Carries(c)' = Carries(c)
        BY <2>4 DEF Mailed, Carries
      <3>. QED BY <2>4, <3>1, <3>2 DEF RequestInv
    <2>. QED BY <1>0, <2>4, <2>5, <2>6 DEF MailInv
  <1>6. CASE request_stop \/ disconnect
    <2>1. /\ pc[1] \in {"calls", "stopping"} /\ CallerKeeps
          /\ pc' = <<"stopping", 0>> \/ pc' = <<"end", 0>>
      BY <1>6 DEF request_stop, disconnect
    <2>2. PICK kind \in {"RequestStop", "RemoveConnection"} : push_command(kind, 0)
      BY <1>6 DEF request_stop, disconnect
    <2>3. pc'[1] \in {"stopping", "end"} /\ pc'[1] \notin Early
      <3>1. CASE pc' = <<"stopping", 0>>
        BY <3>1 DEF Early
      <3>2. CASE pc' = <<"end", 0>>
        BY <3>2 DEF Early
      <3>. QED BY <2>1, <3>1, <3>2
    <2>4. kind \in Kinds \ {"AddConnection"} /\ kind # "RequestData" /\ kind # "AttachProcess"
      BY DEF Kinds
    <2>5. \A r \in Requests : ~Unasked(r)'
      BY <2>3 DEF Unasked, Early
    <2>. QED BY <1>a, <2>1, <2>2, <2>3, <2>4, <2>5, CallerMail
  <1>. QED BY <1>1, <1>2, <1>3, <1>4, <1>5, <1>6 DEF Caller

---------------------------------------------------------------------------
(* The server, while one request at most is on its way.                    *)

LEMMA ServerRest ==
  ASSUME Calm, ServerKeeps, ~proc /\ toClient = <<>> => toClient' = <<>>, Flow', ServerInv'
  PROVE  Calm'
  <1>1. UNCHANGED <<pc, mail, conn, proc, link, c, lost>>
    BY DEF ServerKeeps
  <1>2. Good(c)' /\ ProcInv' /\ NoneWaits'
    BY <1>1 DEF Calm, ProcInv, NoneWaits, Whole, Sent, Good, Sane, Fits, Carries
  <1>3. AddInv' /\ AttachInv'
    <2>1. AddInv /\ AttachInv
      BY DEF Calm, MailInv
    <2>2. \A k : NoneOf(k)' <=> NoneOf(k)
      BY <1>1 DEF NoneOf
    <2>. QED BY <1>1, <2>1, <2>2 DEF AddInv, AttachInv
  <1>4. ASSUME NEW r \in Requests PROVE RequestInv(r)'
    <2>1. RequestInv(r)
      BY DEF Calm, MailInv
    <2>. QED BY <1>1, <2>1 DEF RequestInv, Mailed, Unasked, Carries
  <1>5. MailInv'
    BY <1>1, <1>3, <1>4 DEF Calm, MailInv
  <1>. QED BY <1>2, <1>5 DEF Calm

LEMMA ServerStep ==
  ASSUME Basic, Calm, ServerWorker \/ Task
  PROVE  Calm'
  <1>0. /\ server \in ServerType /\ toServer \in Seq(Messages) /\ toClient \in Seq(Messages)
        /\ smail \in Seq({"TaskDone"}) /\ link \in {"none", "up", "down"} /\ Flow /\ ServerInv
        /\ c.active # Nobody => c.active \in Messages
    BY Constants DEF Basic, Calm, TypeOK, ClientType
  <1>1. /\ <<"TaskDone">> # <<>> /\ Tail(<<"TaskDone">>) = <<>>
        /\ Append(<<>>, "TaskDone") = <<"TaskDone">>
        /\ \A x \in Messages : /\ <<x>> # <<>> /\ Head(<<x>>) = x
                               /\ Tail(<<x>>) = <<>> /\ Append(<<>>, x) = <<x>>
    BY OneElement
  <1>2. ASSUME NEW written \in BOOLEAN, emplace_task(written)
        PROVE  Calm'
    <2>. DEFINE x == c.active
                t == IF server.mode = "Sync" THEN "done" ELSE "running"
    <2>1. /\ ServerKeeps /\ link = "up" /\ toServer # <<>> /\ toServer' = Tail(toServer)
          /\ smail' = smail /\ server'.request = Head(toServer) /\ server'.old = server.task
          /\ server'.task = t /\ server'.early = server.early
          /\ \/ toClient' = toClient
             \/ t = "done" /\ toClient' = Append(toClient, Head(toServer))
      BY <1>0, <1>2 DEF emplace_task, Answers, ServerType
    <2>2. /\ proc /\ Sent(c) /\ ~c.cut /\ c.out = "off" /\ toServer = <<x>> /\ smail = <<>>
          /\ toClient = <<>> /\ server.task \in {"none", "done"} /\ x \in Messages
      BY <1>0, <2>1 DEF Flow, Quiet, InFlight, Sent
    <2>3. /\ toServer' = <<>> /\ server'.request = x
          /\ toClient' = <<>> \/ (t = "done" /\ toClient' = <<x>>)
      BY <1>1, <2>1, <2>2
    <2>4. ServerInv'
      BY <1>0, <2>1, <2>2 DEF ServerInv
    <2>5. UNCHANGED <<link, proc, c>>
      BY <2>1 DEF ServerKeeps
    <2>6. Quiet' \/ InFlight(x)'
      BY <2>1, <2>2, <2>3, <2>5 DEF Quiet, InFlight
    <2>7. Flow'
      BY <2>1, <2>2, <2>5, <2>6 DEF Flow, InFlight, Sent
    <2>. QED BY <2>1, <2>2, <2>4, <2>7, ServerRest
  <1>3. ASSUME NEW t \in {"task", "old"}, TaskReturns(t) \/ TaskCallback(t)
        PROVE  Calm'
    <2>1. t = "task" /\ server.task \in {"running", "set"}
      BY <1>0, <1>3 DEF TaskReturns, TaskCallback, ServerInv
    <2>2. /\ ServerKeeps /\ toServer' = toServer /\ toClient' = toClient
          /\ \/ /\ server.task = "running" /\ server' = [server EXCEPT !["task"] = "set"]
                /\ smail' = smail
             \/ /\ server.task = "set" /\ server' = [server EXCEPT !["task"] = "done"]
                /\ smail' = Append(smail, "TaskDone")
      BY <1>3, <2>1 DEF TaskReturns, TaskCallback
    <2>3. smail = <<>>
      BY <1>0, <2>1 DEF ServerInv
    <2>4. /\ server'.old = server.old /\ server'.early = server.early
          /\ server'.request = server.request
          /\ \/ server'.task = "set" /\ smail' = <<>>
             \/ server'.task = "done" /\ smail' = <<"TaskDone">>
      BY <1>0, <1>1, <2>2, <2>3 DEF ServerType
    <2>6. ServerInv'
      BY <1>0, <2>4 DEF ServerInv
    <2>7. UNCHANGED <<link, proc, c>> /\ (Sent(c)' <=> Sent(c))
      BY <2>2 DEF ServerKeeps, Sent
    <2>8. CASE link = "up"
      <3>1. /\ proc /\ Sent(c) /\ ~c.cut /\ c.out = "off" /\ toServer = <<>> /\ toClient = <<>>
            /\ server.request = c.active
        BY <1>0, <1>1, <2>1, <2>8 DEF Flow, Quiet, InFlight
      <3>2. InFlight(c.active)'
        BY <2>2, <2>4, <2>7, <3>1 DEF InFlight
      <3>3. Flow'
        BY <2>7, <2>8, <3>1, <3>2 DEF Flow
      <3>. QED BY <2>2, <2>6, <3>1, <3>3, ServerRest
    <2>9. CASE link = "down"
      <3>1. Flow'
        BY <1>0, <2>2, <2>7, <2>9 DEF Flow
      <3>. QED BY <2>2, <2>6, <3>1, ServerRest
    <2>10. CASE link = "none"
      BY <1>0, <2>1, <2>10 DEF Flow, Quiet
    <2>. QED BY <1>0, <2>8, <2>9, <2>10
  <1>4. ASSUME NEW written \in BOOLEAN, TaskDone(written)
        PROVE  Calm'
    <2>1. smail # <<>> /\ smail' = Tail(smail) /\ ServerKeeps /\ toServer' = toServer
      BY <1>4 DEF TaskDone
    <2>2. smail = <<"TaskDone">> /\ server.task \in {"none", "done"} /\ smail' = <<>>
      BY <1>0, <1>1, <2>1 DEF ServerInv
    <2>3. /\ server'.task = server.task /\ server'.request = server.request
          /\ server'.old = server.old /\ ~server'.early
          /\ \/ toClient' = toClient
             \/ link = "up" /\ toClient' = Append(toClient, server.request)
      <3>1. CASE server.alive /\ server.task # "none"
        <4>1. TaskReady
          BY <2>2, <3>1 DEF TaskReady
        <4>2. /\ server'.task = server.task /\ server'.request = server.request
              /\ server'.old = server.old /\ server'.early = (server.early \/ ~TaskReady)
          BY <1>0, <1>4, <3>1 DEF TaskDone, ServerType
        <4>3. \/ toClient' = toClient
              \/ link = "up" /\ toClient' = Append(toClient, server.request)
          BY <1>4, <3>1 DEF TaskDone, Answers
        <4>. QED BY <1>0, <4>1, <4>2, <4>3 DEF ServerInv
      <3>2. CASE ~(server.alive /\ server.task # "none")
        BY <1>0, <1>4, <3>2 DEF TaskDone, ServerInv
      <3>. QED BY <3>1, <3>2
    <2>4. ServerInv'
      BY <1>0, <2>2, <2>3 DEF ServerInv
    <2>5. UNCHANGED <<link, proc, c>> /\ (Sent(c)' <=> Sent(c))
      BY <2>1 DEF ServerKeeps, Sent
    <2>6. CASE link = "up"
      <3>1. /\ proc /\ Sent(c) /\ ~c.cut /\ c.out = "off" /\ toServer = <<>> /\ toClient = <<>>
            /\ server.request = c.active /\ server.task = "done" /\ c.active \in Messages
        BY <1>0, <1>1, <2>1, <2>2, <2>6 DEF Flow, Quiet, InFlight, Sent
      <3>2. toClient' = <<>> \/ toClient' = <<c.active>>
        BY <1>1, <2>3, <3>1
      <3>3. Quiet' \/ InFlight(c.active)'
        BY <2>1, <2>2, <2>3, <2>5, <3>1, <3>2 DEF Quiet, InFlight
      <3>4. Flow'
        BY <2>5, <2>6, <3>1, <3>3 DEF Flow, InFlight
      <3>. QED BY <2>1, <2>4, <3>1, <3>4, ServerRest
    <2>7. CASE link = "down"
      <3>1. toClient' = toClient
        BY <2>3, <2>7
      <3>2. Flow'
        BY <1>0, <2>5, <2>7, <3>1 DEF Flow
      <3>. QED BY <2>1, <2>4, <3>1, <3>2, ServerRest
    <2>8. CASE link = "none"
      BY <1>0, <2>1, <2>8 DEF Flow, Quiet
    <2>. QED BY <1>0, <2>6, <2>7, <2>8
  <1>5. CASE ServerHangUp
    <2>1. /\ ServerKeeps /\ link = "down" /\ server' = [server EXCEPT !.alive = FALSE, !.task = "none"]
          /\ toServer' = <<>> /\ toClient' = toClient /\ smail' = smail
      BY <1>5 DEF ServerHangUp
    <2>2. server'.task = "none" /\ server'.old = server.old /\ server'.early = server.early
      BY <1>0, <2>1 DEF ServerType
    <2>3. ServerInv'
      BY <1>0, <2>1, <2>2 DEF ServerInv
    <2>4. UNCHANGED <<link, proc, c>> /\ (Sent(c)' <=> Sent(c))
      BY <2>1 DEF ServerKeeps, Sent
    <2>5. Flow'
      BY <1>0, <2>1, <2>4 DEF Flow
    <2>. QED BY <2>1, <2>3, <2>5, ServerRest
  <1>. QED BY <1>2, <1>3, <1>4, <1>5 DEF ServerWorker, Task

---------------------------------------------------------------------------
(* The client's worker, while its process is sane.                         *)

(* What a working process leaves alone: requests that were not given to it. *)
LEMMA Untouched ==
  ASSUME MailInv, NEW q, Rel(c, q)
  PROVE  \A r \in Requests : Unasked(r) \/ Mailed(r) => q.promise[r] = "unset" /\ r \notin Carries(q)
  <1>1. \A r \in Requests : RequestInv(r)
    BY DEF MailInv
  <1>. QED BY <1>1, Constants DEF Rel, RequestInv

(* The process after its messages are written. *)
LEMMA BecameGood ==
  ASSUME NEW q, Good(q), Becomes(q)
  PROVE  /\ Good(c)' /\ Carries(c') = Carries(q) /\ c'.promise = q.promise /\ c'.active = q.active
         /\ c'.queue = q.queue /\ c'.cut = q.cut /\ c'.out = q.out /\ c'.buffer = q.buffer
         /\ (Sent(c)' <=> Sent(q)) /\ (Whole(c)' <=> Whole(q))
         /\ toServer' = toServer \o q.written
  <1>1. q \in ClientType /\ Sane(q) /\ Fits(q)
    BY DEF Good
  <1>2. /\ Same(q, c') /\ Carries(c') = Carries(q)
        /\ c'.buffer = q.buffer /\ c'.begun = q.begun /\ c'.cut = q.cut
        /\ toServer' = toServer \o q.written
    BY <1>1, Became
  <1>3. c'.out = q.out
    BY <1>1 DEF Becomes, ClientType
  <1>4. Sane(c')
    BY <1>1, <1>2, SaneKept
  <1>5. Good(c)'
    BY <1>1, <1>2, <1>4 DEF Good, Fits, Same, Sane, Carries
  <1>. QED BY <1>2, <1>3, <1>5 DEF Same, Sent, Whole

(* The process destroyed. *)
LEMMA ResetGood ==
  ASSUME NEW q, Good(q), ResetProcess(q)
  PROVE  /\ Good(c)' /\ Carries(c') = {} /\ c'.promise = q.promise /\ c'.active = Nobody
         /\ c'.queue = <<>> /\ c'.buffer = <<>> /\ c'.cut = q.cut /\ proc' = FALSE
  <1>1. q \in ClientType /\ Sane(q)
    BY DEF Good
  <1>2. /\ c' \in ClientType /\ c'.queue = <<>> /\ c'.active = Nobody /\ c'.buffer = <<>>
        /\ ~c'.begun /\ c'.cut = q.cut /\ Carries(c') = {}
        /\ c'.promise = q.promise /\ c'.answer = q.answer
        /\ c'.aborted = q.aborted /\ \A r : Once(c'.queue, r)
        /\ proc' = FALSE
    BY <1>1, WasReset
  <1>3. Range(c'.queue) \subseteq Carries(c') /\ Nobody \notin Range(c'.queue)
    BY <1>2, CarriesType
  <1>4. Sane(c')
    BY <1>1, <1>2, <1>3 DEF Sane
  <1>5. Good(c)'
    BY <1>2, <1>4 DEF Good, Fits, Sane, Carries
  <1>. QED BY <1>2, <1>5

LEMMA FlowKept ==
  ASSUME Flow, proc, link \in {"up", "down"}, UNCHANGED <<link, proc, server, smail>>,
         \/ /\ toServer' = toServer /\ toClient' = toClient
            /\ Sent(c) => /\ c'.active = c.active /\ c'.buffer = c.buffer
                          /\ c'.cut = c.cut /\ c'.out = c.out
         \/ /\ link = "up" => toServer = <<>> /\ smail = <<>> /\ server.task \in {"none", "done"}
            /\ toClient' = <<>>
            /\ \/ toServer' = toServer
               \/ /\ link = "up" /\ toServer' = <<c'.active>>
                  /\ Sent(c)' /\ ~c'.cut /\ c'.out = "off"
  PROVE  Flow'
  <1>1. CASE /\ toServer' = toServer /\ toClient' = toClient
             /\ Sent(c) => /\ c'.active = c.active /\ c'.buffer = c.buffer
                           /\ c'.cut = c.cut /\ c'.out = c.out
    <2>1. Quiet' <=> Quiet
      BY <1>1 DEF Quiet
    <2>2. Sent(c) => Sent(c)' /\ (InFlight(c.active) => InFlight(c.active)')
      BY <1>1 DEF Sent, InFlight
    <2>. QED BY <1>1, <2>1, <2>2 DEF Flow
  <1>2. CASE /\ link = "up" => toServer = <<>> /\ smail = <<>> /\ server.task \in {"none", "done"}
             /\ toClient' = <<>>
             /\ \/ toServer' = toServer
                \/ /\ link = "up" /\ toServer' = <<c'.active>>
                   /\ Sent(c)' /\ ~c'.cut /\ c'.out = "off"
    <2>1. link = "up" => Quiet' \/ (Sent(c)' /\ ~c'.cut /\ c'.out = "off" /\ InFlight(c.active)')
      BY <1>2 DEF Quiet, InFlight
    <2>. QED BY <1>2, <2>1 DEF Flow
  <1>. QED BY <1>1, <1>2

LEMMA HasConnection ==
  ASSUME MailInv, conn # "none"
  PROVE  Connected
  BY DEF MailInv, AddInv, Connected

(* A step in which the process, which lives on, goes from c to q. *)
LEMMA Working ==
  ASSUME Basic, Calm, proc, NEW q, Good(q), Rel(c, q), Becomes(q),
         UNCHANGED <<pc, mail, conn, proc, link, server, smail, lost>>,
         link = "up" => Whole(q) /\ (q.queue # <<>> => q.active # Nobody), Flow'
  PROVE  Calm'
  <1>1. /\ Good(c)' /\ Carries(c') = Carries(q) /\ c'.promise = q.promise
        /\ c'.active = q.active /\ c'.queue = q.queue /\ (Whole(c)' <=> Whole(q))
    BY BecameGood
  <1>2. MailInv /\ ProcInv /\ conn # "none"
    BY DEF Calm, ProcInv
  <1>3. Connected
    BY <1>2, HasConnection
  <1>4. pc[1] \notin Early /\ \A x \in Range(mail') : x[1] # "AttachProcess"
    BY <1>2 DEF MailInv, AttachInv, NoneOf
  <1>5. \A r \in Requests : Unasked(r) \/ <<"RequestData", r>> \in Range(mail') =>
            c'.promise[r] = "unset" /\ r \notin Carries(c')
    BY <1>1, <1>2, Untouched DEF Mailed
  <1>6. MailInv'
    BY <1>2, <1>3, <1>4, <1>5, WorkerMail
  <1>7. ProcInv' /\ ServerInv' /\ NoneWaits'
    BY <1>1 DEF Calm, ProcInv, ServerInv, NoneWaits
  <1>. QED BY <1>1, <1>6, <1>7 DEF Calm

(* What a read finds is the answer to the active request and nothing else of
   it is on its way; or it finds the end of the link. *)
LEMMA ReadFinds ==
  ASSUME Basic, Calm, proc, NEW a, Readable(a)
  PROVE  /\ a = Nobody => link # "up"
         /\ a # Nobody => a = c.active /\ Sent(c) /\ (link = "up" => ~c.cut)
         /\ toClient' = <<>>
         /\ link = "up" => toServer = <<>> /\ smail = <<>> /\ server.task \in {"none", "done"}
         /\ link \in {"up", "down"}
  <1>1. /\ Flow /\ link \in {"up", "down"} /\ toClient \in Seq(Messages)
        /\ c.active # Nobody => c.active \in Messages
    BY Constants DEF Basic, Calm, ProcInv, TypeOK, ClientType
  <1>2. CASE toClient = <<>>
    BY <1>1, <1>2 DEF Readable
  <1>3. CASE toClient # <<>>
    <2>1. a = Head(toClient) /\ toClient' = Tail(toClient)
      BY <1>3 DEF Readable
    <2>2. /\ Sent(c) /\ toClient = <<c.active>>
          /\ link = "up" => /\ toServer = <<>> /\ smail = <<>> /\ server.task \in {"none", "done"}
                            /\ ~c.cut
      BY <1>1, <1>3 DEF Flow, Quiet, InFlight
    <2>3. a = c.active /\ toClient' = <<>> /\ c.active # Nobody
      BY <1>1, <2>1, <2>2, OneElement DEF Sent
    <2>. QED BY <1>1, <2>2, <2>3
  <1>. QED BY <1>2, <1>3

LEMMA ReadStep ==
  ASSUME Basic, Calm, NEW a \in Messages \cup {Nobody}, ReadEvent(a)
  PROVE  Calm'
  <1>. DEFINE up == (link = "up")
  <1>1. /\ proc /\ Readable(a)
        /\ UNCHANGED <<pc, mail, conn, proc, link, server, smail, lost>>
    BY DEF ReadEvent, Serves
  <1>2. PICK q \in on_read(c, a, up) : Becomes(q)
    BY DEF ReadEvent
  <1>3. /\ a = Nobody => ~up
        /\ a # Nobody => a = c.active /\ Sent(c) /\ (up => ~c.cut)
        /\ toClient' = <<>>
        /\ up => toServer = <<>> /\ smail = <<>> /\ server.task \in {"none", "done"}
        /\ link \in {"up", "down"}
    BY <1>1, ReadFinds
  <1>4. Good(c) /\ c.written = <<>> /\ up \in BOOLEAN /\ toServer \in Seq(Messages) /\ Flow
    BY DEF Basic, Calm, TypeOK
  <1>. HIDE DEF up
  <1>5. /\ Good(q) /\ Rel(c, q)
        /\ up => Whole(q) /\ (q.queue # <<>> => q.active # Nobody)
        /\ \/ q.written = c.written
           \/ up /\ q.written = Append(c.written, q.active) /\ Sent(q) /\ ~q.cut /\ q.out = "off"
    BY <1>2, <1>3, <1>4, OnRead
  <1>6. q.active # Nobody => q.active \in Messages
    BY <1>5, Constants DEF Good, ClientType
  <1>7. /\ c'.active = q.active /\ c'.cut = q.cut /\ c'.out = q.out /\ (Sent(c)' <=> Sent(q))
        /\ toServer' = toServer \o q.written
    BY <1>2, <1>5, BecameGood
  <1>8. \/ toServer' = toServer
        \/ link = "up" /\ toServer' = <<c'.active>> /\ Sent(c)' /\ ~c'.cut /\ c'.out = "off"
    <2>1. CASE q.written = <<>>
      BY <1>4, <1>7, <2>1, ConcatEmptySeq
    <2>2. CASE up /\ q.written = Append(<<>>, q.active) /\ Sent(q) /\ ~q.cut /\ q.out = "off"
      <3>1. toServer' = <<c'.active>>
        BY <1>3, <1>6, <1>7, <2>2, OneElement DEF Sent
      <3>. QED BY <1>7, <2>2, <3>1 DEF up
    <2>. QED BY <1>4, <1>5, <2>1, <2>2
  <1>9. Flow'
    BY <1>1, <1>3, <1>4, <1>8, FlowKept DEF up
  <1>. QED BY <1>1, <1>2, <1>5, <1>9, Working DEF up

(* The messages of a process that has worked are the active request, and only
   when none was on its way. *)
LEMMA WorkedFlow ==
  ASSUME Basic, Calm, proc, NEW p, p.active = c.active, p.buffer = c.buffer, p.cut = c.cut,
         p.out = c.out, p.written = <<>>,
         NEW q, Worked(p, q, link = "up"), Becomes(q),
         UNCHANGED <<proc, link, toClient, server, smail>>
  PROVE  Flow'
  <1>1. Flow /\ toServer \in Seq(Messages) /\ link \in {"up", "down"}
    BY DEF Basic, Calm, TypeOK, ProcInv
  <1>2. Good(q) /\ (q.active # Nobody => q.active \in Messages)
    BY Constants DEF Worked, Good, ClientType
  <1>3. /\ c'.active = q.active /\ c'.cut = q.cut /\ c'.out = q.out /\ (Sent(c)' <=> Sent(q))
        /\ c'.buffer = q.buffer /\ toServer' = toServer \o q.written
    BY <1>2, BecameGood
  <1>4. Sent(p) <=> Sent(c)
    BY DEF Sent
  <1>5. CASE q.written = <<>>
    <2>1. toServer' = toServer
      BY <1>1, <1>3, <1>5, ConcatEmptySeq
    <2>2. Sent(c) => /\ c'.active = c.active /\ c'.buffer = c.buffer
                     /\ c'.cut = c.cut /\ c'.out = c.out
      BY <1>3, <1>4 DEF Worked
    <2>. QED BY <1>1, <2>1, <2>2, FlowKept
  <1>6. CASE q.written # <<>>
    <2>1. /\ link = "up" /\ q.written = Append(<<>>, q.active) /\ ~Sent(c)
          /\ Sent(q) /\ ~q.cut /\ q.out = "off"
      BY <1>4, <1>6 DEF Worked
    <2>2. Quiet
      BY <1>1, <2>1 DEF Flow
    <2>3. toServer' = <<c'.active>>
      BY <1>2, <1>3, <2>1, <2>2, OneElement DEF Quiet, Sent
    <2>. QED BY <1>1, <1>3, <2>1, <2>2, <2>3, FlowKept DEF Quiet
  <1>. QED BY <1>5, <1>6

LEMMA WriteStep ==
  ASSUME Basic, Calm, WriteEvent
  PROVE  Calm'
  <1>1. /\ proc /\ link = "up"
        /\ UNCHANGED <<pc, mail, conn, proc, link, toClient, server, smail, lost>>
    BY DEF WriteEvent
  <1>2. PICK q \in on_write(c, TRUE) : Becomes(q)
    BY DEF WriteEvent
  <1>3. Good(c) /\ c.written = <<>> /\ Whole(c)
    BY <1>1 DEF Basic, Calm, NoneWaits
  <1>4. Worked(c, q, TRUE)
    BY <1>2, <1>3, OnWrite
  <1>5. Worked(c, q, link = "up")
    BY <1>1, <1>4
  <1>6. Flow'
    BY <1>1, <1>2, <1>3, <1>5, WorkedFlow
  <1>. QED BY <1>1, <1>2, <1>4, <1>6, Working DEF Worked

(* The process with one more request. *)
Handed(p, r) == [p EXCEPT !.queue = Append(@, r)]

(* A command that reports no error for a request the process has: its calls
   of on_write have worked. *)
LEMMA PushWorks ==
  ASSUME NEW p, Good(p), NEW r \in Requests, p.promise[r] = "unset", r \notin Carries(p),
         NEW up \in BOOLEAN, up => Whole(p), NEW q \in push_request(p, r, up)
  PROVE  /\ Worked(Handed(p, r), q, up) /\ Carries(Handed(p, r)) = Carries(p) \cup {r}
         /\ Handed(p, r).promise = p.promise /\ Handed(p, r).active = p.active
         /\ Handed(p, r).buffer = p.buffer /\ Handed(p, r).cut = p.cut
         /\ Handed(p, r).out = p.out /\ Handed(p, r).written = p.written
         /\ q.orphans = p.orphans
  <1>. DEFINE s == Handed(p, r)
  <1>1. PICK t \in on_write(s, up) : q \in (IF t.err = "none" THEN on_write(t, up) ELSE {t})
    BY DEF push_request, Handed
  <1>2. /\ Good(s) /\ Carries(s) = Carries(p) \cup {r} /\ s.promise = p.promise
        /\ s.active = p.active /\ s.buffer = p.buffer /\ s.cut = p.cut /\ s.out = p.out
        /\ s.written = p.written /\ s.orphans = p.orphans
    BY Queued DEF Handed
  <1>. HIDE DEF s
  <1>3. up => Whole(s)
    BY <1>2 DEF Whole, Sent
  <1>4. Worked(s, t, up)
    BY <1>1, <1>2, <1>3, OnWrite
  <1>5. Good(t) /\ (up => Whole(t))
    BY <1>4 DEF Worked
  <1>6. CASE t.err = "none"
    <2>1. Worked(t, q, up)
      BY <1>1, <1>5, <1>6, OnWrite
    <2>2. Worked(s, q, up)
      BY <1>2, <1>4, <2>1, WorkedTwice
    <2>. QED BY <1>2, <2>2 DEF Worked, s
  <1>7. CASE t.err # "none"
    <2>1. q = t
      BY <1>1, <1>7
    <2>. QED BY <1>2, <1>4, <2>1 DEF Worked, s
  <1>. QED BY <1>6, <1>7

(* A request that is executed is new: it goes to the process, or its promise
   gets the error. *)
LEMMA RequestStep ==
  ASSUME Basic, Calm, NEW r \in Requests, RequestData(r), c'.orphans = {}
  PROVE  Calm'
  <1>. DEFINE up == (link = "up")
  <1>1. /\ Executes("RequestData", r)
        /\ UNCHANGED <<pc, conn, proc, link, toClient, server, smail, lost>>
    BY DEF RequestData
  <1>a. PICK q \in Emplaced(r) : Becomes(q)
    BY DEF RequestData
  <1>2. /\ MailInv /\ Good(c) /\ c \in ClientType /\ c.written = <<>> /\ up \in BOOLEAN /\ ProcInv
        /\ mail \in Seq(Commands) /\ toServer \in Seq(Messages) /\ Flow
        /\ c.promise \in [Promises -> Outcome] /\ r \in Promises
    BY Constants DEF Basic, Calm, TypeOK, ClientType
  <1>3. /\ mail' \in Seq(Commands) /\ Mailed(r) /\ Range(mail') \subseteq Range(mail)
        /\ \A y : Once(mail, y) => Once(mail', y)
        /\ <<"RequestData", r>> \notin Range(mail')
    BY <1>1, <1>2, ExecutedCommand DEF MailInv, RequestInv, Mailed
  <1>4. c.promise[r] = "unset" /\ r \notin Carries(c) /\ ~Unasked(r) /\ \A x \in Requests : RequestInv(x)
    BY <1>2, <1>3 DEF MailInv, RequestInv
  <1>5. Connected
    BY <1>2, <1>3 DEF MailInv, AddInv, Connected, Mailed, NoneOf
  <1>6. /\ Good(q) /\ Flow'
        /\ proc /\ up => Whole(q) /\ (q.queue # <<>> => q.active # Nobody)
        /\ ~proc => q.queue = <<>> /\ q.active = Nobody /\ q.buffer = <<>> /\ q.cut = c.cut
        /\ Carries(q) \subseteq Carries(c) \cup {r}
        /\ \A x \in Promises : x # r => q.promise[x] = c.promise[x] \/ (x \in Carries(c) /\ ready(q, x))
    <2>. HIDE DEF up
    <2>1. CASE ~proc
      <3>1. q = set_error(c, r, "error")
        BY <1>a, <2>1 DEF Emplaced
      <3>2. /\ Keeps(c, q) /\ Carries(q) = Carries(c)
            /\ q.queue = c.queue /\ q.active = c.active /\ q.buffer = c.buffer
            /\ q.begun = c.begun /\ q.cut = c.cut /\ q.written = c.written
            /\ q.answer = c.answer /\ q.promise = [c.promise EXCEPT ![r] = "error"]
            /\ q.aborted = c.aborted
        BY <1>2, <1>4, <3>1, ErrorSet
      <3>3. q.promise[r] = "error" /\ \A x \in Promises : x # r => q.promise[x] = c.promise[x]
        BY <1>2, <3>2
      <3>4. Carries(c) \subseteq Promises /\ Requests \subseteq Promises
        BY <1>2, CarriesType, Constants
      <3>5. /\ \A x \in Carries(q) : q.promise[x] = "unset"
            /\ \A x \in Requests : q.promise[x] = "ok" => q.answer[x] = x
        BY <1>2, <1>4, <3>2, <3>3, <3>4 DEF Good, Sane
      <3>6. Good(q)
        BY <1>2, <3>2, <3>5 DEF Good, Sane, Fits, Keeps
      <3>7. toServer' = toServer
        <4>1. toServer' = toServer \o q.written
          BY <1>a, <3>6, BecameGood
        <4>2. q.written = <<>>
          BY <1>2, <3>2
        <4>. QED BY <1>2, <4>1, <4>2, ConcatEmptySeq
      <3>8. Flow'
        BY <1>1, <1>2, <2>1, <3>7 DEF Flow, Quiet
      <3>. QED BY <1>2, <2>1, <3>2, <3>3, <3>6, <3>8 DEF ProcInv
    <2>2. CASE proc
      <3>. DEFINE s == Handed(c, r)
      <3>1. conn # "none" /\ (up => Whole(c))
        BY <1>2, <2>2 DEF Calm, ProcInv, NoneWaits, up
      <3>2. PICK t \in push_request(c, r, up) :
              q = IF t.err = "none" THEN t
                  ELSE [set_error(t, r, "error") EXCEPT !.orphans = @ \union {r}]
        BY <1>a, <2>2, <3>1 DEF Emplaced, up
      <3>3. /\ Worked(s, t, up) /\ Carries(s) = Carries(c) \cup {r} /\ s.promise = c.promise
            /\ s.active = c.active /\ s.buffer = c.buffer /\ s.cut = c.cut /\ s.out = c.out
            /\ s.written = c.written
        <4>1. t \in push_request(c, r, up)
          BY <3>2
        <4>2. /\ Good(c) /\ c.promise[r] = "unset" /\ r \notin Carries(c) /\ up \in BOOLEAN
              /\ up => Whole(c)
          BY <1>2, <1>4, <3>1 DEF up
        <4>. QED BY <4>1, <4>2, PushWorks
      <3>. HIDE DEF s
      <3>4. t.err = "none"
        <4>1. SUFFICES ASSUME t.err # "none" PROVE FALSE
          OBVIOUS
        <4>. DEFINE u == set_error(t, r, "error")
        <4>2. Keeps(t, u)
          BY <1>2, <3>3, ErrorSet DEF Worked, Good
        <4>3. q = [u EXCEPT !.orphans = u.orphans \union {r}] /\ u \in ClientType
          BY <3>2, <4>1, <4>2 DEF Keeps
        <4>. HIDE DEF u
        <4>4. q \in ClientType /\ r \in q.orphans
          BY <4>3 DEF ClientType
        <4>5. c'.orphans = q.orphans
          BY <1>a, <4>4, Became DEF Same
        <4>. QED BY <4>4, <4>5
      <3>5. q = t
        BY <3>2, <3>4
      <3>6. Worked(s, q, link = "up")
        BY <3>3, <3>5 DEF up
      <3>7. Flow'
        BY <1>a, <1>1, <1>2, <2>2, <3>3, <3>6, WorkedFlow
      <3>8. /\ Carries(q) \subseteq Carries(c) \cup {r}
            /\ \A x \in Promises : q.promise[x] = c.promise[x] \/ (x \in Carries(c) \cup {r} /\ ready(q, x))
        BY <3>3, <3>5 DEF Worked, Rel
      <3>. QED BY <2>2, <3>3, <3>5, <3>7, <3>8 DEF Worked
    <2>. QED BY <2>1, <2>2
  <1>7. /\ Good(c)' /\ Carries(c') = Carries(q) /\ c'.promise = q.promise /\ c'.active = q.active
        /\ c'.queue = q.queue /\ c'.buffer = q.buffer /\ c'.cut = q.cut /\ (Whole(c)' <=> Whole(q))
    BY <1>a, <1>6, BecameGood
  <1>8. \A x \in Requests : Unasked(x) \/ <<"RequestData", x>> \in Range(mail') =>
            c'.promise[x] = "unset" /\ x \notin Carries(c')
    <2>1. \A x \in Requests : Unasked(x) \/ <<"RequestData", x>> \in Range(mail') =>
              x # r /\ c.promise[x] = "unset" /\ x \notin Carries(c)
      BY <1>3, <1>4 DEF RequestInv, Mailed
    <2>. QED BY <1>6, <1>7, <2>1, Constants
  <1>9. pc[1] \in Early \/ (\E x \in Range(mail') : x[1] = "AttachProcess")
            => ~proc' /\ ~c'.cut /\ toClient' = <<>>
    <2>1. pc[1] \in Early \/ (\E x \in Range(mail') : x[1] = "AttachProcess")
             => ~proc /\ ~c.cut /\ toClient = <<>>
      BY <1>2, <1>3 DEF MailInv, AttachInv, NoneOf
    <2>. QED BY <1>1, <1>6, <1>7, <2>1
  <1>10. MailInv'
    BY <1>1, <1>2, <1>3, <1>5, <1>8, <1>9, WorkerMail
  <1>11. ProcInv' /\ ServerInv' /\ NoneWaits'
    BY <1>1, <1>6, <1>7 DEF Calm, ProcInv, ServerInv, NoneWaits
  <1>. QED BY <1>6, <1>7, <1>10, <1>11 DEF Calm

(* The end of a process: nothing of it is on its way over a link that is up. *)
LEMMA ResetStep ==
  ASSUME Calm, Connected, NEW q, Good(q), Rel(c, q), proc \/ q = c, ResetProcess(q),
         UNCHANGED <<pc, toServer, server, smail>>,
         conn' \in {"none", "active", "closed"},
         conn' = "active" => link' # "none",
         link' # "none" \/ link = "none",
         link' = "up" => Quiet, toClient' = toClient \/ toClient' = <<>>,
         \A x \in Range(mail') : x \in Range(mail) \/ x = <<"RemoveConnection", 0>>,
         \A y : y # <<"RemoveConnection", 0>> /\ Once(mail, y) => Once(mail', y)
  PROVE  Calm'
  <1>1. /\ Good(c)' /\ Carries(c') = {} /\ c'.promise = q.promise /\ c'.active = Nobody
        /\ c'.queue = <<>> /\ c'.buffer = <<>> /\ c'.cut = q.cut /\ proc' = FALSE
    BY ResetGood
  <1>2. \A r \in Requests : Unasked(r) \/ <<"RequestData", r>> \in Range(mail') =>
            c'.promise[r] = "unset" /\ r \notin Carries(c')
    BY <1>1, Untouched DEF Calm, Mailed
  <1>3. pc[1] \in Early \/ (\E x \in Range(mail') : x[1] = "AttachProcess")
           => ~proc' /\ ~c'.cut /\ toClient' = <<>>
    <2>1. pc[1] \in Early \/ (\E x \in Range(mail') : x[1] = "AttachProcess")
             => ~proc /\ ~c.cut /\ toClient = <<>>
      BY DEF Calm, MailInv, AttachInv, NoneOf
    <2>. QED BY <1>1, <2>1
  <1>4. MailInv'
    BY <1>2, <1>3, WorkerMail DEF Calm
  <1>5. ProcInv' /\ ServerInv' /\ NoneWaits'
    BY <1>1 DEF Calm, ProcInv, ServerInv, NoneWaits
  <1>6. Flow'
    BY <1>1 DEF Calm, Flow, Quiet
  <1>. QED BY <1>1, <1>4, <1>5, <1>6 DEF Calm

LEMMA HangUpStep ==
  ASSUME Basic, Calm, NEW a \in Messages \cup {Nobody}, HangUp(a)
  PROVE  Calm'
  <1>1. /\ conn \in {"active", "connecting"} /\ link = "down" /\ conn' = "closed" /\ link' = link
        /\ push_command("RemoveConnection", 0) /\ UNCHANGED <<pc, toServer, server, smail>>
    BY DEF HangUp
  <1>2. Connected /\ Good(c) /\ MailInv /\ mail \in Seq(Commands)
    BY <1>1, HasConnection DEF Basic, Calm, TypeOK
  <1>3. /\ \A x \in Range(mail') : x \in Range(mail) \/ x = <<"RemoveConnection", 0>>
        /\ \A y : y # <<"RemoveConnection", 0>> /\ Once(mail, y) => Once(mail', y)
    BY <1>1, <1>2, PushedRemove
  <1>4. CASE proc /\ Readable(a) /\ \E p \in on_read(c, a, FALSE) : ResetProcess(p)
    <2>1. PICK p \in on_read(c, a, FALSE) : ResetProcess(p)
      BY <1>4
    <2>2. (a # Nobody => a = c.active /\ Sent(c)) /\ toClient' = <<>>
      BY <1>4, ReadFinds
    <2>3. Good(p) /\ Rel(c, p)
      BY <1>2, <2>1, <2>2, OnRead
    <2>. QED BY <1>1, <1>2, <1>3, <1>4, <2>1, <2>2, <2>3, ResetStep
  <1>5. CASE ResetProcess(c) /\ toClient' = toClient
    BY <1>1, <1>2, <1>3, <1>5, RelReflexive, ResetStep
  <1>. QED BY <1>4, <1>5 DEF HangUp

LEMMA RemoveStep ==
  ASSUME Basic, Calm, RemoveConnection
  PROVE  Calm'
  <1>1. /\ Executes("RemoveConnection", 0) /\ ResetProcess(c) /\ conn' = "none"
        /\ link' = (IF conn = "none" THEN link ELSE "down")
        /\ UNCHANGED <<pc, toServer, toClient, server, smail>>
    BY DEF RemoveConnection
  <1>2. /\ mail \in Seq(Commands) /\ MailInv /\ Good(c) /\ link \in {"none", "up", "down"}
        /\ Flow /\ ProcInv
    BY DEF Basic, Calm, TypeOK
  <1>3. /\ <<"RemoveConnection", 0>> \in Range(mail)
        /\ Range(mail') \subseteq Range(mail)
        /\ \A y : Once(mail, y) => Once(mail', y)
    BY <1>1, <1>2, ExecutedCommand
  <1>4. Connected
    BY <1>2, <1>3 DEF MailInv, AddInv, Connected, NoneOf
  <1>6. link' = "up" => Quiet
    BY <1>1, <1>2 DEF Flow, ProcInv
  <1>. QED BY <1>1, <1>2, <1>3, <1>4, <1>6, RelReflexive, ResetStep

LEMMA EstablishedStep ==
  ASSUME Basic, Calm, Established
  PROVE  Calm'
  <1>1. /\ conn = "connecting" /\ link = "up" /\ (proc => c.out = "on") /\ conn' = "active"
        /\ UNCHANGED <<pc, link, toServer, toClient, server, smail>>
    BY DEF Established
  <1>2. Connected /\ Good(c) /\ Flow /\ Quiet /\ MailInv /\ mail \in Seq(Commands)
    BY <1>1, HasConnection DEF Basic, Calm, Flow, TypeOK
  <1>3. CASE proc
    <2>1. ResetProcess(c) /\ push_command("RemoveConnection", 0)
      BY <1>3 DEF Established
    <2>2. /\ \A x \in Range(mail') : x \in Range(mail) \/ x = <<"RemoveConnection", 0>>
          /\ \A y : y # <<"RemoveConnection", 0>> /\ Once(mail, y) => Once(mail', y)
      BY <1>2, <2>1, PushedRemove
    <2>. QED BY <1>1, <1>2, <2>1, <2>2, RelReflexive, ResetStep
  <1>4. CASE ~proc
    <2>1. UNCHANGED <<c, lost, proc, mail>>
      BY <1>4 DEF Established
    <2>2. Good(c)' /\ ProcInv' /\ ServerInv' /\ NoneWaits'
      BY <1>1, <1>4, <2>1 DEF Calm, ProcInv, ServerInv, NoneWaits, Good, Sane, Fits, Carries
    <2>3. AddInv' /\ AttachInv'
      <3>1. AddInv /\ AttachInv
        BY <1>2 DEF MailInv
      <3>2. \A k : NoneOf(k)' <=> NoneOf(k)
        BY <2>1 DEF NoneOf
      <3>. QED BY <1>1, <1>2, <2>1, <3>1, <3>2 DEF AddInv, AttachInv, Connected
    <2>4. ASSUME NEW r \in Requests PROVE RequestInv(r)'
      <3>1. RequestInv(r)
        BY <1>2 DEF MailInv
      <3>. QED BY <1>1, <2>1, <3>1 DEF RequestInv, Mailed, Unasked, Carries
    <2>5. MailInv'
      BY <1>2, <2>1, <2>3, <2>4 DEF MailInv
    <2>6. Flow'
      BY <1>1, <1>2, <1>4, <2>1 DEF Flow, Quiet
    <2>. QED BY <2>2, <2>5, <2>6 DEF Calm
  <1>. QED BY <1>3, <1>4

(* A step that leaves the process and the caller alone and executes a command
   that is not a request. *)
LEMMA CommandsStep ==
  ASSUME Basic, Calm, AttachProcess \/ RequestStop
  PROVE  Calm'
  <1>1. /\ mail \in Seq(Commands) /\ MailInv /\ Flow /\ ProcInv /\ AttachInv /\ proc \in BOOLEAN
        /\ Good(c) /\ NoneWaits /\ ServerInv
    BY DEF Basic, Calm, TypeOK, MailInv
  <1>2. PICK kind \in {"AttachProcess", "RequestStop"} :
          /\ Executes(kind, 0)
          /\ UNCHANGED <<pc, conn, link, c, toServer, toClient, server, smail, lost>>
          /\ proc' = proc \/ (kind = "AttachProcess" /\ proc' = TRUE /\ conn \in {"active", "connecting"})
    BY DEF AttachProcess, RequestStop
  <1>3. /\ <<kind, 0>> \in Range(mail)
        /\ Range(mail') \subseteq Range(mail)
        /\ \A y : Once(mail, y) => Once(mail', y)
        /\ Once(mail, <<kind, 0>>) => <<kind, 0>> \notin Range(mail')
    BY <1>1, <1>2, ExecutedCommand
  <1>4. Connected
    BY <1>1, <1>3 DEF MailInv, AddInv, Connected, NoneOf
  <1>5. \A r \in Requests : Unasked(r) \/ <<"RequestData", r>> \in Range(mail') =>
            c'.promise[r] = "unset" /\ r \notin Carries(c')
    BY <1>1, <1>2, <1>3 DEF MailInv, RequestInv, Mailed
  <1>6. pc[1] \in Early \/ (\E x \in Range(mail') : x[1] = "AttachProcess")
           => ~proc' /\ ~c'.cut /\ toClient' = <<>>
    <2>1. CASE kind = "AttachProcess"
      <3>1. pc[1] \notin Early /\ <<"AttachProcess", 0>> \notin Range(mail')
        BY <1>1, <1>3, <2>1 DEF AttachInv, NoneOf
      <3>2. \A x \in Range(mail') : x[1] = "AttachProcess" => x = <<"AttachProcess", 0>>
        BY <1>1, <1>3, CommandShape
      <3>. QED BY <3>1, <3>2
    <2>2. CASE kind # "AttachProcess"
      BY <1>1, <1>2, <1>3, <2>2 DEF AttachInv, NoneOf
    <2>. QED BY <2>1, <2>2
  <1>7. MailInv'
    BY <1>1, <1>2, <1>3, <1>4, <1>5, <1>6, WorkerMail
  <1>8. ~proc /\ proc' => toClient = <<>> /\ ~c.cut
    BY <1>1, <1>2, <1>3 DEF AttachInv, NoneOf
  <1>9. Good(c)' /\ ServerInv'
    BY <1>1, <1>2 DEF ServerInv, Good, Sane, Fits, Carries
  <1>10. ProcInv'
    BY <1>1, <1>2 DEF ProcInv
  <1>11. NoneWaits'
    BY <1>1, <1>2, <1>8 DEF NoneWaits, Whole, Sent, ProcInv
  <1>12. Flow'
    BY <1>1, <1>2, <1>8 DEF Flow, Quiet, Sent, InFlight
  <1>. QED BY <1>7, <1>9, <1>10, <1>11, <1>12 DEF Calm

---------------------------------------------------------------------------
(* The connection comes and goes, and all steps together.                  *)

(* The promise of the connection is set once, before anything is asked. *)
LEMMA AddStep ==
  ASSUME Basic, Calm, NEW o \in Outcomes, AddConnection(o)
  PROVE  Calm'
  <1>1. /\ Executes("AddConnection", 0) /\ UNCHANGED <<pc, proc, toServer, toClient, smail, lost>>
        /\ conn' \in {"none", "active", "connecting"} /\ link' \in {"none", "up"}
        /\ conn' # "none" => link' = "up"
        /\ server' = [server EXCEPT !.alive = (link' = "up")]
        /\ \E q : /\ c' = q
                  /\ q = c \/ \E e \in {"ok", "error"} : q = set_error(c, Connection, e)
    BY DEF AddConnection, Outcomes
  <1>2. /\ mail \in Seq(Commands) /\ MailInv /\ Flow /\ ProcInv /\ AttachInv /\ AddInv
        /\ Good(c) /\ c \in ClientType /\ ServerInv /\ server \in ServerType
        /\ \A r \in Requests : RequestInv(r)
    BY DEF Basic, Calm, TypeOK, MailInv
  <1>3. /\ mail' \in Seq(Commands) /\ <<"AddConnection", 0>> \in Range(mail)
        /\ Range(mail') \subseteq Range(mail)
        /\ Range(mail) \subseteq Range(mail') \cup {<<"AddConnection", 0>>}
        /\ \A y : Once(mail, y) => Once(mail', y)
        /\ Once(mail, <<"AddConnection", 0>>) => <<"AddConnection", 0>> \notin Range(mail')
    BY <1>1, <1>2, ExecutedCommand
  <1>4. /\ pc[1] \in Early /\ pc[1] # "start" /\ link = "none" /\ c.promise[Connection] = "unset"
        /\ Range(mail') = {}
    <2>1. ~NoneOf("AddConnection")
      BY <1>3 DEF NoneOf
    <2>2. /\ pc[1] \in {"start", "connecting", "late", "no handle"}
          /\ link = "none" /\ c.promise[Connection] = "unset"
          /\ \A x \in Range(mail) : x = <<"AddConnection", 0>>
          /\ Once(mail, <<"AddConnection", 0>>)
      BY <1>2, <2>1 DEF AddInv
    <2>3. pc[1] # "start"
      <3>1. mail # <<>>
        BY <1>1 DEF Executes
      <3>. QED BY <1>2, <3>1 DEF AddInv
    <2>. QED BY <1>3, <2>2, <2>3 DEF Early
  <1>5. ~proc /\ ~c.cut /\ toClient = <<>> /\ Quiet
    BY <1>2, <1>4 DEF AttachInv, Flow
  <1>6. PICK q : /\ c' = q
                 /\ q = c \/ \E e \in {"ok", "error"} : q = set_error(c, Connection, e)
    BY <1>1
  <1>7. /\ Good(q) /\ Carries(q) = Carries(c) /\ q.queue = c.queue /\ q.active = c.active
        /\ q.buffer = c.buffer /\ q.cut = c.cut
        /\ \A r \in Requests : q.promise[r] = c.promise[r]
    <2>1. CASE q = c
      BY <1>2, <2>1
    <2>2. ASSUME NEW e \in {"ok", "error"}, q = set_error(c, Connection, e)
          PROVE  /\ Good(q) /\ Carries(q) = Carries(c) /\ q.queue = c.queue /\ q.active = c.active
                 /\ q.buffer = c.buffer /\ q.cut = c.cut
                 /\ \A r \in Requests : q.promise[r] = c.promise[r]
      <3>1. /\ c.promise \in [Promises -> Outcome] /\ Connection \in Promises
            /\ Requests \subseteq Promises /\ Connection \notin Requests
            /\ Carries(c) \subseteq Requests
        BY <1>2, CarriesType, Constants DEF ClientType
      <3>2. /\ Keeps(c, q) /\ Carries(q) = Carries(c) /\ q.queue = c.queue /\ q.active = c.active
            /\ q.buffer = c.buffer /\ q.begun = c.begun /\ q.cut = c.cut /\ q.answer = c.answer
            /\ q.promise = [c.promise EXCEPT ![Connection] = e] /\ q.aborted = c.aborted
        <4>1. c \in ClientType /\ Connection \in Promises /\ c.promise[Connection] = "unset"
          BY <1>2, <1>4, <3>1
        <4>. DEFINE f == set_error(c, Connection, e)
        <4>2. /\ Keeps(c, f) /\ Carries(f) = Carries(c) /\ f.queue = c.queue /\ f.active = c.active
              /\ f.buffer = c.buffer /\ f.begun = c.begun /\ f.cut = c.cut /\ f.answer = c.answer
              /\ c.promise[Connection] = "unset" =>
                    f.promise = [c.promise EXCEPT ![Connection] = e] /\ f.aborted = c.aborted
          BY <4>1, ErrorSet, ZenonT(40)
        <4>. HIDE DEF f
        <4>3. q = f
          BY <2>2 DEF f
        <4>. QED BY <4>1, <4>2, <4>3
      <3>3. \A r \in Requests : q.promise[r] = c.promise[r]
        BY <3>1, <3>2
      <3>4. Sane(q)
        BY <1>2, <3>1, <3>2, <3>3 DEF Good, Sane
      <3>5. Fits(q)
        BY <1>2, <3>2 DEF Good, Fits
      <3>. QED BY <3>2, <3>3, <3>4, <3>5 DEF Good, Keeps
    <2>. QED BY <1>6, <2>1, <2>2
  <1>8. server'.task = server.task /\ server'.old = server.old /\ server'.early = server.early
    BY <1>1, <1>2 DEF ServerType
  <1>9. /\ Good(c)' /\ Carries(c)' = Carries(c) /\ c'.queue = c.queue /\ c'.active = c.active
        /\ c'.buffer = c.buffer /\ c'.cut = c.cut
        /\ \A r \in Requests : c'.promise[r] = c.promise[r]
    BY <1>6, <1>7 DEF Good, Sane, Fits, Carries
  <1>10. MailInv'
    <2>1. \A k : NoneOf(k)'
      BY <1>4 DEF NoneOf
    <2>2. AddInv' /\ AttachInv'
      BY <1>1, <1>2, <1>3, <1>4, <1>5, <1>9, <2>1 DEF AddInv, AttachInv
    <2>3. ASSUME NEW r \in Requests PROVE RequestInv(r)'
      <3>1. RequestInv(r) /\ (Unasked(r)' <=> Unasked(r)) /\ ~Mailed(r)'
        BY <1>1, <1>2, <1>4 DEF Unasked, Mailed
      <3>. QED BY <1>3, <1>9, <3>1 DEF RequestInv
    <2>. QED BY <1>4, <2>2, <2>3 DEF MailInv
  <1>11. ProcInv' /\ ServerInv' /\ NoneWaits'
    BY <1>1, <1>2, <1>5, <1>8, <1>9 DEF ProcInv, ServerInv, NoneWaits
  <1>12. Flow'
    BY <1>1, <1>5, <1>8 DEF Flow, Quiet
  <1>. QED BY <1>9, <1>10, <1>11, <1>12 DEF Calm

LEMMA LinkStep ==
  ASSUME Basic, Calm, LinkBreaks
  PROVE  Calm'
  <1>1. /\ link = "up" /\ link' = "down" /\ toClient' \in {toClient, <<>>}
        /\ UNCHANGED <<pc, mail, conn, proc, c, toServer, server, smail, lost>>
    BY DEF LinkBreaks
  <1>2. Good(c)' /\ ProcInv' /\ ServerInv' /\ NoneWaits'
    BY <1>1 DEF Calm, ProcInv, ServerInv, NoneWaits, Good, Sane, Fits, Carries
  <1>3. AddInv' /\ AttachInv'
    <2>1. AddInv /\ AttachInv
      BY DEF Calm, MailInv
    <2>2. \A k : NoneOf(k)' <=> NoneOf(k)
      BY <1>1 DEF NoneOf
    <2>. QED BY <1>1, <2>1, <2>2 DEF AddInv, AttachInv
  <1>4. ASSUME NEW r \in Requests PROVE RequestInv(r)'
    <2>1. RequestInv(r)
      BY DEF Calm, MailInv
    <2>. QED BY <1>1, <2>1 DEF RequestInv, Mailed, Unasked, Carries
  <1>5. MailInv'
    BY <1>1, <1>3, <1>4 DEF Calm, MailInv
  <1>6. Flow'
    BY <1>1 DEF Calm, Flow, Quiet, Sent, InFlight
  <1>. QED BY <1>2, <1>5, <1>6 DEF Calm

LEMMA StutterCalm ==
  ASSUME Calm, UNCHANGED vars
  PROVE  Calm'
  <1>1. UNCHANGED <<pc, mail, conn, proc, link, c, toServer, toClient, server, smail, lost>>
    BY DEF vars
  <1>2. Flow' /\ ServerInv'
    BY <1>1 DEF Calm, Flow, ServerInv, Quiet, Sent, InFlight
  <1>. QED BY <1>1, <1>2, ServerRest DEF ServerKeeps

LEMMA InitInv ==
  ASSUME Init
  PROVE  IndInv
  <1>1. /\ pc = <<"start", 0>> /\ mail = <<>> /\ conn = "none" /\ proc = FALSE /\ link = "none"
        /\ c = Client /\ toServer = <<>> /\ toClient = <<>> /\ smail = <<>> /\ lost = {}
    BY DEF Init
  <1>2. PICK m \in TaskModes : server = [Server EXCEPT !.mode = m]
    BY DEF Init
  <1>3. /\ server \in ServerType /\ server.task = "none" /\ server.old = "none" /\ ~server.early
    BY <1>2, RequestsAssumption DEF Server, ServerType, TaskStates, Nobody
  <1>4. /\ <<>> \in Seq(Requests) /\ <<>> \in Seq(Messages) /\ <<>> \in Seq(Commands)
        /\ <<>> \in Seq({"TaskDone"}) /\ Range(<<>>) = {} /\ \A y : Once(<<>>, y)
    BY EmptySeq DEF Range, Once
  <1>5. /\ c \in ClientType /\ c.queue = <<>> /\ c.active = Nobody /\ c.buffer = <<>>
        /\ ~c.begun /\ ~c.cut /\ ~c.aborted /\ c.written = <<>>
        /\ \A x \in Promises : c.promise[x] = "unset"
    BY <1>1, <1>4 DEF Client, ClientType, Promises, Outcome, Nobody
  <1>6. Carries(c) = {}
    BY <1>4, <1>5 DEF Carries
  <1>7. Good(c)
    BY <1>4, <1>5, <1>6, Constants DEF Good, Sane, Fits
  <1>8. TypeOK
    BY <1>1, <1>3, <1>4, <1>5 DEF TypeOK, Stages, Early
  <1>9. MailInv
    BY <1>1, <1>4, <1>5, <1>6, Constants
       DEF MailInv, AddInv, AttachInv, RequestInv, NoneOf, Early, Unasked, Mailed
  <1>10. ProcInv /\ ServerInv /\ Flow /\ NoneWaits
    BY <1>1, <1>3, <1>5 DEF ProcInv, ServerInv, Flow, Quiet, NoneWaits
  <1>11. \A r \in Requests : Somewhere(r)
    BY <1>1 DEF Somewhere, Requests
  <1>. QED BY <1>5, <1>7, <1>8, <1>9, <1>10, <1>11 DEF IndInv, Basic, Calm

LEMMA CalmStep ==
  ASSUME Basic, Calm, [Next]_vars, c'.orphans = {}
  PROVE  Calm'
  <1>1. CASE Caller
    BY <1>1, CallerStep
  <1>2. CASE Worker
    <2>1. CASE AttachProcess \/ RequestStop
      BY <2>1, CommandsStep
    <2>2. CASE RemoveConnection
      BY <2>2, RemoveStep
    <2>3. CASE Established
      BY <2>3, EstablishedStep
    <2>4. CASE \E o \in Outcomes : AddConnection(o)
      BY <2>4, AddStep
    <2>5. CASE \E r \in Requests : RequestData(r)
      BY <2>5, RequestStep
    <2>6. CASE \E a \in Messages \cup {Nobody} : ReadEvent(a) \/ HangUp(a)
      BY <2>6, ReadStep, HangUpStep
    <2>. QED BY <1>2, <2>1, <2>2, <2>3, <2>4, <2>5, <2>6 DEF Worker
  <1>3. CASE WriteEvent
    BY <1>3, WriteStep
  <1>4. CASE ServerWorker \/ Task
    BY <1>4, ServerStep
  <1>5. CASE LinkBreaks
    BY <1>5, LinkStep
  <1>6. CASE UNCHANGED vars
    BY <1>6, StutterCalm
  <1>. QED BY <1>1, <1>2, <1>3, <1>4, <1>5, <1>6 DEF Next, Idle

LEMMA NextInv ==
  ASSUME IndInv, [Next]_vars
  PROVE  IndInv'
  <1>1. Basic' /\ c.orphans \subseteq c'.orphans
    BY NextBasic DEF IndInv
  <1>2. ASSUME c'.orphans = {} PROVE Calm'
    BY <1>1, <1>2, CalmStep DEF IndInv
  <1>. QED BY <1>1, <1>2 DEF IndInv

---------------------------------------------------------------------------
(* The theorems.                                                           *)

(* Whatever the writes do, the type of every variable holds and every request
   is somewhere; and as long as no command has reported an error for a request
   that stays queued, so do the parts that OwnAnswer, NotForgotten and
   TaskDoneReady rest on: at most one request is on its way, in the socket, in
   its task or in its answer, and it is the active one. *)
THEOREM RequestsInvariant == Spec => []IndInv
  <1>1. Init => IndInv
    BY InitInv
  <1>2. IndInv /\ [Next]_vars => IndInv'
    BY NextInv
  <1>. QED BY <1>1, <1>2, PTL DEF Spec

(* As long as no command has reported an error for a request that stays
   queued, a request that succeeded holds its own answer, and no promise is set
   twice by answers, fatal errors and failed commands. *)
THEOREM OwnAnswerTheorem == Spec => []OwnAnswer
  <1>1. IndInv => OwnAnswer
    BY DEF IndInv, Calm, Good, Sane, OwnAnswer
  <1>. QED BY <1>1, RequestsInvariant, PTL

(* Whatever the writes do, a request that was given to the worker is in the
   mailbox, with the process, answered, or lost with the process; and while
   commands tell the truth the queue of a process that serves a link waits only
   for an active request. *)
THEOREM NotForgottenTheorem == Spec => []NotForgotten
  <1>1. ASSUME IndInv PROVE NotForgotten
    <2>1. ASSUME NEW r \in Requests
          PROVE  \/ ready(c, r) \/ Mailed(r) \/ r \in lost \/ pc[2] < r \/ r = c.active
                 \/ r \in Range(c.queue) \/ pc = <<"calls", r>> \/ pc[1] \in {"stopping", "end"}
      BY <1>1 DEF IndInv, Basic, Somewhere, Carries
    <2>2. ASSUME c.orphans = {}, Serves, link = "up", c.queue # <<>>
          PROVE  is_active_request(c)
      <3>1. c.active # Nobody /\ Good(c)
        BY <1>1, <2>2 DEF IndInv, Calm, NoneWaits, Serves
      <3>2. c.active \in Carries(c)
        BY <3>1 DEF Carries
      <3>. QED BY <3>1, <3>2 DEF is_active_request, ready, Good, Sane
    <2>. QED BY <2>1, <2>2 DEF NotForgotten
  <1>. QED BY <1>1, RequestsInvariant, PTL

(* TaskDone never meets a task without its result, as long as no command has
   reported an error for a request that stays queued. *)
THEOREM TaskDoneReadyTheorem == Spec => []TaskDoneReady
  <1>1. IndInv => TaskDoneReady
    BY DEF IndInv, Calm, ServerInv, TaskDoneReady
  <1>. QED BY <1>1, RequestsInvariant, PTL
=============================================================================
