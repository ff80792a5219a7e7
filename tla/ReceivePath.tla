----------------------------- MODULE ReceivePath -----------------------------
(***************************************************************************)
(* How values reach the process of a connection: the bytes the peer sent   *)
(* are cut into segments by the network, ConnectionIO::receive reads them  *)
(* into the ring of the connection, hands views of the whole ring to the   *)
(* StreamSerializer and resumes the value it was filling.  The same        *)
(* serializer is used on its own, by a caller that pushes one view per     *)
(* segment, and by the functions that read values from a file.             *)
(*                                                                         *)
(* The peer follows the library's own discipline: a request or an answer   *)
(* is sent when the one before has been taken (next_request sends the next *)
(* request once the current one is completed).                             *)
(***************************************************************************)
EXTENDS StreamSerializer

CONSTANTS Dialogues,    \* the possible sequences of messages, see Message
          Readers,      \* how they are read: "ring", "view", "file"
          Capacities    \* of the receive ring

(* A message is the list of the types and values one call of receive takes. *)
Message(ts, vs) == [ts |-> ts, vs |-> vs]

ASSUME ReceiveAssumption ==
    /\ Readers \subseteq {"ring", "view", "file"} /\ Capacities \subseteq Nat \ {0}
    /\ \A d \in Dialogues : \A i \in DOMAIN d : Len(d[i].ts) = Len(d[i].vs)

VARIABLES reader,       \* how this dialogue is read
          capacity,     \* of recv_buffer_
          todo,         \* the messages not yet sent
          current,      \* the message being received
          wire,         \* its bytes the network still holds (the file's rest)
          ring,         \* recv_buffer_, as the queue RingBuffer implements
          stream,       \* serializer_
          vals,         \* the objects being filled
          in,           \* the connection waits for In events
          outcome,      \* what the calls for the messages so far ended with
          sent,         \* the messages sent so far
          torn          \* history: a piece ended where the reader does not resume

vars == <<reader, capacity, todo, current, wire, ring, stream, vals, in, outcome, sent, torn>>

Drop(s, n) == SubSeq(s, Min({n, Len(s)}) + 1, Len(s))
Take(s, n) == SubSeq(s, 1, n)

Encoded(m) == FlattenSeq([i \in DOMAIN m.ts |-> Serialize(m.ts[i], m.vs[i])])
Blank(m) == [i \in DOMAIN m.ts |-> Default(m.ts[i])]
Idle == Message(<<>>, <<>>)

(* A message no reader of these types can take. *)
Foreign(m) == \E i \in DOMAIN m.ts :
                 m.ts[i].kind = "var" /\ m.vs[i][1] >= Len(m.ts[i].fs)

---------------------------------------------------------------------------
(* What the properties leave out.                                          *)

(* The types whose reading resumes after any number of it: a range of      *)
(* numbers counts its items, the types around it recognise passed bytes.   *)
RECURSIVE Resumable(_)
Resumable(T) ==
    CASE T.kind \in {"num", "dur", "empty"} -> TRUE
      [] T.kind = "seq" -> T.of.kind \in {"num", "dur"}
      [] T.kind = "opt" -> Resumable(T.of)
      [] T.kind = "var" -> \A i \in DOMAIN T.fs : Resumable(T.fs[i])
      [] OTHER -> FALSE

(* How many of the bytes of a view the reading of one value leaves unread. *)
Unread(s, T, v, bytes) == Len(DeserializeValue(T, v, push_view(s, bytes)).s.rest)

(* Whether the reader resumes after the next n bytes of the wire.  A ring  *)
(* shows the bytes of an incomplete number a second time with the next     *)
(* piece, so in the ring a piece has to end between two numbers.           *)
Resumes(n) ==
    \/ n = Len(wire)
    \/ /\ Len(current.ts) = 1 /\ Resumable(current.ts[1])
       /\ reader = "ring" => Unread(stream, current.ts[1], vals[1], Take(wire, n)) = 0

IsNumber(T) == T.kind = "num"

(* What the messages before the n-th leave behind spoils it.  A number at  *)
(* the outermost level counts as passed bytes of the message after it: a   *)
(* value that looks for passed bytes resumes what never began.  And where  *)
(* several values are received by one call, each value but a number takes  *)
(* the bytes up to its end from the count that the ring is advanced by.    *)
Spoilt(n) ==
    \E i \in 1..n : \E j \in 1..i - 1 :
        \/ IsNumber(Last(sent[j].ts)) /\ \E k \in DOMAIN sent[i].ts : ~IsNumber(sent[i].ts[k])
        \/ /\ reader = "ring" /\ Len(sent[j].ts) > 1
           /\ \E k \in DOMAIN sent[j].ts : ~IsNumber(sent[j].ts[k])

(* A pair with a member of any size, alone or as a part of a value.        *)
RECURSIVE Wraps(_)
Wraps(T) ==
    CASE T.kind = "pair" -> \/ max_serial_size(T.fs[1]) + max_serial_size(T.fs[2]) > SizeMax
                            \/ Wraps(T.fs[1]) \/ Wraps(T.fs[2])
      [] T.kind \in {"struct", "var"} -> \E i \in DOMAIN T.fs : Wraps(T.fs[i])
      [] T.kind \in {"opt", "arr"} -> Wraps(T.of)
      [] OTHER -> FALSE

---------------------------------------------------------------------------
(* What a read does: code, objects, stream, and the ring that is left.     *)

Read(code, vs, s, bytes) == [code |-> code, vs |-> vs, s |-> s, ring |-> bytes]

(* ConnectionIO::deserialize of one value. *)
deserialize_one(T, v, bytes, s) ==
    LET Commit(r) ==
            CASE r.code = "NONE" -> Read(r.code, <<r.v>>, r.s, Drop(bytes, serial_size(T, r.v)))
              [] r.code = "BUFFER_SIZE_LESSER" -> Read(r.code, <<r.v>>, Flushed(r.s), Drop(bytes, r.s.read))
              [] OTHER -> Read(r.code, <<r.v>>, reset_all(r.s), <<>>)
    IN  Commit(DeserializeValue(T, v, push_view(s, bytes)))

(* ConnectionIO::deserialize of several values: all start again each time. *)
deserialize_all(Ts, vs, bytes, s) ==
    LET Commit(r) ==
            IF r.code \in {"NONE", "BUFFER_SIZE_LESSER"}
            THEN Read(r.code, r.v, Flushed(r.s), Drop(bytes, r.s.read))
            ELSE Read(r.code, r.v, reset_all(r.s), <<>>)
    IN  Commit(DeserializeFields(Ts, vs, push_view(s, bytes), 1))

deserialize(Ts, vs, bytes, s) ==
    IF Len(Ts) = 1 THEN deserialize_one(Ts[1], vs[1], bytes, s)
    ELSE deserialize_all(Ts, vs, bytes, s)

(* receive() after the socket was read: it commits what the serializer has *)
(* flushed once more.                                                      *)
Received(Ts, vs, bytes, s) ==
    LET Commit(r) ==
            IF r.code \in {"NONE", "BUFFER_SIZE_LESSER"}
            THEN Read(r.code, r.vs, Flushed(r.s), Drop(r.ring, r.s.read))
            ELSE Read(r.code, r.vs, reset_all(r.s), <<>>)
    IN  Commit(deserialize(Ts, vs, bytes, s))

---------------------------------------------------------------------------
Init ==
    /\ reader \in Readers /\ capacity \in (IF reader = "ring" THEN Capacities ELSE {0})
    /\ todo \in Dialogues
    /\ reader = "file" => \A i \in DOMAIN todo : ~Foreign(todo[i])
    /\ current = Idle /\ wire = <<>> /\ ring = <<>> /\ stream = NewStream
    /\ vals = <<>> /\ in = TRUE /\ outcome = <<>> /\ sent = <<>>
    /\ torn = FALSE

(* An exception in a noexcept function ends the program. *)
Running == \A i \in DOMAIN outcome : outcome[i][1] # "terminate"

(* The peer sends the next message; the process has a fresh object for it. *)
Send ==
    /\ Running /\ todo # <<>> /\ current = Idle /\ reader # "file"
    /\ current' = Head(todo) /\ todo' = Tail(todo) /\ sent' = Append(sent, Head(todo))
    /\ wire' = wire \o Encoded(Head(todo))
    /\ vals' = Blank(Head(todo))
    /\ UNCHANGED <<reader, capacity, ring, stream, in, outcome, torn>>

(* The process is handed the values, or the error; an incomplete message   *)
(* waits for the next event.                                               *)
Taken(code, vs) ==
    IF code = "BUFFER_SIZE_LESSER"
    THEN vals' = vs /\ UNCHANGED <<current, outcome>>
    ELSE /\ outcome' = Append(outcome, <<code, vs>>)
         /\ current' = Idle /\ vals' = <<>>

(* ConnectionIO::receive at an In event, which is reported when there are  *)
(* bytes: readv moves as many of the next n as fit.  A ring without free   *)
(* space switches In off in the multiplexor, and what it holds is read.    *)
receive(n) ==
    /\ Running /\ reader = "ring" /\ current # Idle /\ in
    /\ \E k \in {Min({n, capacity - Len(ring)})} :
       \E r \in {Received(current.ts, vals, ring \o Take(wire, k), stream)} :
           /\ in' = (Len(ring) < capacity)
           /\ wire' = Drop(wire, k)
           /\ ring' = r.ring /\ stream' = r.s
           /\ Taken(r.code, r.vs)
           /\ torn' = (torn \/ ~Resumes(k))
    /\ UNCHANGED <<reader, capacity, todo, sent>>

(* A caller with a buffer of its own for each segment. *)
Feed(n) ==
    /\ Running /\ reader = "view" /\ current # Idle
    /\ \E r \in {DeserializeFields(current.ts, vals, push_view(stream, Take(wire, n)), 1)} :
           /\ wire' = Drop(wire, n)
           /\ stream' = IF r.code \in {"NONE", "BUFFER_SIZE_LESSER"} THEN r.s
                        ELSE reset_all(r.s)
           /\ Taken(r.code, r.v)
           /\ torn' = (torn \/ ~Resumes(n))
    /\ UNCHANGED <<reader, capacity, todo, ring, in, sent>>

(* serialize_to_file: one call per message, each at the end of the file. *)
WriteFile ==
    /\ reader = "file" /\ todo # <<>>
    /\ wire' = wire \o Encoded(Head(todo))
    /\ sent' = Append(sent, Head(todo)) /\ todo' = Tail(todo)
    /\ UNCHANGED <<reader, capacity, current, ring, stream, vals, in, outcome, torn>>

(* deserialize_from_file, message by message, by a stream opened at the start. *)
ReadFile ==
    /\ reader = "file" /\ Len(outcome) < Len(sent)
    /\ \E m \in {sent[Len(outcome) + 1]} : \E r \in {deserialize_from_file(m.ts, Blank(m), wire)} :
           /\ wire' = Drop(wire, r.used)
           /\ outcome' = Append(outcome, <<r.code, r.v>>)
    /\ UNCHANGED <<reader, capacity, todo, current, ring, stream, vals, in, sent, torn>>

(* The dialogue is over, or the program, or the reader waits for ever. *)
Done ==
    /\ \/ todo = <<>> /\ current = Idle /\ Len(outcome) = Len(sent)
       \/ ~Running
       \/ current # Idle /\ (wire = <<>> \/ ~in)
    /\ UNCHANGED vars

Next ==
    \/ Send \/ WriteFile \/ ReadFile \/ Done
    \/ \E n \in 1..Len(wire) : receive(n)
    \/ \E n \in 1..Len(wire) : Feed(n)

Spec == Init /\ [][Next]_vars

---------------------------------------------------------------------------
(* What must hold.                                                         *)

(* Each call of receive gives exactly the values the peer put into the     *)
(* message, in whatever pieces it came and whatever the stream was left    *)
(* with by the messages before, and a message that cannot be read gives an *)
(* error and does not spoil the ones after it.  The code does not keep     *)
(* this when a piece ended where the reader does not resume, when the      *)
(* messages before spoil the value and, of a file, when the largest size   *)
(* of a pair wraps around and too little of the file is read.              *)
ReceivedIsSent ==
    \A i \in DOMAIN outcome :
        \/ torn \/ Spoilt(i)
        \/ reader = "file" /\ \E j \in 1..i : \E k \in DOMAIN sent[j].ts : Wraps(sent[j].ts[k])
        \/ IF Foreign(sent[i]) THEN outcome[i][1] = "UNMATCHED_TYPE"
           ELSE outcome[i] = <<"NONE", sent[i].vs>>

(* serial_size, which receive commits and the file functions seek by, is   *)
(* the number of bytes written, and lies between the two limits that       *)
(* decide how much of a file is read, unless the upper one wraps around.   *)
SizesAgree ==
    \A i \in DOMAIN sent : ~Foreign(sent[i]) =>
        \A j \in DOMAIN sent[i].ts :
            LET Agree(T, v, n) == /\ Len(Serialize(T, v)) = n
                                  /\ min_serial_size(T) <= n
                                  /\ n <= max_serial_size(T) \/ Wraps(T)
            IN  Agree(sent[i].ts[j], sent[i].vs[j], serial_size(sent[i].ts[j], sent[i].vs[j]))

(* The last byte of a message completes it: the stream never waits for     *)
(* bytes that have already come; and whatever the size of the ring, what   *)
(* is read of a message leaves room in it, so that receive never finds it  *)
(* full, which switches the In events off for good.  Neither holds once a  *)
(* piece ended where the reader does not resume or the messages before     *)
(* have spoilt the value.                                                  *)
CompleteIsTaken ==
    ~torn /\ ~Spoilt(Len(sent)) => (current # Idle => wire # <<>>) /\ in
=============================================================================
