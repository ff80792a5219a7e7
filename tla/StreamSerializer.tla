-------------------------- MODULE StreamSerializer --------------------------
(***************************************************************************)
(* The binary format of serialization.h and the object that reads it back, *)
(* StreamSerializer, which can be given a message in several views and     *)
(* resumes where it stopped.  The template specialisations become cases on *)
(* a type descriptor; a value is a number, or a sequence of values.        *)
(*                                                                         *)
(*   num     w           a number, an enumeration or a bool of w bytes     *)
(*   dur     w, unit     a duration or time point, sent in 1/unit ticks    *)
(*   empty               std::monostate and other empty types              *)
(*   pair    fs          std::pair                                         *)
(*   struct  fs          a type sent as its list of members (frames, ...)  *)
(*   opt     of          std::optional and the smart pointers: <<>> or <<v>>*)
(*   var     fs          std::variant: <<index, value>>                    *)
(*   seq     of          vector, list, deque, string                       *)
(*   map     of          associative container of pairs, ordered by key    *)
(*   flist   of          std::forward_list                                 *)
(*   arr     of, n       T[n] and std::array                               *)
(*                                                                         *)
(* Bytes have Base values and a size_t SizeWidth of them: what matters is  *)
(* that numbers span several bytes and sizes have a largest value.         *)
(***************************************************************************)
EXTENDS Integers, Sequences, SequencesExt, FiniteSetsExt

CONSTANTS Base,         \* the number of values of a byte
          SizeWidth     \* sizeof(size_t)

ASSUME FormatAssumption == Base \in Nat \ {0, 1} /\ SizeWidth \in Nat \ {0}

Depth == 5              \* more levels of nesting than any type has

SizeMax == Base^SizeWidth - 1

Num(w) == [kind |-> "num", w |-> w]
Bool == Num(1)
Size == Num(SizeWidth)
Empty == [kind |-> "empty"]
Duration(w, u) == [kind |-> "dur", w |-> w, unit |-> u]
Pair(f, g) == [kind |-> "pair", fs |-> <<f, g>>]
Struct(fs) == [kind |-> "struct", fs |-> fs]
Optional(t) == [kind |-> "opt", of |-> t]
Variant(fs) == [kind |-> "var", fs |-> fs]
Vector(t) == [kind |-> "seq", of |-> t]
Map(k, t) == [kind |-> "map", of |-> Pair(k, t)]
ForwardList(t) == [kind |-> "flist", of |-> t]
Array(t, n) == [kind |-> "arr", of |-> t, n |-> n]

(* DataFrame, and Frame, which holds one and is received through its base. *)
DataFrame(start, data, end) == Struct(<<start, data, end>>)
Frame(start, data, end) == Struct(<<DataFrame(start, data, end)>>)

(* The members that the specialisations of time_interval.h send. *)
TimeInterval(tp) == Struct(<<tp, tp>>)
DateTimeDiffOf(d) == Struct(<<d, d, d, d, d, d>>)
TimeSequenceOf(tp, d) == Struct(<<TimeInterval(tp), DateTimeDiffOf(d), Size>>)

(* The members of TimePeriod (a duration in each unit), Coord and Position. *)
TimePeriodOf(w, units) == Struct([i \in 1..6 |-> Duration(w, units[i])])
Coord(lat, lon) == Struct(<<lat, lon>>)
Position(y, x) == Struct(<<y, x>>)

---------------------------------------------------------------------------
(* Sizes.                                                                  *)

SumOf(s) == FoldSeq(LAMBDA a, b : a + b, 0, s)

Saturated(n) == IF n > SizeMax THEN SizeMax ELSE n

RECURSIVE Default(_), serial_size(_, _), min_serial_size(_), max_serial_size(_)

(* A default-constructed object. *)
Default(T) ==
    CASE T.kind \in {"num", "dur"} -> 0
      [] T.kind \in {"pair", "struct"} -> [i \in DOMAIN T.fs |-> Default(T.fs[i])]
      [] T.kind = "arr" -> [i \in 1..T.n |-> Default(T.of)]
      [] T.kind = "var" -> <<0, Default(T.fs[1])>>
      [] OTHER -> <<>>

OptionalSize(T, v) == 1 + (IF v = <<>> THEN 0 ELSE serial_size(T.of, v[1]))
(* fault: the element count that precedes a range is forgotten *)
RangeSize_NoCount(T, v) == SumOf([i \in DOMAIN v |-> serial_size(T.of, v[i])])

RangeSize(T, v) == SizeWidth + SumOf([i \in DOMAIN v |-> serial_size(T.of, v[i])])
VariantSize(T, v) == SizeWidth + serial_size(T.fs[v[1] + 1], v[2])

(* Cells of one size are not visited. *)
ArraySize(T, v) ==
    IF min_serial_size(T.of) = max_serial_size(T.of) THEN T.n * min_serial_size(T.of)
    ELSE SumOf([i \in DOMAIN v |-> serial_size(T.of, v[i])])

serial_size(T, v) ==
    CASE T.kind \in {"num", "dur"} -> T.w
      [] T.kind = "empty" -> 0
      [] T.kind \in {"pair", "struct"} ->
           SumOf([i \in DOMAIN T.fs |-> serial_size(T.fs[i], v[i])])
      [] T.kind = "opt" -> OptionalSize(T, v)
      [] T.kind = "arr" -> ArraySize(T, v)
      [] T.kind = "var" -> VariantSize(T, v)
      [] OTHER -> RangeSize(T, v)

MembersMin(fs) == SumOf([i \in DOMAIN fs |-> min_serial_size(fs[i])])
ArrayMin(T) == Saturated(T.n * min_serial_size(T.of))
OptionalMin == 1
RangeMin == SizeWidth
VariantMin(T) == SizeWidth + Min({min_serial_size(T.fs[i]) : i \in DOMAIN T.fs})

min_serial_size(T) ==
    CASE T.kind \in {"num", "dur"} -> T.w
      [] T.kind = "empty" -> 0
      [] T.kind = "opt" -> OptionalMin
      [] T.kind \in {"pair", "struct"} -> MembersMin(T.fs)
      [] T.kind = "arr" -> ArrayMin(T)
      [] T.kind = "var" -> VariantMin(T)
      [] OTHER -> RangeMin

MembersMax(fs) == Saturated(SumOf([i \in DOMAIN fs |-> max_serial_size(fs[i])]))
OptionalMax(T) == Saturated(max_serial_size(T.of) + 1)
ArrayMax(T) == Saturated(T.n * max_serial_size(T.of))
RangeMax == SizeMax
VariantMax(T) == Saturated(SizeWidth + Max({max_serial_size(T.fs[i]) : i \in DOMAIN T.fs}))

(* A pair adds the largest sizes of its two members and wraps around; the *)
(* member list of a struct saturates.                                     *)
max_serial_size(T) ==
    CASE T.kind \in {"num", "dur"} -> T.w
      [] T.kind = "empty" -> 0
      [] T.kind = "pair" -> (max_serial_size(T.fs[1]) + max_serial_size(T.fs[2])) % (SizeMax + 1)
      [] T.kind = "struct" -> MembersMax(T.fs)
      [] T.kind = "opt" -> OptionalMax(T)
      [] T.kind = "arr" -> ArrayMax(T)
      [] T.kind = "var" -> VariantMax(T)
      [] OTHER -> RangeMax

---------------------------------------------------------------------------
(* Writing: network order, most significant byte first.                    *)

Bytes(v, w) == [i \in 1..w |-> (v \div Base^(w - i)) % Base]

NumberOf(bytes) == FoldLeft(LAMBDA n, b : n * Base + b, 0, bytes)

RECURSIVE Serialize(_, _)

SerializeMembers(fs, v) == FlattenSeq([i \in DOMAIN fs |-> Serialize(fs[i], v[i])])
SerializeOptional(T, v) == Bytes(Len(v), 1) \o (IF v = <<>> THEN <<>> ELSE Serialize(T.of, v[1]))
SerializeArray(T, v) == FlattenSeq([i \in 1..T.n |-> Serialize(T.of, v[i])])
SerializeRange(T, v) ==
    Bytes(Len(v), SizeWidth) \o FlattenSeq([i \in DOMAIN v |-> Serialize(T.of, v[i])])

(* An index that names no alternative stands for a message of a peer built *)
(* with other alternatives; its value has no bytes of its own.             *)
SerializeVariant(T, v) ==
    Bytes(v[1], SizeWidth)
    \o (IF v[1] < Len(T.fs) THEN Serialize(T.fs[v[1] + 1], v[2]) ELSE <<>>)

Serialize(T, v) ==
    CASE T.kind = "num" -> Bytes(v, T.w)
      [] T.kind = "dur" -> Bytes(v * T.unit, T.w)
      [] T.kind = "empty" -> <<>>
      [] T.kind \in {"pair", "struct"} -> SerializeMembers(T.fs, v)
      [] T.kind = "opt" -> SerializeOptional(T, v)
      [] T.kind = "arr" -> SerializeArray(T, v)
      [] T.kind = "var" -> SerializeVariant(T, v)
      [] OTHER -> SerializeRange(T, v)

---------------------------------------------------------------------------
(* The reading state.  MultiBufferView is a list of spans and a position   *)
(* in it; only the bytes after the position and the number of those before *)
(* it that have not been flushed can be observed.                          *)

NewStream == [begin |-> 0, end |-> 0, iterator |-> 0, level |-> 0,
              read |-> 0, rest |-> <<>>,
              registered |-> [l \in 1..Depth |-> <<>>]]

push_view(s, bytes) ==
    IF bytes = <<>> THEN s
    ELSE [s EXCEPT !.rest = @ \o bytes, !.iterator = s.begin]

(* flush() returns s.read. *)
Flushed(s) == [s EXCEPT !.read = 0]

(* iterator and level_ keep their values. *)
reset_all(s) ==
    [s EXCEPT !.begin = 0, !.end = 0, !.read = 0, !.rest = <<>>,
              !.registered = NewStream.registered]

(* trivial_deserialized: the subtraction is of unsigned numbers. *)
Passed(s, w) == s.iterator > s.end \/ s.end - s.iterator >= w

Advance(s, w) == [s EXCEPT !.iterator = @ + w]

Registered(s) == s.registered[s.level]
register_value(s, n) == [s EXCEPT !.registered[s.level] = Append(@, n)]
update_value_at(s, n, i) == [s EXCEPT !.registered[s.level][i] = n]

Result(code, v, s) == [code |-> code, v |-> v, s |-> s]

(* registered_.at throws inside a noexcept function. *)
Terminates(v, s) == Result("terminate", v, s)

(* A number is read whole or not at all (checkpoint, rollback, commit). *)
read_trivial(w, v, s) ==
    IF Len(s.rest) < w THEN Result("BUFFER_SIZE_LESSER", v, s)
    ELSE Result("NONE", NumberOf(SubSeq(s.rest, 1, w)),
                [s EXCEPT !.rest = SubSeq(@, w + 1, Len(@)), !.read = @ + w,
                          !.end = @ + w, !.iterator = @ + w])

RECURSIVE Deserialize(_, _, _), DeserializeFields(_, _, _, _),
          DeserializeItems(_, _, _, _), DeserializeCells(_, _, _, _, _)

(* fault: a finished value does not open a new range of passed bytes *)
Finished_SameBegin(s) ==
    [s EXCEPT !.read = 0, !.iterator = s.end, !.registered = NewStream.registered]

(* What deserialize does to the stream when the outermost value is done. *)
Finished(s) ==
    [s EXCEPT !.read = 0, !.begin = s.end, !.iterator = s.end,
              !.registered = NewStream.registered]

(* StreamSerializer::deserialize for one value. *)
DeserializeValue(T, v, s) ==
    IF T.kind = "num" THEN read_trivial(T.w, v, s)
    ELSE LET Left(code, t) == CASE code # "NONE" -> [t EXCEPT !.iterator = t.begin]
                                [] code = "NONE" /\ t.level = 1 -> Finished(t)
                                [] OTHER -> [t EXCEPT !.registered[t.level] = <<>>]
             Leave(r) == [r EXCEPT !.s = [Left(r.code, r.s) EXCEPT !.level = @ - 1]]
         IN  Leave(Deserialize(T, v, [s EXCEPT !.level = @ + 1]))

(* The variadic deserialize: the members in order, up to the first that fails. *)
DeserializeFields(fs, v, s, i) ==
    IF i > Len(fs) THEN Result("NONE", v, s)
    ELSE LET Then(r, w) == IF r.code = "NONE" THEN DeserializeFields(fs, w, r.s, i + 1)
                           ELSE Result(r.code, w, r.s)
             Stored(r) == Then(r, [v EXCEPT ![i] = r.v])
         IN  Stored(DeserializeValue(fs[i], v[i], s))

(* How an item joins the container. *)
Inserted(T, v, item) ==
    CASE T.kind = "flist" -> <<item>> \o v
      [] T.kind = "map" /\ \E i \in DOMAIN v : v[i][1] = item[1] -> v
      [] T.kind = "map" -> LET before == SelectSeq(v, LAMBDA x : x[1] < item[1])
                           IN  before \o <<item>>
                               \o SelectSeq(v, LAMBDA x : x[1] > item[1])
      [] OTHER -> Append(v, item)

(* The items of a range, each into a fresh object, `left` of them. *)
DeserializeItems(T, v, s, left) ==
    IF left = 0 THEN Result("NONE", v, s)
    ELSE LET Then(r) == IF r.code # "NONE" THEN Result(r.code, v, r.s)
                        ELSE DeserializeItems(T, Inserted(T, v, r.v), r.s, left - 1)
         IN  Then(DeserializeValue(T.of, Default(T.of), s))

(* The cells i.. of an array; `remain` is never counted down here. *)
DeserializeCells(T, v, s, i, remain) ==
    IF i >= remain THEN Result("NONE", v, s)
    ELSE LET Then(code, w, t) == IF code # "NONE" THEN Result(code, w, t)
                                 ELSE DeserializeCells(T, w, t, i + 1, remain)
             Stored(r) == Then(r.code, [v EXCEPT ![i + 1] = r.v], update_value_at(r.s, remain - 1, 1))
         IN  Stored(DeserializeValue(T.of, v[i + 1], s))

(* The flag, or what stands for it when it was passed before; then the     *)
(* value, into the object that is there or into a fresh one.               *)
DeserializeOptional(T, v, s) ==
    LET Held(r) == Result(r.code, <<r.v>>, r.s)
        Flag(has, item) ==
            CASE has.code # "NONE" -> Result(has.code, v, has.s)
              [] has.code = "NONE" /\ has.v = 0 -> Result("NONE", v, has.s)
              [] OTHER -> Held(DeserializeValue(T.of, item, has.s))
    IN  IF Passed(s, 1) THEN Flag(Result("NONE", Len(v), Advance(s, 1)), v[1])
        ELSE Flag(read_trivial(1, 0, s), Default(T.of))

DeserializeVariant(T, v, s) ==
    LET Held(i, r) == Result(r.code, <<i, r.v>>, r.s)
        Alternative(index) ==
            CASE index.code # "NONE" -> Result(index.code, v, index.s)
              [] index.code = "NONE" /\ index.v >= Len(T.fs) -> Result("UNMATCHED_TYPE", v, index.s)
              [] OTHER -> Held(index.v, DeserializeValue(T.fs[index.v + 1],
                                            IF Passed(s, SizeWidth) THEN v[2] ELSE Default(T.fs[index.v + 1]),
                                            index.s))
    IN  Alternative(IF Passed(s, SizeWidth) THEN Result("NONE", v[1], Advance(s, SizeWidth))
                    ELSE read_trivial(SizeWidth, 0, s))

(* fault: the items read before the cut are asked for again *)
Remaining_All(size, had) == size

(* The items still to come; the subtraction is of unsigned numbers. *)
Remaining(size, had) == (size - had) % (SizeMax + 1)

(* A forward_list counts its items in a second registered value, which the *)
(* loop sets to the same number every time.                                *)
DeserializeRange(T, v, s) ==
    LET Counted(kept, had, r) ==
            [r EXCEPT !.v = IF r.code = "NONE" THEN Reverse(@) ELSE @,
                      !.s = IF Len(r.v) > Len(kept) THEN update_value_at(@, had + 1, 2) ELSE @]
        Items(kept, t, had) == DeserializeItems(T, kept, t, Remaining(Registered(t)[1], had))
        OfList(kept, t, had) == Counted(kept, had, Items(kept, t, had))
        ItemsOf(kept, t) ==
            CASE T.kind # "flist" -> Items(kept, t, Len(kept))
              [] T.kind = "flist" /\ Len(Registered(t)) = 1 -> OfList(kept, register_value(t, Len(kept)), 0)
              [] OTHER -> OfList(kept, t, Registered(t)[2])
        Sized(size) == IF size.code # "NONE" THEN Result(size.code, <<>>, size.s)
                       ELSE ItemsOf(<<>>, register_value(size.s, size.v))
    IN  CASE ~Passed(s, SizeWidth) -> Sized(read_trivial(SizeWidth, 0, s))
          [] Passed(s, SizeWidth) /\ Registered(s) = <<>> -> Terminates(v, s)
          [] OTHER -> ItemsOf(v, Advance(s, SizeWidth))

DeserializeArray(T, v, s) ==
    LET Cells(t, remain) == DeserializeCells(T, v, t, T.n - remain, remain)
    IN  IF Registered(s) = <<>> THEN Cells(register_value(s, T.n), T.n) ELSE Cells(s, Registered(s)[1])

Deserialize(T, v, s) ==
    CASE T.kind = "empty" -> Result("NONE", v, s)
      [] T.kind = "dur" -> LET Cast(r) == IF r.code = "NONE" THEN [r EXCEPT !.v = @ \div T.unit]
                                          ELSE Result(r.code, v, r.s)
                           IN  Cast(read_trivial(T.w, 0, s))
      [] T.kind \in {"pair", "struct"} -> DeserializeFields(T.fs, v, s, 1)
      [] T.kind = "opt" -> DeserializeOptional(T, v, s)
      [] T.kind = "var" -> DeserializeVariant(T, v, s)
      [] T.kind = "arr" -> DeserializeArray(T, v, s)
      [] OTHER -> DeserializeRange(T, v, s)

---------------------------------------------------------------------------
(* Files.                                                                  *)

(* deserialize_from_file for one or several values: `file` is what follows *)
(* the position; of it at most the largest size of the values is read, and *)
(* the position moves on by the size of the values (r.used).               *)
deserialize_from_file(Ts, vs, file) ==
    LET least == SumOf([i \in DOMAIN Ts |-> min_serial_size(Ts[i])])
        most == Saturated(SumOf([i \in DOMAIN Ts |-> max_serial_size(Ts[i])]))
        buf == SubSeq(file, 1, Min({Len(file), most}))
        Moved(r) == [code |-> r.code, v |-> r.v,
                     used |-> IF r.code = "NONE" THEN SumOf([i \in DOMAIN Ts |-> serial_size(Ts[i], r.v[i])])
                              ELSE Len(buf)]
    IN  IF Len(file) < least THEN [code |-> "BUFFER_SIZE_LESSER", v |-> vs, used |-> 0]
        ELSE Moved(DeserializeFields(Ts, vs, push_view(NewStream, buf), 1))
=============================================================================
