--------------------------- MODULE MCReceivePath ---------------------------
(* Instances of ReceivePath: types such as the library's tests send.       *)
EXTENDS ReceivePath

One(T, v) == Message(<<T>>, <<v>>)

N1 == Num(1)
N2 == Num(2)
Str == Vector(N1)
Either == Variant(<<Empty, Vector(N2)>>)

(* Values whose reading resumes, and a variant of a peer with one          *)
(* alternative more: any two or three of them in a row.                    *)
MCResumed == {One(Str, <<1, 2, 3>>), One(Str, <<>>), One(Vector(N2), <<14, 5>>),
              One(Optional(N2), <<7>>), One(Optional(Str), <<<<3, 0>>>>),
              One(Optional(Either), <<<<1, <<9>>>>>>),
              One(Either, <<1, <<5, 11>>>>), One(Either, <<0, <<>>>>), One(Either, <<3, 0>>)}

(* Values that are read when they come in one piece. *)
MCWhole == {One(Frame(N2, N2, Empty), <<<<2, 13, <<>>>>>>),
            One(Struct(<<Str, N1>>), <<<<1, 2>>, 3>>),
            One(Pair(N1, N2), <<3, 7>>), One(Pair(Str, N1), <<<<1>>, 2>>),
            One(Map(N1, N1), <<<<1, 0>>, <<2, 3>>>>),
            One(ForwardList(N1), <<3, 2, 1>>),
            One(Array(N1, 3), <<1, 2, 3>>),
            One(Array(Optional(N1), 2), <<<<2>>, <<>>>>),
            One(Vector(Str), <<<<1>>, <<>>, <<2>>>>),
            One(TimeSequenceOf(Duration(1, 1), N1), <<<<1, 3>>, <<0, 1, 0, 0, 2, 0>>, 2>>),
            One(TimePeriodOf(1, <<3, 2, 1, 1, 1, 1>>), <<1, 0, 2, 1, 3, 0>>),
            One(Coord(N2, N2), <<5, 14>>), One(Position(N2, N2), <<6, 1>>),
            One(Duration(2, 3), 4)}

(* Numbers at the outermost level, one or several to a call. *)
MCNumbers == {One(N2, 6), One(N2, 9), Message(<<N2, N2>>, <<4, 13>>)}

(* Numbers before and after a value in one call. *)
MCMixed == {Message(<<N1, Str>>, <<2, <<3, 1>>>>), Message(<<Str, N2>>, <<<<1>>, 8>>)}

MCDialogues == [1..3 -> MCResumed] \union [1..2 -> MCResumed \union MCWhole]
               \union [1..3 -> MCNumbers] \union [1..2 -> MCResumed \union MCNumbers \union MCMixed]
=============================================================================
