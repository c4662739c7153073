------------------------------ MODULE MCParts ------------------------------
(* Instance of Parts for TLC. *)
EXTENDS Parts, MCInstaller, MCExt2, TLC

\* The parts share the names of their actors, which never meet.
Symmetry ==
  Permutations(User) \cup Permutations(StrongVar) \cup Permutations(WeakVar)
    \cup Permutations(Obj)

\* Positive and negative numbers, and zero.
MCSemOp == -2 .. 2

\* A file of four blocks, two of them behind the indirect block, the last not full,
\* and a file that fills its block.
MCLayout ==
  <<[size |-> 13, blocks |-> <<5, 2, 7, 3>>, indirect |-> 1],
    [size |-> 4,  blocks |-> <<4>>,          indirect |-> 0]>>

-----------------------------------------------------------------------------
\* Formats: directives with flags, width, precision, modifier and arguments, among them
\* the smallest int and the smallest long.
Dir(f, mn, mx, m, c, a) ==
  [flags |-> f, min |-> mn, max |-> mx, mod |-> m, conv |-> c, args |-> a, star |-> FALSE]
Star(f, mn, mx, m, c, a) == [Dir(f, mn, mx, m, c, a) EXCEPT !.star = TRUE]
MCPItem ==
  {[lit |-> "a"]}
  \cup {Dir(f, 5, -1, <<>>, <<c>>, <<-42>>) : f \in {<<>>, <<"-">>, <<"0">>, <<"-", "+">>}, c \in {"d", "u"}}
  \cup {Dir(f, n[1], n[2], <<>>, <<"d">>, <<7>>) :
          f \in {<<>>, <<"+">>, <<" ">>, <<"#", "0">>}, n \in {<<0, -1>>, <<12, 3>>}}
  \cup {Dir(<<>>, 0, -1, <<"l">>, <<c>>, <<-1>>) : c \in {"x", "X", "o", "u"}}
  \cup {Dir(<<>>, 0, -1, <<"h">>, <<"i">>, <<0>>), Star(<<"-">>, 4, 2, <<>>, <<"x">>, <<30>>),
        Star(<<>>, 4, -1, <<>>, <<"s">>, << <<"h", "i">> >>),
        Dir(<<>>, 4, -1, <<>>, <<"s">>, << <<"h", "i">> >>),
        Dir(<<"-">>, 4, 3, <<>>, <<"s">>, << <<"h", "i">> >>),
        Dir(<<>>, 0, -1, <<>>, <<"s">>, << <<"NULL">> >>),
        Dir(<<"0">>, 9, 2, <<>>, <<"f">>, <<-305>>), Dir(<<"-">>, 9, -1, <<"L">>, <<"f">>, <<299>>),
        Dir(<<>>, 0, 1, <<>>, <<"f">>, <<299>>), Dir(<<>>, 0, 0, <<>>, <<"f">>, <<50>>),
        Dir(<<>>, 0, -1, <<>>, <<"e">>, <<1>>), Dir(<<>>, 0, -1, <<>>, <<"c">>, <<"z">>),
        Dir(<<>>, 0, -1, <<>>, <<"p">>, <<-31>>), Dir(<<>>, 0, -1, <<>>, <<"%">>, <<>>),
        Dir(<<>>, 0, -1, <<"l">>, <<"n">>, <<0>>), Dir(<<>>, 0, -1, <<>>, <<"w", "d">>, <<>>),
        Dir(<<>>, 0, -1, <<>>, <<"q">>, <<>>),
        Dir(<<>>, 0, -1, <<>>, <<"d">>, <<-128>>), Dir(<<>>, 0, -1, <<"l">>, <<"d">>, <<-65536>>),
        Dir(<<"0">>, 8, -1, <<"l">>, <<"i">>, <<-65536>>)}
-----------------------------------------------------------------------------
\* Part of a file from its third page on, and anonymous memory.
MCWhat == {[node |-> 1, offset |-> 2], [node |-> 0, offset |-> 0]}
MCRange == {[start |-> 3, size |-> 2], [start |-> 0, size |-> 1]}

\* The cores may be listed in an order that is not that of their ids.
MCListing == {[i \in Lapic |-> i], [i \in Lapic |-> (i + 1) % NCores]}
MCGdt == [i \in 0..6 |->
            <<"null", "code16", "data16", "code32", "data32", "code64", "data64">>[i + 1]]

\* Texts with numbers of every kind, among them the smallest one of a byte.
Piece(kd, x, n) == [kind |-> kd, v |-> x, size |-> n]
MCText ==
  {<<Piece("char", "a", 1), Piece("dec", 10, 1), Piece("bool", TRUE, 1)>>,
   <<Piece("dec", -128, 1)>>,
   <<Piece("hex", -2, 2), Piece("str", <<"b">>, 1)>>}
MCUserText == {<<"u", "u">>}
=============================================================================
