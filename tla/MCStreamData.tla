----------------------------- MODULE MCStreamData -----------------------------
(* Instances of StreamData for TLC: three words, one of them too long. *)
EXTENDS StreamData, TLC

TwoNames == {"host", "x"}
ThreeNames == TwoNames \union {":path"}
SlashTexts == {<<"/a">>}
Lengths ==
  [w \in TwoNames \union Pseudo \union {"", "get", "/a", "bbb", "long", "200", "junk"} |->
     CASE w = ":authority" -> 10
       [] w \in {":method", ":status"} -> 7
       [] w = ":path" -> 5
       [] w \in {"host", "long", "junk"} -> 4
       [] w \in {"get", "bbb", "200"} -> 3
       [] w = "/a" -> 2
       [] w = "x" -> 1
       [] w = "" -> 0]
Code == <<"200">>

Tables ==
  {[s \in Sides |-> IF s = "req" THEN <<Field("host", <<"/a">>), Field("x", <<"long">>)>>
                    ELSE <<Field("x", <<"bbb">>)>>]}

\* The maps and the bodies share nothing: a stream whose guest has used the maps
\* is followed up to its first, empty, chunk, and its body is left alone.
OneFamily ==
  \/ headers \in Tables /\ trailers = [s \in Sides |-> <<>>] /\ held = Nothing
  \/ callback <= 1 /\ ~modified /\ chunk = <<>>

Line(n, b, v) == [colon |-> TRUE, name |-> n, blanks |-> b, value |-> v]
Junk == [colon |-> FALSE, name |-> "junk", blanks |-> 0, value |-> <<>>]

\* An answer with more lines than are listed, the first of them bare, and one
\* without a status whose first value is empty but not bare.
SomeAnswers ==
  {[valid |-> TRUE, status |-> Code,
    lines |-> <<Line("x", 0, <<>>), Junk, Line("x", 0, <<"bbb">>), Line("host", 1, <<"/a">>)>>],
   [valid |-> TRUE, status |-> <<>>, lines |-> <<Line("x", 1, <<>>), Line("x", 1, <<"/a">>)>>]}
=============================================================================
