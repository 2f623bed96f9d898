-------------------------- MODULE MCPairedViewers --------------------------
(* A conversation of the root's; one in which a child takes part; and one  *)
(* in which the root hands over to a child that has not spoken yet.        *)
EXTENDS PairedViewers

Rec(key, author, branch, parts, ends, transfer) ==
  [key |-> key, at |-> key, author |-> author, branch |-> branch, partial |-> FALSE,
   invocation |-> 1, parts |-> parts, ends |-> ends, transfer |-> transfer]

Ask(key)    == Rec(key, User, <<>>, <<"text">>, {}, 0)
Answer(key) == Rec(key, 1, <<>>, <<"text">>, {}, 0)
Child(key)  == Rec(key, 2, <<1>>, <<"text">>, {"turn"}, 0)

Conversations == {
  <<Ask(1), Answer(2), [Answer(3) EXCEPT !.partial = TRUE], Ask(4)>>,
  <<Ask(1), Child(2)>> }

HandedOver == { <<Ask(1), Rec(2, 1, <<>>, <<"call", "result">>, {}, 2)>> }
=============================================================================
