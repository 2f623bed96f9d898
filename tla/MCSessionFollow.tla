-------------------------- MODULE MCSessionFollow --------------------------
(* The root's call and transfer to a child, the child in two notations (in *)
(* the same millisecond, and later), and a grandchild without a time whose *)
(* parent says nothing.                                                    *)
EXTENDS SessionFollow

Rec(key, at, author, branch, parts, ends, transfer) ==
  [key |-> key, at |-> at, author |-> author, branch |-> branch, partial |-> FALSE,
   invocation |-> 1, parts |-> parts, ends |-> ends, transfer |-> transfer]

Script == {
  Rec(1, 1, 1, <<>>, <<"thought", "call">>, {}, 2),
  Rec(2, 1, 2, <<1>>, <<"text">>, {}, 0),
  Rec(3, 2, 2, <<1, 2>>, <<"text", "result">>, {"turn"}, 0),
  [Rec(4, 0, 4, <<1, 3>>, <<"text">>, {"error", "turn"}, 0) EXCEPT !.invocation = 0] }
=============================================================================
