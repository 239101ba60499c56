---------------------------- MODULE MCChatTurns ------------------------------
(* A small instance of ChatTurns: a question with two replies, both cut    *)
(* off by the output limit, and two requests, each at any point of the     *)
(* other.                                                                  *)
EXTENDS ChatTurns, TLC

CONSTANTS r1, r2

Reply(n) == [Row("assistant", 1, Nobody) EXCEPT !.text = <<<<"text", Nobody, n>>>>,
                                                !.cut = TRUE]
TwoReplies ==
  <<[Row("user", 0, Nobody) EXCEPT !.text = <<<<"ask", Nobody>>>>], Reply(1), Reply(2)>>

AskAndAny ==
  [r \in Requests |-> IF r = r1 THEN {"send"}
                      ELSE {"edit", "regenerate", "continue", "branch", "delete"}]
=============================================================================
