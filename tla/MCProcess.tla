----------------------------- MODULE MCProcess ------------------------------
EXTENDS Outlook
MCConversations == 1 .. 2
MCScript == [c \in MCConversations |->
  IF c = 1 THEN <<"state", "action", "state">> ELSE <<"action", "action", "state">>]
MCReadings == {Events, Events \ {<<1, 2>>}}
\* Every Action its own; or some alike, with names that fold.
Apart == [t \in Events |-> IF t[2] = 3 THEN 3 ELSE 3 * (t[1] - 1) + t[2]]
Alike == [t \in Events |-> IF t = <<2, 1>> THEN 2 ELSE IF t = <<2, 2>> THEN 7 ELSE t[2]]
MCGroupings == {Apart, Alike}
MCNear == {{2, 7}, {1, 3}}
Well == [type |-> "fixed", good |-> 1]
Ill == [type |-> "lost", good |-> 0]
MCEndings == {[c \in MCConversations |-> IF c = 1 THEN Well ELSE Ill],
              [c \in MCConversations |-> IF c = 1 THEN Ill ELSE Nil]}
\* The stages, again and killed; or an outlook beside one build's.
Runs(n, asks) == [c \in Commands |->
  IF c = "outlook" THEN asks ELSE IF c \in {"annotate", "outcomes"} THEN 1 ELSE n]
MCBudgets == {[Runs(2, 0) EXCEPT !["absorb"] = 1], [Runs(1, 1) EXCEPT !["absorb"] = 2]}
=============================================================================
