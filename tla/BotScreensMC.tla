---------------------------- MODULE BotScreensMC ----------------------------
(* Values for BotScreens.                                                  *)
EXTENDS BotScreens

ThreeKinds == [c \in 1 .. 3 |-> IF c = 3 THEN "channel" ELSE "chat"]
\* The second chat comes in before them, without a title, or between them.
TwoStored  == [c \in {1, 3} |-> 1]
=============================================================================
