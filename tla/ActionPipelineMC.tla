-------------------------- MODULE ActionPipelineMC --------------------------
(* Values of ActionPipeline's constants for TLC. *)
EXTENDS ActionPipeline, TLC

CONSTANTS m1, m2, m3

OneByOne == (m1 :> 1) @@ (m2 :> 2)
OneByOneOfThree == OneByOne @@ (m3 :> 3)

\* The numbers of messages of one chat are OneByOne; of messages of two chats:
TwoChats == (m1 :> 1) @@ (m2 :> 1)
=============================================================================
