---------------------------- MODULE BotRuntimeMC ----------------------------
(* Values of BotRuntime's constants for TLC. *)
EXTENDS BotRuntime

AllKinds == <<"command", "press", "ignored", "press", "broken">>
NoneBroken == <<"command", "press", "ignored", "press">>
WithBroken == <<"command", "broken", "press">>
OneCommand == <<"command">>
=============================================================================
