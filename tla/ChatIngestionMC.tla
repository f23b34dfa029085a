-------------------------- MODULE ChatIngestionMC --------------------------
(* Small instances of ChatIngestion: a private chat or group, alone or     *)
(* beside a broadcast channel.                                             *)
EXTENDS ChatIngestion

OneChat == {"group"}
OneKind == [c \in OneChat |-> "chat"]
Four  == [c \in OneChat |-> 4]
Three == [c \in OneChat |-> 3]
Two   == [c \in OneChat |-> 2]

TwoChats == {"group", "news"}
TwoKinds == [c \in TwoChats |-> IF c = "news" THEN "channel" ELSE "chat"]
MostlyNews == [c \in TwoChats |-> IF c = "news" THEN 3 ELSE 1]
=============================================================================
