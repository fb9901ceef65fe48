---------------------------- MODULE MCAgentLoop ----------------------------
(***************************************************************************)
(* Instances of AgentLoop for TLC.  Session s1 receives bus messages and   *)
(* direct calls, session s2 a bus message; each session has one chat.      *)
(***************************************************************************)
EXTENDS AgentLoop, TLC

CONSTANTS b1, b2, b3, d1, d2, s1, s2, c1, c2

MCSessionOf == [r \in Requests |-> IF r = b2 THEN s2 ELSE s1]
MCChatOf == [r \in Requests |-> IF r = b2 THEN c2 ELSE c1]
MCAllChat == [r \in Requests |-> "chat"]
MCCommand == [r \in Requests |-> IF r = b2 THEN "new" ELSE "chat"]

(* For liveness: one full run, one short run to supersede it, and a bus    *)
(* message of the other session that needs the registry meanwhile.         *)
MCCommandLive ==
    [r \in Requests |-> CASE r = b2 -> "new" [] r = d2 -> "help"
                          [] OTHER -> "chat"]
=============================================================================
