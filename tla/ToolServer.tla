------------------------------ MODULE ToolServer ------------------------------
(***************************************************************************)
(* The calls of one MCP tool: the session they share, which may break at   *)
(* any time, the one retry after a connection error, and the reconnection, *)
(* made under the lock of the tool.  Sessions are numbered as they open.   *)
(***************************************************************************)
EXTENDS Naturals

CONSTANTS
    Calls,
    MaxSessions     \* bound on the sessions opened

VARIABLES
    session,    \* of the tool
    opened,     \* sessions opened so far
    broken,     \* the sessions that have broken
    mu,         \* the call that holds the lock, or Nobody
    at,         \* the step of each call
    uses,       \* the session a call took
    tries,      \* times it has called
    failedAt,   \* history: the sessions opened when its first try failed with
                \* an error that reads as closed, 0 before
    ran         \* history: the sessions the server ran it on, in a bag

vars == <<session, opened, broken, mu, at, uses, tries, failedAt, ran>>

Nobody == "nobody"

Init ==
    /\ session = 1 /\ opened = 1 /\ broken = {}
    /\ mu = Nobody
    /\ at = [c \in Calls |-> "idle"]
    /\ uses = [c \in Calls |-> 0]
    /\ tries = [c \in Calls |-> 0]
    /\ failedAt = [c \in Calls |-> 0]
    /\ ran = [c \in Calls |-> [s \in 1 .. MaxSessions |-> 0]]

Goes(c, step) == at' = [at EXCEPT ![c] = step]

(* Execute copies the session under the lock, for each of its two tries.   *)
Take(c) ==
    /\ at[c] \in {"idle", "reconnected"} /\ mu = Nobody
    /\ uses' = [uses EXCEPT ![c] = session]
    /\ tries' = [tries EXCEPT ![c] = @ + 1]
    /\ Goes(c, "calling")
    /\ UNCHANGED <<session, opened, broken, mu, failedAt, ran>>

(* The server runs the tool.                                               *)
Run(c) ==
    /\ at[c] = "calling" /\ uses[c] \notin broken
    /\ ran' = [ran EXCEPT ![c][uses[c]] = @ + 1]
    /\ Goes(c, "running")
    /\ UNCHANGED <<session, opened, broken, mu, uses, tries, failedAt>>

Answered(c) ==
    /\ at[c] = "running" /\ uses[c] \notin broken
    /\ Goes(c, "done")
    /\ UNCHANGED <<session, opened, broken, mu, uses, tries, failedAt, ran>>

(* Mutant: any error is taken for a closed connection.                     *)
ReconnectsAlways(error) == TRUE

(* shouldReconnectMCP, by words in the text of the error.                  *)
Reconnects(error) == error = "closed"

(* The call fails: with its connection, with an error the server answers,  *)
(* or when its time is up, which the two tries share.  The server may have *)
(* run it or may not, and the text of any of these errors may read as      *)
(* closed.                                                                 *)
Fails(c, error) ==
    /\ at[c] \in {"calling", "running"}
    /\ Goes(c, IF tries[c] = 1 /\ Reconnects(error) THEN "failed" ELSE "done")
    /\ failedAt' = IF tries[c] = 1 /\ error = "closed"
                   THEN [failedAt EXCEPT ![c] = opened] ELSE failedAt
    /\ UNCHANGED <<session, opened, broken, mu, uses, tries, ran>>

(* reconnect takes the lock and keeps it while it connects.                *)
Lock(c) ==
    /\ at[c] = "failed" /\ mu = Nobody
    /\ mu' = c
    /\ Goes(c, "connecting")
    /\ UNCHANGED <<session, opened, broken, uses, tries, failedAt, ran>>

(* The session it had is not closed; nor is the new one when the server no *)
(* longer lists the tool.                                                  *)
Reconnected(c) ==
    /\ at[c] = "connecting" /\ opened < MaxSessions
    /\ opened' = opened + 1
    /\ mu' = Nobody
    /\ \/ session' = opened + 1 /\ Goes(c, "reconnected")
       \/ UNCHANGED session /\ Goes(c, "done")
    /\ UNCHANGED <<broken, uses, tries, failedAt, ran>>

ReconnectFails(c) ==
    /\ at[c] = "connecting"
    /\ mu' = Nobody
    /\ Goes(c, "done")
    /\ UNCHANGED <<session, opened, broken, uses, tries, failedAt, ran>>

Break(s) ==
    /\ s \in (1 .. opened) \ broken
    /\ broken' = broken \cup {s}
    /\ UNCHANGED <<session, opened, mu, at, uses, tries, failedAt, ran>>

Next ==
    \/ \E c \in Calls :
         \/ Take(c) \/ Run(c) \/ Answered(c) \/ Lock(c) \/ Reconnected(c)
         \/ ReconnectFails(c)
         \/ \E error \in {"closed", "other"} : Fails(c, error)
    \/ \E s \in 1 .. MaxSessions : Break(s)

Spec == Init /\ [][Next]_vars

-----------------------------------------------------------------------------
(* The server runs a call again only after its first try failed with an    *)
(* error that reads as closed, on a session opened since that failure, and *)
(* no call runs twice on one session: none that was answered, or ran out   *)
(* of time, is repeated, whatever other calls reconnect meanwhile.  That   *)
(* the connection had broken is not so: mcp.go:257 looks for words in the  *)
(* text, and an error of the tool itself may hold them.                    *)
RunAgainOnlyIfClosed ==
    \A c \in Calls : \A s, t \in 1 .. MaxSessions :
      /\ ran[c][s] <= 1
      /\ s < t /\ ran[c][s] = 1 /\ ran[c][t] = 1
           => s <= failedAt[c] /\ failedAt[c] < t /\ t = uses[c]
=============================================================================
