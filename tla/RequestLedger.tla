--------------------------- MODULE RequestLedger ---------------------------
(***************************************************************************)
(* What the agent promises about one request, whoever sent it: a message   *)
(* taken off the bus or a direct call (CLI, web page, cron, heartbeat).    *)
(* A request is settled once, with one verdict; a final reply is published *)
(* at most once, at the moment of the verdict and never for an aborted     *)
(* request; a turn is recorded in the transcript only for a request that   *)
(* is then answered.                                                       *)
(*                                                                         *)
(* AgentLoop implements this specification (AgentLoop!LedgerSpec); no code *)
(* corresponds to it directly.                                             *)
(***************************************************************************)
EXTENDS Naturals

CONSTANT Requests

VARIABLES
    status,    \* status[r]: how far request r has come
    replies,   \* replies[r]: final replies published for r
    recorded   \* requests whose turn is in the session transcript

ledgerVars == <<status, replies, recorded>>

Verdicts == {"answered", "failed", "aborted"}
Statuses == {"offered", "refused", "accepted", "running"} \cup Verdicts

LedgerInit ==
    /\ status = [r \in Requests |-> "offered"]
    /\ replies = [r \in Requests |-> 0]
    /\ recorded = {}

(* The queue or the caller hands r over, or gives up on a full queue.      *)
Accept(r) ==
    /\ status[r] = "offered"
    /\ status' = [status EXCEPT ![r] = "accepted"]
    /\ UNCHANGED <<replies, recorded>>

Refuse(r) ==
    /\ status[r] = "offered"
    /\ status' = [status EXCEPT ![r] = "refused"]
    /\ UNCHANGED <<replies, recorded>>

Begin(r) ==
    /\ status[r] = "accepted"
    /\ status' = [status EXCEPT ![r] = "running"]
    /\ UNCHANGED <<replies, recorded>>

RecordTurn(r) ==
    /\ status[r] = "running"
    /\ r \notin recorded
    /\ recorded' = recorded \cup {r}
    /\ UNCHANGED <<status, replies>>

(* The verdict, with the final reply when one is published.                *)
Settle(r, v) ==
    /\ status[r] = "running"
    /\ r \in recorded => v = "answered"
    /\ status' = [status EXCEPT ![r] = v]
    /\ \/ UNCHANGED replies
       \/ /\ v # "aborted"
          /\ replies[r] = 0
          /\ replies' = [replies EXCEPT ![r] = 1]
    /\ UNCHANGED recorded

LedgerNext ==
    \E r \in Requests :
        \/ Accept(r) \/ Refuse(r) \/ Begin(r) \/ RecordTurn(r)
        \/ \E v \in Verdicts : Settle(r, v)

LedgerSpec == LedgerInit /\ [][LedgerNext]_ledgerVars
=============================================================================
