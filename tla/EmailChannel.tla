----------------------------- MODULE EmailChannel -----------------------------
(***************************************************************************)
(* The email channel: polls that fetch the unseen mails one by one, mark   *)
(* them in memory and on the server, and hand the whole batch to the agent *)
(* only then.  The server may refuse the mark, the owner of the mailbox    *)
(* may take it back, and the process may end and start again.  The last    *)
(* subject and message id of a sender, kept for replies, are left out.     *)
(***************************************************************************)
EXTENDS Naturals, Sequences, SequencesExt

CONSTANTS
    Mails,
    Anonymous,      \* mails without a sender
    Refused,        \* mails of senders who are not allowed
    MaxProcessed,   \* maxProcessedUIDs
    MaxStarts,      \* bound on starts of the process
    MaxUnmarked     \* bound on marks the server refuses or the owner takes back

VARIABLES
    flag,           \* on the server: "absent", "unseen" or "seen"
    poll,           \* "idle", "fetching", "publishing" or "ended"
    found,          \* mails the search found and the loop has not come to
    processedUIDs,
    result,         \* the batch
    ctx,            \* "open" or "cancelled"
    starts, unmarked,
    published,      \* history: times each mail was handed to the agent
    forgotten,      \* history: times the channel has forgotten a mail
    lost            \* history: mails of a batch that ended with its process

vars == <<flag, poll, found, processedUIDs, result, ctx, starts, unmarked, published,
          forgotten, lost>>

Init ==
    /\ flag = [m \in Mails |-> "absent"]
    /\ poll = "idle" /\ found = {} /\ processedUIDs = {} /\ result = <<>>
    /\ ctx = "open" /\ starts = 1 /\ unmarked = 0
    /\ published = [m \in Mails |-> 0]
    /\ forgotten = [m \in Mails |-> 0]
    /\ lost = {}

-----------------------------------------------------------------------------
(* The mailbox                                                             *)

Arrive(m) ==
    /\ flag[m] = "absent"
    /\ flag' = [flag EXCEPT ![m] = "unseen"]
    /\ UNCHANGED <<poll, found, processedUIDs, result, ctx, starts, unmarked, published,
                   forgotten, lost>>

MarkUnread(m) ==
    /\ flag[m] = "seen" /\ unmarked < MaxUnmarked
    /\ flag' = [flag EXCEPT ![m] = "unseen"]
    /\ unmarked' = unmarked + 1
    /\ UNCHANGED <<poll, found, processedUIDs, result, ctx, starts, published, forgotten,
                   lost>>

-----------------------------------------------------------------------------
(* A poll                                                                  *)

(* Connect, log in, select and search: when one fails nothing is found.    *)
Search ==
    /\ poll = "idle"
    /\ poll' = "fetching"
    /\ found' \in {{}, {m \in Mails : flag[m] = "unseen"}}
    /\ UNCHANGED <<flag, processedUIDs, result, ctx, starts, unmarked, published, forgotten,
                   lost>>

(* Mutant: a mail whose mark the server refuses is not remembered.         *)
RememberedIfStored(m, stored) == IF stored THEN {m} ELSE {}

(* What a fetch adds to the table, whether or not the server took the mark. *)
Remembered(m, stored) == {m}

(* Above the limit half of the ids go, whichever the map yields first.     *)
Evictions(ids) ==
    IF Cardinality(ids) > MaxProcessed
    THEN {kept \in SUBSET ids : Cardinality(kept) = Cardinality(ids) - Cardinality(ids) \div 2}
    ELSE {ids}

(* One mail is fetched.  Seen in memory, it is passed over; without a      *)
(* sender, it is passed over on every poll; else it joins the batch and is *)
(* marked here and on the server, whose refusal goes unnoticed.            *)
Fetch(m) ==
    /\ poll = "fetching" /\ m \in found
    /\ found' = found \ {m}
    /\ IF m \in processedUIDs \cup Anonymous
       THEN UNCHANGED <<flag, processedUIDs, result, unmarked, forgotten>>
       ELSE \E stored \in BOOLEAN :
              /\ ~stored => unmarked < MaxUnmarked
              /\ unmarked' = IF stored THEN unmarked ELSE unmarked + 1
              /\ result' = Append(result, m)
              /\ flag' = IF stored THEN [flag EXCEPT ![m] = "seen"] ELSE flag
              /\ LET ids == processedUIDs \cup Remembered(m, stored)
                 IN \E kept \in Evictions(ids) :
                      /\ processedUIDs' = kept
                      /\ forgotten' = [n \in Mails |-> forgotten[n] +
                                         IF n \in ids \ kept THEN 1 ELSE 0]
    /\ UNCHANGED <<poll, ctx, starts, published, lost>>

(* The fetch of one mail brings nothing.                                   *)
FetchNothing(m) ==
    /\ poll = "fetching" /\ m \in found
    /\ found' = found \ {m}
    /\ UNCHANGED <<flag, poll, processedUIDs, result, ctx, starts, unmarked, published,
                   forgotten, lost>>

Fetched ==
    /\ poll = "fetching" /\ found = {}
    /\ poll' = "publishing"
    /\ UNCHANGED <<flag, found, processedUIDs, result, ctx, starts, unmarked, published,
                   forgotten, lost>>

(* The next mail of the batch goes into the queue, unless its sender is    *)
(* not allowed, or the context has ended while there is no room.           *)
Publish ==
    /\ poll = "publishing" /\ result # <<>>
    /\ result' = Tail(result)
    /\ LET m == Head(result)
       IN \/ m \in Refused /\ UNCHANGED <<published, lost>>
          \/ /\ m \notin Refused
             /\ published' = [published EXCEPT ![m] = @ + 1]
             /\ UNCHANGED lost
          \/ /\ m \notin Refused /\ ctx = "cancelled"
             /\ lost' = lost \cup {m}
             /\ UNCHANGED published
    /\ UNCHANGED <<flag, poll, found, processedUIDs, ctx, starts, unmarked, forgotten>>

Published ==
    /\ poll = "publishing" /\ result = <<>>
    /\ poll' = "idle"
    /\ UNCHANGED <<flag, found, processedUIDs, result, ctx, starts, unmarked, published,
                   forgotten, lost>>

-----------------------------------------------------------------------------
(* The process                                                             *)

Cancel ==
    /\ ctx = "open"
    /\ ctx' = "cancelled"
    /\ UNCHANGED <<flag, poll, found, processedUIDs, result, starts, unmarked, published,
                   forgotten, lost>>

End ==
    /\ poll = "idle" /\ ctx = "cancelled"
    /\ poll' = "ended"
    /\ UNCHANGED <<flag, found, processedUIDs, result, ctx, starts, unmarked, published,
                   forgotten, lost>>

(* The process ends, at any step, and starts again with an empty table.    *)
Restart ==
    /\ starts < MaxStarts
    /\ starts' = starts + 1
    /\ poll' = "idle" /\ ctx' = "open" /\ found' = {} /\ result' = <<>>
    /\ lost' = lost \cup ToSet(result)
    /\ processedUIDs' = {}
    /\ forgotten' = [m \in Mails |-> forgotten[m] + IF m \in processedUIDs THEN 1 ELSE 0]
    /\ UNCHANGED <<flag, unmarked, published>>

Next ==
    \/ \E m \in Mails : Arrive(m) \/ MarkUnread(m) \/ Fetch(m) \/ FetchNothing(m)
    \/ Search \/ Fetched \/ Publish \/ Published \/ Cancel \/ End \/ Restart

Spec == Init /\ [][Next]_vars

-----------------------------------------------------------------------------
(* A mail the channel has marked as seen was handed to the agent, is in    *)
(* the batch in hand, was refused, or went with the process that held it;  *)
(* and it is handed over again only after the channel has forgotten it.    *)
HandedOver ==
    \A m \in Mails :
      /\ flag[m] = "seen" =>
           published[m] > 0 \/ m \in ToSet(result) \cup Refused \cup lost
      /\ published[m] <= 1 + forgotten[m]
=============================================================================
