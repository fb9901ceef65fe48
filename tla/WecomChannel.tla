----------------------------- MODULE WecomChannel -----------------------------
(***************************************************************************)
(* The WeCom channel over its websocket: connections that break, callbacks *)
(* that are delivered again, the table of ids seen, the request id kept    *)
(* for each chat, and the replies the dispatcher sends with it.  A         *)
(* callback is <<chat, n>>; every delivery of one has a request id of its  *)
(* own, counted up.                                                        *)
(***************************************************************************)
EXTENDS Naturals, Sequences

CONSTANTS
    Chats,
    PerChat,    \* callbacks of a chat
    Refused,    \* callbacks of senders who are not allowed
    TableSize,  \* ids the table holds before it is emptied
    MaxReq,     \* bound on deliveries
    MaxConns    \* bound on connections

VARIABLES
    run,        \* "waiting", "subscribing", "reading", "publishing", "over"
    conns,      \* connections so far
    conn,       \* c.conn: the connection of Send, 0 for none
    alive,      \* the newest connection has not broken
    wire,       \* deliveries on their way
    reqs,       \* deliveries so far
    processed, processedN,
    chatFrames, \* request id to reply with, 0 for none
    hand,       \* the delivery being published
    pending,    \* deliveries the agent is at
    outbound,   \* its answers, each the delivery it answers
    sending,    \* what Send read under the lock
    written,    \* replies on the wire: the answered delivery and the id used
    stopped

vars == <<run, conns, conn, alive, wire, reqs, processed, processedN, chatFrames, hand,
          pending, outbound, sending, written, stopped>>

Callbacks == Chats \X (1 .. PerChat)
ChatOf(d) == d.msg[1]
None == [msg |-> <<"none", 0>>, req |-> 0]

Init ==
    /\ run = "waiting" /\ conns = 0 /\ conn = 0 /\ alive = FALSE
    /\ wire = <<>> /\ reqs = 0
    /\ processed = {} /\ processedN = 0
    /\ chatFrames = [c \in Chats |-> 0]
    /\ hand = None /\ pending = {} /\ outbound = <<>>
    /\ sending = [of |-> None, req |-> 0, conn |-> 0]
    /\ written = {}
    /\ stopped = FALSE

-----------------------------------------------------------------------------
(* The connection                                                          *)

(* The connection is there for Send before it has subscribed.              *)
Connect ==
    /\ run = "waiting" /\ ~stopped /\ conns < MaxConns
    /\ conns' = conns + 1 /\ conn' = conns + 1 /\ alive' = TRUE
    /\ run' = "subscribing"
    /\ UNCHANGED <<wire, reqs, processed, processedN, chatFrames, hand, pending, outbound,
                   sending, written, stopped>>

Subscribed ==
    /\ run = "subscribing" /\ alive
    /\ run' = "reading"
    /\ UNCHANGED <<conns, conn, alive, wire, reqs, processed, processedN, chatFrames, hand,
                   pending, outbound, sending, written, stopped>>

(* connectAndServe returns: the subscription was refused, a read failed or *)
(* the channel was stopped.                                                *)
Leave ==
    /\ \/ run = "subscribing"
       \/ run = "reading" /\ (~alive \/ stopped)
    /\ run' = IF stopped THEN "over" ELSE "waiting"
    /\ conn' = 0 /\ alive' = FALSE /\ wire' = <<>>
    /\ UNCHANGED <<conns, reqs, processed, processedN, chatFrames, hand, pending, outbound,
                   sending, written, stopped>>

Break ==
    /\ alive
    /\ alive' = FALSE /\ wire' = <<>>
    /\ UNCHANGED <<run, conns, conn, reqs, processed, processedN, chatFrames, hand, pending,
                   outbound, sending, written, stopped>>

Stop ==
    /\ ~stopped
    /\ stopped' = TRUE
    /\ conn' = 0
    /\ alive' = FALSE /\ wire' = <<>>
    /\ run' = IF run = "waiting" THEN "over" ELSE run
    /\ UNCHANGED <<conns, reqs, processed, processedN, chatFrames, hand, pending, outbound,
                   sending, written>>

(* WeCom delivers a callback, for the first time or again.                 *)
Deliver(m) ==
    /\ alive /\ run # "subscribing" /\ reqs < MaxReq
    /\ reqs' = reqs + 1
    /\ wire' = Append(wire, [msg |-> m, req |-> reqs + 1])
    /\ UNCHANGED <<run, conns, conn, alive, processed, processedN, chatFrames, hand, pending,
                   outbound, sending, written, stopped>>

-----------------------------------------------------------------------------
(* Callbacks                                                               *)

Marked(m) ==
    IF processedN + 1 > TableSize
    THEN processed' = {} /\ processedN' = 0
    ELSE processed' = processed \cup {m} /\ processedN' = processedN + 1

(* Mutant: the first request id of a chat is kept.                         *)
KeepFrameFirst(d) ==
    chatFrames' = [chatFrames EXCEPT ![ChatOf(d)] = IF @ = 0 THEN d.req ELSE @]

KeepFrame(d) == chatFrames' = [chatFrames EXCEPT ![ChatOf(d)] = d.req]

(* A callback already in the table changes nothing; the others are marked  *)
(* and their request id kept before it is known whether the sender may     *)
(* write.                                                                  *)
HandleCallback ==
    /\ run = "reading" /\ wire # <<>>
    /\ wire' = Tail(wire)
    /\ LET d == Head(wire)
           goesOn == d.msg \notin processed
       IN /\ IF goesOn
             THEN Marked(d.msg) /\ KeepFrame(d)
             ELSE UNCHANGED <<processed, processedN, chatFrames>>
          /\ IF goesOn /\ d.msg \notin Refused
             THEN run' = "publishing" /\ hand' = d
             ELSE UNCHANGED <<run, hand>>
    /\ UNCHANGED <<conns, conn, alive, reqs, pending, outbound, sending, written, stopped>>

(* The queue takes it, or the context has ended.                           *)
Publish ==
    /\ run = "publishing"
    /\ run' = "reading" /\ hand' = None
    /\ \/ pending' = pending \cup {hand}
       \/ stopped /\ UNCHANGED pending
    /\ UNCHANGED <<conns, conn, alive, wire, reqs, processed, processedN, chatFrames,
                   outbound, sending, written, stopped>>

(* The agent answers: the chat is all that comes back of the callback.     *)
Answer(d) ==
    /\ d \in pending
    /\ pending' = pending \ {d}
    /\ outbound' = Append(outbound, d)
    /\ UNCHANGED <<run, conns, conn, alive, wire, reqs, processed, processedN, chatFrames,
                   hand, sending, written, stopped>>

-----------------------------------------------------------------------------
(* Send, by the dispatcher                                                 *)

SendReads ==
    /\ sending.of = None /\ outbound # <<>>
    /\ outbound' = Tail(outbound)
    /\ LET d == Head(outbound)
       IN IF conn = 0 \/ chatFrames[ChatOf(d)] = 0
          THEN UNCHANGED sending
          ELSE sending' = [of |-> d, req |-> chatFrames[ChatOf(d)], conn |-> conn]
    /\ UNCHANGED <<run, conns, conn, alive, wire, reqs, processed, processedN, chatFrames,
                   hand, pending, written, stopped>>

SendWrites ==
    /\ sending.of # None
    /\ sending' = [of |-> None, req |-> 0, conn |-> 0]
    /\ written' = IF alive /\ sending.conn = conns
                  THEN written \cup {[of |-> sending.of, req |-> sending.req]}
                  ELSE written
    /\ UNCHANGED <<run, conns, conn, alive, wire, reqs, processed, processedN, chatFrames,
                   hand, pending, outbound, stopped>>

Next ==
    \/ Connect \/ Subscribed \/ Leave \/ Break \/ Stop
    \/ \E m \in Callbacks : Deliver(m)
    \/ HandleCallback \/ Publish
    \/ \E d \in pending : Answer(d)
    \/ SendReads \/ SendWrites

Spec == Init /\ [][Next]_vars

-----------------------------------------------------------------------------
(* A reply never goes out under a request older than the one it answers:   *)
(* the id kept for the chat may be that of a later callback, but the one   *)
(* of an earlier, perhaps already answered, has been replaced.             *)
ReplyNotStale == \A w \in written : w.req >= w.of.req
=============================================================================
