------------------------------ MODULE Subagents -------------------------------
(***************************************************************************)
(* Subagents: spawned by a tool whose chat is set by whichever run came    *)
(* last, each a goroutine with a context of its own that calls the model   *)
(* up to a limit and announces the outcome on the outbound queue.          *)
(***************************************************************************)
EXTENDS Naturals, Sequences

CONSTANTS
    Tasks,
    Chats,
    Subscribed, \* the chats of channels that have a subscriber: not the
                \* command line nor the web page
    MaxIters,   \* calls of the model
    Cap         \* of the outbound queue

VARIABLES
    route,      \* the chat of the spawn tool
    running,    \* m.running
    at,         \* the step of each task
    iter,
    origin,     \* the chat a task announces to
    outbound,   \* announcements in the queue
    ctx,        \* of the gateway: "open" or "cancelled"
    dispatcher, \* "idle", "sending" or "ended"
    taken,      \* the announcement it has taken last, in a set
    delivered   \* history: announcements a channel has been handed

queueVars == <<outbound, dispatcher, taken, delivered>>
vars == <<route, running, at, iter, origin, ctx, queueVars>>

Init ==
    /\ route = "cli"
    /\ running = {}
    /\ at = [t \in Tasks |-> "none"]
    /\ iter = [t \in Tasks |-> 0]
    /\ origin = [t \in Tasks |-> "cli"]
    /\ outbound = <<>> /\ ctx = "open" /\ delivered = {}
    /\ dispatcher = "idle" /\ taken = {}

(* Every run sets the chat of the one tool.                                *)
SetContext(chat) ==
    /\ route # chat
    /\ route' = chat
    /\ UNCHANGED <<running, at, iter, origin, ctx, queueVars>>

Goes(t, step) == at' = [at EXCEPT ![t] = step]

(* The tool answers at once; the task connects to the tool servers first.  *)
Spawn(t) ==
    /\ at[t] = "none"
    /\ running' = running \cup {t}
    /\ origin' = [origin EXCEPT ![t] = route]
    /\ Goes(t, "starting")
    /\ UNCHANGED <<route, iter, ctx, queueVars>>

Connect(t) ==
    /\ at[t] = "starting"
    /\ Goes(t, "looping")
    /\ UNCHANGED <<route, running, iter, origin, ctx, queueVars>>

(* Mutant: a task that runs out of iterations just ends.                   *)
OutOfItersSilent == "leaving"

(* What follows the last iteration: a text says that there is no answer.   *)
OutOfIters == "announcing"

Loop(t) ==
    /\ at[t] = "looping"
    /\ Goes(t, IF iter[t] < MaxIters THEN "asking" ELSE OutOfIters)
    /\ UNCHANGED <<route, running, iter, origin, ctx, queueVars>>

(* The model fails, or answers without calls: that is announced.           *)
Concludes(t) ==
    /\ at[t] = "asking"
    /\ Goes(t, "announcing")
    /\ UNCHANGED <<route, running, iter, origin, ctx, queueVars>>

(* The model asks for tools: they run, and it is asked again.              *)
CallTools(t) ==
    /\ at[t] = "asking"
    /\ iter' = [iter EXCEPT ![t] = @ + 1]
    /\ Goes(t, "looping")
    /\ UNCHANGED <<route, running, origin, ctx, queueVars>>

(* Waits for room for as long as it takes.                                 *)
Announce(t) ==
    /\ at[t] = "announcing" /\ Len(outbound) < Cap
    /\ outbound' = Append(outbound, [task |-> t, chat |-> origin[t]])
    /\ Goes(t, "leaving")
    /\ UNCHANGED <<route, running, iter, origin, ctx, dispatcher, taken, delivered>>

Leave(t) ==
    /\ at[t] = "leaving"
    /\ running' = running \ {t}
    /\ Goes(t, "ended")
    /\ UNCHANGED <<route, iter, origin, ctx, queueVars>>

(* DispatchOutbound takes a message and calls the Send of its channel, if  *)
(* it has a subscriber, and waits for it; otherwise the message is gone.   *)
Dispatch ==
    /\ dispatcher = "idle" /\ outbound # <<>>
    /\ outbound' = Tail(outbound)
    /\ taken' = {Head(outbound)}
    /\ dispatcher' = IF Head(outbound).chat \in Subscribed THEN "sending" ELSE "idle"
    /\ UNCHANGED <<route, running, at, iter, origin, ctx, delivered>>

Sent ==
    /\ dispatcher = "sending"
    /\ dispatcher' = "idle"
    /\ delivered' = delivered \cup taken
    /\ UNCHANGED <<route, running, at, iter, origin, ctx, outbound, taken>>

DispatcherEnds ==
    /\ dispatcher = "idle" /\ ctx = "cancelled"
    /\ dispatcher' = "ended"
    /\ UNCHANGED <<route, running, at, iter, origin, ctx, outbound, taken, delivered>>

(* A shutdown does not reach the tasks: they go on until the process ends, *)
(* and nobody takes what they announce.                                    *)
Cancel ==
    /\ ctx = "open"
    /\ ctx' = "cancelled"
    /\ UNCHANGED <<route, running, at, iter, origin, queueVars>>

Works(t) == Loop(t) \/ Announce(t) \/ Leave(t)
Returns(t) == Connect(t) \/ Concludes(t) \/ CallTools(t)

Next ==
    \/ \E chat \in Chats : SetContext(chat)
    \/ \E t \in Tasks : Spawn(t) \/ Works(t) \/ Returns(t)
    \/ Dispatch \/ Sent \/ DispatcherEnds \/ Cancel

(* Goroutines run, unless they are inside a call.                          *)
Goroutines == WF_vars(Dispatch) /\ \A t \in Tasks : WF_vars(Works(t))

Spec == Init /\ [][Next]_vars /\ Goroutines

-----------------------------------------------------------------------------
InCall(t) == at[t] \in {"starting", "asking"}
CallsReturn == []<>(dispatcher # "sending") /\ \A t \in Tasks : []<>(~InCall(t))

(* "I'll notify you when it completes": while the gateway runs every task  *)
(* spawned for a chat that has a subscriber ends with an announcement to   *)
(* that chat, however the model fails, however often it asks for tools and *)
(* however full the queue is.  The condition is the environment's, for the *)
(* code bounds neither the calls of the model and the tool servers         *)
(* (openai.go:33, subagent.go:103) nor the Send of a channel; and what is  *)
(* announced to a chat of the command line or the web page is dropped.     *)
SpawnedAnnounces ==
    CallsReturn =>
      \A t \in Tasks :
        t \in running /\ origin[t] \in Subscribed
          ~> ctx = "cancelled" \/ [task |-> t, chat |-> origin[t]] \in delivered
=============================================================================
