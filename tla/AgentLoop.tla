----------------------------- MODULE AgentLoop -----------------------------
(***************************************************************************)
(* The agent core: the message bus (bus/queue.go), the consumer loop Run,  *)
(* the per-session cancel registry sessionCancels with its mutex, and the  *)
(* life of one run from handleInboundMessage or ProcessDirect to its reply *)
(* (agent/loop.go).                                                        *)
(*                                                                         *)
(* Goroutines are the consumer (at most one request in the phases          *)
(* superseding, flushing, registering on behalf of the bus), one goroutine *)
(* per started request and the outbound dispatcher.  A request is the      *)
(* inbound message or the direct call that makes the run, so a run is      *)
(* named by its request.                                                   *)
(***************************************************************************)
EXTENDS Naturals, Sequences, FiniteSets

CONSTANTS
    BusRequests,      \* messages that channels, gateway or sessions_send publish
    DirectRequests,   \* ProcessDirect calls: CLI, web, cron, heartbeat
    Sessions,         \* session keys
    Chats,            \* (channel, chatID) pairs
    NoRun, NoChat,    \* absence markers
    SessionOf,        \* SessionOf[r]: session key of request r
    ChatOf,           \* ChatOf[r]: where the answer to r belongs
    Command,          \* Command[r]: "chat", "new" or "help"
    InboundCap,       \* 256 in NewMessageBus
    OutboundCap,      \* 256 in NewMessageBus
    MaxIter,          \* maxIter: Chat rounds of one run, 20 by default
    RunTimeout        \* runTimeoutSec > 0

Requests == BusRequests \cup DirectRequests

ASSUME RequestAssumption ==
    /\ BusRequests \cap DirectRequests = {}
    /\ NoRun \notin Requests
    /\ NoChat \notin Chats
    /\ SessionOf \in [Requests -> Sessions]
    /\ ChatOf \in [Requests -> Chats]
    /\ Command \in [Requests -> {"chat", "new", "help"}]

ASSUME BoundAssumption ==
    /\ InboundCap \in Nat \ {0}
    /\ OutboundCap \in Nat \ {0}
    /\ MaxIter \in Nat \ {0}
    /\ RunTimeout \in BOOLEAN

VARIABLES
    inbound,       \* MessageBus.inbound
    outbound,      \* MessageBus.outbound
    registry,      \* sessionCancels: session -> request whose run it can cancel
    mutex,         \* request on whose behalf sessionCancelsMu is held over a flush
    toolChat,      \* the one Channel/ChatID the shared MessageTool holds
    serving,       \* the context given to Run and DispatchOutbound is not done
    consuming,     \* Run has not returned
    pc,            \* pc[r]: where the run of r stands
    ctx,           \* ctx[r]: Err() of its execution context, "live" when nil
    iter,          \* iter[r]: finished Chat rounds that called tools
    failure,       \* failure[r]: the error processMessage returned
    verdict,       \* verdict[r]: how the request ended
    saved,         \* requests whose turn was added to the session and saved
    replies        \* replies[r]: final replies published for r

busVars  == <<inbound, outbound>>
regVars  == <<registry, mutex>>
svcVars  == <<serving, consuming>>
runVars  == <<iter, failure, verdict, saved, replies>>
vars == <<busVars, regVars, toolChat, svcVars, pc, ctx, runVars>>

Phases == {"idle", "queued", "rejected", "superseding", "flushing",
           "registering", "started", "opening", "resetting", "calling",
           "waiting", "tools", "messaging", "relaying", "recording", "replying", "failing",
           "closing", "done"}
CtxStates == {"live", "canceled", "deadline"}
Message == [to : Chats, by : Requests, kind : {"final", "tool"}]

(* Phases in which the consumer goroutine works on a bus message.          *)
Handling == {"superseding", "flushing", "registering"}
(* Phases after the execution context exists and before the run is over.   *)
Executing == {"started", "opening", "resetting", "calling", "waiting",
              "tools", "messaging", "relaying", "recording", "replying",
              "failing", "closing"}

Goto(r, phase) == pc' = [pc EXCEPT ![r] = phase]

(* context.CancelFunc: the first reason a context is done is kept.         *)
Cancel(c, r) == [c EXCEPT ![r] = IF @ = "live" THEN "canceled" ELSE @]

Init ==
    /\ inbound = <<>> /\ outbound = <<>>
    /\ registry = [s \in Sessions |-> NoRun]
    /\ mutex = NoRun
    /\ toolChat = NoChat
    /\ serving = TRUE /\ consuming = TRUE
    /\ pc = [r \in Requests |-> "idle"]
    /\ ctx = [r \in Requests |-> "live"]
    /\ iter = [r \in Requests |-> 0]
    /\ failure = [r \in Requests |-> "none"]
    /\ verdict = [r \in Requests |-> "none"]
    /\ saved = {}
    /\ replies = [r \in Requests |-> 0]

-----------------------------------------------------------------------------
(* The bus.                                                                *)

(* Mutant: an unbounded queue.                                             *)
PublishInboundUnbounded(r) ==
    /\ r \in BusRequests
    /\ pc[r] = "idle"
    /\ inbound' = Append(inbound, r)
    /\ Goto(r, "queued")
    /\ UNCHANGED <<outbound, regVars, toolChat, svcVars, ctx, runVars>>

(* PublishInbound by a channel, the gateway or a webhook.                  *)
PublishInbound(r) ==
    /\ r \in BusRequests
    /\ pc[r] = "idle"
    /\ Len(inbound) < InboundCap
    /\ inbound' = Append(inbound, r)
    /\ Goto(r, "queued")
    /\ UNCHANGED <<outbound, regVars, toolChat, svcVars, ctx, runVars>>

(* The publisher's context ends while the queue is full: gateway after 5 s.*)
PublishTimesOut(r) ==
    /\ r \in BusRequests
    /\ pc[r] = "idle"
    /\ Len(inbound) = InboundCap
    /\ Goto(r, "rejected")
    /\ UNCHANGED <<busVars, regVars, toolChat, svcVars, ctx, runVars>>

ConsumerBusy == \E r \in BusRequests : pc[r] \in Handling

(* Run takes the next message; select may prefer it to a done context.     *)
ConsumeInbound ==
    /\ consuming
    /\ ~ConsumerBusy
    /\ inbound # <<>>
    /\ inbound' = Tail(inbound)
    /\ Goto(Head(inbound), "superseding")
    /\ UNCHANGED <<outbound, regVars, toolChat, svcVars, ctx, runVars>>

(* Run sees its context done, flushes all sessions and returns.            *)
StopConsuming ==
    /\ consuming
    /\ ~serving
    /\ ~ConsumerBusy
    /\ consuming' = FALSE
    /\ UNCHANGED <<busVars, regVars, toolChat, serving, pc, ctx, runVars>>

(* DispatchOutbound hands the next message to the channel's callbacks.  Its *)
(* select may still prefer a message once the context is done; that it has *)
(* returned is that it is not scheduled any more.                          *)
DispatchOutbound ==
    /\ outbound # <<>>
    /\ outbound' = Tail(outbound)
    /\ UNCHANGED <<inbound, regVars, toolChat, svcVars, pc, ctx, runVars>>

(* SIGINT: cancel() in runGateway ends the context of Run, and with it the *)
(* execution context of every bus run.                                     *)
Shutdown ==
    /\ serving
    /\ serving' = FALSE
    /\ ctx' = [r \in Requests |->
                 IF /\ r \in BusRequests /\ pc[r] \in Executing
                    /\ ctx[r] = "live"
                 THEN "canceled" ELSE ctx[r]]
    /\ UNCHANGED <<busVars, regVars, toolChat, consuming, pc, runVars>>

-----------------------------------------------------------------------------
(* Cancelling the previous run and registering the new one.                *)

(* ProcessDirect is called.                                                *)
CallDirect(r) ==
    /\ r \in DirectRequests
    /\ pc[r] = "idle"
    /\ Goto(r, "superseding")
    /\ UNCHANGED <<busVars, regVars, toolChat, svcVars, ctx, runVars>>

(* The caller of ProcessDirect goes away: closed page, stopped service.    *)
CallerGone(r) ==
    /\ r \in DirectRequests
    /\ pc[r] \in Handling \cup Executing
    /\ ctx[r] = "live"
    /\ ctx' = Cancel(ctx, r)
    /\ UNCHANGED <<busVars, regVars, toolChat, svcVars, pc, runVars>>

(* runTimeoutSec expires.                                                  *)
Deadline(r) ==
    /\ RunTimeout
    /\ pc[r] \in Executing
    /\ ctx[r] = "live"
    /\ ctx' = [ctx EXCEPT ![r] = "deadline"]
    /\ UNCHANGED <<busVars, regVars, toolChat, svcVars, pc, runVars>>

(* cancelSessionRun, first half: with no run registered it only takes and  *)
(* releases sessionCancelsMu; otherwise it keeps the mutex and flushes the *)
(* session's memory and skills, which are LLM calls of up to 20 s and 30 s.*)
CancelSessionRun(r) ==
    /\ pc[r] = "superseding"
    /\ mutex = NoRun
    /\ IF registry[SessionOf[r]] = NoRun
       THEN /\ Goto(r, "registering")
            /\ UNCHANGED mutex
       ELSE /\ Goto(r, "flushing")
            /\ mutex' = r
    /\ UNCHANGED <<busVars, registry, toolChat, svcVars, ctx, runVars>>

(* Mutant: every registered run is cancelled, not only the session's.      *)
CancelPreviousEverywhere(r) ==
    /\ pc[r] = "flushing"
    /\ ctx' = [q \in Requests |->
                 IF \E s \in Sessions : registry[s] = q
                 THEN Cancel(ctx, q)[q] ELSE ctx[q]]
    /\ registry' = [registry EXCEPT ![SessionOf[r]] = NoRun]
    /\ mutex' = NoRun
    /\ Goto(r, "registering")
    /\ UNCHANGED <<busVars, toolChat, svcVars, runVars>>

(* Mutant: the entry is deleted and its run left alive.                    *)
CancelPreviousNoCancel(r) ==
    /\ pc[r] = "flushing"
    /\ registry' = [registry EXCEPT ![SessionOf[r]] = NoRun]
    /\ mutex' = NoRun
    /\ Goto(r, "registering")
    /\ UNCHANGED <<busVars, toolChat, svcVars, ctx, runVars>>

(* Mutant: a path that returns without unlocking.                          *)
CancelPreviousNoUnlock(r) ==
    /\ pc[r] = "flushing"
    /\ LET s == SessionOf[r] IN
       /\ ctx' = Cancel(ctx, registry[s])
       /\ registry' = [registry EXCEPT ![s] = NoRun]
    /\ Goto(r, "registering")
    /\ UNCHANGED <<busVars, mutex, toolChat, svcVars, runVars>>

(* cancelSessionRun, second half: delete the entry, cancel, unlock.        *)
CancelPrevious(r) ==
    /\ pc[r] = "flushing"
    /\ LET s == SessionOf[r] IN
       /\ ctx' = Cancel(ctx, registry[s])
       /\ registry' = [registry EXCEPT ![s] = NoRun]
    /\ mutex' = NoRun
    /\ Goto(r, "registering")
    /\ UNCHANGED <<busVars, toolChat, svcVars, runVars>>

(* setupSessionRun, and the same lines in ProcessDirect: a new critical    *)
(* section, after the one of cancelSessionRun, that overwrites the entry.  *)
SetupSessionRun(r) ==
    /\ pc[r] = "registering"
    /\ mutex = NoRun
    /\ registry' = [registry EXCEPT ![SessionOf[r]] = r]
    /\ IF r \in BusRequests
       THEN /\ Goto(r, "started")
            /\ ctx' = IF serving THEN ctx ELSE Cancel(ctx, r)
       ELSE /\ Goto(r, "opening")
            /\ UNCHANGED ctx
    /\ UNCHANGED <<busVars, mutex, toolChat, svcVars, runVars>>

(* Mutant: the entry outlives its run.                                     *)
UnregisterNothing(r) == UNCHANGED registry

(* delete(sessionCancels, key), only if the entry is still this run's.     *)
Unregister(r) ==
    registry' = [registry EXCEPT ![SessionOf[r]] = IF @ = r THEN NoRun ELSE @]

(* Mutant: the delete does not take sessionCancelsMu.                      *)
FinishSessionRunUnlocked(r) ==
    /\ pc[r] = "started"
    /\ Unregister(r)
    /\ Goto(r, "opening")
    /\ UNCHANGED <<busVars, mutex, toolChat, svcVars, ctx, runVars>>

(* The goroutine of a bus run calls finishSessionRun first, not deferred.  *)
FinishSessionRun(r) ==
    /\ pc[r] = "started"
    /\ mutex = NoRun
    /\ Unregister(r)
    /\ Goto(r, "opening")
    /\ UNCHANGED <<busVars, mutex, toolChat, svcVars, ctx, runVars>>

-----------------------------------------------------------------------------
(* processMessage and runAgentLoop.                                        *)

(* A run writes its own route into the tools that all runs share, unlocked.*)
SetRuntimeToolContext(r) == toolChat' = ChatOf[r]

(* Commands branch off; a chat message goes on to build the request.       *)
OpenSession(r) ==
    /\ pc[r] = "opening"
    /\ \/ /\ Command[r] = "help"
          /\ Goto(r, "replying")
          /\ UNCHANGED toolChat
       \/ /\ Command[r] = "new"
          /\ Goto(r, "resetting")
          /\ UNCHANGED toolChat
       \/ /\ Command[r] = "chat"
          /\ Goto(r, "calling")
          /\ SetRuntimeToolContext(r)
    /\ UNCHANGED <<busVars, regVars, svcVars, ctx, runVars>>

(* /new: flush, clear, save, invalidate (the stored session is the subject *)
(* of other modules; here only that the step takes an LLM call).           *)
ResetSession(r) ==
    /\ pc[r] = "resetting"
    /\ Goto(r, "replying")
    /\ UNCHANGED <<busVars, regVars, toolChat, svcVars, ctx, runVars>>

Fail(r, err) ==
    /\ failure' = [failure EXCEPT ![r] = err]
    /\ Goto(r, "failing")

(* provider.Chat is entered; a request whose context is done fails at once.*)
ChatStarts(r) ==
    /\ pc[r] = "calling"
    /\ IF ctx[r] = "live"
       THEN Goto(r, "waiting") /\ UNCHANGED failure
       ELSE Fail(r, ctx[r])
    /\ UNCHANGED <<busVars, regVars, toolChat, svcVars, ctx, iter, verdict,
                   saved, replies>>

(* BuildMessages or the provider fails for a reason of its own.            *)
ChatErrors(r) ==
    /\ pc[r] \in {"calling", "waiting"}
    /\ Fail(r, "error")
    /\ UNCHANGED <<busVars, regVars, toolChat, svcVars, ctx, iter, verdict,
                   saved, replies>>

(* The HTTP call returns the error of its done context.                    *)
ChatAborts(r) ==
    /\ pc[r] = "waiting"
    /\ ctx[r] # "live"
    /\ Fail(r, ctx[r])
    /\ UNCHANGED <<busVars, regVars, toolChat, svcVars, ctx, iter, verdict,
                   saved, replies>>

(* The response arrived in full, possibly after the context was done: the  *)
(* answer, a round of message or sessions_send, or one of other tools.     *)
ChatReplies(r) ==
    /\ pc[r] = "waiting"
    /\ \E next \in {"recording", "tools", "messaging", "relaying"} : Goto(r, next)
    /\ UNCHANGED <<busVars, regVars, toolChat, svcVars, ctx, runVars>>

AfterRound(r) == IF iter[r] + 1 = MaxIter THEN "recording" ELSE "calling"

NextRound(r) ==
    /\ iter' = [iter EXCEPT ![r] = @ + 1]
    /\ UNCHANGED <<regVars, toolChat, svcVars, ctx, failure, verdict, saved,
                   replies>>

(* A round whose tools leave the modelled state alone.                     *)
OtherTools(r) ==
    /\ pc[r] = "tools"
    /\ Goto(r, AfterRound(r))
    /\ NextRound(r)
    /\ UNCHANGED busVars

(* Mutant: a plain channel send that ignores the context.                  *)
MessageToolBlocking(r) ==
    /\ pc[r] = "messaging"
    /\ Len(outbound) < OutboundCap
    /\ outbound' = Append(outbound, [to |-> toolChat, by |-> r, kind |-> "tool"])
    /\ Goto(r, AfterRound(r))
    /\ NextRound(r)
    /\ UNCHANGED inbound

(* MessageTool.Execute without an explicit target reads the shared route   *)
(* now; PublishOutbound waits for room or for the context of the run.      *)
MessageTool(r) ==
    /\ pc[r] = "messaging"
    /\ \/ /\ Len(outbound) < OutboundCap
          /\ outbound' = Append(outbound,
                                [to |-> toolChat, by |-> r, kind |-> "tool"])
       \/ /\ ctx[r] # "live"
          /\ UNCHANGED outbound
    /\ Goto(r, AfterRound(r))
    /\ NextRound(r)
    /\ UNCHANGED inbound

(* SessionsSendTool publishes an inbound message, a request of its own.    *)
SessionsSendTool(r, q) ==
    /\ pc[r] = "relaying"
    /\ q \in BusRequests
    /\ pc[q] = "idle"
    /\ Len(inbound) < InboundCap
    /\ inbound' = Append(inbound, q)
    /\ pc' = [pc EXCEPT ![q] = "queued", ![r] = AfterRound(r)]
    /\ NextRound(r)
    /\ UNCHANGED outbound

(* It gives up when the context is done (or, a bound of the model, when    *)
(* every message of BusRequests has been used).                            *)
SessionsSendFails(r) ==
    /\ pc[r] = "relaying"
    /\ ctx[r] # "live" \/ \A q \in BusRequests : pc[q] # "idle"
    /\ Goto(r, AfterRound(r))
    /\ NextRound(r)
    /\ UNCHANGED busVars

(* The turn is added to the session, saved, ingested and handed to the     *)
(* maintainers; no context is looked at.                                   *)
RecordTurn(r) ==
    /\ pc[r] = "recording"
    /\ saved' = saved \cup {r}
    /\ Goto(r, "replying")
    /\ UNCHANGED <<busVars, regVars, toolChat, svcVars, ctx, iter, failure,
                   verdict, replies>>

-----------------------------------------------------------------------------
(* The end of a run.                                                       *)

(* processMessage has returned: its locals (iter, the error) are gone.     *)
Settle(r, v) ==
    /\ verdict' = [verdict EXCEPT ![r] = v]
    /\ iter' = [iter EXCEPT ![r] = 0]
    /\ failure' = [failure EXCEPT ![r] = "none"]
    /\ Goto(r, "closing")
    /\ UNCHANGED <<inbound, regVars, toolChat, svcVars, ctx, saved>>

(* Mutant: a plain channel send that ignores the context of Run.           *)
PublishOutboundBlocking(r) ==
    /\ Len(outbound) < OutboundCap
    /\ outbound' = Append(outbound, [to |-> ChatOf[r], by |-> r, kind |-> "final"])
    /\ replies' = [replies EXCEPT ![r] = @ + 1]

(* PublishOutbound(ctx of Run): waits for room, or drops when Run's context*)
(* is done.                                                                *)
PublishOutbound(r) ==
    \/ /\ Len(outbound) < OutboundCap
       /\ outbound' = Append(outbound,
                             [to |-> ChatOf[r], by |-> r, kind |-> "final"])
       /\ replies' = [replies EXCEPT ![r] = @ + 1]
    \/ /\ ~serving
       /\ UNCHANGED <<outbound, replies>>

(* handleInboundMessage publishes the reply.                               *)
ReplyOnBus(r) ==
    /\ r \in BusRequests
    /\ pc[r] = "replying"
    /\ PublishOutbound(r)
    /\ Settle(r, "answered")

(* ProcessDirect returns the content to its caller.                        *)
ReturnContent(r) ==
    /\ r \in DirectRequests
    /\ pc[r] = "replying"
    /\ replies' = [replies EXCEPT ![r] = @ + 1]
    /\ UNCHANGED outbound
    /\ Settle(r, "answered")

(* Mutant: the Canceled case is missing, so a superseded run apologises.   *)
HandleRunFailureLoud(r) ==
    /\ r \in BusRequests
    /\ pc[r] = "failing"
    /\ PublishOutbound(r)
    /\ Settle(r, IF failure[r] = "canceled" THEN "aborted" ELSE "failed")

(* handleRunFailure: a cancelled run is silent, others apologise.          *)
HandleRunFailure(r) ==
    /\ r \in BusRequests
    /\ pc[r] = "failing"
    /\ \/ /\ failure[r] = "canceled"
          /\ UNCHANGED <<outbound, replies>>
          /\ Settle(r, "aborted")
       \/ /\ failure[r] # "canceled"
          /\ PublishOutbound(r)
          /\ Settle(r, "failed")

(* ProcessDirect looks at its context, not at the error: "" and no error   *)
(* for a cancelled context, else the error.                                *)
ReturnError(r) ==
    /\ r \in DirectRequests
    /\ pc[r] = "failing"
    /\ UNCHANGED <<outbound, replies>>
    /\ Settle(r, IF ctx[r] = "canceled" THEN "aborted" ELSE "failed")

(* The deferred calls: flush, cancel, and for a direct run the registry.   *)
CloseRun(r) ==
    /\ pc[r] = "closing"
    /\ IF r \in DirectRequests
       THEN mutex = NoRun /\ Unregister(r)
       ELSE UNCHANGED registry
    /\ ctx' = Cancel(ctx, r)
    /\ Goto(r, "done")
    /\ UNCHANGED <<busVars, mutex, toolChat, svcVars, runVars>>

-----------------------------------------------------------------------------
Next ==
    \/ ConsumeInbound \/ StopConsuming \/ DispatchOutbound \/ Shutdown
    \/ \E r \in Requests :
        \/ PublishInbound(r) \/ PublishTimesOut(r)
        \/ CallDirect(r) \/ CallerGone(r) \/ Deadline(r)
        \/ CancelSessionRun(r) \/ CancelPrevious(r)
        \/ SetupSessionRun(r) \/ FinishSessionRun(r)
        \/ OpenSession(r) \/ ResetSession(r)
        \/ ChatStarts(r) \/ ChatErrors(r) \/ ChatAborts(r) \/ ChatReplies(r)
        \/ OtherTools(r) \/ MessageTool(r)
        \/ SessionsSendFails(r) \/ \E q \in Requests : SessionsSendTool(r, q)
        \/ RecordTurn(r)
        \/ ReplyOnBus(r) \/ ReturnContent(r)
        \/ HandleRunFailure(r) \/ ReturnError(r) \/ CloseRun(r)

(* One step of the goroutine of r that needs nobody outside the process,   *)
(* except the flushes, whose own timeouts bound them, and the tools.       *)
RunStep(r) ==
    \/ CancelSessionRun(r) \/ CancelPrevious(r)
    \/ SetupSessionRun(r) \/ FinishSessionRun(r)
    \/ OpenSession(r) \/ ResetSession(r)
    \/ ChatStarts(r) \/ ChatAborts(r)
    \/ OtherTools(r) \/ MessageTool(r)
    \/ SessionsSendFails(r) \/ \E q \in Requests : SessionsSendTool(r, q)
    \/ RecordTurn(r)
    \/ ReplyOnBus(r) \/ ReturnContent(r)
    \/ HandleRunFailure(r) \/ ReturnError(r) \/ CloseRun(r)

(* The Go scheduler runs every runnable goroutine, timers fire and the     *)
(* dispatcher drains while the service runs.  Nothing is assumed of the    *)
(* LLM provider (ChatReplies), of callers or of shutdown.                  *)
Fairness ==
    /\ WF_vars(ConsumeInbound) /\ WF_vars(StopConsuming)
    /\ WF_vars(serving /\ DispatchOutbound)
    /\ \A r \in Requests : WF_vars(RunStep(r)) /\ WF_vars(Deadline(r))

Spec == Init /\ [][Next]_vars
FairSpec == Spec /\ Fairness

-----------------------------------------------------------------------------
(* Properties.                                                             *)

(* Every variable stays in its domain, and the queues within capacity.     *)
TypeOK ==
    /\ inbound \in Seq(BusRequests) /\ Len(inbound) <= InboundCap
    /\ outbound \in Seq(Message) /\ Len(outbound) <= OutboundCap
    /\ registry \in [Sessions -> Requests \cup {NoRun}]
    /\ mutex \in Requests \cup {NoRun}
    /\ toolChat \in Chats \cup {NoChat}
    /\ serving \in BOOLEAN /\ consuming \in BOOLEAN
    /\ pc \in [Requests -> Phases]
    /\ ctx \in [Requests -> CtxStates]
    /\ iter \in [Requests -> 0..MaxIter]
    /\ failure \in [Requests -> {"none", "error", "canceled", "deadline"}]
    /\ verdict \in [Requests -> {"none", "answered", "failed", "aborted"}]
    /\ saved \subseteq Requests
    /\ replies \in [Requests -> Nat]

(* The registry never keeps the cancel function of a finished run, nor one *)
(* under another session's key: what an entry cancels is a run of that     *)
(* session that can still be stopped.                                      *)
RegistryHoldsOwnRuns ==
    \A s \in Sessions : registry[s] # NoRun =>
        /\ SessionOf[registry[s]] = s
        /\ pc[registry[s]] \in Executing

(* sessionCancelsMu protects the flush inside cancelSessionRun: from its   *)
(* lookup to its delete the session keeps the entry that is then cancelled.*)
FlushKeepsItsEntry ==
    \A r \in Requests : pc[r] = "flushing" =>
        mutex = r /\ registry[SessionOf[r]] # NoRun

(* A run loses its context only to its own session: the step that cancels  *)
(* it is its own end, its caller's leaving, the shutdown, or the           *)
(* cancelSessionRun of a request with the same session key.                *)
CancelStaysInSession ==
    [][\A r \in Requests :
         ctx[r] = "live" /\ ctx'[r] = "canceled" =>
            \/ pc[r] = "closing"
            \/ r \in DirectRequests /\ pc' = pc
            \/ r \in BusRequests /\ ~serving'
            \/ \E q \in Requests : /\ SessionOf[q] = SessionOf[r]
                                   /\ pc[q] = "flushing"
                                   /\ pc'[q] = "registering"]_vars

(* Whoever else takes a run out of the registry has cancelled it: an entry *)
(* only becomes free by its own run's finish or together with cancel().    *)
RemovedIsCancelled ==
    [][\A s \in Sessions :
         registry[s] # NoRun /\ registry'[s] = NoRun =>
            \/ ctx'[registry[s]] # "live"
            \/ pc[registry[s]] = "started" /\ pc'[registry[s]] = "opening"]_vars

(* The run loop keeps the promise of RequestLedger: one verdict, at most   *)
(* one final reply and none when aborted, a recorded turn only with an     *)
(* answer.                                                                 *)
StatusIn(phase, v) ==
    CASE phase = "idle" -> "offered"
      [] phase = "rejected" -> "refused"
      [] phase \in {"queued"} \cup Handling -> "accepted"
      [] phase \in Executing \ {"closing"} -> "running"
      [] phase \in {"closing", "done"} -> v

StatusOf(r) == StatusIn(pc[r], verdict[r])

Ledger == INSTANCE RequestLedger
          WITH status <- [r \in Requests |-> StatusOf(r)],
               replies <- replies,
               recorded <- saved

LedgerSpec == Ledger!LedgerSpec

(* With a run timeout configured, a run that was registered ends, though   *)
(* the LLM provider may never answer, other sessions may hold the registry *)
(* mutex over their flushes and the outbound queue may be full.            *)
RegisteredRunsEnd ==
    \A r \in Requests : (pc[r] \in Executing) ~> (pc[r] = "done")

(* A message taken into the queue is run to its end or left there by a     *)
(* shutdown: the consumer is never stuck on another session's cancel.      *)
QueuedMessagesEnd ==
    \A r \in BusRequests : (pc[r] = "queued") ~> (pc[r] = "done" \/ ~consuming)

(* After a shutdown the consumer returns and every bus run that started is *)
(* over, with nobody left draining the outbound queue.                     *)
ShutdownDrains ==
    ~serving ~> (~consuming /\ \A r \in BusRequests :
                                  pc[r] \in {"idle", "queued", "rejected", "done"})

(* What README.md says of one session, "cancels the previous run when a    *)
(* new message arrives": no two requests of a session execute uncancelled. *)
(* The code does not keep it: a bus run leaves the registry before it      *)
(* works, and ProcessDirect cancels and registers in two critical sections.*)
OneLiveRunPerSession ==
    \A q, r \in Requests :
        /\ q # r /\ SessionOf[q] = SessionOf[r]
        /\ pc[q] \in Executing \ {"started", "closing"} /\ ctx[q] = "live"
        => ~(pc[r] \in Executing \ {"started", "closing"} /\ ctx[r] = "live")

(* What the message tool tells the model of its target, "uses current if   *)
(* not set": a tool message goes to the chat whose run sent it.  The code  *)
(* keeps one target for all concurrent runs.                               *)
ToolMessagesStayInChat ==
    \A i \in DOMAIN outbound : outbound[i].to = ChatOf[outbound[i].by]

-----------------------------------------------------------------------------
(* The inductive invariant behind the proofs of AgentLoopProofs.           *)

InRound == {"calling", "waiting", "tools", "messaging", "relaying"}

(* The mutex is held over a flush and over nothing else.                   *)
MutexInv ==
    /\ \A r \in Requests : pc[r] = "flushing" => mutex = r
    /\ mutex # NoRun => pc[mutex] = "flushing"

(* An entry is a bus run that has not begun to work, or a direct run up to *)
(* its deferred cleanup; a flush works on an entry.                        *)
RegistryInv ==
    /\ \A s \in Sessions : registry[s] # NoRun =>
         /\ SessionOf[registry[s]] = s
         /\ IF registry[s] \in BusRequests
            THEN pc[registry[s]] = "started"
            ELSE pc[registry[s]] \in Executing \ {"started"}
    /\ \A r \in Requests : pc[r] = "flushing" => registry[SessionOf[r]] # NoRun

(* The queue holds each waiting message once.                              *)
QueueInv ==
    /\ \A i \in 1..Len(inbound) : pc[inbound[i]] = "queued"
    /\ \A i, j \in 1..Len(inbound) : inbound[i] = inbound[j] => i = j

(* A run inside the Chat loop has a round left and has set a tool route; a *)
(* run not there yet has used no round.                                    *)
RoundInv ==
    \A r \in Requests :
        /\ pc[r] \in InRound => iter[r] < MaxIter /\ toolChat # NoChat
        /\ pc[r] \in {"idle", "queued", "started", "opening"} \cup Handling
           => iter[r] = 0

(* Nothing is decided, published or recorded before its phase.             *)
OutcomeInv ==
    \A r \in Requests :
        /\ IF pc[r] \in {"closing", "done"}
           THEN verdict[r] # "none"
           ELSE replies[r] = 0
        /\ r \in saved => \/ pc[r] = "replying"
                          \/ pc[r] \in {"closing", "done"} /\ verdict[r] = "answered"

IInv == TypeOK /\ MutexInv /\ RegistryInv /\ QueueInv /\ RoundInv /\ OutcomeInv

=============================================================================
