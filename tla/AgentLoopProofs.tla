-------------------------- MODULE AgentLoopProofs --------------------------
(***************************************************************************)
(* Safety of AgentLoop for every set of requests, sessions and chats, every *)
(* queue capacity and every bound on rounds.                               *)
(*                                                                         *)
(* The argument is one inductive invariant, IInv.  Its conjuncts are kept  *)
(* step by step by the lemmas TypeStep to OutcomeStep, and they need each  *)
(* other: a flush finds its registry entry because whoever could delete it *)
(* waits for the mutex (MutexInv), a message taken off the queue has no    *)
(* run yet (QueueInv), and a message tool always has some route to put on  *)
(* its message (RoundInv).  The last part shows that AgentLoop implements  *)
(* RequestLedger.                                                          *)
(***************************************************************************)
EXTENDS AgentLoop, SequenceTheorems, TLAPS

(* A bus message is a request, and the markers are neither.                *)
LEMMA BusRequestsAreRequests ==
    BusRequests \subseteq Requests /\ NoRun \notin Requests /\ NoRun \notin BusRequests
  BY RequestAssumption DEF Requests

(* A send to a queue with room left yields a queue within its capacity.    *)
LEMMA BoundedAppend ==
    ASSUME NEW S, NEW q \in Seq(S), NEW e \in S, NEW cap \in Nat, Len(q) < cap
    PROVE  Append(q, e) \in Seq(S) /\ Len(Append(q, e)) <= cap
  BY AppendProperties

(* The end of processMessage keeps the domains of what it writes.          *)
LEMMA SettleTypes ==
    ASSUME TypeOK, NEW r \in Requests,
           NEW v \in {"answered", "failed", "aborted"}, Settle(r, v)
    PROVE  /\ verdict' \in [Requests -> {"none", "answered", "failed", "aborted"}]
           /\ iter' \in [Requests -> 0..MaxIter]
           /\ failure' \in [Requests -> {"none", "error", "canceled", "deadline"}]
           /\ pc' \in [Requests -> Phases]
           /\ UNCHANGED <<inbound, regVars, toolChat, svcVars, ctx, saved>>
  BY BoundAssumption DEF TypeOK, Settle, Phases, Goto

(* Every step keeps the domains and the capacities.                        *)
LEMMA TypeStep == TypeOK /\ RoundInv /\ [Next]_vars => TypeOK'
<1> USE DEF TypeOK, Phases, CtxStates, Goto, vars, busVars, regVars, svcVars,
     runVars
<1>1. ASSUME TypeOK, ConsumeInbound PROVE TypeOK'
  <2>1. /\ Head(inbound) \in BusRequests /\ inbound' \in Seq(BusRequests)
        /\ Len(inbound') <= InboundCap
    BY <1>1, BoundAssumption, HeadTailProperties DEF ConsumeInbound
  <2> QED
    BY <1>1, <2>1, BusRequestsAreRequests DEF ConsumeInbound
<1>2. ASSUME TypeOK, StopConsuming PROVE TypeOK'
  BY <1>2 DEF StopConsuming
<1>3. ASSUME TypeOK, DispatchOutbound PROVE TypeOK'
  BY <1>3, BoundAssumption, HeadTailProperties DEF DispatchOutbound
<1>4. ASSUME TypeOK, Shutdown PROVE TypeOK'
  BY <1>4 DEF Shutdown, Executing
<1>5. ASSUME TypeOK, NEW r \in Requests, PublishInbound(r) PROVE TypeOK'
  <2>1. inbound' \in Seq(BusRequests) /\ Len(inbound') <= InboundCap
    BY <1>5, BoundedAppend, BoundAssumption DEF PublishInbound
  <2> QED
    BY <1>5, <2>1 DEF PublishInbound
<1>6. ASSUME TypeOK, NEW r \in Requests, PublishTimesOut(r) PROVE TypeOK'
  BY <1>6 DEF PublishTimesOut
<1>7. ASSUME TypeOK, NEW r \in Requests, CallDirect(r) PROVE TypeOK'
  BY <1>7 DEF CallDirect
<1>8. ASSUME TypeOK, NEW r \in Requests, CallerGone(r) PROVE TypeOK'
  BY <1>8 DEF CallerGone, Cancel, Executing, Handling
<1>9. ASSUME TypeOK, NEW r \in Requests, Deadline(r) PROVE TypeOK'
  BY <1>9 DEF Deadline, Executing
<1>10. ASSUME TypeOK, NEW r \in Requests, CancelSessionRun(r) PROVE TypeOK'
  BY <1>10 DEF CancelSessionRun
<1>11. ASSUME TypeOK, NEW r \in Requests, CancelPrevious(r) PROVE TypeOK'
  BY <1>11 DEF CancelPrevious, Cancel
<1>12. ASSUME TypeOK, NEW r \in Requests, SetupSessionRun(r) PROVE TypeOK'
  BY <1>12 DEF SetupSessionRun, Cancel
<1>13. ASSUME TypeOK, NEW r \in Requests, FinishSessionRun(r) PROVE TypeOK'
  BY <1>13 DEF FinishSessionRun, Unregister
<1>14. ASSUME TypeOK, NEW r \in Requests, OpenSession(r) PROVE TypeOK'
  <2>1. pc' \in [Requests -> Phases]
    BY <1>14 DEF OpenSession, SetRuntimeToolContext
  <2>2. toolChat' \in Chats \cup {NoChat}
    BY <1>14, RequestAssumption DEF OpenSession, SetRuntimeToolContext
  <2> QED
    BY <1>14, <2>1, <2>2 DEF OpenSession, SetRuntimeToolContext
<1>15. ASSUME TypeOK, NEW r \in Requests, ResetSession(r) PROVE TypeOK'
  BY <1>15 DEF ResetSession
<1>16. ASSUME TypeOK, NEW r \in Requests, ChatStarts(r) PROVE TypeOK'
  <2>1. ctx[r] # "live" => ctx[r] \in {"canceled", "deadline"}
    BY <1>16
  <2>2. pc' \in [Requests -> Phases]
    <3>1. pc' = [pc EXCEPT ![r] = "waiting"] \/ pc' = [pc EXCEPT ![r] = "failing"]
      BY <1>16 DEF ChatStarts, Fail
    <3> QED
      BY <1>16, <3>1
  <2>3. failure' \in [Requests -> {"none", "error", "canceled", "deadline"}]
    BY <1>16, <2>1 DEF ChatStarts, Fail
  <2> QED
    BY <1>16, <2>2, <2>3 DEF ChatStarts
<1>17. ASSUME TypeOK, NEW r \in Requests, ChatErrors(r) PROVE TypeOK'
  BY <1>17 DEF ChatErrors, Fail
<1>18. ASSUME TypeOK, NEW r \in Requests, ChatAborts(r) PROVE TypeOK'
  <2>1. ctx[r] # "live" => ctx[r] \in {"canceled", "deadline"}
    BY <1>18
  <2> QED
    BY <1>18, <2>1 DEF ChatAborts, Fail
<1>19. ASSUME TypeOK, NEW r \in Requests, ChatReplies(r) PROVE TypeOK'
  BY <1>19 DEF ChatReplies
<1>20. ASSUME TypeOK, RoundInv, NEW r \in Requests, OtherTools(r) PROVE TypeOK'
  BY <1>20, BoundAssumption DEF OtherTools, NextRound, AfterRound, RoundInv, InRound
<1>21. ASSUME TypeOK, RoundInv, NEW r \in Requests, MessageTool(r) PROVE TypeOK'
  <2>1. [to |-> toolChat, by |-> r, kind |-> "tool"] \in Message
    BY <1>21 DEF MessageTool, Message, RoundInv, InRound
  <2>2. outbound' \in Seq(Message) /\ Len(outbound') <= OutboundCap
    <3>1. CASE UNCHANGED outbound
      BY <1>21, <3>1
    <3>2. CASE /\ Len(outbound) < OutboundCap
               /\ outbound' = Append(outbound,
                                     [to |-> toolChat, by |-> r, kind |-> "tool"])
      BY <1>21, <2>1, <3>2, BoundedAppend, BoundAssumption
    <3> QED
      BY <1>21, <3>1, <3>2 DEF MessageTool
  <2>3. iter[r] + 1 \in 0..MaxIter
    BY <1>21, BoundAssumption DEF MessageTool, RoundInv, InRound
  <2> QED
    BY <1>21, <2>2, <2>3 DEF MessageTool, NextRound, AfterRound
<1>22. ASSUME TypeOK, RoundInv, NEW r \in Requests, SessionsSendFails(r) PROVE TypeOK'
  BY <1>22, BoundAssumption DEF SessionsSendFails, NextRound, AfterRound, RoundInv,
     InRound
<1>23. ASSUME TypeOK, NEW r \in Requests, RecordTurn(r) PROVE TypeOK'
  BY <1>23 DEF RecordTurn
<1>24. ASSUME TypeOK, NEW r \in Requests, ReplyOnBus(r) PROVE TypeOK'
  <2>1. [to |-> ChatOf[r], by |-> r, kind |-> "final"] \in Message
    BY RequestAssumption DEF Message
  <2>2. PublishOutbound(r) \/ UNCHANGED <<outbound, replies>>
    BY <1>24 DEF ReplyOnBus
  <2>3. /\ verdict' \in [Requests -> {"none", "answered", "failed", "aborted"}]
        /\ iter' \in [Requests -> 0..MaxIter]
        /\ failure' \in [Requests -> {"none", "error", "canceled", "deadline"}]
        /\ pc' \in [Requests -> Phases]
        /\ UNCHANGED <<inbound, regVars, toolChat, svcVars, ctx, saved>>
    BY <1>24, SettleTypes DEF ReplyOnBus
  <2>4. CASE UNCHANGED <<outbound, replies>>
    BY <1>24, <2>4, <2>3
  <2>5. CASE /\ Len(outbound) < OutboundCap
             /\ outbound' = Append(outbound,
                                   [to |-> ChatOf[r], by |-> r, kind |-> "final"])
             /\ replies' = [replies EXCEPT ![r] = @ + 1]
    <3>1. outbound' \in Seq(Message) /\ Len(outbound') <= OutboundCap
      BY <1>24, <2>1, <2>5, BoundedAppend, BoundAssumption
    <3>2. replies' \in [Requests -> Nat]
      BY <1>24, <2>5
    <3> QED
      BY <1>24, <2>3, <3>1, <3>2
  <2> QED
    BY <1>24, <2>2, <2>4, <2>5 DEF PublishOutbound
<1>25. ASSUME TypeOK, NEW r \in Requests, ReturnContent(r) PROVE TypeOK'
  BY <1>25, BoundAssumption DEF ReturnContent, Settle
<1>26. ASSUME TypeOK, NEW r \in Requests, HandleRunFailure(r) PROVE TypeOK'
  <2>1. [to |-> ChatOf[r], by |-> r, kind |-> "final"] \in Message
    BY RequestAssumption DEF Message
  <2>2. PublishOutbound(r) \/ UNCHANGED <<outbound, replies>>
    BY <1>26 DEF HandleRunFailure
  <2>3. /\ verdict' \in [Requests -> {"none", "answered", "failed", "aborted"}]
        /\ iter' \in [Requests -> 0..MaxIter]
        /\ failure' \in [Requests -> {"none", "error", "canceled", "deadline"}]
        /\ pc' \in [Requests -> Phases]
        /\ UNCHANGED <<inbound, regVars, toolChat, svcVars, ctx, saved>>
    BY <1>26, SettleTypes DEF HandleRunFailure
  <2>4. CASE UNCHANGED <<outbound, replies>>
    BY <1>26, <2>4, <2>3
  <2>5. CASE /\ Len(outbound) < OutboundCap
             /\ outbound' = Append(outbound,
                                   [to |-> ChatOf[r], by |-> r, kind |-> "final"])
             /\ replies' = [replies EXCEPT ![r] = @ + 1]
    <3>1. outbound' \in Seq(Message) /\ Len(outbound') <= OutboundCap
      BY <1>26, <2>1, <2>5, BoundedAppend, BoundAssumption
    <3>2. replies' \in [Requests -> Nat]
      BY <1>26, <2>5
    <3> QED
      BY <1>26, <2>3, <3>1, <3>2
  <2> QED
    BY <1>26, <2>2, <2>4, <2>5 DEF PublishOutbound
<1>27. ASSUME TypeOK, NEW r \in Requests, ReturnError(r) PROVE TypeOK'
  BY <1>27, BoundAssumption DEF ReturnError, Settle
<1>28. ASSUME TypeOK, NEW r \in Requests, CloseRun(r) PROVE TypeOK'
  BY <1>28 DEF CloseRun, Cancel, Unregister
<1>29. ASSUME TypeOK, RoundInv, NEW r \in Requests, NEW q \in Requests,
             SessionsSendTool(r, q)
      PROVE TypeOK'
  <2>1. inbound' \in Seq(BusRequests) /\ Len(inbound') <= InboundCap
    BY <1>29, BoundedAppend, BoundAssumption DEF SessionsSendTool
  <2>2. iter[r] + 1 \in 0..MaxIter
    BY <1>29, BoundAssumption DEF SessionsSendTool, RoundInv, InRound
  <2>3. pc' \in [Requests -> Phases]
    BY <1>29 DEF SessionsSendTool, AfterRound
  <2> QED
    BY <1>29, <2>1, <2>2, <2>3 DEF SessionsSendTool, NextRound
<1>30. ASSUME TypeOK, UNCHANGED vars PROVE TypeOK'
  BY <1>30
<1>31. QED
  BY <1>1, <1>2, <1>3, <1>4, <1>5, <1>6, <1>7, <1>8, <1>9, <1>10, <1>11,
     <1>12, <1>13, <1>14, <1>15, <1>16, <1>17, <1>18, <1>19, <1>20, <1>21,
     <1>22, <1>23, <1>24, <1>25, <1>26, <1>27, <1>28, <1>29, <1>30
     DEF Next

(* The phases in which a run works: it has left the registry, or is direct,  *)
(* and is not over.                                                        *)
Working == Executing \ {"started", "closing"}

(* What a step of a working run does to the phases, queue and registry.    *)
RunWork(r) ==
    /\ pc[r] \in Working
    /\ \E p \in Working \cup {"closing"} : pc' = [pc EXCEPT ![r] = p]
    /\ UNCHANGED <<inbound, registry, mutex>>

(* Every action between OpenSession and the verdict, except the relaying   *)
(* of a message, is such a step.                                           *)
LEMMA WorkingSteps ==
    ASSUME NEW r \in Requests,
           \/ OpenSession(r) \/ ResetSession(r)
           \/ ChatStarts(r) \/ ChatErrors(r) \/ ChatAborts(r) \/ ChatReplies(r)
           \/ OtherTools(r) \/ MessageTool(r) \/ SessionsSendFails(r)
           \/ RecordTurn(r)
           \/ ReplyOnBus(r) \/ ReturnContent(r)
           \/ HandleRunFailure(r) \/ ReturnError(r)
    PROVE  RunWork(r)
<1> USE DEF RunWork, Working, Executing, Goto, regVars, busVars
<1>1. CASE OpenSession(r)
  <2>1. \E p \in {"replying", "resetting", "calling"} : pc' = [pc EXCEPT ![r] = p]
    BY <1>1 DEF OpenSession, SetRuntimeToolContext
  <2> QED
    BY <1>1, <2>1 DEF OpenSession, SetRuntimeToolContext
<1>2. CASE ResetSession(r)
  BY <1>2 DEF ResetSession
<1>3. CASE ChatStarts(r)
  <2>1. \E p \in {"waiting", "failing"} : pc' = [pc EXCEPT ![r] = p]
    BY <1>3 DEF ChatStarts, Fail
  <2> QED
    BY <1>3, <2>1 DEF ChatStarts
<1>4. CASE ChatErrors(r)
  BY <1>4 DEF ChatErrors, Fail
<1>5. CASE ChatAborts(r)
  BY <1>5 DEF ChatAborts, Fail
<1>6. CASE ChatReplies(r)
  BY <1>6 DEF ChatReplies
<1>7. AfterRound(r) \in Working
  BY DEF AfterRound
<1>8. CASE OtherTools(r)
  BY <1>7, <1>8 DEF OtherTools, NextRound
<1>9. CASE MessageTool(r)
  BY <1>7, <1>9 DEF MessageTool, NextRound
<1>10. CASE SessionsSendFails(r)
  BY <1>7, <1>10 DEF SessionsSendFails, NextRound
<1>11. CASE RecordTurn(r)
  BY <1>11 DEF RecordTurn
<1>12. CASE ReplyOnBus(r)
  BY <1>12 DEF ReplyOnBus, Settle
<1>13. CASE ReturnContent(r)
  BY <1>13 DEF ReturnContent, Settle
<1>14. CASE HandleRunFailure(r)
  <2>1. pc[r] = "failing" /\ \E v \in {"aborted", "failed"} : Settle(r, v)
    BY <1>14 DEF HandleRunFailure
  <2> QED
    BY <2>1 DEF Settle
<1>15. CASE ReturnError(r)
  BY <1>15 DEF ReturnError, Settle
<1>16. QED
  BY <1>1, <1>2, <1>3, <1>4, <1>5, <1>6, <1>8, <1>9, <1>10, <1>11, <1>12,
     <1>13, <1>14, <1>15

(* Every step is one of these, as far as phases, queue and registry go.    *)
LEMMA StepKinds ==
    ASSUME [Next]_vars
    PROVE  \/ UNCHANGED <<inbound, registry, mutex, pc>>
           \/ ConsumeInbound
           \/ \E r \in Requests :
                \/ PublishInbound(r) \/ PublishTimesOut(r) \/ CallDirect(r)
                \/ CancelSessionRun(r) \/ CancelPrevious(r)
                \/ SetupSessionRun(r) \/ FinishSessionRun(r)
                \/ RunWork(r) \/ CloseRun(r)
                \/ \E q \in Requests : SessionsSendTool(r, q)
<1>1. CASE StopConsuming \/ DispatchOutbound \/ Shutdown \/ UNCHANGED vars
  BY <1>1 DEF StopConsuming, DispatchOutbound, Shutdown, vars, busVars, regVars
<1>2. CASE \E r \in Requests : CallerGone(r) \/ Deadline(r)
  BY <1>2 DEF CallerGone, Deadline, busVars, regVars
<1>3. QED
  BY <1>1, <1>2, WorkingSteps DEF Next

(* Every step keeps the mutex with the flush it is held over.              *)
LEMMA MutexStep ==
    ASSUME TypeOK, MutexInv, [Next]_vars
    PROVE  MutexInv'
<1>1. pc \in [Requests -> Phases] /\ mutex \in Requests \cup {NoRun}
      /\ inbound \in Seq(BusRequests)
  BY DEF TypeOK
<1> USE <1>1, BusRequestsAreRequests DEF MutexInv, Goto, regVars
<1>2. CASE UNCHANGED <<inbound, registry, mutex, pc>>
  BY <1>2
<1>3. CASE ConsumeInbound
  <2>1. Head(inbound) \in Requests /\ pc[Head(inbound)] # "flushing"
    BY <1>3, HeadTailProperties DEF ConsumeInbound, ConsumerBusy, Handling
  <2> QED
    BY <1>3, <2>1 DEF ConsumeInbound
<1>4. ASSUME NEW r \in Requests, PublishInbound(r) \/ PublishTimesOut(r) \/ CallDirect(r)
      PROVE  MutexInv'
  <2>1. \E p \in {"queued", "rejected", "superseding"} : pc' = [pc EXCEPT ![r] = p]
    BY <1>4 DEF PublishInbound, PublishTimesOut, CallDirect
  <2>2. pc[r] = "idle" /\ UNCHANGED mutex
    BY <1>4 DEF PublishInbound, PublishTimesOut, CallDirect
  <2> QED
    BY <2>1, <2>2
<1>5. ASSUME NEW r \in Requests, CancelSessionRun(r) PROVE MutexInv'
  <2>1. CASE registry[SessionOf[r]] = NoRun
    BY <1>5, <2>1 DEF CancelSessionRun
  <2>2. CASE registry[SessionOf[r]] # NoRun
    BY <1>5, <2>2 DEF CancelSessionRun
  <2> QED
    BY <2>1, <2>2
<1>6. ASSUME NEW r \in Requests, CancelPrevious(r) PROVE MutexInv'
  BY <1>6 DEF CancelPrevious
<1>7. ASSUME NEW r \in Requests, SetupSessionRun(r) PROVE MutexInv'
  <2>1. \E p \in {"started", "opening"} : pc' = [pc EXCEPT ![r] = p]
    BY <1>7 DEF SetupSessionRun
  <2> QED
    BY <1>7, <2>1 DEF SetupSessionRun
<1>8. ASSUME NEW r \in Requests, FinishSessionRun(r) PROVE MutexInv'
  BY <1>8 DEF FinishSessionRun
<1>9. ASSUME NEW r \in Requests, RunWork(r) PROVE MutexInv'
  BY <1>9 DEF RunWork, Working, Executing
<1>10. ASSUME NEW r \in Requests, CloseRun(r) PROVE MutexInv'
  BY <1>10 DEF CloseRun
<1>11. ASSUME NEW r \in Requests, NEW q \in Requests, SessionsSendTool(r, q)
       PROVE  MutexInv'
  BY <1>11 DEF SessionsSendTool, NextRound, AfterRound
<1>12. QED
  BY <1>2, <1>3, <1>4, <1>5, <1>6, <1>7, <1>8, <1>9, <1>10, <1>11, StepKinds

(* The head of the queue is a waiting bus message.                         *)
LEMMA HeadWaits ==
    ASSUME TypeOK, QueueInv, inbound # <<>>
    PROVE  Head(inbound) \in BusRequests /\ pc[Head(inbound)] = "queued"
  BY HeadTailProperties DEF TypeOK, QueueInv

(* Every step keeps the registry to runs that can still be stopped.  A run *)
(* leaves it in the step in which it ends, a bus run before it works.      *)
LEMMA RegistryStep ==
    ASSUME TypeOK, MutexInv, QueueInv, RegistryInv, [Next]_vars
    PROVE  RegistryInv'
<1>1. /\ pc \in [Requests -> Phases]
      /\ registry \in [Sessions -> Requests \cup {NoRun}]
      /\ SessionOf \in [Requests -> Sessions]
      /\ BusRequests \cap DirectRequests = {}
      /\ Requests = BusRequests \cup DirectRequests
      /\ NoRun \notin Requests
  BY RequestAssumption DEF TypeOK, Requests
<1> USE <1>1 DEF RegistryInv, Executing, Goto, regVars
<1>2. CASE UNCHANGED <<inbound, registry, mutex, pc>>
  BY <1>2
<1>3. CASE ConsumeInbound
  <2>1. Head(inbound) \in Requests /\ pc[Head(inbound)] = "queued"
    BY <1>3, HeadWaits DEF ConsumeInbound
  <2>2. UNCHANGED registry /\ pc' = [pc EXCEPT ![Head(inbound)] = "superseding"]
    BY <1>3 DEF ConsumeInbound
  <2> QED
    BY <2>1, <2>2
<1>4. ASSUME NEW r \in Requests, PublishInbound(r) \/ PublishTimesOut(r) \/ CallDirect(r)
      PROVE  RegistryInv'
  <2>1. \E p \in {"queued", "rejected", "superseding"} : pc' = [pc EXCEPT ![r] = p]
    BY <1>4 DEF PublishInbound, PublishTimesOut, CallDirect
  <2>2. pc[r] = "idle" /\ UNCHANGED registry
    BY <1>4 DEF PublishInbound, PublishTimesOut, CallDirect
  <2> QED
    BY <2>1, <2>2
<1>5. ASSUME NEW r \in Requests, CancelSessionRun(r) PROVE RegistryInv'
  <2>1. pc[r] = "superseding" /\ UNCHANGED registry
    BY <1>5 DEF CancelSessionRun
  <2>2. \/ pc' = [pc EXCEPT ![r] = "registering"]
        \/ /\ pc' = [pc EXCEPT ![r] = "flushing"]
           /\ registry[SessionOf[r]] # NoRun
    BY <1>5 DEF CancelSessionRun
  <2> QED
    BY <2>1, <2>2
<1>6. ASSUME NEW r \in Requests, CancelPrevious(r) PROVE RegistryInv'
  <2>1. /\ pc[r] = "flushing" /\ mutex = r
        /\ pc' = [pc EXCEPT ![r] = "registering"]
        /\ registry' = [registry EXCEPT ![SessionOf[r]] = NoRun]
    BY <1>6 DEF CancelPrevious, MutexInv
  <2>2. \A q \in Requests : pc'[q] = "flushing" => FALSE
    BY <2>1 DEF MutexInv
  <2> QED
    BY <2>1, <2>2
<1>7. ASSUME NEW r \in Requests, SetupSessionRun(r) PROVE RegistryInv'
  <2>1. /\ pc[r] = "registering" /\ mutex = NoRun
        /\ registry' = [registry EXCEPT ![SessionOf[r]] = r]
    BY <1>7 DEF SetupSessionRun
  <2>2. \/ r \in BusRequests /\ pc' = [pc EXCEPT ![r] = "started"]
        \/ r \notin BusRequests /\ pc' = [pc EXCEPT ![r] = "opening"]
    BY <1>7 DEF SetupSessionRun
  <2>3. \A q \in Requests : pc'[q] # "flushing"
    BY <2>1, <2>2 DEF MutexInv
  <2> QED
    BY <2>1, <2>2, <2>3
<1>8. ASSUME NEW r \in Requests, FinishSessionRun(r) PROVE RegistryInv'
  <2>1. /\ pc[r] = "started" /\ mutex = NoRun
        /\ pc' = [pc EXCEPT ![r] = "opening"]
        /\ registry' = [registry EXCEPT
                          ![SessionOf[r]] = IF @ = r THEN NoRun ELSE @]
    BY <1>8 DEF FinishSessionRun, Unregister
  <2>2. \A s \in Sessions : registry'[s] # NoRun =>
           registry'[s] = registry[s] /\ registry[s] # r
    BY <2>1
  <2>3. \A q \in Requests : pc'[q] # "flushing"
    BY <2>1 DEF MutexInv
  <2> QED
    BY <2>1, <2>2, <2>3
<1>9. ASSUME NEW r \in Requests, RunWork(r) PROVE RegistryInv'
  BY <1>9 DEF RunWork, Working
<1>10. ASSUME NEW r \in Requests, CloseRun(r) PROVE RegistryInv'
  <2>1. /\ pc[r] = "closing"
        /\ pc' = [pc EXCEPT ![r] = "done"]
    BY <1>10 DEF CloseRun
  <2>2. CASE r \in DirectRequests
    <3>1. /\ mutex = NoRun
          /\ registry' = [registry EXCEPT
                            ![SessionOf[r]] = IF @ = r THEN NoRun ELSE @]
      BY <1>10, <2>2 DEF CloseRun, Unregister
    <3>2. \A s \in Sessions : registry'[s] # NoRun =>
             registry'[s] = registry[s] /\ registry[s] # r
      BY <3>1
    <3>3. \A q \in Requests : pc'[q] # "flushing"
      BY <2>1, <3>1 DEF MutexInv
    <3> QED
      BY <2>1, <3>2, <3>3
  <2>3. CASE r \in BusRequests
    BY <1>10, <2>1, <2>3 DEF CloseRun
  <2> QED
    BY <2>2, <2>3
<1>11. ASSUME NEW r \in Requests, NEW q \in Requests, SessionsSendTool(r, q)
       PROVE  RegistryInv'
  <2>1. /\ pc[r] = "relaying" /\ pc[q] = "idle" /\ UNCHANGED registry
        /\ pc' = [pc EXCEPT ![q] = "queued", ![r] = AfterRound(r)]
    BY <1>11 DEF SessionsSendTool, NextRound
  <2>2. AfterRound(r) \in Working
    BY DEF AfterRound, Working
  <2> QED
    BY <2>1, <2>2 DEF Working
<1>12. QED
  BY <1>2, <1>3, <1>4, <1>5, <1>6, <1>7, <1>8, <1>9, <1>10, <1>11, StepKinds

(* Every step keeps the queue to waiting messages, each queued once.       *)
LEMMA QueueStep ==
    ASSUME TypeOK, QueueInv, [Next]_vars
    PROVE  QueueInv'
<1>1. pc \in [Requests -> Phases] /\ inbound \in Seq(BusRequests)
  BY DEF TypeOK
<1> USE <1>1, BusRequestsAreRequests DEF QueueInv, Goto, busVars
<1>2. ASSUME NEW r \in Requests, NEW p \in Phases, pc' = [pc EXCEPT ![r] = p],
             pc[r] # "queued", UNCHANGED inbound
      PROVE  QueueInv'
  BY <1>2
<1>3. ASSUME NEW q \in BusRequests, pc[q] = "idle", inbound' = Append(inbound, q),
             pc'[q] = "queued",
             \A r \in Requests : pc[r] = "queued" => pc'[r] = "queued"
      PROVE  QueueInv'
  <2>1. /\ Len(inbound') = Len(inbound) + 1
        /\ \A i \in 1..Len(inbound) : inbound'[i] = inbound[i]
        /\ inbound'[Len(inbound) + 1] = q
    BY <1>3, AppendProperties
  <2>2. \A i \in 1..Len(inbound) : inbound[i] \in Requests /\ inbound[i] # q
    BY <1>3
  <2>3. \A i \in 1..Len(inbound') : i \in 1..Len(inbound) \/ i = Len(inbound) + 1
    BY <2>1
  <2> QED
    BY <1>3, <2>1, <2>2, <2>3
<1>4. CASE UNCHANGED <<inbound, registry, mutex, pc>>
  BY <1>4
<1>5. CASE ConsumeInbound
  <2>1. /\ Len(inbound') = Len(inbound) - 1
        /\ \A i \in 1..Len(inbound') : inbound'[i] = inbound[i + 1]
        /\ Head(inbound) = inbound[1] /\ inbound # <<>>
        /\ pc' = [pc EXCEPT ![Head(inbound)] = "superseding"]
    BY <1>5, HeadTailProperties DEF ConsumeInbound
  <2>2. \A i \in 1..Len(inbound') : i + 1 \in 1..Len(inbound) /\ inbound[i + 1] # inbound[1]
    BY <2>1
  <2>3. \A i \in 1..Len(inbound') : pc'[inbound'[i]] = "queued"
    BY <2>1, <2>2
  <2> QED
    BY <2>1, <2>2, <2>3
<1>6. ASSUME NEW r \in Requests, PublishInbound(r) PROVE QueueInv'
  BY <1>3, <1>6 DEF PublishInbound
<1>7. ASSUME NEW r \in Requests,
             PublishTimesOut(r) \/ CallDirect(r) \/ CancelSessionRun(r)
               \/ CancelPrevious(r) \/ SetupSessionRun(r) \/ FinishSessionRun(r)
               \/ CloseRun(r)
      PROVE  QueueInv'
  <2>1. pc[r] # "queued" /\ UNCHANGED inbound
    BY <1>7 DEF PublishTimesOut, CallDirect, CancelSessionRun, CancelPrevious,
         SetupSessionRun, FinishSessionRun, CloseRun
  <2>2. \E p \in Phases : pc' = [pc EXCEPT ![r] = p]
    BY <1>7 DEF PublishTimesOut, CallDirect, CancelSessionRun, CancelPrevious,
         SetupSessionRun, FinishSessionRun, CloseRun, Phases
  <2> QED
    BY <1>2, <2>1, <2>2
<1>8. ASSUME NEW r \in Requests, RunWork(r) PROVE QueueInv'
  BY <1>2, <1>8 DEF RunWork, Working, Executing, Phases
<1>9. ASSUME NEW r \in Requests, NEW q \in Requests, SessionsSendTool(r, q)
      PROVE  QueueInv'
  <2>1. /\ q \in BusRequests /\ pc[q] = "idle" /\ inbound' = Append(inbound, q)
        /\ pc[r] = "relaying"
        /\ pc' = [pc EXCEPT ![q] = "queued", ![r] = AfterRound(r)]
    BY <1>9 DEF SessionsSendTool
  <2> QED
    BY <1>3, <2>1
<1>10. QED
  BY <1>4, <1>5, <1>6, <1>7, <1>8, <1>9, StepKinds


(* Every step leaves a run in the Chat loop a round and a tool route.      *)
LEMMA RoundStep ==
    ASSUME TypeOK, QueueInv, RoundInv, [Next]_vars
    PROVE  RoundInv'
<1>1. pc \in [Requests -> Phases] /\ iter \in [Requests -> 0..MaxIter]
  BY DEF TypeOK
<1> USE <1>1 DEF RoundInv, InRound, Handling, Goto
<1>2. ASSUME NEW r \in Requests, NEW p, pc' = [pc EXCEPT ![r] = p],
             UNCHANGED <<toolChat, iter>>,
             p \in InRound => pc[r] \in InRound,
             p \in {"idle", "queued", "started", "opening"} \cup Handling
             => pc[r] \in {"idle", "queued", "started", "opening"} \cup Handling
      PROVE  RoundInv'
  BY <1>2
<1>3. CASE UNCHANGED <<toolChat, pc, iter>>
  BY <1>3
<1>4. CASE StopConsuming \/ DispatchOutbound \/ Shutdown \/ UNCHANGED vars
  BY <1>3, <1>4 DEF StopConsuming, DispatchOutbound, Shutdown, vars, runVars
<1>5. CASE ConsumeInbound
  <2>1. Head(inbound) \in Requests /\ pc[Head(inbound)] = "queued"
    BY <1>5, HeadWaits, BusRequestsAreRequests DEF ConsumeInbound
  <2> QED
    BY <1>2, <1>5, <2>1 DEF ConsumeInbound, runVars
<1>6. ASSUME NEW r \in Requests, CallerGone(r) \/ Deadline(r) PROVE RoundInv'
  BY <1>3, <1>6 DEF CallerGone, Deadline, runVars
<1>7. ASSUME NEW r \in Requests,
             PublishInbound(r) \/ PublishTimesOut(r) \/ CallDirect(r)
               \/ CancelSessionRun(r) \/ CancelPrevious(r)
               \/ SetupSessionRun(r) \/ FinishSessionRun(r) \/ CloseRun(r)
               \/ ResetSession(r) \/ RecordTurn(r)
      PROVE  RoundInv'
  <2>1. UNCHANGED <<toolChat, iter>>
    BY <1>7 DEF PublishInbound, PublishTimesOut, CallDirect, CancelSessionRun,
         CancelPrevious, SetupSessionRun, FinishSessionRun, CloseRun,
         ResetSession, RecordTurn, runVars
  <2>2. \/ \E p \in {"queued", "superseding", "flushing", "registering", "started",
                     "opening"} :
            /\ pc' = [pc EXCEPT ![r] = p]
            /\ pc[r] \in {"idle", "queued", "started", "opening"} \cup Handling
        \/ \E p \in {"rejected", "replying", "done"} : pc' = [pc EXCEPT ![r] = p]
    BY <1>7 DEF PublishInbound, PublishTimesOut, CallDirect, CancelSessionRun,
         CancelPrevious, SetupSessionRun, FinishSessionRun, CloseRun,
         ResetSession, RecordTurn
  <2> QED
    BY <1>2, <2>1, <2>2
<1>8. ASSUME NEW r \in Requests, OpenSession(r) PROVE RoundInv'
  <2>1. /\ pc[r] = "opening" /\ iter' = iter
        /\ \/ /\ pc' = [pc EXCEPT ![r] = "calling"]
              /\ toolChat' = ChatOf[r]
           \/ /\ \E p \in {"replying", "resetting"} : pc' = [pc EXCEPT ![r] = p]
              /\ toolChat' = toolChat
    BY <1>8 DEF OpenSession, SetRuntimeToolContext, runVars
  <2>2. ChatOf[r] # NoChat /\ 0 < MaxIter
    BY RequestAssumption, BoundAssumption
  <2> QED
    BY <2>1, <2>2
<1>9. ASSUME NEW r \in Requests,
             ChatStarts(r) \/ ChatErrors(r) \/ ChatAborts(r) \/ ChatReplies(r)
      PROVE  RoundInv'
  <2>1. UNCHANGED <<toolChat, iter>> /\ pc[r] \in InRound
    BY <1>9 DEF ChatStarts, ChatErrors, ChatAborts, ChatReplies, runVars
  <2>2. \E p \in {"waiting", "failing", "recording", "tools", "messaging", "relaying"} :
          pc' = [pc EXCEPT ![r] = p]
    BY <1>9 DEF ChatStarts, ChatErrors, ChatAborts, ChatReplies, Fail
  <2> QED
    BY <1>2, <2>1, <2>2
<1>10. ASSUME NEW r \in Requests,
              pc[r] \in InRound, pc' = [pc EXCEPT ![r] = AfterRound(r)], NextRound(r)
       PROVE  RoundInv'
  <2>1. /\ iter' = [iter EXCEPT ![r] = iter[r] + 1] /\ UNCHANGED toolChat
        /\ iter[r] < MaxIter /\ toolChat # NoChat
    BY <1>10 DEF NextRound
  <2>2. \/ pc' = [pc EXCEPT ![r] = "recording"]
        \/ pc' = [pc EXCEPT ![r] = "calling"] /\ iter[r] + 1 # MaxIter
    BY <1>10 DEF AfterRound
  <2> QED
    BY <2>1, <2>2, BoundAssumption
<1>11. ASSUME NEW r \in Requests, OtherTools(r) \/ MessageTool(r) \/ SessionsSendFails(r)
       PROVE  RoundInv'
  BY <1>10, <1>11 DEF OtherTools, MessageTool, SessionsSendFails
<1>12. ASSUME NEW r \in Requests, NEW q \in Requests, SessionsSendTool(r, q)
       PROVE  RoundInv'
  <2>1. /\ pc[r] = "relaying" /\ pc[q] = "idle" /\ UNCHANGED toolChat
        /\ pc' = [pc EXCEPT ![q] = "queued", ![r] = AfterRound(r)]
        /\ iter' = [iter EXCEPT ![r] = iter[r] + 1]
    BY <1>12 DEF SessionsSendTool, NextRound
  <2>2. iter[r] < MaxIter /\ toolChat # NoChat /\ iter[q] = 0 /\ q # r
    BY <2>1
  <2>3. \/ pc' = [pc EXCEPT ![q] = "queued", ![r] = "recording"]
        \/ /\ pc' = [pc EXCEPT ![q] = "queued", ![r] = "calling"]
           /\ iter[r] + 1 # MaxIter
    BY <2>1 DEF AfterRound
  <2> QED
    BY <2>1, <2>2, <2>3, BoundAssumption
<1>13. ASSUME NEW r \in Requests,
              ReplyOnBus(r) \/ ReturnContent(r) \/ HandleRunFailure(r) \/ ReturnError(r)
       PROVE  RoundInv'
  <2>1. \E v \in {"answered", "failed", "aborted"} : Settle(r, v)
    BY <1>13 DEF ReplyOnBus, ReturnContent, HandleRunFailure, ReturnError
  <2> QED
    BY <2>1 DEF Settle
<1>14. QED
  BY <1>4, <1>5, <1>6, <1>7, <1>8, <1>9, <1>11, <1>12, <1>13 DEF Next

(* A verdict, a published reply and a record come with the phases in which *)
(* the code decides, publishes and records.                                *)
LEMMA OutcomeStep ==
    ASSUME TypeOK, QueueInv, OutcomeInv, [Next]_vars
    PROVE  OutcomeInv'
<1>1. /\ pc \in [Requests -> Phases] /\ replies \in [Requests -> Nat]
      /\ verdict \in [Requests -> {"none", "answered", "failed", "aborted"}]
      /\ saved \subseteq Requests
  BY DEF TypeOK
<1> USE <1>1 DEF OutcomeInv, Goto
<1>2. ASSUME NEW r \in Requests, NEW p, pc' = [pc EXCEPT ![r] = p],
             UNCHANGED <<verdict, saved, replies>>,
             pc[r] \notin {"replying", "closing", "done"}, p \notin {"closing", "done"}
      PROVE  OutcomeInv'
  BY <1>2
<1>3. CASE UNCHANGED <<pc, verdict, saved, replies>>
  BY <1>3
<1>4. CASE StopConsuming \/ DispatchOutbound \/ Shutdown \/ UNCHANGED vars
  BY <1>3, <1>4 DEF StopConsuming, DispatchOutbound, Shutdown, vars, runVars
<1>5. CASE ConsumeInbound
  <2>1. Head(inbound) \in Requests /\ pc[Head(inbound)] = "queued"
    BY <1>5, HeadWaits, BusRequestsAreRequests DEF ConsumeInbound
  <2> QED
    BY <1>2, <1>5, <2>1 DEF ConsumeInbound, runVars
<1>6. ASSUME NEW r \in Requests, CallerGone(r) \/ Deadline(r) PROVE OutcomeInv'
  BY <1>3, <1>6 DEF CallerGone, Deadline, runVars
<1>7. ASSUME NEW r \in Requests,
             PublishInbound(r) \/ PublishTimesOut(r) \/ CallDirect(r)
               \/ CancelSessionRun(r) \/ CancelPrevious(r)
               \/ SetupSessionRun(r) \/ FinishSessionRun(r)
      PROVE  OutcomeInv'
  <2>1. /\ UNCHANGED <<verdict, saved, replies>>
        /\ pc[r] \in {"idle", "started"} \cup Handling
    BY <1>7 DEF PublishInbound, PublishTimesOut, CallDirect, CancelSessionRun,
         CancelPrevious, SetupSessionRun, FinishSessionRun, Handling, runVars
  <2>2. \E p \in {"queued", "rejected", "superseding", "flushing", "registering",
                  "started", "opening"} :
          pc' = [pc EXCEPT ![r] = p]
    BY <1>7 DEF PublishInbound, PublishTimesOut, CallDirect, CancelSessionRun,
         CancelPrevious, SetupSessionRun, FinishSessionRun
  <2> QED
    BY <1>2, <2>1, <2>2 DEF Handling
<1>8. ASSUME NEW r \in Requests,
             OpenSession(r) \/ ResetSession(r)
               \/ ChatStarts(r) \/ ChatErrors(r) \/ ChatAborts(r) \/ ChatReplies(r)
               \/ OtherTools(r) \/ MessageTool(r) \/ SessionsSendFails(r)
      PROVE  OutcomeInv'
  <2>1. /\ UNCHANGED <<verdict, saved, replies>>
        /\ pc[r] \in {"opening", "resetting"} \cup InRound
    BY <1>8 DEF OpenSession, SetRuntimeToolContext, ResetSession, ChatStarts,
       ChatErrors, ChatAborts,
         ChatReplies, OtherTools, MessageTool, SessionsSendFails, NextRound,
         InRound, runVars
  <2>2. RunWork(r) /\ pc'[r] # "closing"
    <3>1. \E p \in {"replying", "resetting", "failing", "recording"} \cup InRound :
            pc' = [pc EXCEPT ![r] = p]
      BY <1>8 DEF OpenSession, SetRuntimeToolContext, ResetSession, ChatStarts,
         ChatErrors, ChatAborts,
           ChatReplies, OtherTools, MessageTool, SessionsSendFails, Fail,
           AfterRound, InRound
    <3> QED
      BY <1>8, <3>1, WorkingSteps DEF InRound
  <2> QED
    BY <1>2, <2>1, <2>2 DEF RunWork, Working, Executing, InRound
<1>9. ASSUME NEW r \in Requests, RecordTurn(r) PROVE OutcomeInv'
  BY <1>9 DEF RecordTurn
<1>10. ASSUME NEW r \in Requests, NEW q \in Requests, SessionsSendTool(r, q)
       PROVE  OutcomeInv'
  <2>1. /\ pc[r] = "relaying" /\ pc[q] = "idle"
        /\ pc' = [pc EXCEPT ![q] = "queued", ![r] = AfterRound(r)]
        /\ UNCHANGED <<verdict, saved, replies>>
    BY <1>10 DEF SessionsSendTool, NextRound
  <2>2. AfterRound(r) \in {"recording", "calling"}
    BY DEF AfterRound
  <2> QED
    BY <2>1, <2>2
<1>11. ASSUME NEW r \in Requests, NEW v \in {"answered", "failed", "aborted"},
              pc[r] \in {"replying", "failing"},
              pc[r] = "failing" \/ v = "answered", Settle(r, v),
              \A q \in Requests \ {r} : replies'[q] = replies[q]
       PROVE  OutcomeInv'
  <2>1. /\ pc' = [pc EXCEPT ![r] = "closing"]
        /\ verdict' = [verdict EXCEPT ![r] = v] /\ UNCHANGED saved
    BY <1>11 DEF Settle
  <2> QED
    BY <1>11, <2>1
<1>12. ASSUME NEW r \in Requests,
              ReplyOnBus(r) \/ ReturnContent(r) \/ HandleRunFailure(r) \/ ReturnError(r)
       PROVE  OutcomeInv'
  <2>1. \A q \in Requests \ {r} : replies'[q] = replies[q]
    BY <1>12 DEF ReplyOnBus, ReturnContent, HandleRunFailure, ReturnError, PublishOutbound
  <2>2. \/ pc[r] = "replying" /\ Settle(r, "answered")
        \/ pc[r] = "failing" /\ \E v \in {"failed", "aborted"} : Settle(r, v)
    BY <1>12 DEF ReplyOnBus, ReturnContent, HandleRunFailure, ReturnError
  <2> QED
    BY <1>11, <2>1, <2>2
<1>13. ASSUME NEW r \in Requests, CloseRun(r) PROVE OutcomeInv'
  BY <1>13 DEF CloseRun, runVars
<1>14. QED
  BY <1>4, <1>5, <1>6, <1>7, <1>8, <1>9, <1>10, <1>12, <1>13 DEF Next

(* The initial state satisfies the inductive invariant.                    *)
LEMMA InitIInv == Init => IInv
  BY RequestAssumption, BoundAssumption
     DEF Init, IInv, TypeOK, MutexInv, RegistryInv, QueueInv, RoundInv, OutcomeInv,
         InRound, Handling, Phases, CtxStates

(* Every step keeps it.                                                    *)
LEMMA NextIInv == IInv /\ [Next]_vars => IInv'
  BY TypeStep, MutexStep, RegistryStep, QueueStep, RoundStep, OutcomeStep DEF IInv

(* The inductive invariant holds in every reachable state.                 *)
THEOREM Invariance == Spec => []IInv
  BY InitIInv, NextIInv, PTL DEF Spec

(* Every variable of the run loop stays in its domain and neither queue of *)
(* the bus exceeds its capacity.                                           *)
THEOREM TypeCorrect == Spec => []TypeOK
<1>1. IInv => TypeOK
  BY DEF IInv
<1> QED
  BY <1>1, Invariance, PTL

(* sessionCancels only ever holds runs of the entry's own session that are *)
(* still executing, for any number of requests, sessions and concurrent    *)
(* ProcessDirect calls.                                                    *)
THEOREM RegistrySafe == Spec => []RegistryHoldsOwnRuns
<1>1. IInv => RegistryHoldsOwnRuns
  BY RequestAssumption DEF IInv, RegistryInv, RegistryHoldsOwnRuns, Executing
<1> QED
  BY <1>1, Invariance, PTL

(* While cancelSessionRun flushes, it holds sessionCancelsMu and the entry *)
(* it looked up is still there.                                            *)
THEOREM FlushSafe == Spec => []FlushKeepsItsEntry
<1>1. IInv => FlushKeepsItsEntry
  BY DEF IInv, MutexInv, RegistryInv, FlushKeepsItsEntry
<1> QED
  BY <1>1, Invariance, PTL

(* A context that goes from live to canceled is the run's own end, its     *)
(* caller's leaving, the shutdown or a cancelSessionRun for its session.   *)
THEOREM CancelIsLocal == Spec => CancelStaysInSession
<1>1. ASSUME IInv, [Next]_vars, NEW r \in Requests, ctx[r] = "live", ctx'[r] = "canceled"
      PROVE  \/ pc[r] = "closing"
             \/ r \in DirectRequests /\ pc' = pc
             \/ r \in BusRequests /\ ~serving'
             \/ \E q \in Requests : /\ SessionOf[q] = SessionOf[r]
                                    /\ pc[q] = "flushing"
                                    /\ pc'[q] = "registering"
  <2>1. ctx \in [Requests -> CtxStates] /\ pc \in [Requests -> Phases]
        /\ registry \in [Sessions -> Requests \cup {NoRun}]
        /\ SessionOf \in [Requests -> Sessions] /\ NoRun \notin Requests
    BY <1>1, RequestAssumption DEF IInv, TypeOK
  <2>2. CASE Shutdown
    BY <1>1, <2>2 DEF Shutdown
  <2>3. ASSUME NEW q \in Requests, CallerGone(q)
        PROVE  r \in DirectRequests /\ pc' = pc
    BY <1>1, <2>1, <2>3 DEF CallerGone, Cancel
  <2>4. ASSUME NEW q \in Requests, Deadline(q) PROVE FALSE
    BY <1>1, <2>1, <2>4 DEF Deadline
  <2>5. ASSUME NEW q \in Requests, CancelPrevious(q)
        PROVE  /\ SessionOf[q] = SessionOf[r]
               /\ pc[q] = "flushing" /\ pc'[q] = "registering"
    <3>1. /\ pc[q] = "flushing" /\ pc'[q] = "registering"
          /\ r = registry[SessionOf[q]]
      BY <1>1, <2>1, <2>5 DEF CancelPrevious, Cancel, Goto
    <3> QED
      BY <1>1, <2>1, <3>1 DEF IInv, RegistryInv
  <2>6. ASSUME NEW q \in Requests, SetupSessionRun(q)
        PROVE  r \in BusRequests /\ ~serving'
    BY <1>1, <2>1, <2>6 DEF SetupSessionRun, Cancel, svcVars
  <2>7. ASSUME NEW q \in Requests, CloseRun(q) PROVE pc[r] = "closing"
    BY <1>1, <2>1, <2>7 DEF CloseRun, Cancel
  <2>8. CASE UNCHANGED ctx
    BY <1>1, <2>8
  <2>9. ASSUME NEW q \in Requests,
               \/ PublishInbound(q) \/ PublishTimesOut(q) \/ CallDirect(q)
               \/ CancelSessionRun(q) \/ FinishSessionRun(q)
               \/ OpenSession(q) \/ ResetSession(q)
               \/ ChatStarts(q) \/ ChatErrors(q) \/ ChatAborts(q) \/ ChatReplies(q)
               \/ OtherTools(q) \/ MessageTool(q) \/ SessionsSendFails(q)
               \/ (\E p \in Requests : SessionsSendTool(q, p))
               \/ RecordTurn(q)
               \/ ReplyOnBus(q) \/ ReturnContent(q)
               \/ HandleRunFailure(q) \/ ReturnError(q)
        PROVE  UNCHANGED ctx
    BY <2>9 DEF PublishInbound, PublishTimesOut, CallDirect, CancelSessionRun,
         FinishSessionRun, OpenSession, SetRuntimeToolContext,
         ResetSession, ChatStarts, ChatErrors,
         ChatAborts, ChatReplies, OtherTools, MessageTool, SessionsSendFails,
         SessionsSendTool, NextRound, RecordTurn, ReplyOnBus, ReturnContent,
         HandleRunFailure, ReturnError, Settle
  <2>10. CASE ConsumeInbound \/ StopConsuming \/ DispatchOutbound \/ UNCHANGED vars
    BY <2>8, <2>10 DEF ConsumeInbound, StopConsuming, DispatchOutbound, vars
  <2> QED
    BY <1>1, <2>2, <2>3, <2>4, <2>5, <2>6, <2>7, <2>8, <2>9, <2>10 DEF Next
<1>2. IInv /\ [Next]_vars =>
        [\A r \in Requests :
           ctx[r] = "live" /\ ctx'[r] = "canceled" =>
             \/ pc[r] = "closing"
             \/ r \in DirectRequests /\ pc' = pc
             \/ r \in BusRequests /\ ~serving'
             \/ \E q \in Requests : /\ SessionOf[q] = SessionOf[r]
                                    /\ pc[q] = "flushing"
                                    /\ pc'[q] = "registering"]_vars
  BY <1>1
<1> QED
  BY <1>2, Invariance, PTL DEF Spec, CancelStaysInSession

(* An entry that disappears from sessionCancels was removed by its own run *)
(* or has had its context cancelled.                                       *)
THEOREM RemovalCancels == Spec => RemovedIsCancelled
<1>1. ASSUME IInv, [Next]_vars, NEW s \in Sessions, registry[s] # NoRun, registry'[s] = NoRun
      PROVE  \/ ctx'[registry[s]] # "live"
             \/ pc[registry[s]] = "started" /\ pc'[registry[s]] = "opening"
  <2>1. ctx \in [Requests -> CtxStates] /\ pc \in [Requests -> Phases]
        /\ registry \in [Sessions -> Requests \cup {NoRun}]
        /\ SessionOf \in [Requests -> Sessions] /\ NoRun \notin Requests
    BY <1>1, RequestAssumption DEF IInv, TypeOK
  <2>2. ASSUME NEW r \in Requests, CancelPrevious(r)
        PROVE  ctx'[registry[s]] # "live"
    BY <1>1, <2>1, <2>2 DEF CancelPrevious, Cancel
  <2>3. ASSUME NEW r \in Requests, SetupSessionRun(r) PROVE FALSE
    BY <1>1, <2>1, <2>3 DEF SetupSessionRun
  <2>4. ASSUME NEW r \in Requests, FinishSessionRun(r)
        PROVE  pc[registry[s]] = "started" /\ pc'[registry[s]] = "opening"
    BY <1>1, <2>1, <2>4 DEF FinishSessionRun, Unregister, Goto
  <2>5. ASSUME NEW r \in Requests, CloseRun(r)
        PROVE  ctx'[registry[s]] # "live"
    BY <1>1, <2>1, <2>5 DEF CloseRun, Unregister, Cancel
  <2>6. ASSUME NEW r \in Requests,
               \/ PublishInbound(r) \/ PublishTimesOut(r) \/ CallDirect(r)
               \/ CancelSessionRun(r) \/ RunWork(r)
               \/ \E q \in Requests : SessionsSendTool(r, q)
        PROVE  UNCHANGED registry
    BY <2>6 DEF PublishInbound, PublishTimesOut, CallDirect, CancelSessionRun,
         RunWork, SessionsSendTool, NextRound, regVars
  <2>7. CASE ConsumeInbound \/ UNCHANGED <<inbound, registry, mutex, pc>>
    BY <1>1, <2>7 DEF ConsumeInbound, regVars
  <2> QED
    BY <1>1, <2>2, <2>3, <2>4, <2>5, <2>6, <2>7, StepKinds
<1>2. IInv /\ [Next]_vars =>
        [\A s \in Sessions :
           registry[s] # NoRun /\ registry'[s] = NoRun =>
             \/ ctx'[registry[s]] # "live"
             \/ pc[registry[s]] = "started" /\ pc'[registry[s]] = "opening"]_vars
  BY <1>1
<1> QED
  BY <1>2, Invariance, PTL DEF Spec, RemovedIsCancelled

-----------------------------------------------------------------------------
(* The refinement of RequestLedger.  Each step of the run loop is matched  *)
(* with the ledger step it is, or shown to leave the ledger alone;         *)
(* OutcomeInv supplies what the ledger's guards ask: nothing was published *)
(* or recorded before.                                                     *)

(* What StatusOf is in each phase.                                         *)
LEMMA StatusCases ==
    ASSUME NEW p, NEW v
    PROVE  /\ StatusIn("idle", v) = "offered"
           /\ StatusIn("rejected", v) = "refused"
           /\ p \in {"queued"} \cup Handling => StatusIn(p, v) = "accepted"
           /\ p \in Executing \ {"closing"} => StatusIn(p, v) = "running"
           /\ p \in {"closing", "done"} => StatusIn(p, v) = v
<1>1. StatusIn("idle", v) = "offered"
  BY DEF StatusIn, Handling, Executing
<1>2. StatusIn("rejected", v) = "refused"
  BY DEF StatusIn, Handling, Executing
<1>3. ASSUME p \in {"queued"} \cup Handling PROVE StatusIn(p, v) = "accepted"
  <2>1. p \in {"queued", "superseding", "flushing", "registering"}
    BY <1>3 DEF Handling
  <2> QED
    BY <2>1 DEF StatusIn, Handling, Executing
<1>4. ASSUME p \in Executing \ {"closing"} PROVE StatusIn(p, v) = "running"
  BY <1>4 DEF StatusIn, Handling, Executing
<1>5. ASSUME p \in {"closing", "done"} PROVE StatusIn(p, v) = v
  BY <1>5 DEF StatusIn, Handling, Executing
<1>6. QED
  BY <1>1, <1>2, <1>3, <1>4, <1>5

(* A step that moves one run and may decide its verdict changes one entry  *)
(* of the status function.                                                 *)
LEMMA MoveStatus ==
    ASSUME TypeOK, NEW r \in Requests, NEW p, NEW v,
           pc' = [pc EXCEPT ![r] = p], verdict' = [verdict EXCEPT ![r] = v]
    PROVE  \A q \in Requests :
             StatusOf(q)' = IF q = r THEN StatusIn(p, v) ELSE StatusOf(q)
  BY DEF TypeOK, StatusOf

(* A move within one status, with nothing published or recorded, stutters. *)
LEMMA SameStatus ==
    ASSUME TypeOK, NEW r \in Requests, NEW p, pc' = [pc EXCEPT ![r] = p],
           UNCHANGED <<verdict, replies, saved>>,
           StatusIn(p, verdict[r]) = StatusOf(r)
    PROVE  UNCHANGED Ledger!ledgerVars
<1>1. \A q \in Requests : StatusOf(q)' = StatusOf(q)
  BY DEF TypeOK, StatusOf
<1> QED
  BY <1>1 DEF Ledger!ledgerVars

(* A verdict with its reply, if any, is the ledger's Settle.               *)
LEMMA SettleStatus ==
    ASSUME TypeOK, OutcomeInv, NEW r \in Requests,
           NEW v \in {"answered", "failed", "aborted"}, Settle(r, v),
           \/ pc[r] = "replying" /\ v = "answered"
           \/ pc[r] = "failing",
           \/ UNCHANGED replies
           \/ v # "aborted" /\ replies' = [replies EXCEPT ![r] = @ + 1]
    PROVE  Ledger!Settle(r, v)
<1>1. StatusOf(r) = "running"
  BY StatusCases DEF StatusOf, Executing
<1>2. [q \in Requests |-> StatusOf(q)]'
        = [[q \in Requests |-> StatusOf(q)] EXCEPT ![r] = v]
  <2>1. StatusIn("closing", v) = v
    BY StatusCases
  <2>2. \A q \in Requests : StatusOf(q)' = IF q = r THEN v ELSE StatusOf(q)
    BY <2>1, MoveStatus DEF Settle, Goto
  <2> QED
    BY <2>2
<1>3. r \in saved => v = "answered"
  BY DEF OutcomeInv
<1>4. replies[r] = 0
  BY DEF OutcomeInv
<1>5. UNCHANGED replies \/ (v # "aborted" /\ replies' = [replies EXCEPT ![r] = 1])
  BY <1>4 DEF TypeOK
<1> QED
  BY <1>1, <1>2, <1>3, <1>4, <1>5 DEF Ledger!Settle, Settle

(* The run loop implements RequestLedger: every step is a step of the      *)
(* ledger or leaves it alone.                                              *)
THEOREM LedgerRefined == Spec => LedgerSpec
<1> DEFINE st == [r \in Requests |-> StatusOf(r)]
<1>1. Init => Ledger!LedgerInit
  <2>1. StatusIn("idle", "none") = "offered"
    BY StatusCases
  <2> QED
    BY <2>1 DEF Init, Ledger!LedgerInit, StatusOf
<1>2. ASSUME IInv, [Next]_vars
      PROVE  Ledger!LedgerNext \/ UNCHANGED Ledger!ledgerVars
  <2>1. TypeOK /\ QueueInv /\ OutcomeInv
    BY <1>2 DEF IInv
  <2>2. pc \in [Requests -> Phases] /\ verdict \in [Requests -> {"none", "answered", "failed", "aborted"}]
        /\ saved \subseteq Requests
    BY <2>1 DEF TypeOK
  <2>3. ASSUME NEW r \in Requests, NEW p, pc' = [pc EXCEPT ![r] = p],
               UNCHANGED verdict
        PROVE  \A q \in Requests :
                 StatusOf(q)' = IF q = r THEN StatusIn(p, verdict[r]) ELSE StatusOf(q)
    <3>1. verdict' = [verdict EXCEPT ![r] = verdict[r]]
      BY <2>2, <2>3
    <3> QED
      BY <2>1, <2>3, <3>1, MoveStatus
  <2>4. ASSUME UNCHANGED <<pc, verdict, replies, saved>>
        PROVE  UNCHANGED Ledger!ledgerVars
    BY <2>4 DEF Ledger!ledgerVars, StatusOf
  <2>5. CASE StopConsuming \/ DispatchOutbound \/ Shutdown \/ UNCHANGED vars
    BY <2>4, <2>5 DEF StopConsuming, DispatchOutbound, Shutdown, vars, runVars
  <2>6. ASSUME NEW r \in Requests, CallerGone(r) \/ Deadline(r)
        PROVE  UNCHANGED Ledger!ledgerVars
    <3>1. UNCHANGED <<pc, verdict, replies, saved>>
      BY <2>6 DEF CallerGone, Deadline, runVars
    <3> QED
      BY <2>4, <3>1
  <2>7. CASE ConsumeInbound
    <3>1. Head(inbound) \in Requests /\ pc[Head(inbound)] = "queued"
          /\ pc' = [pc EXCEPT ![Head(inbound)] = "superseding"]
          /\ UNCHANGED <<verdict, replies, saved>>
      BY <2>1, <2>7, HeadWaits, BusRequestsAreRequests DEF ConsumeInbound, runVars, Goto
    <3>2. StatusIn("superseding", verdict[Head(inbound)]) = StatusOf(Head(inbound))
      BY <3>1, StatusCases DEF StatusOf, Handling
    <3> QED
      BY <2>1, <3>1, <3>2, SameStatus
  <2>8. ASSUME NEW r \in Requests, PublishInbound(r) \/ CallDirect(r)
        PROVE  Ledger!Accept(r)
    <3>1. pc[r] = "idle" /\ UNCHANGED <<verdict, replies, saved>>
          /\ \E p \in {"queued", "superseding"} : pc' = [pc EXCEPT ![r] = p]
      BY <2>8 DEF PublishInbound, CallDirect, runVars, Goto
    <3>2. StatusOf(r) = "offered"
      BY <3>1, StatusCases DEF StatusOf
    <3>3. PICK p \in {"queued", "superseding"} : pc' = [pc EXCEPT ![r] = p]
      BY <3>1
    <3>4. StatusIn(p, verdict[r]) = "accepted"
      BY StatusCases DEF Handling
    <3>5. \A q \in Requests : StatusOf(q)' = IF q = r THEN "accepted" ELSE StatusOf(q)
      BY <2>3, <3>1, <3>3, <3>4
    <3> QED
      BY <3>1, <3>2, <3>5 DEF Ledger!Accept
  <2>9. ASSUME NEW r \in Requests, PublishTimesOut(r)
        PROVE  Ledger!Refuse(r)
    <3>1. pc[r] = "idle" /\ UNCHANGED <<verdict, replies, saved>>
          /\ pc' = [pc EXCEPT ![r] = "rejected"]
      BY <2>9 DEF PublishTimesOut, runVars, Goto
    <3>2. StatusOf(r) = "offered"
      BY <3>1, StatusCases DEF StatusOf
    <3>3. StatusIn("rejected", verdict[r]) = "refused"
      BY StatusCases
    <3>4. \A q \in Requests : StatusOf(q)' = IF q = r THEN "refused" ELSE StatusOf(q)
      BY <2>3, <3>1, <3>3
    <3> QED
      BY <3>1, <3>2, <3>4 DEF Ledger!Refuse
  <2>10. ASSUME NEW r \in Requests, CancelSessionRun(r) \/ CancelPrevious(r)
         PROVE  UNCHANGED Ledger!ledgerVars
    <3>1. pc[r] \in Handling /\ UNCHANGED <<verdict, replies, saved>>
          /\ \E p \in Handling : pc' = [pc EXCEPT ![r] = p]
      BY <2>10 DEF CancelSessionRun, CancelPrevious, runVars, Goto, Handling
    <3>2. PICK p \in Handling : pc' = [pc EXCEPT ![r] = p]
      BY <3>1
    <3>3. StatusIn(p, verdict[r]) = StatusOf(r)
      BY <3>1, StatusCases DEF StatusOf
    <3> QED
      BY <2>1, <3>1, <3>2, <3>3, SameStatus
  <2>11. ASSUME NEW r \in Requests, SetupSessionRun(r)
         PROVE  Ledger!Begin(r)
    <3>1. pc[r] = "registering" /\ UNCHANGED <<verdict, replies, saved>>
          /\ \E p \in {"started", "opening"} : pc' = [pc EXCEPT ![r] = p]
      BY <2>11 DEF SetupSessionRun, runVars, Goto
    <3>2. StatusOf(r) = "accepted"
      BY <3>1, StatusCases DEF StatusOf, Handling
    <3>3. PICK p \in {"started", "opening"} : pc' = [pc EXCEPT ![r] = p]
      BY <3>1
    <3>4. StatusIn(p, verdict[r]) = "running"
      BY StatusCases DEF Executing
    <3>5. \A q \in Requests : StatusOf(q)' = IF q = r THEN "running" ELSE StatusOf(q)
      BY <2>3, <3>1, <3>3, <3>4
    <3> QED
      BY <3>1, <3>2, <3>5 DEF Ledger!Begin
  <2>12. ASSUME NEW r \in Requests, FinishSessionRun(r)
         PROVE  UNCHANGED Ledger!ledgerVars
    <3>1. pc[r] = "started" /\ UNCHANGED <<verdict, replies, saved>>
          /\ pc' = [pc EXCEPT ![r] = "opening"]
      BY <2>12 DEF FinishSessionRun, runVars, Goto
    <3>2. StatusIn("opening", verdict[r]) = StatusOf(r)
      BY <3>1, StatusCases DEF StatusOf, Executing
    <3> QED
      BY <2>1, <3>1, <3>2, SameStatus
  <2>13. ASSUME NEW r \in Requests,
                OpenSession(r) \/ ResetSession(r)
                  \/ ChatStarts(r) \/ ChatErrors(r) \/ ChatAborts(r) \/ ChatReplies(r)
                  \/ OtherTools(r) \/ MessageTool(r) \/ SessionsSendFails(r)
         PROVE  UNCHANGED Ledger!ledgerVars
    <3>1. UNCHANGED <<verdict, replies, saved>>
      BY <2>13 DEF OpenSession, SetRuntimeToolContext, ResetSession, ChatStarts,
         ChatErrors, ChatAborts,
           ChatReplies, OtherTools, MessageTool, SessionsSendFails, NextRound, runVars
    <3>2. PICK p \in {"replying", "resetting", "failing", "recording"} \cup InRound :
            pc' = [pc EXCEPT ![r] = p]
      BY <2>13 DEF OpenSession, SetRuntimeToolContext, ResetSession, ChatStarts,
         ChatErrors, ChatAborts,
           ChatReplies, OtherTools, MessageTool, SessionsSendFails, Fail,
           AfterRound, InRound, Goto
    <3>3. pc[r] \in Executing \ {"closing"} /\ p \in Executing \ {"closing"}
      BY <2>13, <3>2, WorkingSteps DEF RunWork, Working, InRound, Executing
    <3>4. StatusIn(p, verdict[r]) = StatusOf(r)
      BY <3>3, StatusCases DEF StatusOf
    <3> QED
      BY <2>1, <3>1, <3>2, <3>4, SameStatus
  <2>14. ASSUME NEW r \in Requests, RecordTurn(r)
         PROVE  Ledger!RecordTurn(r)
    <3>1. pc[r] = "recording" /\ UNCHANGED <<verdict, replies>>
          /\ pc' = [pc EXCEPT ![r] = "replying"] /\ saved' = saved \cup {r}
      BY <2>14 DEF RecordTurn, Goto
    <3>2. StatusOf(r) = "running" /\ StatusIn("replying", verdict[r]) = "running"
      BY <3>1, StatusCases DEF StatusOf, Executing
    <3>3. st' = st
      <4>1. \A q \in Requests : StatusOf(q)' = IF q = r THEN "running" ELSE StatusOf(q)
        BY <2>3, <3>1, <3>2
      <4> QED
        BY <3>2, <4>1
    <3>4. r \notin saved
      BY <2>1, <3>1 DEF OutcomeInv
    <3> QED
      BY <3>1, <3>2, <3>3, <3>4 DEF Ledger!RecordTurn
  <2>15. ASSUME NEW r \in Requests, NEW q \in Requests, SessionsSendTool(r, q)
         PROVE  Ledger!Accept(q)
    <3>1. pc[r] = "relaying" /\ pc[q] = "idle" /\ UNCHANGED <<verdict, replies, saved>>
          /\ pc' = [pc EXCEPT ![q] = "queued", ![r] = AfterRound(r)]
      BY <2>15 DEF SessionsSendTool, NextRound
    <3>2. /\ StatusOf(q) = "offered" /\ StatusIn("queued", verdict[q]) = "accepted"
          /\ StatusOf(r) = StatusIn(AfterRound(r), verdict[r])
      BY <3>1, StatusCases DEF StatusOf, Executing, AfterRound
    <3>3. \A x \in Requests : StatusOf(x)' = IF x = q THEN "accepted" ELSE StatusOf(x)
      BY <2>2, <3>1, <3>2 DEF StatusOf
    <3> QED
      BY <3>1, <3>2, <3>3 DEF Ledger!Accept
  <2>16. ASSUME NEW r \in Requests,
                ReplyOnBus(r) \/ ReturnContent(r) \/ HandleRunFailure(r) \/ ReturnError(r)
         PROVE  \E v \in {"answered", "failed", "aborted"} : Ledger!Settle(r, v)
    <3>1. CASE ReplyOnBus(r) \/ ReturnContent(r)
      BY <2>1, <3>1, SettleStatus DEF ReplyOnBus, ReturnContent, PublishOutbound
    <3>2. CASE HandleRunFailure(r)
      BY <2>1, <3>2, SettleStatus DEF HandleRunFailure, PublishOutbound
    <3>3. CASE ReturnError(r)
      BY <2>1, <3>3, SettleStatus DEF ReturnError
    <3> QED
      BY <2>16, <3>1, <3>2, <3>3
  <2>17. ASSUME NEW r \in Requests, CloseRun(r)
         PROVE  UNCHANGED Ledger!ledgerVars
    <3>1. pc[r] = "closing" /\ UNCHANGED <<verdict, replies, saved>>
          /\ pc' = [pc EXCEPT ![r] = "done"]
      BY <2>17 DEF CloseRun, runVars, Goto
    <3>2. StatusIn("done", verdict[r]) = StatusOf(r)
      BY <3>1, StatusCases DEF StatusOf
    <3> QED
      BY <2>1, <3>1, <3>2, SameStatus
  <2> QED
    BY <1>2, <2>5, <2>6, <2>7, <2>8, <2>9, <2>10, <2>11, <2>12, <2>13, <2>14,
       <2>15, <2>16, <2>17 DEF Next, Ledger!LedgerNext, Ledger!Verdicts
<1> QED
  BY <1>1, <1>2, Invariance, PTL DEF Spec, LedgerSpec, Ledger!LedgerSpec
=============================================================================
