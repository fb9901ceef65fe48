------------------------------- MODULE MCEdges -------------------------------
(* Instances of the modules at the edges of the gateway that do not share  *)
(* state, in one run: the first state says which of them moves, and the    *)
(* others rest in an initial state.                                        *)
EXTENDS Naturals, Sequences

CONSTANTS
    QueueCap, BatchSize,
    Chats, PerChat,
    Strangers,  \* chats whose last callback is of a sender who is not allowed
    TableSize, MaxReq, MaxConns,
    Inbox, Unsigned, Unwelcome,
    MaxProcessed, MaxStarts, MaxUnmarked,
    ToolCalls, MaxSessions,
    Spawned, MaxIters

(* An MCP tool has a session when it is listed.                            *)
ASSUME EdgesAssumption == MaxSessions \in Nat \ {0}

VARIABLES
    part,
    enabled, ctx, manager, start, reader, batch, client, closed, inbound,
    run, conns, conn, alive, wire, reqs, processed, processedN, chatFrames, hand, pending,
    outbound, sending, written, stopped,
    flag, poll, found, processedUIDs, result, mailCtx, starts, unmarked, published,
    forgotten, lost,
    session, opened, broken, mu, callAt, uses, tries, failedAt, ran,
    route, running, taskAt, iter, origin, announced, taskCtx, dispatcher, taken, delivered

channelVars == <<enabled, ctx, manager, start, reader, batch, client, closed, inbound>>
wecomVars ==
    <<run, conns, conn, alive, wire, reqs, processed, processedN, chatFrames, hand, pending,
      outbound, sending, written, stopped>>
mailVars ==
    <<flag, poll, found, processedUIDs, result, mailCtx, starts, unmarked, published,
      forgotten, lost>>
callVars == <<session, opened, broken, mu, callAt, uses, tries, failedAt, ran>>
taskVars == <<route, running, taskAt, iter, origin, announced, taskCtx, dispatcher, taken, delivered>>
vars == <<part, channelVars, wecomVars, mailVars, callVars, taskVars>>

Gateway == INSTANCE Channels WITH
    Configurations <- {{"email", "slack"}, {"telegram", "discord"}, {"whatsapp", "dingtalk"},
                       {"wecom", "webhook"}, {"feishu", "email"}},
    Cap <- QueueCap
Wecom == INSTANCE WecomChannel WITH Refused <- Strangers \X {PerChat}
Mail == INSTANCE EmailChannel WITH
    Mails <- Inbox, Anonymous <- Unsigned, Refused <- Unwelcome, ctx <- mailCtx
Tool == INSTANCE ToolServer WITH Calls <- ToolCalls, at <- callAt
Tasks == INSTANCE Subagents WITH
    Tasks <- Spawned, Cap <- QueueCap, at <- taskAt,
    Chats <- Chats \cup {"cli"}, Subscribed <- Chats,
    outbound <- announced, ctx <- taskCtx

Init ==
    /\ part \in {"channels", "wecom", "mail", "tool", "tasks"}
    /\ Gateway!Init /\ Wecom!Init /\ Mail!Init /\ Tool!Init /\ Tasks!Init
    /\ part # "channels" => enabled = {"email", "slack"}

Next ==
    /\ UNCHANGED part
    /\ \/ /\ part = "channels" /\ Gateway!Next
          /\ UNCHANGED <<wecomVars, mailVars, callVars, taskVars>>
       \/ /\ part = "wecom" /\ Wecom!Next
          /\ UNCHANGED <<channelVars, mailVars, callVars, taskVars>>
       \/ /\ part = "mail" /\ Mail!Next
          /\ UNCHANGED <<channelVars, wecomVars, callVars, taskVars>>
       \/ /\ part = "tool" /\ Tool!Next
          /\ UNCHANGED <<channelVars, wecomVars, mailVars, taskVars>>
       \/ /\ part = "tasks" /\ Tasks!Next
          /\ UNCHANGED <<channelVars, wecomVars, mailVars, callVars>>

Spec ==
    /\ Init
    /\ [][Next]_vars
    /\ Gateway!Goroutines /\ Tasks!Goroutines

StopReturns == Gateway!StopReturns
ReplyNotStale == Wecom!ReplyNotStale
HandedOver == Mail!HandedOver
RunAgainOnlyIfClosed == Tool!RunAgainOnlyIfClosed
SpawnedAnnounces == Tasks!SpawnedAnnounces
=============================================================================
