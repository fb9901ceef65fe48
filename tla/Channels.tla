------------------------------- MODULE Channels -------------------------------
(***************************************************************************)
(* The chat channels between Manager.Start and Manager.Stop: for each a    *)
(* goroutine that runs its Start and is waited for, mostly another that    *)
(* reads from the platform and is not, and the inbound queue they share.   *)
(* What a platform sends is abstracted to whether the channel lets it in.  *)
(***************************************************************************)
EXTENDS Naturals

CONSTANTS
    Configurations, \* sets of channels, by name
    Cap,        \* of the inbound queue
    BatchSize   \* mails found by a poll

VARIABLES
    enabled,    \* the channels of the configuration
    ctx,        \* "open" or "cancelled"
    manager,    \* "new", "running", "stopping", "waiting" or "stopped"
    start,      \* the step of each Start: "none", "connecting", "serving", "returned"
    reader,     \* "off", "reading", "fetching", "publishing"
    batch,      \* messages the reader still has to publish after this one
    client,     \* the channels with a bot, session or connection to send through
    closed,     \* the channels whose stop channel is closed
    inbound     \* length of the queue

vars == <<enabled, ctx, manager, start, reader, batch, client, closed, inbound>>

Kinds ==
    {"telegram", "whatsapp", "discord", "email", "feishu", "dingtalk", "slack", "qq",
     "wecom", "webhook"}

(* Start waits for the end of the context, or returns once it is set up.   *)
WaitsInStart == {"dingtalk", "slack", "feishu", "qq"}
SendOnly == {"feishu", "qq"}

(* Those whose Start calls the platform, with a client that has no timeout *)
(* or through a library.                                                   *)
CallsInStart == {"telegram", "discord", "slack", "qq"}

(* Start may also return at once: a Slack mode that is not known, a token  *)
(* that QQ does not grant.                                                 *)
MayRefuse == {"slack", "qq"}

(* Mutant: no channel hands its context on.                                *)
UncancelledAll == Kinds

(* Handlers that publish with a context nobody cancels.                    *)
Uncancelled == {"slack", "discord", "dingtalk"}

(* Readers that look at the context and at the stop channel.               *)
Polling == {"telegram", "whatsapp", "wecom", "email"}

Init ==
    /\ enabled \in Configurations
    /\ ctx = "open" /\ manager = "new"
    /\ start = [c \in enabled |-> "none"]
    /\ reader = [c \in enabled |-> "off"]
    /\ batch = [c \in enabled |-> 0]
    /\ client = {} /\ closed = {}
    /\ inbound = 0

-----------------------------------------------------------------------------
(* The manager                                                             *)

Start ==
    /\ manager = "new"
    /\ manager' = "running"
    /\ start' = [c \in enabled |-> "connecting"]
    /\ UNCHANGED <<enabled, ctx, reader, batch, client, closed, inbound>>

(* The gateway cancels its context and then stops the manager.             *)
Stop ==
    /\ manager = "running"
    /\ manager' = "stopping" /\ ctx' = "cancelled"
    /\ UNCHANGED <<enabled, start, reader, batch, client, closed, inbound>>

StopChannel(c) ==
    /\ manager = "stopping" /\ c \in enabled \ closed
    /\ closed' = closed \cup {c}
    /\ client' = client \ {c}
    /\ UNCHANGED <<enabled, ctx, manager, start, reader, batch, inbound>>

Wait ==
    /\ manager = "stopping" /\ closed = enabled
    /\ manager' = "waiting"
    /\ UNCHANGED <<enabled, ctx, start, reader, batch, client, closed, inbound>>

Stopped ==
    /\ manager = "waiting"
    /\ \A c \in enabled : start[c] = "returned"
    /\ manager' = "stopped"
    /\ UNCHANGED <<enabled, ctx, start, reader, batch, client, closed, inbound>>

-----------------------------------------------------------------------------
(* Start of a channel                                                      *)

Goes(c, s) == start' = [start EXCEPT ![c] = s]
Reads(c) == reader' = [reader EXCEPT ![c] = "reading"]

Connecting(c) ==
    /\ c \in enabled /\ start[c] = "connecting"
    /\ UNCHANGED <<enabled, ctx, manager, batch, closed, inbound>>

(* NewBotAPI answers, or Start returns its error.                          *)
TelegramStart ==
    /\ Connecting("telegram") /\ Goes("telegram", "returned")
    /\ \/ client' = client \cup {"telegram"} /\ Reads("telegram")
       \/ UNCHANGED <<client, reader>>

(* The session is kept before it is opened: a Stop in between closes it    *)
(* too early, and the opened session goes on reading.                      *)
DiscordStart ==
    /\ Connecting("discord") /\ Goes("discord", "returned")
    /\ client' = IF "discord" \in closed THEN client ELSE client \cup {"discord"}
    /\ Reads("discord") \/ UNCHANGED reader

WhatsAppStart ==
    /\ Connecting("whatsapp") /\ Goes("whatsapp", "returned")
    /\ Reads("whatsapp") /\ UNCHANGED client

WecomStart ==
    /\ Connecting("wecom") /\ Goes("wecom", "returned")
    /\ Reads("wecom") /\ UNCHANGED client

WebhookStart ==
    /\ Connecting("webhook") /\ Goes("webhook", "returned")
    /\ Reads("webhook") /\ UNCHANGED client

EmailStart ==
    /\ Connecting("email")
    /\ \/ Goes("email", "serving") /\ Reads("email")
       \/ Goes("email", "returned") /\ UNCHANGED reader     \* validateConfig
    /\ UNCHANGED client

(* DingTalk, Slack, Feishu and QQ: a client, a goroutine that reads unless *)
(* the channel only sends, and the wait for the context.                   *)
ClientStart(c) ==
    /\ c \in WaitsInStart /\ Connecting(c)
    /\ \/ /\ Goes(c, "serving")
          /\ client' = client \cup {c}
          /\ IF c \in SendOnly THEN UNCHANGED reader ELSE Reads(c)
       \/ c \in MayRefuse /\ Goes(c, "returned") /\ UNCHANGED <<client, reader>>

(* The wait of Start ends.                                                 *)
StartEnds(c) ==
    /\ c \in WaitsInStart \cap enabled
    /\ start[c] = "serving" /\ ctx = "cancelled"
    /\ Goes(c, "returned")
    /\ UNCHANGED <<enabled, ctx, manager, reader, batch, client, closed, inbound>>

(* Email polls in Start itself, and looks around between two polls.        *)
EmailEnds ==
    /\ "email" \in enabled
    /\ start["email"] = "serving" /\ reader["email"] = "reading"
    /\ ctx = "cancelled" \/ "email" \in closed
    /\ Goes("email", "returned")
    /\ reader' = [reader EXCEPT !["email"] = "off"]
    /\ UNCHANGED <<enabled, ctx, manager, batch, client, closed, inbound>>

-----------------------------------------------------------------------------
(* Readers                                                                 *)

Gets(c, more) ==
    /\ c \in enabled /\ reader[c] = (IF c = "email" THEN "fetching" ELSE "reading")
    /\ reader' = [reader EXCEPT ![c] = "publishing"]
    /\ batch' = [batch EXCEPT ![c] = more]
    /\ UNCHANGED <<enabled, ctx, manager, start, client, closed, inbound>>

TelegramUpdate == Gets("telegram", 0)
WhatsAppMessage == "whatsapp" \in client /\ Gets("whatsapp", 0)
WecomMessage == "wecom" \in client /\ Gets("wecom", 0)
DiscordMessage == Gets("discord", 0)
DingTalkMessage == Gets("dingtalk", 0)
SlackMessage == Gets("slack", 0)    \* acknowledged before it is looked at
WebhookPost == Gets("webhook", 0)   \* answered when the message is in the queue
EmailFetched == \E more \in 0 .. BatchSize - 1 : Gets("email", more)

(* A poll dials, logs in and fetches, without a timeout or a context, and  *)
(* finds mails, none, or fails.                                            *)
EmailPoll ==
    /\ "email" \in enabled /\ reader["email"] = "reading"
    /\ reader' = [reader EXCEPT !["email"] = "fetching"]
    /\ UNCHANGED <<enabled, ctx, manager, start, batch, client, closed, inbound>>

EmailNothing ==
    /\ "email" \in enabled /\ reader["email"] = "fetching"
    /\ reader' = [reader EXCEPT !["email"] = "reading"]
    /\ UNCHANGED <<enabled, ctx, manager, start, batch, client, closed, inbound>>

(* The run loops of WhatsApp and WeCom keep the connection they dialled    *)
(* for Send, and forget it when it breaks.                                 *)
Dial(c) ==
    /\ c \in enabled \cap {"whatsapp", "wecom"}
    /\ reader[c] = "reading" /\ ctx = "open" /\ c \notin closed
    /\ client' \in {client \cup {c}, client \ {c}} \ {client}
    /\ UNCHANGED <<enabled, ctx, manager, start, reader, batch, closed, inbound>>

(* One message of the batch is done with, in the queue or given up.        *)
Done(c) ==
    /\ reader' = [reader EXCEPT ![c] = IF batch[c] = 0 THEN "reading" ELSE "publishing"]
    /\ batch' = [batch EXCEPT ![c] = IF @ = 0 THEN 0 ELSE @ - 1]
    /\ UNCHANGED <<enabled, ctx, manager, start, client, closed>>

Publish(c) ==
    /\ c \in enabled /\ reader[c] = "publishing" /\ inbound < Cap
    /\ inbound' = inbound + 1
    /\ Done(c)

GiveUp(c) ==
    /\ c \in enabled /\ reader[c] = "publishing"
    /\ ctx = "cancelled" /\ c \notin Uncancelled
    /\ UNCHANGED inbound
    /\ Done(c)

ReaderEnds(c) ==
    /\ c \in enabled \cap (Polling \ {"email"}) /\ reader[c] = "reading"
    /\ ctx = "cancelled" \/ c \in closed
    /\ reader' = [reader EXCEPT ![c] = "off"]
    /\ client' = IF c = "telegram" THEN client ELSE client \ {c}
    /\ UNCHANGED <<enabled, ctx, manager, start, batch, closed, inbound>>

(* The agent loop takes messages until the context ends.                   *)
Consume ==
    /\ inbound > 0 /\ ctx = "open"
    /\ inbound' = inbound - 1
    /\ UNCHANGED <<enabled, ctx, manager, start, reader, batch, client, closed>>

Starting(c) ==
    \/ c = "telegram" /\ TelegramStart
    \/ c = "discord" /\ DiscordStart
    \/ c = "whatsapp" /\ WhatsAppStart
    \/ c = "wecom" /\ WecomStart
    \/ c = "webhook" /\ WebhookStart
    \/ c = "email" /\ EmailStart
    \/ ClientStart(c)

Receive ==
    \/ TelegramUpdate \/ WhatsAppMessage \/ WecomMessage \/ DiscordMessage
    \/ DingTalkMessage \/ SlackMessage \/ WebhookPost
    \/ EmailPoll \/ EmailFetched \/ EmailNothing

Next ==
    \/ Start \/ Stop \/ Wait \/ Stopped \/ Consume
    \/ EmailEnds \/ Receive
    \/ \E c \in enabled :
         \/ StopChannel(c) \/ Starting(c) \/ StartEnds(c) \/ Dial(c)
         \/ Publish(c) \/ GiveUp(c) \/ ReaderEnds(c)

(* Inside a call of its platform.                                          *)
InCall(c) ==
    /\ c \in enabled
    /\ \/ c \in CallsInStart /\ start[c] = "connecting"
       \/ c = "email" /\ reader[c] = "fetching"

(* Goroutines run, unless they are inside a call of a platform, which need *)
(* not return; and email's select, which chooses at random between the     *)
(* next poll and the end, does not choose the poll for ever.               *)
Goroutines ==
    /\ WF_vars(Wait) /\ WF_vars(Stopped)
    /\ SF_vars(EmailEnds)
    /\ \A c \in Kinds :
         /\ WF_vars(StopChannel(c)) /\ WF_vars(StartEnds(c))
         /\ WF_vars(Publish(c) \/ GiveUp(c))
    /\ \A c \in Kinds \ CallsInStart : WF_vars(Starting(c))

Spec == Init /\ [][Next]_vars /\ Goroutines

-----------------------------------------------------------------------------
(* A shutdown of the gateway ends as long as no call of a platform lasts   *)
(* for ever: no channel waited for is left behind a queue that nobody      *)
(* reads from any more, or in a poll after a poll.  The condition is the   *)
(* environment's: neither Start (telegram.go:50, slack.go:56) nor a poll   *)
(* (email.go:263) bounds its calls, and wg.Wait waits for them.            *)
StopReturns ==
    (\A c \in Kinds : []<>(~InCall(c))) => (manager = "stopping" ~> manager = "stopped")
=============================================================================
