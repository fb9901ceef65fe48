# A verification project for dipper-bot

dipper-bot is a personal AI assistant in one Go process: chat channels and HTTP
endpoints put messages on a bus, an agent loop answers them with an LLM and
tools, and a cron service, a heartbeat and a web page call the agent directly.
This directory holds TLA+ models of the parts of it that run concurrently or
survive crashes, their TLC configurations, and proofs checked by TLAPS. All paths
below are relative to `src/`; every definition that models code is listed in
`PROJECT.json` with the lines it stands for.

## 1. Inventory

| Part | State it keeps | Operations | Interacts with | Hard behaviour | What makes it correct |
|---|---|---|---|---|---|
| **Message bus** `bus/queue.go` | two Go channels of 256, table of subscribers | Publish/Consume Inbound, Publish Outbound, DispatchOutbound | everyone | full queues, publishers without a live context, nobody draining | bounded, nothing both refused and queued, publishers never stuck |
| **Agent loop** `agent/loop.go` | `sessionCancels` and its mutex, in-flight runs, routes stored in shared tools | Run, ProcessDirect, cancelSessionRun, setup/finishSessionRun, processMessage, runAgentLoop | bus, sessions, LCM, maintainers, tools, provider | runs in parallel, supersession, deadlines, callers that leave, shutdown | one verdict and at most one reply per request; cancellation reaches only its session; every run ends |
| **Cron** `cron/service.go`, `tools/cron.go`, `runCron` in `main.go` | list of jobs in memory and in `cron/jobs.json` | Start, loop, tick, runJob, Add/Remove/Enable/RunJob, save | agent loop (OnJob), the cron tool, a second process | unlocked edits, stale and torn writes, crash between run and save | a one-shot fires once; recurring jobs keep their distance and recur; removed jobs stay removed |
| **Rate limiters** `utils/rate_limit.go` | windows per client key, time of last collection | Allow, gcLocked | gateway and webhook handlers | clock read before the lock, forgetting | never more than the limit in a window, bounded map |
| **Session store** `session/manager.go`, `fts_indexer.go` | cached `Session` objects, one JSONL file each, an FTS index | GetOrCreate, Save, Invalidate, GetHistory, Clear, SetLastConsolidated | agent loop, consolidator | check-then-load race, `/new` against a run, crash in Save | one object per key, no turn lost, index in range |
| **Consolidator** `tools/consolidator.go` | lock per session, counter of failures, MEMORY.md, HISTORY.md | MaybeConsolidateByTokens, ConsolidateMessages | sessions, provider | an LLM call between reading and marking | every message is archived once before it leaves the prompt |
| **LCM** `lcm/` | SQLite: conversations, messages, summaries, context items | Bootstrap, Assemble, IngestTurn, RunIncremental, DeleteConversation | agent loop, provider | sequence numbers and ordinals read outside transactions | the context is an ordered cover of the messages; the prompt is the session |
| **Maintainers** `agent/memory_maintainer.go`, `skill_maintainer.go` | gating maps, bounded queue, backoff | Enqueue, worker, Flush, mid-run reflection, reviewAndApply | agent loop, provider, memory store, skill files | queue full, flush beside the worker, rollback with a stale backup | reviews keep their distance, queued turns are reviewed, a bad write is undone |
| **Curated memory** `tools/memory_store.go` | MEMORY/USER notes in two files, one mutex | add, replace, remove | agent's tool, maintainer, governance | truncating write, ignored read errors, a delimiter inside a text, writers that take no lock | a saved entry stays, no duplicate, budget kept |
| **Skill files** `tools/skills_extra.go` | `skills/<name>/SKILL.md` | create, edit, patch, delete | agent's tool, maintainer | no lock at all, ignored errors of backup and rollback | no malformed skill is left |
| **Learning** `agent/adaptive_controller.go`, `learning_telemetry.go`, `learner_feedback_queue.go` | thresholds, event log, lines of feedback | Observe, Record, AuditNow, append/take | maintainers, agent loop, bus | integral windup, restart, rewrite of a memory file | thresholds in range, and not rising any more after a bad time |
| **Subagents** `agent/subagent.go` | table of running tasks | Spawn, runSubagent, announce | outbound queue | outlives its parent, background context, full queue, channels without a subscriber | every task is announced to the chat it came from |
| **Heartbeat** `heartbeat/service.go` | ticker | Start, Stop, tick | ProcessDirect | overlap with a run of its session | |
| **Gateway, webhook, web chat** `gateway/server.go`, `channels/webhook.go`, `web/server.go` | limiter, HTTP server | handlers | bus, ProcessDirect | full queue, page closed | 202 only for a queued message |
| **Channel manager and channels** `channels/*` | a goroutine per Start, readers, connections, deduplication tables, reply frames | Start, Stop, poll or receive, Send | bus, platforms | redelivery, reconnect, a shutdown with a full queue or inside a call of a platform | Stop returns; a mail is handed over once; a reply is not stale |
| **MCP tools** `tools/mcp.go` | session to the server | Execute, reconnect | agent loop | retry after a lost answer, decided by words of the error | a call runs again only after an error that reads as closed, on a new session |
| **Wiring** `main.go` | all of the above | runGateway, runAgent, hot reload | | shutdown order, reload under load | |
| **Providers, prompt builder, other tools, configuration, logging, bridge, skills** | | | | external services, pure functions, I/O | |

`PROJECT.json` lists the parts with their status, and under `hazards` what in
this code is hard to reach with a test, at the line where it bites.

## 2. Modules

| Module | What it is |
|---|---|
| `RequestLedger` | abstract: what the agent promises about one request |
| `AgentLoop` | the bus, the registry of cancel functions and the life of every run |
| `MCAgentLoop` | instances for TLC |
| `AgentLoopProofs` | the inductive invariant and the safety theorems of `AgentLoop`, and that it implements `RequestLedger` |
| `CronService`, `MCCronService` | the scheduler, the cron tool, the cron command, crashes |
| `CronServiceProofs` | its inductive invariant and safety theorems |
| `WindowQuota` | abstract: what a rate limiter grants |
| `RateLimiter`, `MCRateLimiter` | FixedWindowLimiter with concurrent callers |
| `RateLimiterProofs` | its invariant, and that it implements `WindowQuota` |
| `SessionStore`, `MCSessionStore` | one session: objects, cache, file, turns, `/new`, consolidation, crashes |
| `SessionStoreProofs` | its inductive invariant and safety theorems |
| `LcmStore` | lossless context management of one session |
| `LcmStoreProofs` | its inductive invariant and safety theorems |
| `CuratedMemory` | one file of the curated memory and all who write it |
| `CuratedMemoryProofs` | its invariant and safety theorems, and those of `LcmStore` for `MCMemory` |
| `Maintainer` | when a memory or skill maintainer reviews |
| `AdaptiveController` | a maintainer's thresholds |
| `SkillFiles` | one SKILL.md and all who write it |
| `LearnersProofs` | the invariants and safety theorems of these three |
| `Channels` | the channels between Manager.Start and Manager.Stop |
| `WecomChannel`, `EmailChannel` | the two channels with state of their own |
| `ToolServer` | the calls of one MCP tool |
| `Subagents` | spawned tasks and their announcements |
| `EdgesProofs` | the invariants and safety theorems of `WecomChannel`, `EmailChannel` and `ToolServer` |
| `MCMemory`, `MCLearners`, `MCEdges` | sums of these ten components, with their constants as parameters |

`MCMemory`, `MCLearners` and `MCEdges` are sums: their modules share no state, so
the first state picks the `part` that moves and the others rest in an initial
state. Every part is explored just as in a run of its own. The proofs about
the learners and the edges are about the sums themselves, which keep all constants of
their parts: their lemma `Parts` says that a step of the sum is a step of one part and
leaves the others alone, after which each part has an invariant of its own.

A definition named "Mutant: ..." in a module is a plausible bug in the definition
that follows it. It is not part of any specification; replacing the definition
by it must break the property named in `PROJECT.json`.

### AgentLoop

A request is an inbound message (`BusRequests`) or a call of ProcessDirect
(`DirectRequests`: CLI, web page, cron, heartbeat); it makes at most one run, so
runs are named by requests. `pc[r]` is where the goroutine working for `r` stands:

| phase | code |
|---|---|
| idle, queued, rejected | before, in, and refused by the inbound queue |
| superseding, flushing, registering | cancelSessionRun before and inside its critical section; setupSessionRun |
| started | a bus goroutine before finishSessionRun |
| opening, resetting | processMessage: commands, `/new` |
| calling, waiting | runAgentLoop before and inside provider.Chat |
| tools, messaging, relaying | a round of tools; the message tool; sessions_send |
| recording | session, LCM and learners are given the turn |
| replying, failing | the result or the error of processMessage is handled |
| closing, done | deferred calls; over |

While a bus request is in superseding, flushing or registering, the consumer
goroutine itself is at work, so `ConsumeInbound` waits (`ConsumerBusy`).
`registry` is `sessionCancels`, `mutex` is non-empty exactly while
cancelSessionRun flushes under the lock (critical sections without a blocking
call are one step), `ctx[r]` is `Err()` of the run's context. The one target the
shared message tool holds is `toolChat`.

What the code does and the model keeps: the entry of a bus run is deleted at the
*start* of its goroutine; ProcessDirect cancels and registers in two critical
sections; a context that is done is noticed only by provider.Chat and by blocking
publishes, so a cancelled run may still record and reply; ProcessDirect looks at
its context and handleRunFailure at the error; the reply is published under
the context of Run, and messages of tools under that of the run.

### CronService

Time is relative: a job's `next` is the number of ticks until NextRunAtMs, so the
state space is finite although time has no end. `store` is the list in memory,
`disk` the file. A `save()` is `Pending` until the store is marshalled and an image
until it is written; the scheduler and the tool each have one, and they write in
either order. A write that is cut short leaves an empty file (`Torn`). `Exit` is a
crash or an orderly end at any point. The cron command (`Cli...`) loads the file,
edits and writes in separate steps.

The tool and the scheduler edit the slice of jobs, and only the scheduler holds the
mutex while it does. Each side has two steps: the tool reads the slice for its append
(`AddJob`) or finds an index (`RemoveJob`) and then edits (`EditEnds`); the scheduler finds the
index of the job it has run (`FinishJob`) and then deletes it or writes its copy back
(`Place`). They may fall into each other in any way: an append that has read the slice before
a delete brings a slot back (`stale`), a write-back hits the job that has moved to
its index, and an index beyond the slice is a panic, which ends the process (`PlacePanics`,
`EditPanics`). `raced` is history: an edit of the tool has overlapped one of the
scheduler. `OneShotAtMostOnce`, `IntervalRunsApart` and `RemovedStaysRemoved` hold until then,
and the run `cron_race` shows with `ExecutedOnce` what comes of it. One tool call at a time is a
bound; the torn read of the slice header a data race allows is not modelled.

A due job's `StartJob`, `FinishJob` and `Place` are runJob around and after OnJob. With the context
done, OnJob returns an empty answer without an error, which the code counts as success:
a one-shot due at a shutdown is deleted without having been executed. `CliRun` is
`dipper-bot cron run`: the service of that process has no OnJob, so nothing is
executed, though a one-shot is disabled and "Job executed" printed.

Other behaviour that is in the model and that a maintainer should know: a stale
image can overwrite a newer one; a one-shot whose time passes during another job
or a downtime stays enabled and never runs; a job added while the loop sleeps is
looked at only when the old timer, or the 10 s poll, is over, and one that the cron
command adds is not looked at before the gateway loads the file again; every tick
computes all times anew, so a short interval can starve a long one. No property
is stated against these.

### RateLimiter

`Call` reads the clock, `OpenWindow`, `CountCall` and `Refuse` are the three ways
through the critical section, each ending with gcLocked (`Collect`). A caller
waits for the mutex at most `MaxLag`. `opened`, `spent` and `answer` are history:
the state of `WindowQuota`, which never forgets, with no effect on the limiter.

### SessionStore

One session, the callers of GetOrCreate (`Runs`, of which `News` are a `/new`), and
the objects they load, each named by the run that loaded it. `objs[o]` is a
`Session`: messages and `LastConsolidated`; `file` is what load() would read;
`cache`, `lock` and `history` are the manager's cache, the consolidation lock
of the session and HISTORY.md. `run[r]` holds the locals of one run:

| phase | code |
|---|---|
| loading, storing | GetOrCreate after a miss: before and after load(), before the second critical section |
| consolidating, estimating, picking, archiving, marking | MaybeConsolidateByTokens: before the lock, at an estimate, before GetMessagesFrom, in ConsolidateMessages, before SetLastConsolidated |
| reading, answering, adding | GetHistory; runAgentLoop; between the two AddMessage calls |
| clearing, invalidating | `/new` |
| saving, created, writing, saved | Save: before os.Create, before the metadata line, before the messages, before the cache is set |

What the code does and the model keeps: GetOrCreate stores what it loaded
whatever the cache holds by then; Save truncates first, makes the metadata
without the object's lock and writes the messages under it, so savers interleave;
Save's errors and AppendHistory's are ignored, and inside Save those of the encoder, after which a part of the messages counts as saved; Clear takes the object's lock but
not the consolidation lock; PickConsolidationBoundary, GetMessagesFrom and
SetLastConsolidated read and write the object in separate steps around the LLM
call. A panic of GetHistory ends the process, but for runs of an HTTP handler,
which net/http recovers.

`trouble` is history: what has gone wrong so far ("split": two objects in use at
once; "unread", "unsaved", "unarchived": an error of load, Save, AppendHistory;
"crash", "torn": an end of the process, with a file half written; "stale": a
metadata line written after the index it holds had moved on; "reset": a `/new`). Each property names the troubles it excludes. They are in the model, and
they do harm: two objects lose a turn, an unreadable line loses the history, a
torn file loses its rest, a stale index in the file archives messages again
when the session is next loaded. `HistoryInRange` excludes all but the `/new`, to show that a
`/new` alone is enough. Taken to be fixed: lines of one
length, so that two writers of one file overwrite each other line by line, and
readers that see the file at one moment. Left out: the FTS index, MEMORY.md, keys
that map to one file name, and the bound of five rounds, which so few turns do
not reach.

### LcmStore

One session's conversation in the SQLite store. `conv` is its row, messages and
context items; an item is named by the rows it stands for, and a compaction works on
ordinals (`start`, `end`) it read in an earlier transaction. A run of the agent goes
through bootstrapping, importing, assembling, answering, recording, ingesting,
inserting, scanning, leaf, condensing, condensed; a `/new` through deleting. Each
transaction or statement is one action, and the provider's calls lie between them.

What the code does and the model keeps:

* the leaf pass stops at the first item that is no message (`compaction.go:53`), so
  once a summary stands first nothing is compacted by later leaf passes, and leaves
  only ever come one at a time: condensation needs `condensedMinFanout` = 1;
* a conversation with a condensed summary cannot be deleted: a foreign key refuses
  (`ClearSessionFails`), and `/new` leaves the old conversation in place;
* two compactions at once replace ranges by stale ordinals and drop messages from
  the context; of two IngestTurns at once the second hits UNIQUE, and the next
  Bootstrap, which goes by position, imports one turn twice and the other never.

`trouble` says which of these has happened; a property names the ones it excludes.
`LcmAssumption` (a fresh tail, fanouts of at least 1) is what `LoadConfig` makes of a
configuration without these numbers (`config/loader.go:157`); smaller ones are not refused,
and not modelled.

### CuratedMemory

NOTE.md or USER.md. `file` is the entries a read of the file yields, `lock` the mutex of the
store, and `proc[p]` the locals of a call of the tool (`Calls`), of a pass of the maintainer
(`Reviews`) or of the governance's audit (`Audits`). A call is `ReadEntries`, `Truncate`,
`WriteEntries`, as `os.WriteFile` truncates first. A review calls the same store, but takes its
backup and puts it back without the mutex (`OverwriteTruncates`, `OverwriteWrites`), and so
does an audit.

The entries that are written are joined by a delimiter line, and the next read splits the file
there (`tools/memory_store.go:60`). Nothing refuses a text that holds this line, so it is compared as
one entry and read as several (`Parts`). A read that fails yields no entries, and
the errors of a backup are ignored (`Readable`): the next write saves one entry alone, or
a rollback an empty file.

What the model keeps and the properties exclude, each by a name in `trouble`: "split", a
text with the delimiter, which can add a duplicate; "unread", a read that failed or
found the file truncated; "stale", an overwrite with an image that is no longer
the file (a maintainer also rolls back when the store has *refused* the operation, so an
entry another call has reported as saved is lost); "torn", a write that fails or a process that ends
once the file is truncated; "mixed", two writes into each other. "unread" and "torn" need
one call only: `SavedStays` says what a saved entry survives, which is calls that wait
for each other, rollbacks and audits that meet no other writer, texts that split and a crash
outside a write. `NoNewDuplicates` excludes "split" and "mixed", `BudgetKept` only "mixed". "replace"
reports success without removing the old entry when the new text is already there.

Not modelled: a text that *ends* with the delimiter line without its line break shifts
that line into the entry that is written after it.

### Maintainer, AdaptiveController and SkillFiles

`Maintainer` is the gate and queue of one of the two maintainers (`kind`): a run
`Enqueue`s its turn in steps, the worker takes one turn at a time, a flush or a
mid-run reflection reviews beside it. The memory maintainer notes the interval when
it tests it, the skill maintainer after the queue has taken the turn; so the first
loses a dropped turn's interval and the second lets two overlapping runs through.
`AdaptiveController` is Observe with its state file: a batch's rate of bad outcomes
moves the floors; the integral winds up while they are at their bound, and a
floating-point product may fall just short of a whole number (`Truncated`). Online
tuning, which is on by default, moves each gain by 1 to 3 % a batch; the model lets a batch use any gains
between the configured ones and the bounds tuning keeps them in (`Low`, `High`, `Deltas`), which
contains what the code does. Floors start where the configuration puts them, be it outside their
bounds, and `Floors` is what the first batch makes of them, also when the bounds are the wrong way
round. Drops count as bad, so floors may rise above what an "add" usually scores and stay there
over restarts; `FloorsFall` says what good outcomes make of them: they rise no
more, and with fixed gains they come down to their minimum. With tuning they need not come
down: good batches shrink the gains until the output is below one in size.

`SkillFiles` is one SKILL.md: no lock at all, a failed create leaves an empty directory, a review
whose text is malformed is rolled back, and the backup it puts back may be another review's
malformed text or may undo another process's patch. A write may fail with a part of the text
written, the backup may not be readable and count as none, a rollback may fail or leave a
part, and the process may end anywhere. `trouble` names what `MalformedUndone` cannot hold
over: "stale" and "unchecked" backups, and "failed", a malformed text left by a write of the agent, a
rollback that failed or an end of the process before the rollback.

### Channels, WecomChannel and EmailChannel

`Channels` has, for each channel, the goroutine of its Start (which the manager
waits for) and its reader (which it does not). A handler that publishes with a
context nobody cancels (`Uncancelled`) blocks for ever on a full queue after a
shutdown; `StopReturns` holds because none of these is waited for. A Start or a mail poll that
is inside a call of its platform (`InCall`) need not return: Telegram's, Slack's, Discord's and QQ's Start
and the poll of email set no timeout and look at no context meanwhile. Discord's session opened
after Stop goes on reading, and DingTalk's Stop clears a client its goroutine
may still use. `WecomChannel` takes callbacks apart: a frame's id is kept for
replies before the sender is looked at, the table of ids seen is emptied as a
whole, and `SendReads`/the write happen around a reconnect. `EmailChannel` marks mails as seen
one by one and publishes the whole batch afterwards, so a process that ends in between
loses it; the result of the Store command is ignored.

### ToolServer and Subagents

`ToolServer`: Execute takes the session under the lock, calls without it, and after an
error whose text reads as closed reconnects under the lock with a background context and tries
once more. The text decides alone (`tools/mcp.go:257` looks for "closed", "eof", "transport" and others), so
a session that is well may be replaced and a call repeated that the server has run; `Fails`
makes no connection between the error and the state of the session. Old sessions are never closed.

`Subagents`: `route` is the chat of the one spawn tool, set by whichever run came last; a task runs under
a background context and announces its end with another, so that after a shutdown with a full
queue it blocks for ever. Its calls of the model and of tool servers have no bound, and neither has the
Send of a channel, in which the dispatcher waits. The dispatcher drops what goes to a
channel without a subscriber: tasks spawned from the command line or the web page
end without an announcement.

## 3. Runs

| Run | Instance and bounds | Shows |
|---|---|---|
| `agent_loop` | two bus messages of two sessions (one is `/new`), one direct call of the first session; queues of capacity 1; 2 rounds | registry and mutex are consistent, cancellation stays in its session and goes with removal, `RequestLedger` is implemented |
| `agent_loop_live` | a bus message that chats, one that is `/new` in another session, a short direct call that can supersede the first; capacity 1; 1 round; a run timeout | registered runs end, queued messages are run, a shutdown drains |
| `agent_loop_supersede` | two bus messages of one session | **violation** of what README.md says of a second message |
| `agent_loop_tool_route` | two bus messages of two chats | **violation** of what the message tool says of its target |
| `cron_service` | one one-shot of the tool, with a delay of 1 tick, and one interval job of the command, of 2 ticks | until an edit of the tool overlaps one of the scheduler: no reminder twice, intervals kept, removed jobs gone, something scheduled runs |
| `cron_race` | two one-shots of the tool | **violation**: a one-shot is executed twice, after an append has brought it back |
| `rate_limiter` | two callers; the keys "", "unknown" and one more; limit, window and lag of 2; clock to 13 | quotas are kept and entries freed, past the first garbage collection at time 10 |
| `session_store` | two messages and a `/new`, zero to two earlier turns in the file, at most two kinds of trouble | the file ends up with the session's messages, consolidation archives once and before it hides |
| `session_index` | the same | **violation**: a `/new` during a consolidation leaves an index beyond the messages |
| `memory` | LCM: two messages and a `/new`, zero to two earlier turns, a fresh tail of 1, leaves from 2 messages, condensed from 1 leaf. Curated memory: two calls, a review, an audit; three entries of two folds and a text that is read as two of them, a budget of 2, an empty file or one with an entry twice, over the budget. At most two kinds of trouble each | the context covers the rows in order, the prompt is the session, the fresh tail is spared; saved entries stay, duplicates and budget get no worse |
| `learners` | one session, two callers, a flush, a queue of 2, intervals of 2 ticks; batches of 2 with the default gains, with and without tuning, and floors 40 to 50; a tool call and two reviews of one skill, a text that is well formed and one that is not | reviews keep their distance, queued turns are reviewed, floors rise no more and fall with fixed gains, no malformed skill stays but for named failures |
| `edges` | five pairs of channels with a queue of 1; WeCom with two chats of two callbacks, three deliveries, two connections, a table of 1; three mails (one refused, one anonymous), two starts, a table of 1; two MCP calls, three sessions; two subagents, two rounds, a queue of 1 | Stop returns, replies are not stale, mails are handed over, MCP calls are repeated only after an error that reads as closed, subagents announce |

Why the bounds are enough. In the agent loop an interference is between a run
and the one that supersedes it, plus a stranger in another session for
everything about locality; capacity 1 makes both queues full at once; two rounds
distinguish a first from a later Chat. In cron two jobs suffice because the
scheduler treats jobs independently but for "recompute all" and the shared
file; the race needs a second, for the append that brings the first back. In the
limiter two callers are needed for a call that passes out of order. For a session, two messages race
for cache, lock and file and the third run is the `/new`; two earlier turns give a
consolidation a boundary before either has answered. In `memory` two runs make every
pair of a compaction with another one, with an ingestion or with a deletion, and a
condensed fanout of 1 is the only one at which the code condenses at all (below);
in the curated memory two calls contend for the mutex while two processes write
without it, and a text of two entries fills a budget of 2 at once. In `learners` a batch of 2 has
every ratio the controller treats differently (none, half and all bad), and with a target of
100 thousandths the floors go up and down between their bounds; tuning's gains below 1 are among those it explores. In `edges` the two-channel pairs
take every kind of channel once, a table of 1 overflows at the second id, and a third MCP
session is the one a retry opens. Deadlock is checked for cron and the limiter; in the other
runs the requests, turns or mails are a finite set, and the system rests when all are done.

Fairness. `AgentLoop`: the goroutine of every request takes steps
(`RunStep`; the Go scheduler), Run receives, the dispatcher receives while the
service is up, and a configured `runTimeoutSec` fires (`Deadline`). Nothing is
assumed of the provider: `ChatReplies` and `ChatErrors` are not fair, so a Chat
may last until its context is done. Callers need not leave, no shutdown need
come, nothing drains the outbound queue after one. `CronService`: time passes and
the scheduler goroutine runs; the end of OnJob is part of that, as `RegisteredRunsEnd`
shows for a configured timeout; crashes, the tool and the command are not fair.
`Maintainer`: its worker runs, and a review ends one way or another (each has a context of its own, of 20 s
in `agent/memory_maintainer.go:183` and of 30 s in `agent/skill_maintainer.go:203`, which the provider's requests carry).
`Channels`: goroutines run when they are not inside a call of a platform. Nothing is assumed of such a call,
for the code bounds none: `StopReturns` says that a shutdown ends *if* no call lasts for ever.
`EmailEnds` is strongly fair, because Go's `select` chooses at random between the
timer of the next poll and the end of the context, so it cannot pass the end over
for ever. `Subagents`: tasks and the dispatcher run outside their calls; that calls of the model, of tool
servers and of Send return is the condition (`CallsReturn`) of `SpawnedAnnounces`, not an assumption. Readers may
be silent for ever.

## 4. Findings

Two documented statements the code does not keep, a data race with a visible
effect and a slice out of range are described with file and line under `findings`.
In short: a second message does not cancel the first one's run; the message tool may
answer in another chat; an unlocked append can execute a one-shot twice; a `/new`
while the session is being consolidated makes the next GetHistory panic.

## 5. Proofs

TLAPS proves, for every value of the constants:

* `AgentLoopProofs`. `TypeOK`, `RegistryHoldsOwnRuns`, `FlushKeepsItsEntry`, and the
  action properties `CancelStaysInSession` and `RemovedIsCancelled`, from
  `RequestAssumption` and `BoundAssumption` (request sets disjoint, capacities and
  rounds positive). None of the invariants is inductive alone. The strengthening
  `IInv` adds: the mutex is held over a flush and nothing else (`MutexInv`); an entry
  is a bus run that has not begun or a direct run up to its cleanup, and a flush
  works on an entry (`RegistryInv`), which is why finishing a run that is not the
  entry is harmless; the queue holds each waiting message once (`QueueInv`), without
  which a run could be started twice; a run in the Chat loop has a round left
  (`RoundInv`); nothing is published or recorded before its phase (`OutcomeInv`). In the
  same module, `AgentLoop` implements `RequestLedger` under the mapping `StatusOf`: one
  lemma per kind of step, from `IInv`.
* `RateLimiterProofs`. `TypeOK`, `OldEntriesFreed` and the refinement `QuotaSpec`. The
  strengthening says that an entry in the map is the window of `WindowQuota`, and
  that a key without an entry has a window so old that no waiting caller can still
  be in it. This is where `MaxLag <= Window` is needed: entries live two windows, so a
  caller who waited longer than one could find its own window forgotten.

* `CronServiceProofs`. `TypeOK`, `OneShotAtMostOnce`, `IntervalRunsApart` and
  `RemovedStaysRemoved`, from `CronAssumption`, for every set of jobs. `KnownInv`: an ID
  stands at most once in the store, in the copies tick works on, in both images, in the
  file and in what the command has loaded, and has been given out, so that what runJob
  writes back or deletes is the job it has run, and an ID that was removed never comes
  back as a new one. `TimeInv`: a one-shot wakes at its time or never, so its time is over
  when it is due. `SpentInv`: once it has run, nothing under its ID is due but the copy in
  hand; whatever brings its record back, a crash, a stale image or the command,
  computes the next run anew and finds none. `ApartInv`: the ticks an interval job still
  waits and those since its last start make up its interval. `LoopInv` ties the loop
  to its save and its process. All but the types and `LoopInv` rests on what an edit has read of the
  slice still being so when it writes (`EditInv`: an append has no deleted slot in it; `SlotInv`:
  the index found is still the first of the job), which holds until the first overlap; from
  there on `raced` is true and the properties say nothing.
* `CuratedMemoryProofs`. `TypeOK`, `NoNewDuplicates`, `BudgetKept` and `SavedStays`, from
  `CuratedAssumption`, for whatever the texts with a delimiter are read as (`Parts`). The
  strengthening adds that the mutex is held by the call that is between its reading
  and its writing (`MutexInv`); that every image anybody holds (a snapshot, a backup, what an
  audit has parsed, or nothing after a failed read) is one the file could have had
  (`ImagesInv`), so that a stale write may lose entries but never outgrows the budget, nor
  doubles an entry if no text was split; and that, while none of the named troubles but a
  crash or a split text has happened, at most one process is in the middle of a write and what
  was reported as saved is in the file or in what that process is about to write (`QuietInv`).
* `SessionStoreProofs`. `TypeOK`, `FileHoldsSession`, `HiddenIsArchived` and
  `ArchivedOnce`, from `SessionAssumption`, for every set of runs and every past. No two
  objects are in use while there was no split (`OneInv`); the file of a run that saves is a
  prefix of its object's messages (`PrefixInv`), so that the last of the saves under way
  leaves all of them in the file (`FileInv`), with the index too where no metadata was late
  (`IndexInv`). An index moves forward only in the hands of the lock's holder (`LockInv`),
  and over messages whose archiving has ended (`HiddenInv`). A message of a turn to come is
  nowhere yet (`UnsaidInv`), and what is behind no index has not been archived, unless
  the run that has done so is about to move the index (`OnceInv`).
* `LcmStoreProofs`. `TypeOK`, `ContextInOrder`, `NothingDropped`, `FreshTailKept` and
  `PromptIsSession`, from `LcmAssumption`, for every set of runs, every past and all
  fanouts. `CuratedMemoryProofs`, which extends `MCMemory`, carries them over to the sum the
  run `memory` checks. A compaction replaces a range it read before a call of the provider.
  That this never disturbs the order rests on two facts: every range begins at the
  first item (`RangeInv`), because only the first item is ever a summary (`ItemsInv`); and
  such a replacement only shifts what stands behind it towards the front, so whatever is
  behind another compaction's range has been there all the time. With no two
  compactions at once (`AloneInv`) the length of the context says which rows each item
  stands for (`ExactInv`). With requests one after the other (`BusyInv`) the rows are a
  prefix of the session's file (`StoreInv`), and what Assemble picked is their end
  (`PromptInv`). Two more theorems say what the stop at the first summary costs:
  `SummaryIsFirst`, and `CondensationNeverHappens`, with any `CondensedMinFanout` above 1
  (the default is 4).
* `LearnersProofs`. `TypeOK`, `MalformedUndone` and `ReviewsSpaced`, from
  `LearnersAssumption`. Types include the bounds: after a batch the floors are within
  those of the configuration, whatever the gains, and equal to the state file's; this
  needs the bounds of a rate in thousandths (`RateBounds`). `GuardInv`: while nothing was
  stale, unchecked or failed, a malformed SKILL.md has a review at work on it, and every
  review at work holds a backup that is well formed or none. With online tuning the gains of a
  batch are any in their range, so the bounds hold for every sequence of them. `Spaced`: a session's interval is no longer
  than the time since a turn of it was queued, but for a caller that is about to note it,
  and while a caller is about to send, the interval has passed.
* `EdgesProofs`. `ReplyNotStale`, `HandedOver` and `RunAgainOnlyIfClosed`, for all chats,
  mails, calls and bounds, from `EdgesAssumption` (an MCP tool has a first session). WeCom:
  deliveries on the wire are newer than the one kept for their chat and in order
  (`FramesInv`), and a delivery the agent has been given was kept before (`RepliesInv`).
  Email: how often a mail was published, and once more if it is in the batch, is at most how
  often it was forgotten, and once more if it is remembered (`CountInv`); a mail marked as
  seen was published or is in the batch, if it is neither unwelcome nor lost (`SeenInv`).
  MCP: a call at its first try has run on the session it took and no other; when it goes on to
  its second, it has failed, that session was opened before the failure and the one it takes since, for
  sessions are numbered as they open (`CallInv`).

With these, every invariant and every action property of a passing run is proved. Only
model-checked are the liveness properties (`RegisteredRunsEnd`, `QueuedMessagesEnd`,
`ShutdownDrains`, `SomeJobRuns`, `TurnsReviewed`, `FloorsFall`, `StopReturns`,
`SpawnedAnnounces`), which are out of the prover's reach, and the violations; for the
channels' goroutines and the subagents this is all that is checked.

## 6. Not modelled, and the plan

1. An abstract transcript to which turns are added and which `/new` empties,
   implemented by `SessionStore` and `LcmStore`.
2. Hot reload of the configuration, which the command-line chat does between two requests and the web
   page also under running ones (`main.go:457`); the exact gains of online tuning; the event log, the feedback queue and nudges, start and stop of the heartbeat.
3. Send of the channels other than WeCom's.

Left out for good: LLM providers and channel SDKs (external services, kept as
nondeterministic answers), prompt text, configuration parsing, logging, reports, web
search and file tools, static web files, the bridge and the bundled skills. In
`AgentLoop` a session's content, LCM and the learners are one step of a run; the
modules of those take the steps apart. Messages carry no text; tools other
than message and sessions_send do not touch the modelled state; the explicit
target of the message tool is omitted because it bypasses the shared one.
The words of summaries, the scores of candidates, token counts and similarity of
skills are open choices wherever a decision depends on them.
