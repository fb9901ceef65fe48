------------------------------ MODULE Maintainer ------------------------------
(***************************************************************************)
(* When a memory or skill maintainer reviews a session: the gate of its    *)
(* turns, the queue, the worker, and the reviews that go past both (the    *)
(* flush of a cancelled run and the reflection in the middle of one).  The *)
(* two maintainers differ in when they note that a session was queued.  A  *)
(* tick of the clock is long enough for every call of the gate to return.  *)
(***************************************************************************)
EXTENDS Naturals, Sequences

CONSTANTS
    Sessions,
    Callers,        \* runs that enqueue their turn
    Flushes,        \* runs that review themselves
    QueueSize,
    NudgeInterval,  \* every so many turns
    MinInterval,    \* ticks between two turns of a session
    Cooldown,       \* ticks between two reflections in the middle of runs
    Backoff,        \* FailureBackoffMinutes
    Patience        \* failures, or drops, in a row before the backoff

(* Defaults take the place of numbers that are not positive.               *)
GateAssumption ==
    /\ "none" \notin Sessions /\ "worker" \notin Flushes
    /\ QueueSize \in Nat /\ NudgeInterval \in Nat \ {0} /\ MinInterval \in Nat \ {0}
    /\ Cooldown \in Nat /\ Backoff \in Nat /\ Patience \in Nat \ {0}

VARIABLES
    kind,       \* "memory" or "skill"
    turns,      \* of each session, as far as they count
    since,      \* ticks since lastRun; MinInterval when long ago or never
    midRun,     \* ticks since lastMidRun, the same
    backoff,    \* ticks until failureUntil
    failures, lowQuality,
    queue,
    caller,     \* the call of Enqueue a run is in: its step and session
    review,     \* the session each reviewer is at
    queued,     \* history: ticks since a turn of the session was queued
    overlap     \* history: calls of Enqueue have overlapped

vars == <<kind, turns, since, midRun, backoff, failures, lowQuality, queue, caller,
          review, queued, overlap>>

Worker == "worker"
Reviewers == {Worker} \cup Flushes
None == "none"
Outside == [at |-> "outside", session |-> None]

Init ==
    /\ kind \in {"memory", "skill"}
    /\ turns = [s \in Sessions |-> 0]
    /\ since = [s \in Sessions |-> MinInterval]
    /\ midRun = [s \in Sessions |-> Cooldown]
    /\ backoff = [s \in Sessions |-> 0]
    /\ failures = [s \in Sessions |-> 0]
    /\ lowQuality = [s \in Sessions |-> 0]
    /\ queue = <<>>
    /\ caller = [c \in Callers |-> Outside]
    /\ review = [v \in Reviewers |-> None]
    /\ queued = [s \in Sessions |-> MinInterval]
    /\ overlap = FALSE

-----------------------------------------------------------------------------
(* Enqueue                                                                 *)

(* Mutant: the interval is not looked at.                                  *)
DueIgnoringInterval(s) == backoff[s] = 0 /\ (turns[s] + 1) % NudgeInterval = 0

Due(s) ==
    /\ backoff[s] = 0
    /\ (turns[s] + 1) % NudgeInterval = 0
    /\ since[s] >= MinInterval

(* shouldRunForSession, shouldRun: the turn is counted in any case; the    *)
(* memory maintainer notes the run here.                                   *)
ShouldRun(c) ==
    /\ caller[c] = Outside
    /\ \E s \in Sessions :
         /\ turns' = [turns EXCEPT ![s] = (@ + 1) % NudgeInterval]
         /\ IF Due(s)
            THEN /\ caller' = [caller EXCEPT ![c] = [at |-> "sending", session |-> s]]
                 /\ since' = IF kind = "memory" THEN [since EXCEPT ![s] = 0] ELSE since
            ELSE UNCHANGED <<caller, since>>
         /\ overlap' = (overlap \/ \E d \in Callers \ {c} : caller[d].session = s)
    /\ UNCHANGED <<kind, midRun, backoff, failures, lowQuality, queue, review, queued>>

Sending(c) == caller[c].at = "sending"

Send(c) ==
    /\ Sending(c) /\ Len(queue) < QueueSize
    /\ queue' = Append(queue, caller[c].session)
    /\ queued' = [queued EXCEPT ![caller[c].session] = 0]
    /\ caller' = [caller EXCEPT ![c] =
         IF kind = "memory" THEN Outside ELSE [@ EXCEPT !.at = "noting"]]
    /\ UNCHANGED <<kind, turns, since, midRun, backoff, failures, lowQuality, review, overlap>>

(* The queue is full: the turn is dropped.                                 *)
DropTurn(c) ==
    /\ Sending(c) /\ Len(queue) >= QueueSize
    /\ caller' = [caller EXCEPT ![c] = Outside]
    /\ UNCHANGED <<kind, turns, since, midRun, backoff, failures, lowQuality, queue, review,
                   queued, overlap>>

NoteQueuedRun(c) ==
    /\ caller[c].at = "noting"
    /\ since' = [since EXCEPT ![caller[c].session] = 0]
    /\ caller' = [caller EXCEPT ![c] = Outside]
    /\ UNCHANGED <<kind, turns, midRun, backoff, failures, lowQuality, queue, review, queued,
                   overlap>>

-----------------------------------------------------------------------------
(* Reviews                                                                 *)

(* Mutant: one review at a time.                                           *)
TakeTurnExclusive ==
    /\ \A v \in Reviewers : review[v] = None
    /\ queue # <<>>
    /\ review' = [review EXCEPT ![Worker] = Head(queue)]
    /\ queue' = Tail(queue)
    /\ UNCHANGED <<kind, turns, since, midRun, backoff, failures, lowQuality, caller, queued,
                   overlap>>

(* worker: one turn at a time.                                             *)
TakeTurn ==
    /\ review[Worker] = None /\ queue # <<>>
    /\ review' = [review EXCEPT ![Worker] = Head(queue)]
    /\ queue' = Tail(queue)
    /\ UNCHANGED <<kind, turns, since, midRun, backoff, failures, lowQuality, caller, queued,
                   overlap>>

(* FlushFromSession, FlushFromTurn                                         *)
Flush(f) ==
    /\ f \in Flushes /\ review[f] = None
    /\ \E s \in Sessions : review' = [review EXCEPT ![f] = s]
    /\ UNCHANGED <<kind, turns, since, midRun, backoff, failures, lowQuality, queue, caller,
                   queued, overlap>>

MaybeReflectMidRun(f) ==
    /\ f \in Flushes /\ review[f] = None /\ kind = "skill"
    /\ \E s \in Sessions :
         /\ midRun[s] >= Cooldown
         /\ midRun' = [midRun EXCEPT ![s] = 0]
         /\ review' = [review EXCEPT ![f] = s]
    /\ UNCHANGED <<kind, turns, since, backoff, failures, lowQuality, queue, caller, queued,
                   overlap>>

Reviewed(v) == review' = [review EXCEPT ![v] = None]

(* No operation, a repeated or incomplete one, a near duplicate, an error  *)
(* or the end of its context.                                              *)
NoOperation(v) ==
    /\ review[v] # None
    /\ Reviewed(v)
    /\ UNCHANGED <<kind, turns, since, midRun, backoff, failures, lowQuality, queue, caller,
                   queued, overlap>>

MarkSuccess(v) ==
    /\ review[v] # None
    /\ failures' = [failures EXCEPT ![review[v]] = 0]
    /\ lowQuality' = [lowQuality EXCEPT ![review[v]] = 0]
    /\ backoff' = [backoff EXCEPT ![review[v]] = 0]
    /\ Reviewed(v)
    /\ UNCHANGED <<kind, turns, since, midRun, queue, caller, queued, overlap>>

(* Counts up to the limit, then backs off and starts over.                 *)
Counted(n) == (n + 1) % Patience
BacksOff(n, s, ticks) ==
    backoff' = IF n[s] + 1 >= Patience THEN [backoff EXCEPT ![s] = ticks] ELSE backoff

MarkFailure(v) ==
    /\ review[v] # None
    /\ failures' = [failures EXCEPT ![review[v]] = Counted(@)]
    /\ BacksOff(failures, review[v], Backoff)
    /\ Reviewed(v)
    /\ UNCHANGED <<kind, turns, since, midRun, lowQuality, queue, caller, queued, overlap>>

MarkLowQuality(v) ==
    /\ review[v] # None
    /\ lowQuality' = [lowQuality EXCEPT ![review[v]] = Counted(@)]
    /\ BacksOff(lowQuality, review[v], 2 * Backoff)
    /\ Reviewed(v)
    /\ UNCHANGED <<kind, turns, since, midRun, failures, queue, caller, queued, overlap>>

-----------------------------------------------------------------------------
Longer(ages, bound) == [s \in Sessions |-> IF ages[s] < bound THEN ages[s] + 1 ELSE bound]

Tick ==
    /\ \A c \in Callers : caller[c] = Outside
    /\ since' = Longer(since, MinInterval)
    /\ midRun' = Longer(midRun, Cooldown)
    /\ queued' = Longer(queued, MinInterval)
    /\ backoff' = [s \in Sessions |-> IF backoff[s] > 0 THEN backoff[s] - 1 ELSE 0]
    /\ UNCHANGED <<kind, turns, failures, lowQuality, queue, caller, review, overlap>>

Enqueue(c) == ShouldRun(c) \/ Send(c) \/ DropTurn(c) \/ NoteQueuedRun(c)
Outcome(v) == NoOperation(v) \/ MarkSuccess(v) \/ MarkFailure(v) \/ MarkLowQuality(v)

Next ==
    \/ \E c \in Callers : Enqueue(c)
    \/ \E f \in Flushes : Flush(f) \/ MaybeReflectMidRun(f)
    \/ \E v \in Reviewers : Outcome(v)
    \/ TakeTurn \/ Tick

(* The worker is a goroutine, and its review has a context of 20 or 30 s.  *)
WorkerRuns == WF_vars(TakeTurn) /\ WF_vars(Outcome(Worker))

Spec == Init /\ [][Next]_vars /\ WorkerRuns

-----------------------------------------------------------------------------
TypeOK ==
    /\ kind \in {"memory", "skill"}
    /\ turns \in [Sessions -> 0..(NudgeInterval - 1)]
    /\ since \in [Sessions -> 0..MinInterval] /\ queued \in [Sessions -> 0..MinInterval]
    /\ midRun \in [Sessions -> 0..Cooldown]
    /\ backoff \in [Sessions -> 0..(2 * Backoff)]
    /\ failures \in [Sessions -> 0..(Patience - 1)]
    /\ lowQuality \in [Sessions -> 0..(Patience - 1)]
    /\ queue \in Seq(Sessions) /\ Len(queue) <= QueueSize
    /\ review \in [Reviewers -> Sessions \cup {None}]
    /\ caller \in [Callers ->
         {Outside} \cup [at : {"sending", "noting"}, session : Sessions]]
    /\ overlap \in BOOLEAN

(* Two turns of a session are queued at least MinInterval apart: always by *)
(* the memory maintainer, which notes the run under the mutex of the test, *)
(* and by the skill maintainer as long as no two runs of a session end at  *)
(* the same time, for it notes the run after the queue has taken it.       *)
ReviewsSpaced ==
    [][ \A c \in Callers :
          (Sending(c) /\ queue' # queue /\ caller'[c] # caller[c]) =>
            queued[caller[c].session] >= MinInterval \/ (kind = "skill" /\ overlap) ]_vars

(* Whatever reviews end like, a turn in the queue is reviewed in the end.  *)
TurnsReviewed ==
    \A s \in Sessions :
        (\E i \in DOMAIN queue : queue[i] = s) ~> (review[Worker] = s)
=============================================================================
