---------------------------- MODULE CronService ----------------------------
(***************************************************************************)
(* The scheduler of cron/service.go inside the gateway process, with the   *)
(* agent's cron tool editing its store, the CLI editing the file from      *)
(* another process, crashes and restarts.                                  *)
(*                                                                         *)
(* Time is relative: next is the number of ticks until NextRunAtMs, 0 once *)
(* it has come, and Never for NextRunAtMs = 0.  So the state is finite and *)
(* time has no end.  A job is named by its ID; schedules never change.     *)
(*                                                                         *)
(* The cron tool edits the slice of jobs without the mutex.  Both sides    *)
(* first look at the slice and then change it: the tool reads its length   *)
(* or finds an index (AddJob, RemoveJob) and edits (EditEnds), the         *)
(* scheduler finds an index (FinishJob) and edits (Place), in any order.   *)
(* raced says that the two have overlapped in this process.                *)
(***************************************************************************)
EXTENDS Naturals, Sequences, FiniteSets, SequencesExt

CONSTANTS
    Jobs,            \* job IDs; shortID never repeats one
    Kind,            \* Kind[j]: "at", "every" or "cron"
    Period,          \* at: delay of AtMs at creation; every: EveryMs, in ticks
    Grid,            \* cron: every expression fires once per Grid ticks
    ByTool,          \* jobs the cron tool adds, the CLI adds the others
    PollDelay,       \* the 10 s sleep when nothing is scheduled
    Never,           \* NextRunAtMs = 0; also no save(), edit or CLI command under way
    Pending          \* a save() that has not marshalled the store yet

Entry == [id : Jobs, enabled : BOOLEAN]
Record == [id : Jobs, enabled : BOOLEAN, next : Nat \cup {Never}]

(* An edit of the tool under way: the record it adds, at = 0, with the     *)
(* slots beyond the slice that it still counts; or the index it has found. *)
Edit == [rec : Record, at : Nat, stale : Seq(Record)]

ASSUME CronAssumption ==
    /\ Kind \in [Jobs -> {"at", "every", "cron"}]
    /\ Period \in [Jobs -> Nat \ {0}]
    /\ ByTool \subseteq Jobs
    /\ Grid \in Nat \ {0} /\ PollDelay \in Nat \ {0}
    /\ Never \notin Nat \cup Seq(Entry) \cup Edit /\ Pending \notin Seq(Entry) \cup {Never}

VARIABLES
    up,         \* the gateway process runs
    stopping,   \* its context is done
    store,      \* Service.store.Jobs: sequence of [id, enabled, next]
    loop,       \* where the scheduler goroutine stands
    timer,      \* ticks until its timer fires
    due,        \* copies of the due jobs tick has not finished
    slot,       \* index of the job runJob has found in the slice, 0 for none
    image,      \* the scheduler's save(): Pending, then what it has marshalled
    toolImage,  \* the same for the cron tool's save()
    edit,       \* what the tool is about to do to the slice
    raced,      \* an edit of the tool overlapped one of the scheduler (history)
    disk,       \* jobs.json: sequence of [id, enabled]
    cli,        \* what a CLI command has loaded from jobs.json
    atIn,       \* ticks until AtMs of a one-shot job
    phase,      \* position of the clock in the grid of cron expressions
    created,    \* IDs that have been given out
    runs,       \* runs[j]: executions of one-shot job j
    sinceRun    \* ticks since interval job j last started, up to Period[j]

loopVars == <<loop, timer, due, slot, image>>
toolVars == <<toolImage, edit>>
procVars == <<up, stopping, store, loopVars, toolVars, raced>>
fileVars == <<disk, cli>>
timeVars == <<atIn, phase, sinceRun>>
vars == <<procVars, fileVars, timeVars, created, runs>>

LoopStates == {"off", "starting", "idle", "polling", "sleeping", "running", "executing",
               "placing", "writing", "saving"}

(* The tool sets deleteAfterRun for a one-shot job, the CLI never does.    *)
DeleteAfterRun(j) == Kind[j] = "at" /\ j \in ByTool

IdsOf(s) == {s[i].id : i \in DOMAIN s}
Without(s, j) == RemoveFirstMatch(s, LAMBDA rec : rec.id = j)
Image(s) == [i \in DOMAIN s |-> [id |-> s[i].id, enabled |-> s[i].enabled]]
Scheduled(rec) == rec.enabled /\ rec.next # Never
IsDue(rec) == rec.enabled /\ rec.next = 0

(* The due jobs of s, in its order.                                        *)
DueJobs(s) ==
    LET dueAt == {i \in DOMAIN s : IsDue(s[i])}
        ascending == {at \in [1..Cardinality(dueAt) -> dueAt] :
                        \A k, l \in DOMAIN at : k < l => at[k] < at[l]}
    IN {[k \in DOMAIN at |-> s[at[k]]] : at \in ascending}

(* Mutant: a one-shot time in the past is not filtered out.                *)
NextRunPast(j) ==
    CASE Kind[j] = "at" -> atIn[j]
      [] Kind[j] = "every" -> Period[j]
      [] Kind[j] = "cron" -> Grid - phase

(* Mutant: the interval is not added to now.                               *)
NextRunNoInterval(j) ==
    CASE Kind[j] = "at" -> IF atIn[j] > 0 THEN atIn[j] ELSE Never
      [] Kind[j] = "every" -> 0
      [] Kind[j] = "cron" -> Grid - phase

(* computeNextRun from now: a one-shot time only if it is still ahead, one *)
(* interval from now, the next match of the expression after now.          *)
NextRun(j) ==
    CASE Kind[j] = "at" -> IF atIn[j] > 0 THEN atIn[j] ELSE Never
      [] Kind[j] = "every" -> Period[j]
      [] Kind[j] = "cron" -> Grid - phase

(* recomputeNextRuns: every enabled job, run or not, starts over from now. *)
Reschedule(s) ==
    [i \in DOMAIN s |->
       IF s[i].enabled THEN [s[i] EXCEPT !.next = NextRun(s[i].id)] ELSE s[i]]

Init ==
    /\ up = FALSE /\ stopping = FALSE
    /\ store = <<>> /\ disk = <<>> /\ due = <<>>
    /\ loop = "off" /\ timer = 0
    /\ image = Never /\ toolImage = Never /\ cli = Never
    /\ slot = 0 /\ edit = Never /\ raced = FALSE
    /\ atIn = Period /\ phase = 0
    /\ created = {}
    /\ runs = [j \in Jobs |-> 0]
    /\ sinceRun = Period

-----------------------------------------------------------------------------
(* The process and the clock.                                              *)

(* Start: load and recompute; what save() marshals is written by           *)
(* WriteImage, after which the goroutine begins.                           *)
Start ==
    /\ ~up
    /\ up' = TRUE
    /\ store' = Reschedule([i \in DOMAIN disk |->
                              [id |-> disk[i].id, enabled |-> disk[i].enabled,
                               next |-> Never]])
    /\ image' = disk
    /\ loop' = "starting"
    /\ UNCHANGED <<stopping, timer, due, slot, toolVars, raced, fileVars, timeVars,
                   created, runs>>

(* SIGTERM cancels the context the loop and OnJob run under.               *)
Shutdown ==
    /\ up /\ ~stopping
    /\ stopping' = TRUE
    /\ UNCHANGED <<up, store, loopVars, toolVars, raced, fileVars, timeVars, created, runs>>

(* What a write that is cut short leaves: os.WriteFile truncates first, and*)
(* load takes a file it cannot parse for an empty one.                     *)
Torn == <<>>

(* The process ends, orderly, killed or by a panic nobody recovers: memory *)
(* and unwritten images are lost.                                          *)
Exit ==
    /\ up
    /\ disk' \in {disk} \cup IF {image, toolImage} \subseteq {Never, Pending} THEN {} ELSE {Torn}
    /\ up' = FALSE /\ stopping' = FALSE
    /\ store' = <<>> /\ due' = <<>>
    /\ loop' = "off" /\ timer' = 0 /\ slot' = 0
    /\ image' = Never /\ toolImage' = Never /\ edit' = Never
    /\ UNCHANGED <<raced, cli, timeVars, created, runs>>

(* A time that has come stays come.                                        *)
CountDown(n) == IF n = Never \/ n = 0 THEN n ELSE n - 1

(* One unit of time passes, whatever the goroutines are doing, except      *)
(* within the edits of the slice, which are short against a unit.          *)
Tick ==
    /\ loop # "placing" /\ edit = Never
    /\ store' = [i \in DOMAIN store |-> [store[i] EXCEPT !.next = CountDown(@)]]
    /\ timer' = CountDown(timer)
    /\ atIn' = [j \in Jobs |-> IF Kind[j] = "at" /\ j \in created
                               THEN CountDown(atIn[j]) ELSE atIn[j]]
    /\ phase' = (phase + 1) % Grid
    /\ sinceRun' = [j \in Jobs |->
                      IF Kind[j] = "every" /\ sinceRun[j] < Period[j]
                      THEN sinceRun[j] + 1 ELSE sinceRun[j]]
    /\ UNCHANGED <<up, stopping, loop, due, slot, image, toolVars, raced, fileVars, created,
                   runs>>

-----------------------------------------------------------------------------
(* The scheduler goroutine.                                                *)

Wakes == {store[i].next : i \in {k \in DOMAIN store : Scheduled(store[k])}}

(* Mutant: a job that is due now is taken for no job at all.               *)
ArmIgnoringDue ==
    /\ loop = "idle"
    /\ IF Wakes \ {0} = {}
       THEN loop' = "polling" /\ timer' = PollDelay
       ELSE loop' = "sleeping" /\ timer' \in {w \in Wakes : \A v \in Wakes : w <= v}
    /\ UNCHANGED <<up, stopping, store, due, slot, image, toolVars, raced, fileVars,
                   timeVars, created, runs>>

(* nextWakeMs and the timer: the earliest scheduled job, as known now.     *)
Arm ==
    /\ loop = "idle"
    /\ IF Wakes = {}
       THEN loop' = "polling" /\ timer' = PollDelay
       ELSE loop' = "sleeping" /\ timer' \in {w \in Wakes : \A v \in Wakes : w <= v}
    /\ UNCHANGED <<up, stopping, store, due, slot, image, toolVars, raced, fileVars,
                   timeVars, created, runs>>

(* The 10 s sleep is over.                                                 *)
PollAgain ==
    /\ loop = "polling" /\ timer = 0
    /\ loop' = "idle"
    /\ UNCHANGED <<up, stopping, store, timer, due, slot, image, toolVars, raced, fileVars,
                   timeVars, created, runs>>

(* select sees ctx.Done.                                                   *)
LoopEnds ==
    /\ loop \in {"polling", "sleeping"} /\ stopping
    /\ loop' = "off"
    /\ UNCHANGED <<up, stopping, store, timer, due, slot, image, toolVars, raced, fileVars,
                   timeVars, created, runs>>

(* The timer fires and tick copies the jobs that are due.                  *)
Wake ==
    /\ loop = "sleeping" /\ timer = 0
    /\ due' \in DueJobs(store)
    /\ loop' = "running"
    /\ UNCHANGED <<up, stopping, store, timer, slot, image, toolVars, raced, fileVars,
                   timeVars, created, runs>>

(* runJob calls OnJob, which is ProcessDirect: with the context done it    *)
(* returns "" and no error without doing the work.                         *)
StartJob ==
    /\ loop = "running" /\ due # <<>>
    /\ loop' = "executing"
    /\ LET j == Head(due).id IN
       /\ runs' = IF Kind[j] = "at" /\ ~stopping THEN [runs EXCEPT ![j] = @ + 1] ELSE runs
       /\ sinceRun' = [sinceRun EXCEPT ![j] = IF Kind[j] = "every" THEN 0 ELSE @]
    /\ UNCHANGED <<up, stopping, store, timer, due, slot, image, toolVars, raced, fileVars,
                   atIn, phase, created>>

(* The copy as runJob writes it back: a one-shot job disabled, a recurring *)
(* one put off from the end of its run.                                    *)
Finished(rec) ==
    IF Kind[rec.id] = "at"
    THEN [rec EXCEPT !.enabled = FALSE, !.next = Never]
    ELSE [rec EXCEPT !.next = NextRun(rec.id)]

(* OnJob has returned and runJob looks for the job's place in the slice,   *)
(* the first that still has the ID, if any.                                *)
FinishJob ==
    /\ loop = "executing"
    /\ loop' = "placing"
    /\ slot' = SelectInSeq(store, LAMBDA rec : rec.id = Head(due).id)
    /\ UNCHANGED <<up, stopping, store, timer, due, image, toolVars, raced, fileVars,
                   timeVars, created, runs>>

(* Mutant: a job that is gone meanwhile is put back.                       *)
WriteBackAlways(rec) ==
    IF slot = 0 THEN Append(store, rec) ELSE [store EXCEPT ![slot] = rec]

(* The write-back: to the place that was found, if any.                    *)
WriteBack(rec) == IF slot = 0 THEN store ELSE [store EXCEPT ![slot] = rec]

(* A one-shot job is deleted, and saved, or the copy is written back; an   *)
(* index the slice no longer has is a panic.  A delete moves the elements  *)
(* of the array down: an append of the tool that has read the slice before *)
(* still counts the last one twice.                                        *)
Place ==
    /\ loop = "placing"
    /\ slot <= Len(store)
    /\ due' = Tail(due)
    /\ slot' = 0
    /\ raced' = (raced \/ edit # Never)
    /\ IF DeleteAfterRun(Head(due).id)
       THEN /\ store' = IF slot = 0 THEN store ELSE RemoveAt(store, slot)
            /\ edit' = IF edit # Never /\ slot # 0
                       THEN [edit EXCEPT !.stale = <<Last(store)>> \o @]
                       ELSE edit
            /\ image' = Pending
            /\ loop' = "writing"
       ELSE /\ store' = WriteBack(Finished(Head(due)))
            /\ loop' = "running"
            /\ UNCHANGED <<edit, image>>
    /\ UNCHANGED <<up, stopping, timer, toolImage, fileVars, timeVars, created, runs>>

PlacePanics == loop = "placing" /\ slot > Len(store) /\ Exit

(* tick after its last job: recompute all, then save.                      *)
EndTick ==
    /\ loop = "running" /\ due = <<>>
    /\ store' = Reschedule(store)
    /\ raced' = (raced \/ edit # Never)
    /\ image' = Pending
    /\ loop' = "saving"
    /\ UNCHANGED <<up, stopping, timer, due, slot, toolVars, fileVars, timeVars, created,
                   runs>>

(* save() marshals the store as it is by then, without the mutex.          *)
MarshalImage ==
    /\ image = Pending
    /\ image' = Image(store)
    /\ UNCHANGED <<up, stopping, store, loop, timer, due, slot, toolVars, raced, fileVars,
                   timeVars, created, runs>>

(* os.WriteFile of the marshalled store, other saves may come in between.  *)
WriteImage ==
    /\ image \notin {Never, Pending}
    /\ disk' = image
    /\ image' = Never
    /\ loop' = IF loop = "writing" THEN "running" ELSE "idle"
    /\ UNCHANGED <<up, stopping, store, timer, due, slot, toolVars, raced, cli, timeVars,
                   created, runs>>

-----------------------------------------------------------------------------
(* The cron tool of the agent, on the goroutine of some run: one call at a *)
(* time (a bound).  AddJob and RemoveJob edit the store without the mutex. *)

NewRecord(j) == [id |-> j, enabled |-> TRUE, next |-> NextRun(j)]

ToolIdle == up /\ loop # "starting" /\ toolImage = Never /\ edit = Never

(* The new job is built and store.Jobs read as an operand of append.       *)
AddJob(j) ==
    /\ ToolIdle /\ j \in ByTool \ created
    /\ edit' = [rec |-> NewRecord(j), at |-> 0, stale |-> <<>>]
    /\ UNCHANGED <<up, stopping, store, loopVars, toolImage, raced, fileVars, timeVars,
                   created, runs>>

(* The loop of RemoveJob has found the job.                                *)
RemoveJob(i) ==
    /\ ToolIdle
    /\ edit' = [rec |-> store[i], at |-> i, stale |-> <<>>]
    /\ UNCHANGED <<up, stopping, store, loopVars, toolImage, raced, fileVars, timeVars,
                   created, runs>>

(* The result of the tool's append is stored, then save() marshals.        *)
EditEnds ==
    /\ edit # Never
    /\ edit.at <= Len(store)
    /\ store' = IF edit.at = 0 THEN store \o edit.stale \o <<edit.rec>>
                              ELSE RemoveAt(store, edit.at)
    /\ created' = IF edit.at = 0 THEN created \cup {edit.rec.id} ELSE created
    /\ raced' = (raced \/ loop = "placing")
    /\ toolImage' = Pending
    /\ edit' = Never
    /\ UNCHANGED <<up, stopping, loopVars, fileVars, timeVars, runs>>

EditPanics == edit # Never /\ edit.at > Len(store) /\ Exit

MarshalToolImage ==
    /\ toolImage = Pending
    /\ toolImage' = Image(store)
    /\ UNCHANGED <<up, stopping, store, loopVars, edit, raced, fileVars, timeVars, created,
                   runs>>

(* Mutant: the file is written whether or not the store was marshalled.    *)
WriteToolImageAlways ==
    /\ disk' = toolImage
    /\ toolImage' = Never
    /\ UNCHANGED <<up, stopping, store, loopVars, edit, raced, cli, timeVars, created, runs>>

WriteToolImage ==
    /\ toolImage \notin {Never, Pending}
    /\ disk' = toolImage
    /\ toolImage' = Never
    /\ UNCHANGED <<up, stopping, store, loopVars, edit, raced, cli, timeVars, created, runs>>

-----------------------------------------------------------------------------
(* runCron: a process of its own that loads jobs.json, edits and saves it. *)

CliLoad ==
    /\ cli = Never
    /\ cli' = disk
    /\ UNCHANGED <<procVars, disk, timeVars, created, runs>>

(* It lists, does not find its job, or is killed, perhaps in the write.    *)
CliLeaves ==
    /\ cli # Never
    /\ disk' \in {disk, Torn}
    /\ cli' = Never
    /\ UNCHANGED <<procVars, timeVars, created, runs>>

CliSave(entries) ==
    /\ cli # Never
    /\ disk' = entries
    /\ cli' = Never
    /\ UNCHANGED <<procVars, timeVars, runs>>

CliAdd(j) ==
    /\ cli # Never /\ j \notin created \cup ByTool
    /\ CliSave(Append(cli, [id |-> j, enabled |-> TRUE]))
    /\ created' = created \cup {j}

CliRemove(j) ==
    /\ cli # Never /\ j \in IdsOf(cli)
    /\ CliSave(Without(cli, j))
    /\ UNCHANGED created

WithEnabled(entries, j, enabled) ==
    [i \in DOMAIN entries |->
       IF entries[i].id = j THEN [entries[i] EXCEPT !.enabled = enabled] ELSE entries[i]]

(* EnableJob(j, enabled).                                                  *)
CliEnable(j, enabled) ==
    /\ cli # Never /\ j \in IdsOf(cli)
    /\ CliSave(WithEnabled(cli, j, enabled))
    /\ UNCHANGED created

(* RunJob(j), for a disabled job with --force.  The service of the CLI has *)
(* no OnJob: nothing is executed, but the job is finished as if it had been.*)
CliRun(j) ==
    /\ cli # Never /\ j \in IdsOf(cli)
    /\ CliSave(CASE Kind[j] # "at" -> cli
                 [] DeleteAfterRun(j) -> Without(cli, j)
                 [] OTHER -> WithEnabled(cli, j, FALSE))
    /\ UNCHANGED created

-----------------------------------------------------------------------------
LoopStep == Arm \/ PollAgain \/ LoopEnds \/ Wake \/ StartJob \/ FinishJob \/ Place
            \/ PlacePanics \/ EndTick \/ MarshalImage \/ WriteImage
EditStep == EditEnds \/ EditPanics

Next ==
    \/ Start \/ Shutdown \/ Exit \/ Tick
    \/ Arm \/ PollAgain \/ LoopEnds \/ Wake \/ StartJob \/ FinishJob \/ Place
    \/ PlacePanics \/ EndTick \/ MarshalImage \/ WriteImage
    \/ EditEnds \/ EditPanics \/ MarshalToolImage \/ WriteToolImage
    \/ CliLoad \/ CliLeaves
    \/ \E i \in DOMAIN store : RemoveJob(i)
    \/ \E j \in Jobs :
        \/ AddJob(j)
        \/ CliAdd(j) \/ CliRemove(j) \/ CliRun(j)
        \/ \E enabled \in BOOLEAN : CliEnable(j, enabled)

(* Time passes, the scheduler goroutine runs, OnJob returns (AgentLoop     *)
(* shows it for a configured run timeout), an edit of the tool ends and    *)
(* files can be written.                                                   *)
Spec == Init /\ [][Next]_vars
FairSpec == Spec /\ WF_vars(Tick) /\ WF_vars(LoopStep) /\ WF_vars(EditStep)

-----------------------------------------------------------------------------
(* Properties.                                                             *)

(* Every variable stays in its domain.                                     *)
TypeOK ==
    /\ up \in BOOLEAN /\ stopping \in BOOLEAN
    /\ store \in Seq(Record) /\ due \in Seq(Record)
    /\ disk \in Seq(Entry)
    /\ image \in Seq(Entry) \cup {Never, Pending}
    /\ toolImage \in Seq(Entry) \cup {Never, Pending}
    /\ cli \in Seq(Entry) \cup {Never}
    /\ edit \in Edit \cup {Never}
    /\ loop \in LoopStates
    /\ slot \in Nat /\ raced \in BOOLEAN
    /\ timer \in Nat
    /\ atIn \in [Jobs -> Nat] /\ phase \in 0..(Grid - 1)
    /\ created \subseteq Jobs
    /\ runs \in [Jobs -> Nat] /\ sinceRun \in [Jobs -> Nat]

(* What the run of the race refutes: a one-shot job is executed at most    *)
(* once, whatever the tool and the scheduler do to the slice together.     *)
ExecutedOnce == \A j \in Jobs : runs[j] <= 1

(* A one-shot job is executed at most once, whatever the crashes between   *)
(* its execution and the save that removes it, and whoever enables it, as  *)
(* long as no edit of the tool overlaps one of the scheduler.              *)
OneShotAtMostOnce == ~raced => \A j \in Jobs : runs[j] <= 1

(* Two runs of an interval job start at least an interval apart, also      *)
(* across restarts and edits of the file, until such an overlap.           *)
IntervalRunsApart ==
    [][\A j \in Jobs :
         /\ ~raced
         /\ Kind[j] = "every" /\ loop = "running" /\ loop' = "executing" /\ Head(due).id = j
         => sinceRun[j] >= Period[j]]_vars

(* A job that is removed while its copy waits or runs does not come back   *)
(* through the copy: within one process an ID that left the store is gone. *)
(* Only a write-back that overlaps the removal can put it back.            *)
RemovedStaysRemoved ==
    [][\A j \in created :
         up /\ up' /\ ~raced' /\ j \notin IdsOf(store) => j \notin IdsOf(store')]_vars

(* With anything scheduled the service runs some job, unless everything    *)
(* scheduled is removed or the process is stopped.                         *)
SomeJobRuns ==
    (up /\ Wakes # {}) ~> (loop = "executing" \/ ~up \/ stopping \/ Wakes = {})
=============================================================================
