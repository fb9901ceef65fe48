---------------------------- MODULE SessionStore ----------------------------
(***************************************************************************)
(* One session of session/manager.go: its Session objects, the cache of    *)
(* the manager, the JSONL file, the runs of agent/loop.go that use them    *)
(* concurrently, and the memory consolidation of tools/consolidator.go.    *)
(*                                                                         *)
(* A run loads at most one object, so an object is named by the run that   *)
(* loaded it.  Lines of the file are taken to be of one length, and a      *)
(* reader to see the file at one moment.  The context window is bounded,   *)
(* so there is a consolidator.  A crash ends a process and its runs; the   *)
(* runs that are still idle then belong to the next process.               *)
(***************************************************************************)
EXTENDS Naturals, Sequences, FiniteSets, Functions, SequencesExt

CONSTANTS
    Runs,   \* callers of GetOrCreate for the session
    News,   \* those that are a /new
    Past,   \* the runs of earlier processes, of whose turns the file has some
    None

ASSUME SessionAssumption ==
    /\ News \subseteq Runs
    /\ Past \in Seq(Range(Past)) /\ IsInjective(Past)
    /\ Range(Past) \cap Runs = {}
    /\ None \notin Runs

VARIABLES
    cache,    \* SessionManager.cache: the object of the session, or None
    objs,     \* the Session objects: their messages and LastConsolidated
    file,     \* the same of the session's file, as load() reads it
    lock,     \* the consolidation lock of the session: its holder, or None
    history,  \* history[m]: how often HISTORY.md has message m
    run,      \* the locals of each run, see Locals
    trouble   \* history: what has happened to the session so far

vars == <<cache, objs, file, lock, history, run, trouble>>

Message == [by : Runs \cup Range(Past), role : {"user", "assistant"}]
UserOf(r) == [by |-> r, role |-> "user"]
AssistantOf(r) == [by |-> r, role |-> "assistant"]

Content == [messages : Seq(Message), index : Nat]
Empty == [messages |-> <<>>, index |-> 0]

Phases == {"idle", "loading", "storing", "consolidating", "estimating",
           "picking", "archiving", "marking", "reading", "answering", "adding",
           "clearing", "saving", "created", "writing", "saved",
           "invalidating", "done"}

Locals ==
    [pc : Phases,
     hold : Runs \cup {None},    \* the object the run uses
     after : Phases,             \* where Save returns to
     meta : Nat,                 \* the index Save is about to write
     end : Nat,                  \* the boundary of a consolidation
     chunk : Seq(Message)]       \* what it archives

Begun(phase) ==
    [pc |-> phase, hold |-> None, after |-> "done", meta |-> 0, end |-> 0,
     chunk |-> <<>>]

Goto(r, phase) == run' = [run EXCEPT ![r].pc = phase]
At(r, phase) == run[r].pc = phase
Obj(r) == objs[run[r].hold]
Finish(r) == run' = [run EXCEPT ![r] = Begun("done")]

(* The turns of the first k of them, a question and an answer each.        *)
PastTurns(k) ==
    [i \in 1..(2 * k) |->
        IF i % 2 = 1 THEN UserOf(Past[(i + 1) \div 2]) ELSE AssistantOf(Past[i \div 2])]

Init ==
    /\ cache = None
    /\ objs = [r \in Runs |-> Empty]
    /\ \E k \in 0..Len(Past) : file = [messages |-> PastTurns(k), index |-> 0]
    /\ lock = None
    /\ history = [m \in Message |-> 0]
    /\ run = [r \in Runs |-> Begun("idle")]
    /\ trouble = {}

-----------------------------------------------------------------------------
(* GetOrCreate.                                                            *)

(* What the caller does with the session: /new, a turn, or no more than to *)
(* read it (/help, a flush, the session index, the history tools).         *)
Use(r, obj) ==
    \/ r \in News /\ run' = [run EXCEPT ![r].pc = "clearing", ![r].hold = obj]
    \/ r \notin News /\ run' = [run EXCEPT ![r].pc = "consolidating", ![r].hold = obj]
    \/ r \notin News /\ Finish(r)

Hit(r) ==
    /\ At(r, "idle") /\ cache # None
    /\ Use(r, cache)
    /\ UNCHANGED <<cache, objs, file, lock, history, trouble>>

Miss(r) ==
    /\ At(r, "idle") /\ cache = None
    /\ Goto(r, "loading")
    /\ UNCHANGED <<cache, objs, file, lock, history, trouble>>

(* Two writers share the file, each at its own offset.                     *)
Overwrite(new, old) == new \o SubSeq(old, Len(new) + 1, Len(old))

(* What a reader, or a crash, may find of the file.                        *)
Partial ==
    {file} \cup
    UNION {{[file EXCEPT !.messages = Overwrite(SubSeq(Obj(w).messages, 1, n), @)] :
              n \in 0..Len(Obj(w).messages)} :
           w \in {q \in Runs : At(q, "writing")}}

(* Another object of the session is in use.                                *)
OtherObject(r) == \E obj \in Runs \ {r} : cache = obj \/ \E q \in Runs : run[q].hold = obj
Split(r) == IF OtherObject(r) THEN {"split"} ELSE {}

Loaded(r, content) ==
    /\ At(r, "loading")
    /\ objs' = [objs EXCEPT ![r] = content]
    /\ run' = [run EXCEPT ![r].pc = "storing", ![r].hold = r]
    /\ UNCHANGED <<cache, file, lock, history>>

Load(r) ==
    /\ \E content \in Partial : Loaded(r, content)
    /\ trouble' = trouble \cup Split(r)

(* A line over 64 KB: on the error of load() there is a new, empty session.*)
LoadFails(r) ==
    /\ file.messages # <<>>
    /\ Loaded(r, Empty)
    /\ trouble' = trouble \cup Split(r) \cup {"unread"}

(* The object is stored whatever the cache holds by now.                   *)
StoreInCache(r) ==
    /\ At(r, "storing")
    /\ cache' = r
    /\ trouble' = trouble \cup Split(r)
    /\ Use(r, r)
    /\ UNCHANGED <<objs, file, lock, history>>

-----------------------------------------------------------------------------
(* Save, called with the phase it returns to; only the messages are read   *)
(* with the object locked.                                                 *)

CallSave(r, phase) == run' = [run EXCEPT ![r].pc = "saving", ![r].after = phase]

Return(r) ==
    IF run[r].after = "done"
    THEN Finish(r)
    ELSE run' = [run EXCEPT ![r].pc = run[r].after, ![r].after = "done", ![r].meta = 0]

(* The file cannot be made or written: the callers ignore the error.       *)
SaveFails(r) ==
    /\ At(r, "saving") \/ At(r, "created")
    /\ Return(r)
    /\ trouble' = trouble \cup {"unsaved"}
    /\ UNCHANGED <<cache, objs, file, lock, history>>

(* Mutant: the file is not truncated.                                      *)
SaveCreateKeeping(r) ==
    /\ At(r, "saving")
    /\ run' = [run EXCEPT ![r].pc = "created", ![r].meta = Obj(r).index]
    /\ UNCHANGED <<cache, objs, file, lock, history, trouble>>

(* os.Create, and the metadata is made.                                    *)
SaveCreate(r) ==
    /\ At(r, "saving")
    /\ file' = Empty
    /\ run' = [run EXCEPT ![r].pc = "created", ![r].meta = Obj(r).index]
    /\ UNCHANGED <<cache, objs, lock, history, trouble>>

(* The index in the metadata is not that of the object any more: another   *)
(* run consolidates or clears it.                                          *)
Stale(r) == IF run[r].meta = Obj(r).index THEN {} ELSE {"stale"}

SaveMeta(r) ==
    /\ At(r, "created")
    /\ file' = [file EXCEPT !.index = run[r].meta]
    /\ run' = [run EXCEPT ![r].pc = "writing", ![r].meta = 0]
    /\ trouble' = trouble \cup Stale(r)
    /\ UNCHANGED <<cache, objs, lock, history>>

(* The errors of the encoder are ignored: after the first one it writes no *)
(* more, and the save goes on as if it had.                                *)
SaveMessages(r) ==
    /\ At(r, "writing")
    /\ \E n \in 0..Len(Obj(r).messages) :
         /\ file' = [file EXCEPT !.messages = Overwrite(SubSeq(Obj(r).messages, 1, n), @)]
         /\ trouble' = IF n = Len(Obj(r).messages) THEN trouble ELSE trouble \cup {"unsaved"}
    /\ Goto(r, "saved")
    /\ UNCHANGED <<cache, objs, lock, history>>

SaveCache(r) ==
    /\ At(r, "saved")
    /\ cache' = run[r].hold
    /\ Return(r)
    /\ UNCHANGED <<objs, file, lock, history, trouble>>

-----------------------------------------------------------------------------
(* MaybeConsolidateByTokens.  How large the prompt is, and whether the     *)
(* model calls save_memory, is open; so is what the counter of consecutive *)
(* failures, which all sessions share, makes of a failure.                 *)

InRange(obj) == obj.index <= Len(obj.messages)

NothingToConsolidate(r) ==
    /\ At(r, "consolidating") /\ Obj(r).messages = <<>>
    /\ Goto(r, "reading")
    /\ UNCHANGED <<cache, objs, file, lock, history, trouble>>

TakeLock(r) ==
    /\ At(r, "consolidating") /\ Obj(r).messages # <<>>
    /\ lock = None
    /\ lock' = r
    /\ Goto(r, "estimating")
    /\ UNCHANGED <<cache, objs, file, history, trouble>>

(* Every return of a consolidation; the deferred Unlock.                   *)
Leave(r) ==
    /\ lock' = None
    /\ run' = [run EXCEPT ![r].pc = "reading", ![r].end = 0, ![r].chunk = <<>>]
    /\ UNCHANGED <<cache, objs, file, history, trouble>>

(* The prompt fits, there is no boundary, or the rounds are over.          *)
EndConsolidation(r) == At(r, "estimating") /\ InRange(Obj(r)) /\ Leave(r)

(* PickConsolidationBoundary: before a user message beyond the index.      *)
Boundaries(obj) ==
    {i \in (obj.index + 1)..(Len(obj.messages) - 1) : obj.messages[i + 1].role = "user"}

PickBoundary(r) ==
    /\ At(r, "estimating") /\ InRange(Obj(r))
    /\ \E i \in Boundaries(Obj(r)) :
        run' = [run EXCEPT ![r].pc = "picking", ![r].end = i]
    /\ UNCHANGED <<cache, objs, file, lock, history, trouble>>

(* The object is read again: GetMessagesFrom, which cuts its end off.      *)
UpTo(r) ==
    LET all == Len(Obj(r).messages)
    IN IF run[r].end < all THEN run[r].end ELSE all

(* Mutant: from the beginning of the session.                              *)
ChunkFromStart(r) == SubSeq(Obj(r).messages, 1, UpTo(r))

ChunkOf(r) == SubSeq(Obj(r).messages, Obj(r).index + 1, UpTo(r))

NoChunk(r) == At(r, "picking") /\ ChunkOf(r) = <<>> /\ Leave(r)

TakeChunk(r) ==
    /\ At(r, "picking") /\ ChunkOf(r) # <<>>
    /\ run' = [run EXCEPT ![r].pc = "archiving", ![r].chunk = ChunkOf(r)]
    /\ UNCHANGED <<cache, objs, file, lock, history, trouble>>

(* HISTORY.md gets the chunk, from the model or raw.                       *)
Archive(r) ==
    /\ At(r, "archiving")
    /\ history' = [m \in Message |->
         history[m] + Cardinality({i \in DOMAIN run[r].chunk : run[r].chunk[i] = m})]
    /\ run' = [run EXCEPT ![r].pc = "marking", ![r].chunk = <<>>]
    /\ UNCHANGED <<cache, objs, file, lock, trouble>>

(* The error of AppendHistory is ignored.                                  *)
ArchiveLost(r) ==
    /\ At(r, "archiving")
    /\ run' = [run EXCEPT ![r].pc = "marking", ![r].chunk = <<>>]
    /\ trouble' = trouble \cup {"unarchived"}
    /\ UNCHANGED <<cache, objs, file, lock, history>>

(* Mutant: the index moves although nothing was archived.                  *)
ArchiveFailsMarked(r) ==
    /\ At(r, "archiving")
    /\ run' = [run EXCEPT ![r].pc = "marking", ![r].chunk = <<>>]
    /\ UNCHANGED <<cache, objs, file, lock, history, trouble>>

(* Mutant: a return that keeps the lock.                                   *)
ArchiveFailsLocked(r) ==
    /\ At(r, "archiving")
    /\ run' = [run EXCEPT ![r].pc = "reading", ![r].end = 0, ![r].chunk = <<>>]
    /\ UNCHANGED <<cache, objs, file, lock, history, trouble>>

ArchiveFails(r) == At(r, "archiving") /\ Leave(r)

(* SetLastConsolidated, then Save.                                         *)
Mark(r) ==
    /\ At(r, "marking")
    /\ objs' = [objs EXCEPT ![run[r].hold].index = run[r].end]
    /\ run' = [run EXCEPT ![r].pc = "saving", ![r].after = "estimating", ![r].end = 0]
    /\ UNCHANGED <<cache, file, lock, history, trouble>>

-----------------------------------------------------------------------------
(* processMessage.                                                         *)

ReadHistory(r) ==
    /\ At(r, "reading") /\ InRange(Obj(r))
    /\ Goto(r, "answering")
    /\ UNCHANGED <<cache, objs, file, lock, history, trouble>>

(* BuildMessages fails, or the provider, or the run is cancelled.          *)
TurnFails(r) ==
    /\ At(r, "answering")
    /\ Finish(r)
    /\ UNCHANGED <<cache, objs, file, lock, history, trouble>>

Add(r, m) ==
    /\ objs' = [objs EXCEPT ![run[r].hold].messages = Append(@, m)]
    /\ UNCHANGED <<cache, file, lock, history, trouble>>

AddUserMessage(r) == At(r, "answering") /\ Add(r, UserOf(r)) /\ Goto(r, "adding")

AddAssistantMessage(r) == At(r, "adding") /\ Add(r, AssistantOf(r)) /\ CallSave(r, "done")

(* /new: Clear, Save, Invalidate.                                          *)
Clear(r) ==
    /\ At(r, "clearing")
    /\ objs' = [objs EXCEPT ![run[r].hold] = Empty]
    /\ CallSave(r, "invalidating")
    /\ trouble' = trouble \cup {"reset"}
    /\ UNCHANGED <<cache, file, lock, history>>

Invalidate(r) ==
    /\ At(r, "invalidating")
    /\ cache' = None
    /\ Finish(r)
    /\ UNCHANGED <<objs, file, lock, history, trouble>>

-----------------------------------------------------------------------------
(* The process ends; the next one starts with an empty cache.              *)
Die ==
    /\ file' \in Partial
    /\ trouble' = trouble \cup {"crash"} \cup
         {"torn" : r \in {q \in Runs : At(q, "created") \/ At(q, "writing")}}
    /\ cache' = None /\ lock' = None
    /\ objs' = [r \in Runs |-> Empty]
    /\ run' = [r \in Runs |-> IF At(r, "idle") THEN run[r] ELSE Begun("done")]
    /\ UNCHANGED history

Crash == (\E r \in Runs : ~At(r, "idle") /\ ~At(r, "done")) /\ Die

(* GetHistory slices beyond the messages.  The HTTP server recovers its    *)
(* handlers, whose deferred calls unlock; nothing recovers other runs.     *)
Panic(r) ==
    /\ At(r, "estimating") \/ At(r, "reading")
    /\ ~InRange(Obj(r))
    /\ \/ Die
       \/ /\ lock' = IF lock = r THEN None ELSE lock
          /\ Finish(r)
          /\ UNCHANGED <<cache, objs, file, history, trouble>>

-----------------------------------------------------------------------------
Next ==
    \/ Crash
    \/ \E r \in Runs :
        \/ Hit(r) \/ Miss(r) \/ Load(r) \/ LoadFails(r) \/ StoreInCache(r)
        \/ SaveFails(r) \/ SaveCreate(r) \/ SaveMeta(r) \/ SaveMessages(r)
        \/ SaveCache(r)
        \/ NothingToConsolidate(r) \/ TakeLock(r) \/ EndConsolidation(r)
        \/ PickBoundary(r) \/ NoChunk(r) \/ TakeChunk(r)
        \/ Archive(r) \/ ArchiveLost(r) \/ ArchiveFails(r) \/ Mark(r)
        \/ ReadHistory(r) \/ TurnFails(r)
        \/ AddUserMessage(r) \/ AddAssistantMessage(r)
        \/ Clear(r) \/ Invalidate(r) \/ Panic(r)

Spec == Init /\ [][Next]_vars

-----------------------------------------------------------------------------
(* Properties.                                                             *)

Consolidating(r) ==
    \/ run[r].pc \in {"estimating", "picking", "archiving", "marking"}
    \/ run[r].after = "estimating"

(* Every variable stays in its domain, and the lock of the session is held *)
(* exactly by the run that is in a consolidation: every return of          *)
(* MaybeConsolidateByTokens, and a panic in it, unlocks.                   *)
TypeOK ==
    /\ cache \in Runs \cup {None}
    /\ objs \in [Runs -> Content] /\ file \in Content
    /\ history \in [Message -> Nat]
    /\ run \in [Runs -> Locals]
    /\ trouble \subseteq {"split", "unread", "reset", "unsaved", "unarchived",
                           "crash", "torn", "stale"}
    /\ lock \in Runs \cup {None}
    /\ \A r \in Runs : Consolidating(r) <=> lock = r

Without(kinds) == trouble \cap kinds = {}
Changing(r) == run[r].pc \in {"adding", "saving", "created", "writing"}

(* As long as GetOrCreate has given out one object at a time and no read,  *)
(* save or file failed, the file holds the messages of the cached object   *)
(* whenever nobody has a change to save: the saves of several runs, of /new*)
(* and of the consolidator truncate and write in any order, and neither    *)
(* lose a message nor bring a cleared one back.                            *)
FileHoldsSession ==
    /\ Without({"split", "unread", "unsaved", "torn"})
    /\ cache # None
    /\ \A r \in Runs : ~Changing(r)
    => file.messages = objs[cache].messages

(* In one life of the process, with one object, no failing save and no     *)
(* metadata written late, no message is archived twice, by whatever runs   *)
(* consolidate and whenever a /new comes: the lock of the session covers a *)
(* consolidation from its choice of the chunk to the index it sets.  With  *)
(* late metadata the file has an old index, and what /new drops from the   *)
(* cache, or a restart, loads and archives it again.                       *)
ArchivedOnce ==
    Without({"split", "crash", "unsaved", "stale"}) =>
        \A m \in Message : history[m] <= 1

(* What the prompt leaves out has been archived, in every object and in the*)
(* file, also after crashes and failures in the middle of a save: the index*)
(* is set after HISTORY.md is written.  A /new may break it, as it breaks  *)
(* HistoryInRange, and so may an error of AppendHistory.                   *)
Hidden(content) ==
    {content.messages[i] : i \in {k \in DOMAIN content.messages : k <= content.index}}

HiddenIsArchived ==
    Without({"split", "reset", "unarchived"}) =>
        \A content \in {file} \cup {objs[r] : r \in Runs} :
            \A m \in Hidden(content) : history[m] > 0

(* What manager.go says of GetHistory, "returns only messages from         *)
(* LastConsolidated onward": there are such messages to return.  Not so:   *)
(* Clear does not take the lock, so a consolidation under way sets its     *)
(* index on an empty session, with one object and with no failure at all.  *)
HistoryInRange ==
    Without({"split", "unread", "unsaved", "unarchived", "crash"}) =>
        \A r \in Runs : At(r, "estimating") \/ At(r, "reading") => InRange(Obj(r))
=============================================================================
