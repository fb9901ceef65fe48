---------------------------- MODULE CuratedMemory ----------------------------
(***************************************************************************)
(* One of the files NOTE.md and USER.md of the curated memory.  Three      *)
(* kinds of processes write it: calls of the memory tool, under the mutex  *)
(* of MemoryNoteStore; passes of the memory maintainer, which call the     *)
(* same store but take their backup and put it back without the mutex;     *)
(* and the audits of the learning governance, which never take it.         *)
(*                                                                         *)
(* An entry is a text; Fold is what normalizeEntryForCompare makes of it,  *)
(* and an old_text stands for the folds that contain it.  A text that      *)
(* holds the line that delimits entries is several of them to the next     *)
(* read: Parts.  Entries are of one length, so the budget is a number of   *)
(* entries, and of two writers that have truncated the file the second     *)
(* writes over the first entry by entry.                                   *)
(***************************************************************************)
EXTENDS Naturals, Sequences, SequencesExt

CONSTANTS
    Calls,      \* calls of the memory tool
    Reviews,    \* passes of the maintainer: its worker's, or a flush
    Audits,     \* passes of the governance
    Texts,      \* what may be written as an entry
    Fold,       \* normalizeEntryForCompare
    Parts,      \* the entries that a text is when it is read again
    Olds,       \* old_texts, as sets of folds
    Limit,      \* the budget
    Originals   \* files there may be at the start, edited by hand too

VARIABLES
    file,      \* the entries of the file
    lock,      \* MemoryNoteStore.mu
    proc,      \* the locals of each process
    original,  \* history: the file at the start
    kept,      \* history: the folds of entries that are to stay
    trouble    \* history: what has happened so far

vars == <<file, lock, proc, original, kept, trouble>>

Processes == Calls \cup Reviews \cup Audits
Folds == Range(Fold)
FoldsOf(entries) == {Fold[t] : t \in Range(entries)}
Lines == {t \in Texts : Parts[t] = <<t>>}

ASSUME CuratedAssumption ==
    /\ Calls \cap Reviews = {} /\ Calls \cap Audits = {} /\ Reviews \cap Audits = {}
    /\ Texts # {} /\ DOMAIN Fold = Texts /\ Fold = [t \in Texts |-> Fold[t]]
    /\ Parts \in [Texts -> Seq(Lines) \ {<<>>}] /\ Lines # {}
    /\ Olds \subseteq SUBSET Folds
    /\ Limit \in Nat
    /\ Originals \subseteq Seq(Lines)

(* What a call of the tool may ask for.                                    *)
Operations ==
    [action : {"add"}, content : Texts, old : {{}}]
      \cup [action : {"replace"}, content : Texts, old : Olds]
      \cup [action : {"remove"}, content : {CHOOSE t \in Texts : TRUE}, old : Olds]

SomeOperation == CHOOSE op \in Operations : TRUE
Phases == {"idle", "reviewed", "checked", "calling", "writing", "truncated",
           "executed", "overwriting", "overwritten", "done"}
Idle == [pc |-> "idle", op |-> SomeOperation, prev |-> <<>>, entries |-> <<>>,
         gone |-> {}, ok |-> FALSE]
Finished == [Idle EXCEPT !.pc = "done"]

At(p, phase) == proc[p].pc = phase
Content(p) == proc[p].op.content
Finish(p) == proc' = [proc EXCEPT ![p] = Finished]

Init ==
    /\ file \in Originals
    /\ lock = {}
    /\ proc = [p \in Processes |-> Idle]
    /\ original = file
    /\ kept = FoldsOf(file)
    /\ trouble = {}

-----------------------------------------------------------------------------
(* ExecuteMemoryTool                                                       *)

(* What a process is about to ask of the store.                            *)
Asked(p) ==
    CASE p \in Calls /\ At(p, "idle") -> Operations
      [] At(p, "calling") -> {proc[p].op}
      [] OTHER -> {}

(* Mutant: entries are compared as they are written.                       *)
TwinsExact(entries, text) == {i \in DOMAIN entries : entries[i] = text}

Twins(entries, text) == {i \in DOMAIN entries : Fold[entries[i]] = Fold[text]}
Matches(entries, old) == {i \in DOMAIN entries : Fold[entries[i]] \in old}

(* One entry matches, or several that are the same.                        *)
Unique(entries, old) ==
    /\ Matches(entries, old) # {}
    /\ \A i, j \in Matches(entries, old) : entries[i] = entries[j]
FirstMatch(entries, old) ==
    {i \in Matches(entries, old) : \A j \in Matches(entries, old) : i <= j}

(* Mutant: the budget is checked before the entry is added.                *)
RefusesLate(op, entries) ==
    CASE op.action = "add" -> Twins(entries, op.content) = {} /\ Len(entries) > Limit
      [] op.action = "replace" -> ~Unique(entries, op.old) \/ Len(entries) > Limit
      [] OTHER -> ~Unique(entries, op.old)

(* What the call does with the entries it has read: an error, success      *)
(* without a write, or the entries to write.                               *)
Refuses(op, entries) ==
    LET more == Len(Parts[op.content])
    IN  CASE op.action = "add" ->
               Twins(entries, op.content) = {} /\ Len(entries) + more > Limit
          [] op.action = "replace" ->
               ~Unique(entries, op.old) \/ Len(entries) - 1 + more > Limit
          [] OTHER -> ~Unique(entries, op.old)

AlreadyThere(op, entries) ==
    CASE op.action = "add" -> Twins(entries, op.content) # {}
      [] op.action = "replace" ->
           \E i \in FirstMatch(entries, op.old) : Twins(entries, op.content) \ {i} # {}
      [] OTHER -> FALSE

(* The entries to write, as they will be read, and the fold of the entry   *)
(* that goes.                                                              *)
Without(entries, i, between) ==
    SubSeq(entries, 1, i - 1) \o between \o SubSeq(entries, i + 1, Len(entries))

Edits(op, entries) ==
    CASE op.action = "add" ->
           {[entries |-> entries \o Parts[op.content], gone |-> {}]}
      [] op.action = "replace" ->
           {[entries |-> Without(entries, i, Parts[op.content]), gone |-> {Fold[entries[i]]}] :
              i \in FirstMatch(entries, op.old)}
      [] OTHER ->
           {[entries |-> Without(entries, i, <<>>), gone |-> {Fold[entries[i]]}] :
              i \in FirstMatch(entries, op.old)}

(* A text without the delimiter stays one entry.                           *)
Split(op) == IF op.action # "remove" /\ op.content \notin Lines THEN {"split"} ELSE {}

(* readEntries: a file that cannot be read has no entries, nor has one     *)
(* that another process has truncated.                                     *)
HalfWritten == {p \in Processes : At(p, "truncated") \/ At(p, "overwritten")}
Readable == {file, <<>>}
Unread(entries) == IF entries # file \/ HalfWritten # {} THEN {"unread"} ELSE {}

Returned(p, ok) ==
    IF p \in Calls THEN Finish(p)
    ELSE proc' = [proc EXCEPT ![p].pc = "executed", ![p].ok = ok]

(* The safety scan, a missing argument, an error of the file system, or    *)
(* what the entries do not allow.                                          *)
Refuse(p) ==
    /\ Asked(p) # {} /\ lock = {}
    /\ Returned(p, FALSE)
    /\ UNCHANGED <<file, lock, original, kept, trouble>>

NothingToWrite(p) ==
    /\ lock = {}
    /\ \E op \in Asked(p) :
         /\ ~Refuses(op, file) /\ AlreadyThere(op, file)
         /\ kept' = IF p \in Calls THEN kept \cup {Fold[op.content]} ELSE kept
    /\ Returned(p, TRUE)
    /\ trouble' = trouble \cup Unread(file)
    /\ UNCHANGED <<file, lock, original>>

Edit(p, op, entries) ==
    /\ ~Refuses(op, entries) /\ ~AlreadyThere(op, entries)
    /\ \E edit \in Edits(op, entries) :
         proc' = [proc EXCEPT ![p].pc = "writing", ![p].op = op,
                              ![p].entries = edit.entries, ![p].gone = edit.gone]
    /\ trouble' = trouble \cup Unread(entries) \cup Split(op)

(* Mutant: the mutex excludes nobody.                                      *)
ReadEntriesUnlocked(p) ==
    /\ lock' = lock \cup {p}
    /\ \E op \in Asked(p), entries \in Readable : Edit(p, op, entries)
    /\ UNCHANGED <<file, original, kept>>

ReadEntries(p) ==
    /\ lock = {} /\ lock' = {p}
    /\ \E op \in Asked(p), entries \in Readable : Edit(p, op, entries)
    /\ UNCHANGED <<file, original, kept>>

(* writeEntries: os.WriteFile truncates, then writes.                      *)
Truncate(p) ==
    /\ At(p, "writing")
    /\ file' = <<>>
    /\ proc' = [proc EXCEPT ![p].pc = "truncated"]
    /\ UNCHANGED <<lock, original, kept, trouble>>

Over(entries) == entries \o SubSeq(file, Len(entries) + 1, Len(file))
Mixed == IF file = <<>> THEN {} ELSE {"mixed"}

WriteEntries(p) ==
    /\ At(p, "truncated")
    /\ file' = Over(proc[p].entries)
    /\ lock' = lock \ {p}
    /\ Returned(p, TRUE)
    /\ kept' = (kept \ proc[p].gone)
                 \cup (IF p \in Calls /\ proc[p].op.action # "remove"
                       THEN FoldsOf(Parts[Content(p)]) ELSE {})
    /\ trouble' = trouble \cup Mixed
    /\ UNCHANGED original

(* Mutant: the error returns with the mutex held.                          *)
WriteFailsLocked(p) ==
    /\ At(p, "truncated")
    /\ Returned(p, FALSE)
    /\ trouble' = trouble \cup {"torn"}
    /\ UNCHANGED <<file, lock, original, kept>>

WriteFails(p) ==
    /\ At(p, "truncated")
    /\ lock' = lock \ {p}
    /\ Returned(p, FALSE)
    /\ trouble' = trouble \cup {"torn"}
    /\ UNCHANGED <<file, original, kept>>

-----------------------------------------------------------------------------
(* reviewAndApply, from the answer of the provider on; normalizeMemoryText *)
(* makes one line of its content.                                          *)

Review(v) ==
    /\ v \in Reviews /\ At(v, "idle")
    /\ \E op \in Operations :
         /\ op.content \in Lines
         /\ proc' = [proc EXCEPT ![v].pc = "reviewed", ![v].op = op]
    /\ UNCHANGED <<file, lock, original, kept, trouble>>

(* Near duplicates that are no twins are dropped or not, and a twin is not *)
(* found when the file cannot be read.                                     *)
NearDuplicate(v) ==
    /\ At(v, "reviewed") /\ proc[v].op.action # "remove"
    /\ Finish(v)
    /\ UNCHANGED <<file, lock, original, kept, trouble>>

NotADuplicate(v) ==
    /\ At(v, "reviewed")
    /\ proc' = [proc EXCEPT ![v].pc = "checked"]
    /\ UNCHANGED <<file, lock, original, kept, trouble>>

(* prev, _ := os.ReadFile(backupPath)                                      *)
Backup(v) ==
    /\ At(v, "checked")
    /\ \E prev \in Readable :
         /\ proc' = [proc EXCEPT ![v].pc = "calling", ![v].prev = prev]
         /\ trouble' = trouble \cup Unread(prev)
    /\ UNCHANGED <<file, lock, original, kept>>

Valid(v) == proc[v].op.action = "remove" \/ Content(v) \in Range(file)

Succeed(v) ==
    /\ At(v, "executed") /\ proc[v].ok /\ Valid(v)
    /\ Finish(v)
    /\ kept' = IF proc[v].op.action = "remove" THEN kept ELSE kept \cup {Fold[Content(v)]}
    /\ UNCHANGED <<file, lock, original, trouble>>

(* Also after an operation the store has refused, and when the file that   *)
(* is to be validated cannot be read.                                      *)
Rollback(v) ==
    /\ At(v, "executed") /\ ~(proc[v].ok /\ proc[v].op.action = "remove")
    /\ proc' = [proc EXCEPT ![v].pc = "overwriting", ![v].entries = proc[v].prev]
    /\ trouble' = trouble \cup (IF proc[v].ok /\ Valid(v) THEN {"unread"} ELSE {})
    /\ UNCHANGED <<file, lock, original, kept>>

-----------------------------------------------------------------------------
(* rewriteDedupMemory keeps the first of the entries that are the same as  *)
(* they are written.                                                       *)
Firsts(entries) == {i \in DOMAIN entries : \A j \in 1..(i - 1) : entries[j] # entries[i]}

Deduped(entries) ==
    {[k \in DOMAIN at |-> entries[at[k]]] : at \in
       {at \in UNION {[1..m -> Firsts(entries)] : m \in 0..Len(entries)} :
          /\ \A k, l \in DOMAIN at : k < l => at[k] < at[l]
          /\ Range(at) = Firsts(entries)}}

(* Nothing is rewritten when no entry is there twice, or none can be read. *)
Audit(a) ==
    /\ a \in Audits /\ At(a, "idle")
    /\ \E entries \in Readable :
         /\ IF Firsts(entries) = DOMAIN entries
            THEN Finish(a)
            ELSE \E fewer \in Deduped(entries) :
                   proc' = [proc EXCEPT ![a].pc = "overwriting", ![a].entries = fewer,
                                        ![a].prev = entries]
         /\ trouble' = trouble \cup Unread(entries)
    /\ UNCHANGED <<file, lock, original, kept>>

(* The write of a rollback or an audit: stale, when the file is no longer  *)
(* what was read, or another process is about to write it.                 *)
Stale(p) ==
    IF file # proc[p].prev \/ lock # {} \/ HalfWritten # {} THEN {"stale"} ELSE {}

OverwriteTruncates(p) ==
    /\ At(p, "overwriting")
    /\ file' = <<>>
    /\ proc' = [proc EXCEPT ![p].pc = "overwritten"]
    /\ trouble' = trouble \cup Stale(p)
    /\ UNCHANGED <<lock, original, kept>>

OverwriteWrites(p) ==
    /\ At(p, "overwritten")
    /\ file' = Over(proc[p].entries)
    /\ Finish(p)
    /\ trouble' = trouble \cup Mixed
    /\ UNCHANGED <<lock, original, kept>>

(* The error of os.WriteFile is ignored, of its open as well.              *)
OverwriteFails(p) ==
    /\ At(p, "overwriting") \/ At(p, "overwritten")
    /\ Finish(p)
    /\ trouble' = trouble \cup (IF At(p, "overwritten") THEN {"torn"} ELSE {})
    /\ UNCHANGED <<file, lock, original, kept>>

(* The process ends, perhaps with the file truncated.                      *)
Crash ==
    /\ \E p \in Processes : ~At(p, "idle") /\ ~At(p, "done")
    /\ "crash" \notin trouble
    /\ proc' = [p \in Processes |-> IF At(p, "idle") THEN Idle ELSE Finished]
    /\ lock' = {}
    /\ trouble' = trouble \cup {"crash"} \cup (IF HalfWritten # {} THEN {"torn"} ELSE {})
    /\ UNCHANGED <<file, original, kept>>

-----------------------------------------------------------------------------
Step(p) ==
    \/ Refuse(p) \/ NothingToWrite(p) \/ ReadEntries(p)
    \/ Truncate(p) \/ WriteEntries(p) \/ WriteFails(p)
    \/ Review(p) \/ NearDuplicate(p) \/ NotADuplicate(p) \/ Backup(p)
    \/ Succeed(p) \/ Rollback(p) \/ Audit(p)
    \/ OverwriteTruncates(p) \/ OverwriteWrites(p) \/ OverwriteFails(p)

Next == Crash \/ \E p \in Processes : Step(p)

Spec == Init /\ [][Next]_vars

-----------------------------------------------------------------------------
(* Types; the mutex is held exactly by the call that writes.               *)
Locals ==
    [pc : Phases, op : Operations, prev : Seq(Texts), entries : Seq(Texts),
     gone : SUBSET Folds, ok : BOOLEAN]

TypeOK ==
    /\ file \in Seq(Texts) /\ original \in Seq(Texts)
    /\ proc \in [Processes -> Locals]
    /\ kept \subseteq Folds
    /\ lock = {p \in Processes : At(p, "writing") \/ At(p, "truncated")}

(* "no duplicate added", "no duplicate written" (ExecuteMemoryTool): two   *)
(* entries of one fold were both there from the start, however the calls,  *)
(* rollbacks and audits overwrite each other with old images, and whatever *)
(* read fails.  Two things break it: two writes into each other, and a     *)
(* text with the delimiter in it, which is compared as one entry and read  *)
(* as several.                                                             *)
Twice(entries) ==
    {f \in Folds : \E i, j \in DOMAIN entries :
        i # j /\ Fold[entries[i]] = f /\ Fold[entries[j]] = f}

NoNewDuplicates ==
    trouble \cap {"mixed", "split"} = {} => Twice(file) \subseteq Twice(original)

(* "Would exceed char budget": the file outgrows its budget only where it  *)
(* did from the start.                                                     *)
BudgetKept ==
    "mixed" \notin trouble => Len(file) <= Limit \/ Len(file) <= Len(original)

(* "Save durable facts to persistent curated memory (survives sessions)":  *)
(* an entry the tool or the maintainer reports as saved stays until a call *)
(* replaces or removes it: calls of the store do each other no harm, nor   *)
(* does a rollback, an audit, a text that is read as several entries or an *)
(* end of the process by itself.  These do: an overwrite with a stale      *)
(* image; a read that fails, which yields no entries to the store and      *)
(* nothing to the backup; a write that fails or a process that ends once   *)
(* the file is truncated, of one call alone too; a read of a truncated     *)
(* file; and two writes into each other.                                   *)
SavedStays ==
    ( /\ trouble \subseteq {"crash", "split"}
      /\ \A p \in Processes : ~At(p, "truncated") /\ ~At(p, "overwritten") )
    => kept \subseteq FoldsOf(file)
=============================================================================
