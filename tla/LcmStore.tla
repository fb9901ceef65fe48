------------------------------- MODULE LcmStore -------------------------------
(***************************************************************************)
(* Lossless context management (lcm/) of one session: the conversation in  *)
(* the SQLite store, and the runs of agent/loop.go that import the session *)
(* into it, take their prompt from it, add their turn to it and compact    *)
(* it, each in several transactions with calls of the provider in between. *)
(*                                                                         *)
(* A row of the table messages is named by its seq, an item of the context *)
(* by the set of rows it stands for.  How many tokens a text has is open.  Data   *)
(* of a deleted conversation, which no run can find again, is dropped at   *)
(* once.  All runs use one Session object, whose file is written whole     *)
(* (SessionStore takes both apart).                                        *)
(***************************************************************************)
EXTENDS Naturals, Sequences, SequencesExt

CONSTANTS
    Runs,                \* the requests of the session
    News,                \* those that are a /new
    Past,                \* messages, none of Runs, the session may have from before LCM was on
    FreshTail,           \* Config.FreshTailCount
    LeafMinFanout,       \* Config.LeafMinFanout
    CondensedMinFanout,  \* Config.CondensedMinFanout
    IncrementalMaxDepth  \* Config.IncrementalMaxDepth

(* Defaults take the place of numbers that are not positive.               *)
LcmAssumption ==
    /\ Past \in Seq(Range(Past))
    /\ FreshTail \in Nat \ {0}
    /\ LeafMinFanout \in Nat \ {0} /\ CondensedMinFanout \in Nat \ {0}

VARIABLES
    session,  \* Session.Messages
    file,     \* the messages in the session's file
    conv,     \* the conversation of the session
    ids,      \* the largest conversation_id given so far
    run,      \* the locals of each run, see Locals
    trouble   \* history: what has happened so far

vars == <<session, file, conv, ids, run, trouble>>

Message == [by : Runs \cup Range(Past), role : {"user", "assistant"}]
UserOf(r) == [by |-> r, role |-> "user"]
AssistantOf(r) == [by |-> r, role |-> "assistant"]

Kinds == {"message", "leaf", "condensed"}
Item == [kind : Kinds, rows : SUBSET Nat]
Conversation == [id : Nat, rows : Seq(Message), items : Seq(Item)]
NoConversation == [id |-> 0, rows |-> <<>>, items |-> <<>>]

Phases == {"idle", "bootstrapping", "importing", "assembling", "answering",
           "recording", "ingesting", "inserting", "scanning", "leaf",
           "condensing", "condensed", "deleting", "done"}

Locals ==
    [pc : Phases,
     past : Seq(Message),  \* the history the run has read
     conv : Nat,           \* the conversation it works on
     seq : Nat,            \* the largest seq it has read
     prompt : Seq(Item),   \* what the model is given
     start : Nat, end : Nat, rows : SUBSET Nat]  \* the range to replace

Begun(phase) ==
    [pc |-> phase, past |-> <<>>, conv |-> 0, seq |-> 0, prompt |-> <<>>,
     start |-> 0, end |-> 0, rows |-> {}]

At(r, phase) == run[r].pc = phase
Goto(r, phase) == run' = [run EXCEPT ![r].pc = phase]
Finish(r) == run' = [run EXCEPT ![r] = Begun("done")]
Busy(r) == ~At(r, "idle") /\ ~At(r, "done")
Compacting(r) == run[r].pc \in {"scanning", "leaf", "condensing", "condensed"}

(* The run's conversation is still that of the session.                    *)
Current(r) == conv.id # 0 /\ run[r].conv = conv.id

(* The rows a part of the context stands for.                              *)
Covered(items) == UNION {items[i].rows : i \in DOMAIN items}
InOrder(items) ==
    \A i, j \in DOMAIN items : i < j =>
        \A x \in items[i].rows, y \in items[j].rows : x < y

Init ==
    /\ \E k \in 0..Len(Past) :
         session = [i \in 1..k |-> [by |-> Past[i],
                                    role |-> IF i % 2 = 1 THEN "user" ELSE "assistant"]]
    /\ file = session
    /\ conv = NoConversation
    /\ ids = 0
    /\ run = [r \in Runs |-> Begun("idle")]
    /\ trouble = {}

-----------------------------------------------------------------------------
(* The store.  Each operation is one transaction or one statement.         *)

(* GetOrCreateConversation, and what a read finds at once afterwards.      *)
Opened == IF conv.id = 0 THEN [NoConversation EXCEPT !.id = ids + 1] ELSE conv
Open == conv' = Opened /\ ids' = IF conv.id = 0 THEN ids + 1 ELSE ids

MaxSeq == Len(Opened.rows)

(* UNIQUE (conversation_id, seq): the first row must be the next one.      *)
IngestMessages(r, msgs) ==
    /\ Current(r) /\ Len(conv.rows) = run[r].seq
    /\ conv' = [conv EXCEPT
         !.rows = @ \o msgs,
         !.items = @ \o [i \in DOMAIN msgs |->
                           [kind |-> "message", rows |-> {run[r].seq + i}]]]

(* Mutant: the summary goes behind what it does not replace.               *)
ReplaceContextRangeLast(r, kind) ==
    LET new == [kind |-> kind, rows |-> run[r].rows]
        old == conv.items
    IN conv' = [conv EXCEPT !.items =
         SubSeq(old, 1, run[r].start) \o SubSeq(old, run[r].end + 1, Len(old)) \o <<new>>]

(* By ordinals, whatever stands there by now.                              *)
ReplaceContextRange(r, kind) ==
    LET new == [kind |-> kind, rows |-> run[r].rows]
        old == conv.items
    IN conv' = [conv EXCEPT !.items =
         SubSeq(old, 1, run[r].start)
         \o (IF run[r].start < Len(old) THEN <<new>> ELSE <<>>)
         \o SubSeq(old, run[r].end + 1, Len(old))]

-----------------------------------------------------------------------------
(* processMessage: before the turn.                                        *)

Overlap(r) == {"overlap" : q \in {p \in Runs : Busy(p)}}

Begin(r) ==
    /\ At(r, "idle") /\ r \notin News
    /\ run' = [run EXCEPT ![r].pc = "bootstrapping", ![r].past = session]
    /\ trouble' = trouble \cup Overlap(r)
    /\ UNCHANGED <<session, file, conv, ids>>

(* Mutant: a conversation that has rows is complete.                       *)
UpToDateOnce(r) == MaxSeq > 0

UpToDate(r) == MaxSeq >= Len(run[r].past)

(* Bootstrap: the session has as many messages as the conversation rows?   *)
Bootstrap(r) ==
    /\ At(r, "bootstrapping")
    /\ Open
    /\ run' = [run EXCEPT ![r].conv = Opened.id, ![r].seq = MaxSeq,
                          ![r].pc = IF UpToDate(r) THEN "assembling" ELSE "importing"]
    /\ UNCHANGED <<session, file, trouble>>

Missing(r) == SubSeq(run[r].past, run[r].seq + 1, Len(run[r].past))

Import(r) ==
    /\ At(r, "importing")
    /\ IngestMessages(r, Missing(r))
    /\ Goto(r, "assembling")
    /\ UNCHANGED <<session, file, ids, trouble>>

(* The seq is taken, the conversation gone, or the database locked: the    *)
(* caller ignores the error.                                               *)
ImportFails(r) ==
    /\ At(r, "bootstrapping") \/ At(r, "importing")
    /\ Goto(r, "assembling")
    /\ trouble' = trouble \cup {"unimported"}
    /\ UNCHANGED <<session, file, conv, ids>>

(* What Assemble may keep: at least the fresh tail, and before it as many  *)
(* items as the budget has room for.                                       *)
Assembled(items) ==
    LET n == Len(items)
        freshStart == IF n > FreshTail THEN n - FreshTail ELSE 0
    IN {SubSeq(items, k + 1, n) : k \in 0..freshStart}

(* BuildMessages; an empty context means the session's own history.        *)
Assemble(r) ==
    /\ At(r, "assembling")
    /\ Open
    /\ \E prompt \in Assembled(Opened.items) :
         run' = [run EXCEPT ![r].pc = "answering", ![r].conv = Opened.id,
                            ![r].prompt = prompt]
    /\ UNCHANGED <<session, file, trouble>>

(* lcm_grep or lcm_describe: reads, of a conversation made if need be.     *)
LcmTool(r) ==
    /\ At(r, "answering") /\ conv.id = 0
    /\ Open
    /\ UNCHANGED <<session, file, run, trouble>>

TurnFails(r) ==
    /\ At(r, "answering")
    /\ Finish(r)
    /\ UNCHANGED <<session, file, conv, ids, trouble>>

AddUserMessage(r) ==
    /\ At(r, "answering")
    /\ session' = Append(session, UserOf(r))
    /\ run' = [run EXCEPT ![r] = Begun("recording")]
    /\ UNCHANGED <<file, conv, ids, trouble>>

(* AddMessage, and Save.                                                   *)
AddAssistantMessage(r) ==
    /\ At(r, "recording")
    /\ session' = Append(session, AssistantOf(r))
    /\ file' = session'
    /\ Goto(r, "ingesting")
    /\ UNCHANGED <<conv, ids, trouble>>

-----------------------------------------------------------------------------
(* IngestTurn.                                                             *)

Ingest(r) ==
    /\ At(r, "ingesting")
    /\ Open
    /\ run' = [run EXCEPT ![r].conv = Opened.id, ![r].seq = MaxSeq, ![r].pc = "inserting"]
    /\ UNCHANGED <<session, file, trouble>>

InsertTurn(r) ==
    /\ At(r, "inserting")
    /\ IngestMessages(r, <<UserOf(r), AssistantOf(r)>>)
    /\ Goto(r, "scanning")
    /\ UNCHANGED <<session, file, ids, trouble>>

(* An error of IngestTurn: the turn is not recorded here.                  *)
IngestFails(r) ==
    /\ At(r, "ingesting") \/ At(r, "inserting")
    /\ Finish(r)
    /\ UNCHANGED <<session, file, conv, ids, trouble>>

(* The context is below the threshold, or the scan finds too little.       *)
NoCompaction(r) ==
    /\ At(r, "scanning")
    /\ Finish(r)
    /\ UNCHANGED <<session, file, conv, ids, trouble>>

(* RunIncremental reads the ordinals: the messages from the first item on, *)
(* up to the first summary and not into the fresh tail, cut to a number of *)
(* tokens.                                                                 *)
Evictable == IF Len(conv.items) > FreshTail THEN Len(conv.items) - FreshTail ELSE 0

(* Mutant: the fresh tail is not spared.                                   *)
LeafEndsToTail ==
    {k \in LeafMinFanout..Len(conv.items) :
        \A i \in 1..k : conv.items[i].kind = "message"}

(* Mutant: any number of messages will do, even none.                     *)
LeafEndsAny == {k \in 0..Evictable : \A i \in 1..k : conv.items[i].kind = "message"}

LeafEnds ==
    {k \in LeafMinFanout..Evictable : \A i \in 1..k : conv.items[i].kind = "message"}

(* Mutant: the cut is not made to the range.                               *)
LeafRangeUncut(r, k) ==
    run' = [run EXCEPT ![r].pc = "leaf", ![r].start = 0, ![r].end = Evictable,
                       ![r].rows = Covered(SubSeq(conv.items, 1, k))]

LeafRange(r, k) ==
    run' = [run EXCEPT ![r].pc = "leaf", ![r].start = 0, ![r].end = k,
                       ![r].rows = Covered(SubSeq(conv.items, 1, k))]

Contended(r) == {"contended" : q \in {p \in Runs : run[p].pc \in {"leaf", "condensing", "condensed"}}}

RunIncremental(r) ==
    /\ At(r, "scanning") /\ Current(r)
    /\ \E k \in LeafEnds : LeafRange(r, k)
    /\ trouble' = trouble \cup Contended(r)
    /\ UNCHANGED <<session, file, conv, ids>>

(* The summary has come, or is the text cut short.  IncrementalMaxDepth    *)
(* only tells whether to condense.                                         *)
ReplaceByLeaf(r) ==
    /\ At(r, "leaf") /\ Current(r)
    /\ ReplaceContextRange(r, "leaf")
    /\ IF IncrementalMaxDepth # 0
       THEN run' = [run EXCEPT ![r].pc = "condensing", ![r].rows = {}, ![r].end = 0]
       ELSE Finish(r)
    /\ UNCHANGED <<session, file, ids, trouble>>

(* The first segment of leaves before the fresh tail that is long enough,  *)
(* cut to a number of tokens.                                              *)
IsLeafRun(i, j) == \A k \in i..j : conv.items[k].kind = "leaf"

Segments ==
    {s \in (1..Evictable) \X (1..Evictable) :
        /\ s[2] - s[1] + 1 >= CondensedMinFanout
        /\ IsLeafRun(s[1], s[2])
        /\ s[1] > 1 => ~IsLeafRun(s[1] - 1, s[1] - 1)}

FirstSegments == {s \in Segments : \A t \in Segments : s[1] <= t[1]}

CondensedRange(r, s) ==
    run' = [run EXCEPT ![r].pc = "condensed", ![r].start = s[1] - 1, ![r].end = s[2],
                       ![r].rows = Covered(SubSeq(conv.items, s[1], s[2]))]

RunCondensation(r) ==
    /\ At(r, "condensing") /\ Current(r)
    /\ \E s \in FirstSegments : CondensedRange(r, s)
    /\ UNCHANGED <<session, file, conv, ids, trouble>>

ReplaceByCondensed(r) ==
    /\ At(r, "condensed") /\ Current(r)
    /\ ReplaceContextRange(r, "condensed")
    /\ Finish(r)
    /\ UNCHANGED <<session, file, ids, trouble>>

(* No segment, an error of the store, or a conversation that is gone.      *)
CompactionEnds(r) ==
    /\ run[r].pc \in {"leaf", "condensing", "condensed"}
    /\ Finish(r)
    /\ UNCHANGED <<session, file, conv, ids, trouble>>

-----------------------------------------------------------------------------
(* /new, and the end of a process.                                         *)

(* Clear, Save, Invalidate.                                                *)
ClearMessages(r) ==
    /\ At(r, "idle") /\ r \in News
    /\ session' = <<>> /\ file' = <<>>
    /\ Goto(r, "deleting")
    /\ trouble' = trouble \cup Overlap(r)
    /\ UNCHANGED <<conv, ids>>

(* Foreign keys are on in the first connection of the pool only; there a   *)
(* condensed summary restricts the deletion of its sources.                *)
Restricted ==
    /\ "overlap" \notin trouble
    /\ \E i \in DOMAIN conv.items : conv.items[i].kind = "condensed"

ClearSession(r) ==
    /\ At(r, "deleting") /\ ~Restricted
    /\ conv' = NoConversation
    /\ Finish(r)
    /\ UNCHANGED <<session, file, ids, trouble>>

(* processMessage ignores the error.                                       *)
ClearSessionFails(r) ==
    /\ At(r, "deleting")
    /\ Finish(r)
    /\ trouble' = trouble \cup {"undeleted"}
    /\ UNCHANGED <<session, file, conv, ids>>

(* The session comes from its file again, the conversation is as it was.   *)
Crash ==
    /\ \E r \in Runs : Busy(r)
    /\ "crash" \notin trouble
    /\ session' = file
    /\ run' = [r \in Runs |-> IF At(r, "idle") THEN run[r] ELSE Begun("done")]
    /\ trouble' = trouble \cup {"crash"} \cup
         {"undeleted" : r \in {q \in Runs : At(q, "deleting")}}
    /\ UNCHANGED <<file, conv, ids>>

-----------------------------------------------------------------------------
Step(r) ==
    \/ Begin(r) \/ Bootstrap(r) \/ Import(r) \/ ImportFails(r) \/ Assemble(r)
    \/ LcmTool(r) \/ TurnFails(r) \/ AddUserMessage(r) \/ AddAssistantMessage(r)
    \/ Ingest(r) \/ InsertTurn(r) \/ IngestFails(r) \/ NoCompaction(r)
    \/ RunIncremental(r) \/ ReplaceByLeaf(r) \/ RunCondensation(r)
    \/ ReplaceByCondensed(r) \/ CompactionEnds(r)
    \/ ClearMessages(r) \/ ClearSession(r) \/ ClearSessionFails(r)

Next == Crash \/ \E r \in Runs : Step(r)

Spec == Init /\ [][Next]_vars

-----------------------------------------------------------------------------
(* Types; every item stands for rows of the conversation.                  *)
TypeOK ==
    /\ session \in Seq(Message) /\ file \in Seq(Message)
    /\ conv \in Conversation /\ ids \in Nat /\ conv.id <= ids
    /\ \A i \in DOMAIN conv.items :
         conv.items[i].rows # {} /\ conv.items[i].rows \subseteq DOMAIN conv.rows
    /\ run \in [Runs -> Locals]
    /\ trouble \subseteq {"overlap", "contended", "unimported", "undeleted", "crash"}

(* "No cycles: summaries only reference strictly older material"           *)
(* (doc/LCM.md): however stale the ordinals of a compaction, the context   *)
(* has no row twice and its items in the order of the conversation.        *)
ContextInOrder == InOrder(conv.items)

(* Compress, do not drop: as long as no two compactions are at work at     *)
(* once, every row is in the context, raw or in a summary.  Turns that are *)
(* ingested meanwhile do no harm; a second compaction does.                *)
NothingDropped ==
    "contended" \notin trouble => Covered(conv.items) = DOMAIN conv.rows

(* "messages protected from compaction" (FreshTailCount): a step that      *)
(* leaves the conversation does not summarise one of its newest messages.  *)
Raw(c, row) == \E i \in DOMAIN c.items : c.items[i] = [kind |-> "message", rows |-> {row}]

FreshTailKept ==
    [][ (conv'.id = conv.id /\ "contended" \notin trouble) =>
          \A row \in DOMAIN conv.rows :
              Raw(conv, row) /\ row > Len(conv.rows) - FreshTail => Raw(conv', row) ]_vars

(* What the model is given is the end of the session, and not less of it   *)
(* than the fresh tail: after failed ingestions and crashes too, for the   *)
(* next Bootstrap imports what is missing.  It takes that the session's    *)
(* requests come one after the other, that no import failed and that /new  *)
(* was able to delete the conversation.                                    *)
PromptIsSession ==
    trouble \subseteq {"crash"} =>
        \A r \in Runs : At(r, "answering") /\ run[r].prompt # <<>> =>
            LET n == Len(run[r].past)
                rows == Covered(run[r].prompt)
            IN /\ conv.rows = run[r].past /\ InOrder(run[r].prompt)
               /\ \E k \in 0..n : rows = (k + 1)..n
               /\ rows = 1..n \/ Len(run[r].prompt) >= FreshTail
=============================================================================
