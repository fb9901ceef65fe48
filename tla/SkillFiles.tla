------------------------------ MODULE SkillFiles ------------------------------
(***************************************************************************)
(* One skill, skills/<name>/SKILL.md, and those that write it without a    *)
(* lock: calls of the skill_manage tool, and reviews of the skill          *)
(* maintainer, which back the file up, use the same tool, look at the      *)
(* result and put the backup back.  A write of the file is one step        *)
(* (CuratedMemory takes os.WriteFile apart), which may fail, before the    *)
(* file is opened or with a part of the text written; the errors of a      *)
(* backup, a validation and a rollback are ignored by the code.            *)
(***************************************************************************)
EXTENDS Naturals

CONSTANTS
    Calls,       \* calls of the tool by runs of the agent
    Reviews,     \* reviews of the maintainer
    Bodies,      \* contents of SKILL.md
    WellFormed   \* those with front matter and a description

FilesAssumption ==
    /\ Calls \cap Reviews = {}
    /\ Bodies # {} /\ "none" \notin Bodies /\ WellFormed \subseteq Bodies

VARIABLES
    dir,      \* the skill's directory exists
    body,     \* SKILL.md, None without one
    proc,     \* the locals of each process
    trouble   \* history: what has happened so far

vars == <<dir, body, proc, trouble>>

Processes == Calls \cup Reviews
None == "none"

(* A patch fits one content: there old_string occurs exactly once.         *)
Operations ==
    [action : {"create", "edit", "delete"}, content : Bodies, fits : {None}]
      \cup [action : {"patch"}, content : Bodies, fits : Bodies]

(* The agent writes no skill that is not well formed.                      *)
ToolOperations == {op \in Operations : op.content \in WellFormed}
ReviewOperations == {op \in Operations : op.action \in {"create", "patch"}}

Phases == {"idle", "reflected", "checked", "calling", "creating", "patching", "executed", "done"}
Idle ==
    [pc |-> "idle", op |-> CHOOSE op \in Operations : TRUE, prev |-> None, mine |-> None,
     ok |-> FALSE]

At(p, phase) == proc[p].pc = phase
Finish(p) == proc' = [proc EXCEPT ![p] = [Idle EXCEPT !.pc = "done"]]

Init ==
    /\ body \in {None} \cup WellFormed
    /\ dir \in (IF body = None THEN BOOLEAN ELSE {TRUE})
    /\ proc = [p \in Processes |-> Idle]
    /\ trouble = {}

-----------------------------------------------------------------------------
(* SkillManageTool.Execute                                                 *)

Asked(p) ==
    CASE p \in Calls /\ At(p, "idle") -> ToolOperations
      [] At(p, "calling") -> {proc[p].op}
      [] OTHER -> {}

Returned(p, ok, mine) ==
    IF p \in Calls THEN Finish(p)
    ELSE proc' = [proc EXCEPT ![p].pc = "executed", ![p].ok = ok, ![p].mine = mine]

Refused(p) == Returned(p, FALSE, proc[p].mine)
Goes(p, op, phase) == proc' = [proc EXCEPT ![p].pc = phase, ![p].op = op]

(* create makes the directory before it looks for the file.                *)
Create(p) ==
    /\ \E op \in Asked(p) :
         /\ op.action = "create"
         /\ IF body = None THEN Goes(p, op, "creating") ELSE Refused(p)
    /\ dir' = TRUE
    /\ UNCHANGED <<body, trouble>>

PatchReads(p) ==
    /\ \E op \in Asked(p) :
         /\ op.action = "patch"
         /\ IF body = op.fits THEN Goes(p, op, "patching") ELSE Refused(p)
    /\ UNCHANGED <<dir, body, trouble>>

(* An error of the file system before anything is written.                 *)
ToolFails(p) ==
    /\ Asked(p) # {} \/ At(p, "creating") \/ At(p, "patching")
    /\ Refused(p)
    /\ UNCHANGED <<dir, body, trouble>>

(* os.WriteFile makes the file, but not its directory.  What is left of a  *)
(* text when the write fails is not well formed.                           *)
Torn == Bodies \ WellFormed

Writes(p, op) ==
    /\ dir
    /\ \/ body' = op.content /\ Returned(p, TRUE, op.content) /\ UNCHANGED trouble
       \/ /\ body' \in Torn
          /\ Returned(p, FALSE, body')
          /\ trouble' = IF p \in Calls THEN trouble \cup {"failed"} ELSE trouble
    /\ UNCHANGED dir

WriteFile(p) ==
    /\ At(p, "creating") \/ At(p, "patching")
    /\ Writes(p, proc[p].op)

Edit(p) == \E op \in Asked(p) : op.action = "edit" /\ Writes(p, op)

(* os.RemoveAll, which may leave the directory.                            *)
Delete(p) ==
    /\ \E op \in Asked(p) : op.action = "delete"
    /\ dir' \in {dir, FALSE} /\ body' = None
    /\ Returned(p, ~dir', None)
    /\ UNCHANGED trouble

-----------------------------------------------------------------------------
(* reflectAndApplyMode, from the answer of the provider on.                *)

Reflect(v) ==
    /\ v \in Reviews /\ At(v, "idle")
    /\ \E op \in ReviewOperations : Goes(v, op, "reflected")
    /\ UNCHANGED <<dir, body, trouble>>

(* A directory of the name counts, with a SKILL.md or without, and so does *)
(* a skill that is like it; none is found when skills/ cannot be read.     *)
NearDuplicate(v) ==
    /\ At(v, "reflected") /\ proc[v].op.action = "create"
    /\ Finish(v)
    /\ UNCHANGED <<dir, body, trouble>>

NotADuplicate(v) ==
    /\ At(v, "reflected")
    /\ proc' = [proc EXCEPT ![v].pc = "checked"]
    /\ UNCHANGED <<dir, body, trouble>>

(* prev, _ := os.ReadFile(skillPath)                                       *)
Backup(v) ==
    /\ At(v, "checked")
    /\ \E prev \in {body, None} :
         /\ proc' = [proc EXCEPT ![v].pc = "calling", ![v].prev = prev, ![v].mine = body]
         /\ trouble' = IF prev \in Torn THEN trouble \cup {"unchecked"} ELSE trouble
    /\ UNCHANGED <<dir, body>>

(* Mutant: what the tool reports is enough.                                *)
AcceptedUnread(v) == proc[v].ok

Accepted(v) == proc[v].ok /\ body \in WellFormed

Succeed(v) ==
    /\ At(v, "executed") /\ Accepted(v)
    /\ Finish(v)
    /\ UNCHANGED <<dir, body, trouble>>

(* A create that fails on a skill which was there, or whose text cannot be *)
(* read back, becomes a patch of its whole text.                           *)
CanFallBack(v) == proc[v].op.action = "create" /\ proc[v].prev # None

FallBack(v) ==
    /\ At(v, "executed") /\ CanFallBack(v)
    /\ proc' = [proc EXCEPT ![v].pc = "calling", ![v].op.action = "patch",
                            ![v].op.fits = proc[v].prev]
    /\ UNCHANGED <<dir, body, trouble>>

(* rollbackSkillFile: without a backup the file goes, its directory stays. *)
Rollback(v) ==
    /\ At(v, "executed") /\ ~CanFallBack(v)
    /\ body' = proc[v].prev
    /\ dir' = (dir \/ proc[v].prev # None)
    /\ Finish(v)
    /\ trouble' = IF body = proc[v].mine THEN trouble ELSE trouble \cup {"stale"}

Left(text) == trouble' = IF text \in Torn THEN trouble \cup {"failed"} ELSE trouble

(* _ = rollbackSkillFile(skillPath, prev): the file stays as it is, or is  *)
(* torn.                                                                   *)
RollbackFails(v) ==
    /\ At(v, "executed") /\ ~CanFallBack(v)
    /\ body' \in {body} \cup (IF proc[v].prev = None THEN {} ELSE Torn)
    /\ dir' = (dir \/ body' # None)
    /\ Finish(v)
    /\ Left(body')

(* The process ends, perhaps in the middle of a write, and starts again.   *)
MayWrite(p) ==
    At(p, "creating") \/ At(p, "patching") \/ At(p, "executed") \/ Asked(p) # {}

Crash ==
    /\ \E p \in Processes : ~At(p, "done")
    /\ body' \in {body} \cup (IF dir /\ \E p \in Processes : MayWrite(p) THEN Torn ELSE {})
    /\ proc' = [p \in Processes |-> IF At(p, "idle") THEN Idle ELSE [Idle EXCEPT !.pc = "done"]]
    /\ Left(body')
    /\ UNCHANGED dir

-----------------------------------------------------------------------------
Step(p) ==
    \/ Create(p) \/ PatchReads(p) \/ ToolFails(p) \/ WriteFile(p) \/ Edit(p) \/ Delete(p)
    \/ Reflect(p) \/ NearDuplicate(p) \/ NotADuplicate(p) \/ Backup(p)
    \/ Succeed(p) \/ FallBack(p) \/ Rollback(p) \/ RollbackFails(p)

Next == Crash \/ \E p \in Processes : Step(p)

Spec == Init /\ [][Next]_vars

-----------------------------------------------------------------------------
(* Types; where there is a SKILL.md there is its directory.                *)
TypeOK ==
    /\ dir \in BOOLEAN /\ body \in Bodies \cup {None}
    /\ body # None => dir
    /\ proc \in [Processes ->
         [pc : Phases, op : Operations, prev : Bodies \cup {None}, mine : Bodies \cup {None},
          ok : BOOLEAN]]
    /\ trouble \subseteq {"stale", "unchecked", "failed"}

(* "rollback on failed write/validation": reviews that are over leave no   *)
(* skill behind that is not well formed, whoever else writes the file      *)
(* meanwhile, also when their write fails half-way, or the read of their   *)
(* backup or of the result.  The exceptions are a backup put over what     *)
(* another process has written since, one made of the malformed text of a  *)
(* review that was about to roll it back, a write of the agent's that      *)
(* fails half-way, a rollback that fails, and an end of the process        *)
(* between the malformed write and the rollback or in the middle of one.   *)
MalformedUndone ==
    ( trouble = {} /\ \A v \in Reviews : proc[v].pc \in {"idle", "reflected", "done"} )
    => body \in WellFormed \cup {None}
=============================================================================
