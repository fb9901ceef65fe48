---------------------------- MODULE LearnersProofs ----------------------------
(***************************************************************************)
(* Safety of the learners: the thresholds of a maintainer for every batch, *)
(* target and gains, a skill file for every set of writers and texts, the  *)
(* gate of a maintainer for every set of sessions and callers.  A step of  *)
(* MCLearners is a step of one of them and leaves the others alone (lemma  *)
(* Parts), so that each has an invariant of its own.                       *)
(***************************************************************************)
EXTENDS MCLearners, SequenceTheorems, TLAPS

LEMMA Parts ==
    ASSUME [Next]_vars
    PROVE  /\ [Gate!Next]_gateVars
           /\ [Thresholds!Next]_thresholdVars
           /\ [Files!Next]_fileVars
  BY DEF Next, vars

LEMMA Assumptions ==
    Gate!GateAssumption /\ Thresholds!ThresholdsAssumption /\ Files!FilesAssumption
  BY LearnersAssumption DEF LearnersAssumption

-----------------------------------------------------------------------------
(* Thresholds                                                              *)

(* The rate of bad outcomes is between nothing and all.                    *)
LEMMA RateBounds ==
    ASSUME NEW g \in Nat, NEW b \in Nat, g + b > 0
    PROVE  (b * 1000) \div (g + b) \in 0..1000
<1> DEFINE n == g + b
           x == b * 1000
           q == x \div n
<1>1. n \in Nat /\ n > 0 /\ x \in Nat /\ x <= n * 1000
  OBVIOUS
<1> HIDE DEF n, x
<1>2. q \in Int /\ n * q <= x /\ x < n * (q + 1)
  BY <1>1
<1> HIDE DEF q
<1>3. q >= 0
  <2> SUFFICES ASSUME q <= 0 - 1 PROVE FALSE
    BY <1>2
  <2>1. n * (q + 1) <= 0
    BY <1>1, <1>2
  <2> QED
    BY <1>1, <1>2, <2>1
<1>4. q <= 1000
  <2> SUFFICES ASSUME q >= 1001 PROVE FALSE
    BY <1>2
  <2>1. n * 1001 <= n * q
    BY <1>1, <1>2
  <2> QED
    BY <1>1, <1>2, <2>1
<1> QED
  BY <1>2, <1>3, <1>4 DEF q, n, x

LEMMA ErrorBounds ==
    ASSUME NEW g \in Nat, NEW b \in Nat, g + b > 0
    PROVE  Thresholds!Error(g, b) \in (-Target)..(1000 - Target)
<1>1. (b * 1000) \div (g + b) \in 0..1000
  BY RateBounds
<1>2. Target \in Int
  BY Assumptions DEF Thresholds!ThresholdsAssumption
<1> DEFINE rate == (b * 1000) \div (g + b)
<1>3. Thresholds!Error(g, b) = rate - Target
  BY DEF Thresholds!Error
<1> HIDE DEF rate
<1>4. rate \in 0..1000
  BY <1>1 DEF rate
<1> QED
  BY <1>2, <1>3, <1>4

(* A clamped number is within the bounds, or one of them if they are the   *)
(* wrong way round.                                                        *)
LEMMA ClampBounds ==
    ASSUME NEW v \in Int, NEW lo \in Int, NEW hi \in Int
    PROVE  /\ Thresholds!Clamp(v, lo, hi) \in (lo..hi) \cup {lo, hi}
           /\ Thresholds!Clamp(v, lo, hi) \in Int
  BY DEF Thresholds!Clamp

LEMMA TruncatedInt ==
    ASSUME NEW n \in Int, NEW d \in Thresholds!Truncated(n)
    PROVE  d \in Int
<1> DEFINE size == IF n < 0 THEN -n ELSE n
           whole == size \div 1000
           wholes == IF size % 1000 = 0 /\ whole > 0 THEN {whole, whole - 1} ELSE {whole}
<1>1. size \in Nat
  OBVIOUS
<1>2. whole \in Int
  BY <1>1
<1>3. Thresholds!Truncated(n) = IF n < 0 THEN {-w : w \in wholes} ELSE wholes
  BY DEF Thresholds!Truncated
<1> HIDE DEF size, whole
<1>4. wholes \subseteq Int
  BY <1>2
<1> HIDE DEF wholes
<1>5. CASE n < 0
  <2>1. PICK w \in wholes : d = -w
    BY <1>3, <1>5
  <2> QED
    BY <1>4, <2>1
<1>6. CASE ~(n < 0)
  BY <1>3, <1>4, <1>6
<1> QED
  BY <1>5, <1>6

(* What a batch adds to the floors is a number, tuned or not.               *)
LEMMA DeltasInt ==
    ASSUME NEW err \in Int, NEW sum \in Int, NEW step \in Int,
           NEW delta \in Thresholds!Deltas(err, sum, step)
    PROVE  delta \in Int
<1> DEFINE output == Kp * err + Ki * sum + Kd * step
<1>1. CASE tuning
  <2>1. delta \in -7..7
    BY <1>1 DEF Thresholds!Deltas
  <2> QED
    BY <2>1
<1>2. CASE ~tuning
  <2>1. PICK d \in Thresholds!Truncated(output) : delta = Thresholds!Clamp(d, -7, 7)
    BY <1>2 DEF Thresholds!Deltas
  <2>2. output \in Int
    BY Assumptions DEF Thresholds!ThresholdsAssumption
  <2> HIDE DEF output
  <2>3. d \in Int
    BY <2>1, <2>2, TruncatedInt
  <2> QED
    BY <2>1, <2>3, ClampBounds
<1> QED
  BY <1>1, <1>2

(* A batch sets floors within their bounds and saves them.                 *)
LEMMA ObserveBounds ==
    ASSUME Thresholds!TypeOK, quality \in Int, confidence \in Int,
           NEW g \in Nat, NEW b \in Nat, g + b > 0,
           Thresholds!Observe(g, b)
    PROVE  /\ quality' \in Thresholds!Floors /\ confidence' \in Thresholds!Floors
           /\ integral' \in -3000..3000 /\ prevErr' \in (-Target)..(1000 - Target)
           /\ saved' = <<quality', confidence'>>
<1> DEFINE err == Thresholds!Error(g, b)
           next == Thresholds!IntegralOf(err)
<1>1. /\ Target \in Int /\ Kp \in Int /\ Ki \in Int /\ Kd \in Int
      /\ MinFloor \in Int /\ MaxFloor \in Int
  BY Assumptions DEF Thresholds!ThresholdsAssumption
<1>2. err \in (-Target)..(1000 - Target) /\ err \in Int
  BY <1>1, ErrorBounds
<1>3. integral \in Int /\ prevErr \in Int
  BY <1>1 DEF Thresholds!TypeOK
<1>4. PICK delta \in Thresholds!Deltas(err, next, err - prevErr) :
        /\ quality' = Thresholds!Clamp(quality + delta, MinFloor, MaxFloor)
        /\ confidence' = Thresholds!Clamp(confidence + delta, MinFloor, MaxFloor)
        /\ integral' = next /\ prevErr' = err
        /\ saved' = <<quality', confidence'>>
  BY DEF Thresholds!Observe
<1> HIDE DEF err
<1>5. next \in -3000..3000
  <2> DEFINE sum == integral + err
  <2>1. sum \in Int
    BY <1>2, <1>3
  <2>2. next = IF sum < -3000 THEN -3000 ELSE IF sum > 3000 THEN 3000 ELSE sum
    BY DEF Thresholds!IntegralOf, Thresholds!Clamp
  <2> HIDE DEF next, sum
  <2> QED
    BY <2>1, <2>2
<1> HIDE DEF next
<1>6. next \in Int /\ err - prevErr \in Int
  BY <1>2, <1>3, <1>5
<1>7. delta \in Int
  BY <1>2, <1>4, <1>6, DeltasInt
<1>8. quality + delta \in Int /\ confidence + delta \in Int
  BY <1>7
<1>9. quality' \in Thresholds!Floors /\ confidence' \in Thresholds!Floors
  BY <1>1, <1>4, <1>8, ClampBounds DEF Thresholds!Floors
<1> QED
  BY <1>2, <1>4, <1>5, <1>9

LEMMA FloorsInt ==
    ASSUME Thresholds!TypeOK
    PROVE  quality \in Int /\ confidence \in Int
<1>1. StartQuality \in Int /\ StartConfidence \in Int /\ MinFloor \in Int /\ MaxFloor \in Int
  BY Assumptions DEF Thresholds!ThresholdsAssumption
<1>2. Thresholds!Floors \subseteq Int
  BY <1>1 DEF Thresholds!Floors
<1>3. CASE saved = <<>>
  BY <1>1, <1>3 DEF Thresholds!TypeOK
<1>4. CASE saved # <<>>
  <2>1. PICK x \in Thresholds!Floors, y \in Thresholds!Floors : saved = <<x, y>>
    BY <1>4 DEF Thresholds!TypeOK
  <2>2. saved = <<quality, confidence>>
    BY <1>4 DEF Thresholds!TypeOK
  <2> QED
    BY <1>2, <2>1, <2>2
<1> QED
  BY <1>3, <1>4

(* Counting an outcome, with or without the end of a batch.                *)
LEMMA RecordStep ==
    ASSUME Thresholds!TypeOK,
           NEW g \in Nat, NEW b \in Nat, g + b > 0, g <= Batch, b <= Batch,
           Thresholds!Record(g, b), last' \in {"start", "good", "bad"}, tuning' = tuning
    PROVE  Thresholds!TypeOK'
<1>1. Batch \in Nat \ {0}
  BY Assumptions DEF Thresholds!ThresholdsAssumption
<1>2. CASE g + b < Batch
  <2>1. good' = g /\ bad' = b /\ UNCHANGED <<quality, confidence, integral, prevErr, saved>>
    BY <1>2 DEF Thresholds!Record
  <2>2. good' \in 0..(Batch - 1) /\ bad' \in 0..(Batch - 1) /\ good' + bad' < Batch
    BY <1>1, <1>2, <2>1
  <2> QED
    BY <2>1, <2>2 DEF Thresholds!TypeOK, Thresholds!Floors
<1>3. CASE ~(g + b < Batch)
  <2>1. good' = 0 /\ bad' = 0 /\ Thresholds!Observe(g, b)
    BY <1>3 DEF Thresholds!Record
  <2>2. /\ quality' \in Thresholds!Floors /\ confidence' \in Thresholds!Floors
        /\ integral' \in -3000..3000 /\ prevErr' \in (-Target)..(1000 - Target)
        /\ saved' = <<quality', confidence'>>
    BY <2>1, FloorsInt, ObserveBounds
  <2>3. good' \in 0..(Batch - 1) /\ bad' \in 0..(Batch - 1) /\ good' + bad' < Batch
    BY <1>1, <2>1
  <2>4. saved' \in Thresholds!Floors \X Thresholds!Floors /\ saved' # <<>>
    BY <2>2
  <2> QED
    BY <2>2, <2>3, <2>4 DEF Thresholds!TypeOK, Thresholds!Floors
<1> QED
  BY <1>2, <1>3

LEMMA ThresholdsInit == Thresholds!Init => Thresholds!TypeOK
<1> SUFFICES ASSUME Thresholds!Init PROVE Thresholds!TypeOK
  OBVIOUS
<1>1. Batch \in Nat \ {0}
  BY Assumptions DEF Thresholds!ThresholdsAssumption
<1> QED
  BY <1>1 DEF Thresholds!Init, Thresholds!TypeOK

(* Every step keeps the types: an outcome is counted, or the maintainer    *)
(* starts again with the floors it has saved.                              *)
LEMMA ThresholdsStep == Thresholds!TypeOK /\ [Thresholds!Next]_thresholdVars => Thresholds!TypeOK'
<1> SUFFICES ASSUME Thresholds!TypeOK, [Thresholds!Next]_thresholdVars PROVE Thresholds!TypeOK'
  OBVIOUS
<1>0. /\ Batch \in Nat \ {0} /\ good \in Nat /\ bad \in Nat /\ good + bad < Batch
  BY Assumptions DEF Thresholds!ThresholdsAssumption, Thresholds!TypeOK
<1>1. CASE UNCHANGED thresholdVars
  BY <1>1 DEF thresholdVars, Thresholds!TypeOK, Thresholds!Floors
<1>2. ASSUME Thresholds!Record(good, bad + 1), last' = "bad", tuning' = tuning
      PROVE  Thresholds!TypeOK'
  <2>1. bad + 1 \in Nat /\ good + (bad + 1) > 0 /\ good <= Batch /\ bad + 1 <= Batch
    BY <1>0
  <2> QED
    BY <1>0, <1>2, <2>1, RecordStep
<1>3. ASSUME Thresholds!Record(good + 1, bad), last' = "good", tuning' = tuning
      PROVE  Thresholds!TypeOK'
  <2>1. good + 1 \in Nat /\ (good + 1) + bad > 0 /\ good + 1 <= Batch /\ bad <= Batch
    BY <1>0
  <2> QED
    BY <1>0, <1>3, <2>1, RecordStep
<1>4. ASSUME Thresholds!Restart, tuning' = tuning PROVE Thresholds!TypeOK'
  <2>1. /\ good' = 0 /\ bad' = 0 /\ integral' = 0 /\ prevErr' = 0 /\ last' = "start"
        /\ saved' = saved /\ tuning' = tuning
    BY <1>4 DEF Thresholds!Restart
  <2>2. good' \in 0..(Batch - 1) /\ bad' \in 0..(Batch - 1) /\ good' + bad' < Batch
    BY <1>0, <2>1
  <2>3. CASE saved = <<>>
    BY <1>4, <2>1, <2>2, <2>3 DEF Thresholds!Restart, Thresholds!TypeOK, Thresholds!Floors
  <2>4. CASE saved # <<>>
    <3>1. saved = <<quality, confidence>>
      BY <2>4 DEF Thresholds!TypeOK
    <3>2. quality' = saved[1] /\ confidence' = saved[2]
      BY <1>4, <2>4 DEF Thresholds!Restart
    <3>3. saved' = <<quality', confidence'>>
      BY <2>1, <3>1, <3>2
    <3> QED
      BY <2>1, <2>2, <2>4, <3>3 DEF Thresholds!TypeOK, Thresholds!Floors
  <2> QED
    BY <2>3, <2>4
<1>5. ASSUME Thresholds!Drop, tuning' = tuning PROVE Thresholds!TypeOK'
  BY <1>2, <1>5 DEF Thresholds!Drop
<1>6. ASSUME Thresholds!Rollback, tuning' = tuning PROVE Thresholds!TypeOK'
  BY <1>2, <1>6 DEF Thresholds!Rollback
<1>7. ASSUME Thresholds!Apply, tuning' = tuning PROVE Thresholds!TypeOK'
  BY <1>3, <1>7 DEF Thresholds!Apply
<1> QED
  BY <1>1, <1>4, <1>5, <1>6, <1>7 DEF Thresholds!Next

-----------------------------------------------------------------------------
(* Skill files.  A malformed text is only ever written by a review, and    *)
(* until that review is over it still has to look at the file (GuardInv).  *)
(* What the tool is asked to do by a run of the agent is well formed       *)
(* (CallsInv).                                                             *)

Good == WellFormed \cup {Files!None}
Busy == {"calling", "creating", "patching", "executed"}

CallsInv ==
    \A p \in Calls :
      /\ proc[p].pc \in {"idle", "creating", "patching", "done"}
      /\ proc[p].pc \in {"creating", "patching"} => proc[p].op.content \in WellFormed

GuardInv ==
    trouble = {} =>
      /\ body \in Good \/ \E v \in Reviews : proc[v].pc \in Busy
      /\ \A v \in Reviews : proc[v].pc \in Busy => proc[v].prev \in Good

FilesInv == Files!TypeOK /\ CallsInv /\ GuardInv

LocalsSet ==
    [pc : Files!Phases, op : Files!Operations, prev : Bodies \cup {Files!None},
     mine : Bodies \cup {Files!None}, ok : BOOLEAN]

LEMMA Assumed ==
    /\ Calls \cap Reviews = {} /\ Bodies # {} /\ Files!None \notin Bodies
    /\ WellFormed \subseteq Bodies
  BY Assumptions DEF Files!FilesAssumption, Files!None

LEMMA IdleLocals == Files!Idle \in LocalsSet
<1>1. PICK b \in Bodies : TRUE
  BY Assumed
<1>2. [action |-> "create", content |-> b, fits |-> Files!None] \in Files!Operations
  BY DEF Files!Operations
<1>3. (CHOOSE op \in Files!Operations : TRUE) \in Files!Operations
  BY <1>2
<1> QED
  BY <1>3 DEF Files!Idle, LocalsSet, Files!Phases

LEMMA FilesInit == Files!Init => FilesInv
<1> SUFFICES ASSUME Files!Init PROVE FilesInv
  OBVIOUS
<1>1. proc = [p \in Files!Processes |-> Files!Idle] /\ trouble = {}
  BY DEF Files!Init
<1>2. proc \in [Files!Processes -> LocalsSet]
  BY <1>1, IdleLocals
<1>3. /\ body \in WellFormed \cup {Files!None} /\ dir \in BOOLEAN
      /\ body # Files!None => dir
  <2>1. CASE body = Files!None
    BY <2>1 DEF Files!Init
  <2>2. CASE body # Files!None
    BY <2>2 DEF Files!Init
  <2> QED
    BY <2>1, <2>2
<1>4. Files!TypeOK
  BY <1>1, <1>2, <1>3, Assumed DEF Files!TypeOK, LocalsSet
<1>5. \A p \in Files!Processes : proc[p].pc = "idle"
  BY <1>1 DEF Files!Idle
<1>6. CallsInv
  BY <1>5 DEF CallsInv, Files!Processes
<1>7. GuardInv
  BY <1>3, <1>5 DEF GuardInv, Good, Busy, Files!Processes
<1> QED
  BY <1>4, <1>6, <1>7 DEF FilesInv

(* The locals of a process change, and those of the others do not.         *)
Moves(p) ==
    /\ proc' \in [Files!Processes -> LocalsSet]
    /\ \A o \in Files!Processes : o # p => proc'[o] = proc[o]

LEMMA LocalsOf ==
    ASSUME Files!TypeOK, NEW p \in Files!Processes
    PROVE  /\ proc \in [Files!Processes -> LocalsSet]
           /\ proc[p] \in LocalsSet
  BY DEF Files!TypeOK, LocalsSet

LEMMA MovesOf ==
    ASSUME Files!TypeOK, NEW p \in Files!Processes, NEW l \in LocalsSet,
           proc' = [proc EXCEPT ![p] = l]
    PROVE  Moves(p) /\ proc'[p] = l
  BY LocalsOf DEF Moves

(* What has happened, and a torn text of which nothing is well formed.     *)
Troubles == {"stale", "unchecked", "failed"}
LEMMA TornTexts ==
    /\ Files!Torn \subseteq Bodies
    /\ \A text \in Bodies \cup {Files!None} : text \in Good \/ text \in Files!Torn
  BY DEF Files!Torn, Good

(* A call of the tool that has not written anything malformed, or has it   *)
(* on record.                                                              *)
LEMMA CallMoves ==
    ASSUME FilesInv, NEW p \in Calls, Moves(p), trouble' \subseteq Troubles,
           trouble' = {} => trouble = {} /\ body' \in {body} \cup Good,
           dir' \in BOOLEAN, body' \in Bodies \cup {Files!None}, body' # Files!None => dir',
           proc'[p].pc \in {"idle", "creating", "patching", "done"},
           proc'[p].pc \in {"creating", "patching"} => proc'[p].op.content \in WellFormed
    PROVE  FilesInv'
<1>0. Files!TypeOK /\ CallsInv /\ GuardInv
  BY DEF FilesInv
<1>1. Files!TypeOK'
  BY <1>0, Assumed DEF Files!TypeOK, Moves, LocalsSet, Troubles
<1>2. CallsInv'
  BY <1>0 DEF CallsInv, Moves, Files!Processes
<1>3. \A v \in Reviews : proc'[v] = proc[v]
  BY Assumed DEF Moves, Files!Processes
<1>4. GuardInv'
  BY <1>0, <1>3 DEF GuardInv, Good
<1> QED
  BY <1>1, <1>2, <1>4 DEF FilesInv

(* A review that goes on, and may have written anything.                   *)
LEMMA ReviewMoves ==
    ASSUME FilesInv, NEW v \in Reviews, Moves(v), trouble' \subseteq Troubles,
           trouble' = {} => trouble = {},
           dir' \in BOOLEAN, body' \in Bodies \cup {Files!None}, body' # Files!None => dir',
           trouble' = {} =>
             /\ proc'[v].pc \in Busy => proc'[v].prev \in Good
             /\ \/ proc'[v].pc \in Busy
                \/ body' \in Good
                \/ proc[v].pc \notin Busy /\ body' = body
    PROVE  FilesInv'
<1>0. Files!TypeOK /\ CallsInv /\ GuardInv
  BY DEF FilesInv
<1>1. Files!TypeOK'
  BY <1>0 DEF Files!TypeOK, Moves, LocalsSet, Troubles
<1>2. \A p \in Calls : proc'[p] = proc[p]
  BY Assumed DEF Moves, Files!Processes
<1>3. CallsInv'
  BY <1>0, <1>2 DEF CallsInv
<1>4. \A w \in Reviews : w # v => proc'[w] = proc[w]
  BY DEF Moves, Files!Processes
<1>5. GuardInv'
  <2> SUFFICES ASSUME trouble' = {}
               PROVE  /\ body' \in Good \/ \E w \in Reviews : proc'[w].pc \in Busy
                      /\ \A w \in Reviews : proc'[w].pc \in Busy => proc'[w].prev \in Good
    BY DEF GuardInv, Good
  <2>1. trouble = {}
    OBVIOUS
  <2>2. \A w \in Reviews : proc'[w].pc \in Busy => proc'[w].prev \in Good
    BY <1>0, <1>4, <2>1 DEF GuardInv
  <2>3. body' \in Good \/ \E w \in Reviews : proc'[w].pc \in Busy
    <3>1. CASE proc[v].pc \notin Busy /\ body' = body
      <4>1. CASE body \in Good
        BY <3>1, <4>1
      <4>2. CASE body \notin Good
        <5>1. PICK w \in Reviews : proc[w].pc \in Busy
          BY <1>0, <2>1, <4>2 DEF GuardInv
        <5>2. w # v
          BY <3>1, <5>1
        <5> QED
          BY <1>4, <5>1, <5>2
      <4> QED
        BY <4>1, <4>2
    <3> QED
      BY <3>1
  <2> QED
    BY <2>2, <2>3
<1> QED
  BY <1>1, <1>3, <1>5 DEF FilesInv

(* What the moves of a process leave in its locals.                        *)
LEMMA FinishMoves ==
    ASSUME Files!TypeOK, NEW p \in Files!Processes, Files!Finish(p)
    PROVE  Moves(p) /\ proc'[p].pc = "done"
<1> DEFINE l == [Files!Idle EXCEPT !.pc = "done"]
<1>1. l \in LocalsSet /\ l.pc = "done"
  BY IdleLocals DEF LocalsSet, Files!Phases
<1>2. proc' = [proc EXCEPT ![p] = l]
  BY DEF Files!Finish
<1> HIDE DEF l
<1> QED
  BY <1>1, <1>2, MovesOf

LEMMA GoesMoves ==
    ASSUME Files!TypeOK, NEW p \in Files!Processes, NEW op \in Files!Operations,
           NEW phase \in Files!Phases, Files!Goes(p, op, phase)
    PROVE  /\ Moves(p) /\ proc'[p].pc = phase /\ proc'[p].op = op
           /\ proc'[p].prev = proc[p].prev
<1> DEFINE l == [proc[p] EXCEPT !.pc = phase, !.op = op]
<1>1. l \in LocalsSet /\ l.pc = phase /\ l.op = op /\ l.prev = proc[p].prev
  BY LocalsOf DEF LocalsSet
<1>2. proc' = [proc EXCEPT ![p] = l]
  BY LocalsOf DEF Files!Goes
<1> HIDE DEF l
<1> QED
  BY <1>1, <1>2, MovesOf

LEMMA ReturnedMoves ==
    ASSUME Files!TypeOK, NEW v \in Reviews, NEW ok \in BOOLEAN,
           NEW mine \in Bodies \cup {Files!None}, Files!Returned(v, ok, mine)
    PROVE  Moves(v) /\ proc'[v].pc = "executed" /\ proc'[v].prev = proc[v].prev
<1> DEFINE l == [proc[v] EXCEPT !.pc = "executed", !.ok = ok, !.mine = mine]
<1>0. v \in Files!Processes /\ v \notin Calls
  BY Assumed DEF Files!Processes
<1>1. proc[v] \in LocalsSet
  BY <1>0, LocalsOf
<1>2. l \in LocalsSet /\ l.pc = "executed" /\ l.prev = proc[v].prev
  BY <1>1 DEF LocalsSet, Files!Phases
<1>3. proc' = [proc EXCEPT ![v] = l]
  BY <1>0, LocalsOf DEF Files!Returned
<1> HIDE DEF l
<1> QED
  BY <1>0, <1>2, <1>3, MovesOf

LEMMA RefusedMoves ==
    ASSUME Files!TypeOK, NEW v \in Reviews, Files!Refused(v)
    PROVE  Moves(v) /\ proc'[v].pc = "executed" /\ proc'[v].prev = proc[v].prev
<1>1. proc[v].mine \in Bodies \cup {Files!None}
  BY LocalsOf DEF LocalsSet, Files!Processes
<1> QED
  BY <1>1, ReturnedMoves DEF Files!Refused

(* What the tool may be asked.                                             *)
LEMMA AskedOfCall ==
    ASSUME FilesInv, NEW p \in Calls, NEW op \in Files!Asked(p)
    PROVE  op \in Files!Operations /\ op.content \in WellFormed
<1>1. ~Files!At(p, "calling")
  BY DEF FilesInv, CallsInv, Files!At
<1>2. op \in Files!ToolOperations
  BY <1>1 DEF Files!Asked
<1> QED
  BY <1>2 DEF Files!ToolOperations

LEMMA AskedOfReview ==
    ASSUME FilesInv, NEW v \in Reviews, NEW op \in Files!Asked(v)
    PROVE  op \in Files!Operations /\ proc[v].pc = "calling" /\ op = proc[v].op
<1>1. v \notin Calls /\ v \in Files!Processes
  BY Assumed DEF Files!Processes
<1>2. Files!At(v, "calling") /\ op = proc[v].op
  BY <1>1 DEF Files!Asked
<1>3. proc[v] \in LocalsSet
  BY <1>1, LocalsOf DEF FilesInv
<1> QED
  BY <1>2, <1>3 DEF Files!At, LocalsSet

(* The steps of a call of the tool.                                        *)
LEMMA CallStep ==
    ASSUME FilesInv, NEW p \in Calls, Files!Step(p)
    PROVE  FilesInv'
<1>0. /\ Files!TypeOK /\ p \in Files!Processes /\ p \notin Reviews
      /\ proc[p].pc \in {"idle", "creating", "patching", "done"}
      /\ proc[p].pc \in {"creating", "patching"} => proc[p].op.content \in WellFormed
  BY Assumed DEF FilesInv, CallsInv, Files!Processes
<1>1. /\ dir \in BOOLEAN /\ (body # Files!None => dir) /\ body \in Bodies \cup {Files!None}
      /\ trouble \subseteq Troubles
  BY <1>0 DEF Files!TypeOK, Troubles
<1>2. ASSUME NEW ok, NEW mine, Files!Returned(p, ok, mine)
      PROVE  Moves(p) /\ proc'[p].pc = "done"
  BY <1>0, <1>2, FinishMoves DEF Files!Returned
<1>11. ASSUME Files!Refused(p) PROVE Moves(p) /\ proc'[p].pc = "done"
  BY <1>2, <1>11 DEF Files!Refused
<1>12. ASSUME NEW op \in Files!Asked(p), NEW phase \in {"creating", "patching"},
              Files!Goes(p, op, phase)
       PROVE  /\ Moves(p) /\ proc'[p].pc \in {"creating", "patching"}
              /\ proc'[p].op.content \in WellFormed
  <2>1. op \in Files!Operations /\ op.content \in WellFormed /\ phase \in Files!Phases
    BY AskedOfCall DEF Files!Phases
  <2> QED
    BY <1>0, <1>12, <2>1, GoesMoves
<1>3. CASE Files!Create(p)
  <2>1. PICK op \in Files!Asked(p) :
          IF body = Files!None THEN Files!Goes(p, op, "creating") ELSE Files!Refused(p)
    BY <1>3 DEF Files!Create
  <2>2. dir' = TRUE /\ body' = body /\ trouble' = trouble
    BY <1>3 DEF Files!Create
  <2>3. /\ Moves(p) /\ proc'[p].pc \in {"creating", "patching", "done"}
        /\ proc'[p].pc \in {"creating", "patching"} => proc'[p].op.content \in WellFormed
    BY <1>11, <1>12, <2>1
  <2> QED
    BY <1>1, <2>2, <2>3, CallMoves
<1>4. CASE Files!PatchReads(p)
  <2>1. PICK op \in Files!Asked(p) :
          IF body = op.fits THEN Files!Goes(p, op, "patching") ELSE Files!Refused(p)
    BY <1>4 DEF Files!PatchReads
  <2>2. dir' = dir /\ body' = body /\ trouble' = trouble
    BY <1>4 DEF Files!PatchReads
  <2>3. /\ Moves(p) /\ proc'[p].pc \in {"creating", "patching", "done"}
        /\ proc'[p].pc \in {"creating", "patching"} => proc'[p].op.content \in WellFormed
    BY <1>11, <1>12, <2>1
  <2> QED
    BY <1>1, <2>2, <2>3, CallMoves
<1>13. CASE Files!ToolFails(p)
  <2>1. Moves(p) /\ proc'[p].pc = "done" /\ UNCHANGED <<dir, body, trouble>>
    BY <1>11, <1>13 DEF Files!ToolFails
  <2> QED
    BY <1>1, <2>1, CallMoves
<1>5. ASSUME NEW op, op.content \in WellFormed, Files!Writes(p, op)
      PROVE  FilesInv'
  <2>1. Moves(p) /\ proc'[p].pc = "done"
    BY <1>2, <1>5 DEF Files!Writes
  <2>2. dir /\ dir' = dir
    BY <1>5 DEF Files!Writes
  <2>3. CASE body' = op.content /\ trouble' = trouble
    BY <1>1, <1>5, <2>1, <2>2, <2>3, Assumed, CallMoves DEF Good
  <2>4. CASE body' \in Files!Torn /\ trouble' = trouble \cup {"failed"}
    <3>1. body' \in Bodies /\ trouble' \subseteq Troubles /\ trouble' # {}
      BY <1>1, <2>4, TornTexts DEF Troubles
    <3> QED
      BY <1>1, <2>1, <2>2, <3>1, CallMoves
  <2> QED
    BY <1>0, <1>5, <2>3, <2>4 DEF Files!Writes
<1>6. CASE Files!WriteFile(p)
  BY <1>0, <1>5, <1>6 DEF Files!WriteFile, Files!At
<1>7. CASE Files!Edit(p)
  BY <1>5, <1>7, AskedOfCall DEF Files!Edit
<1>8. CASE Files!Delete(p)
  <2>1. Moves(p) /\ proc'[p].pc = "done"
    BY <1>2, <1>8 DEF Files!Delete
  <2>2. dir' \in BOOLEAN /\ body' = Files!None /\ trouble' = trouble
    BY <1>1, <1>8 DEF Files!Delete
  <2> QED
    BY <1>1, <2>1, <2>2, CallMoves DEF Good
<1>9. ~Files!Reflect(p)
  BY <1>0 DEF Files!Reflect
<1>10. /\ ~Files!NearDuplicate(p) /\ ~Files!NotADuplicate(p) /\ ~Files!Backup(p)
       /\ ~Files!Succeed(p) /\ ~Files!FallBack(p) /\ ~Files!Rollback(p)
       /\ ~Files!RollbackFails(p)
  BY <1>0 DEF Files!NearDuplicate, Files!NotADuplicate, Files!Backup, Files!Succeed,
              Files!FallBack, Files!Rollback, Files!RollbackFails, Files!At
<1> QED
  BY <1>3, <1>4, <1>6, <1>7, <1>8, <1>9, <1>10, <1>13 DEF Files!Step

(* The steps of a review.                                                  *)
LEMMA ReviewStep ==
    ASSUME FilesInv, NEW v \in Reviews, Files!Step(v)
    PROVE  FilesInv'
<1>0. /\ Files!TypeOK /\ v \in Files!Processes /\ v \notin Calls
      /\ proc[v] \in LocalsSet
  BY Assumed, LocalsOf DEF FilesInv, Files!Processes
<1>1. /\ dir \in BOOLEAN /\ body \in Bodies \cup {Files!None} /\ (body # Files!None => dir)
      /\ trouble \subseteq Troubles
  BY <1>0 DEF Files!TypeOK, Troubles
<1>2. /\ proc[v].pc \in Files!Phases /\ proc[v].op \in Files!Operations
      /\ proc[v].prev \in Bodies \cup {Files!None} /\ proc[v].op.content \in Bodies
  BY <1>0 DEF LocalsSet, Files!Operations
<1>3. trouble = {} /\ proc[v].pc \in Busy => proc[v].prev \in Good
  BY DEF FilesInv, GuardInv
<1>4. ASSUME Moves(v), proc'[v].pc \in Busy, proc'[v].prev = proc[v].prev, proc[v].pc \in Busy,
             UNCHANGED trouble, dir' \in BOOLEAN, body' \in Bodies \cup {Files!None},
             body' # Files!None => dir'
      PROVE  FilesInv'
  BY <1>1, <1>3, <1>4, ReviewMoves
<1>5. CASE Files!Create(v)
  <2>1. PICK op \in Files!Asked(v) :
          IF body = Files!None THEN Files!Goes(v, op, "creating") ELSE Files!Refused(v)
    BY <1>5 DEF Files!Create
  <2>2. dir' = TRUE /\ body' = body /\ trouble' = trouble
    BY <1>5 DEF Files!Create
  <2>3. op \in Files!Operations /\ proc[v].pc = "calling"
    BY AskedOfReview
  <2>4. Moves(v) /\ proc'[v].pc \in Busy /\ proc'[v].prev = proc[v].prev
    <3>1. CASE Files!Goes(v, op, "creating")
      BY <1>0, <2>3, <3>1, GoesMoves DEF Files!Phases, Busy
    <3>2. CASE Files!Refused(v)
      BY <1>0, <3>2, RefusedMoves DEF Busy
    <3> QED
      BY <2>1, <3>1, <3>2
  <2> QED
    BY <1>1, <1>4, <2>2, <2>3, <2>4 DEF Busy
<1>6. CASE Files!PatchReads(v)
  <2>1. PICK op \in Files!Asked(v) :
          IF body = op.fits THEN Files!Goes(v, op, "patching") ELSE Files!Refused(v)
    BY <1>6 DEF Files!PatchReads
  <2>2. dir' = dir /\ body' = body /\ trouble' = trouble
    BY <1>6 DEF Files!PatchReads
  <2>3. op \in Files!Operations /\ proc[v].pc = "calling"
    BY AskedOfReview
  <2>4. Moves(v) /\ proc'[v].pc \in Busy /\ proc'[v].prev = proc[v].prev
    <3>1. CASE Files!Goes(v, op, "patching")
      BY <1>0, <2>3, <3>1, GoesMoves DEF Files!Phases, Busy
    <3>2. CASE Files!Refused(v)
      BY <1>0, <3>2, RefusedMoves DEF Busy
    <3> QED
      BY <2>1, <3>1, <3>2
  <2> QED
    BY <1>1, <1>4, <2>2, <2>3, <2>4 DEF Busy
<1>18. CASE Files!ToolFails(v)
  <2>1. /\ Moves(v) /\ proc'[v].pc = "executed" /\ proc'[v].prev = proc[v].prev
        /\ UNCHANGED <<dir, body, trouble>>
    BY <1>0, <1>18, RefusedMoves DEF Files!ToolFails
  <2>2. proc[v].pc \in Busy
    <3>1. CASE Files!Asked(v) # {}
      BY <3>1, AskedOfReview DEF Busy
    <3>2. CASE Files!Asked(v) = {}
      BY <1>18, <3>2 DEF Files!ToolFails, Files!At, Busy
    <3> QED
      BY <3>1, <3>2
  <2> QED
    BY <1>1, <1>4, <2>1, <2>2 DEF Busy
<1>7. ASSUME NEW op \in Files!Operations, proc[v].pc \in Busy, Files!Writes(v, op)
      PROVE  FilesInv'
  <2>1. dir /\ dir' = dir /\ trouble' = trouble
    BY <1>0, <1>7 DEF Files!Writes
  <2>2. op.content \in Bodies
    BY DEF Files!Operations
  <2>3. CASE body' = op.content /\ Files!Returned(v, TRUE, op.content)
    <3>1. Moves(v) /\ proc'[v].pc \in Busy /\ proc'[v].prev = proc[v].prev
      BY <1>0, <2>2, <2>3, ReturnedMoves DEF Busy
    <3> QED
      BY <1>1, <1>4, <1>7, <2>1, <2>2, <2>3, <3>1
  <2>4. CASE body' \in Files!Torn /\ Files!Returned(v, FALSE, body')
    <3>1. body' \in Bodies
      BY <2>4, TornTexts
    <3>2. PICK text \in Bodies : text = body'
      BY <3>1
    <3>3. Moves(v) /\ proc'[v].pc \in Busy /\ proc'[v].prev = proc[v].prev
      BY <1>0, <2>4, <3>2, ReturnedMoves DEF Busy
    <3> QED
      BY <1>1, <1>4, <1>7, <2>1, <3>1, <3>3
  <2> QED
    BY <1>7, <2>3, <2>4 DEF Files!Writes
<1>8. CASE Files!WriteFile(v)
  BY <1>2, <1>7, <1>8 DEF Files!WriteFile, Files!At, Busy
<1>9. CASE Files!Edit(v)
  BY <1>7, <1>9, AskedOfReview DEF Files!Edit, Busy
<1>10. CASE Files!Delete(v)
  <2>1. PICK op \in Files!Asked(v) : op.action = "delete"
    BY <1>10 DEF Files!Delete
  <2>2. dir' \in BOOLEAN /\ body' = Files!None /\ trouble' = trouble
    BY <1>1, <1>10 DEF Files!Delete
  <2>3. proc[v].pc = "calling"
    BY AskedOfReview
  <2>4. Moves(v) /\ proc'[v].pc = "executed" /\ proc'[v].prev = proc[v].prev
    <3>1. PICK ok \in BOOLEAN : ok = ~dir'
      BY <2>2
    <3>2. Files!Returned(v, ok, Files!None)
      BY <1>10, <3>1 DEF Files!Delete
    <3> QED
      BY <1>0, <3>2, ReturnedMoves
  <2> QED
    BY <1>4, <2>2, <2>3, <2>4 DEF Busy
<1>11. CASE Files!Reflect(v)
  <2>1. PICK op \in Files!ReviewOperations : Files!Goes(v, op, "reflected")
    BY <1>11 DEF Files!Reflect
  <2>2. op \in Files!Operations
    BY DEF Files!ReviewOperations
  <2>3. Moves(v) /\ proc'[v].pc = "reflected"
    BY <1>0, <2>1, <2>2, GoesMoves DEF Files!Phases
  <2>4. proc[v].pc \notin Busy /\ UNCHANGED <<dir, body, trouble>>
    BY <1>11 DEF Files!Reflect, Files!At, Busy
  <2> QED
    BY <1>1, <2>3, <2>4, ReviewMoves DEF Busy
<1>12. CASE Files!NearDuplicate(v)
  <2>1. Moves(v) /\ proc'[v].pc = "done"
    BY <1>0, <1>12, FinishMoves DEF Files!NearDuplicate
  <2>2. proc[v].pc \notin Busy /\ UNCHANGED <<dir, body, trouble>>
    BY <1>12 DEF Files!NearDuplicate, Files!At, Busy
  <2> QED
    BY <1>1, <2>1, <2>2, ReviewMoves DEF Busy
<1>13. CASE Files!NotADuplicate(v)
  <2> DEFINE l == [proc[v] EXCEPT !.pc = "checked"]
  <2>1. l \in LocalsSet /\ l.pc = "checked"
    BY <1>0 DEF LocalsSet, Files!Phases
  <2>2. proc' = [proc EXCEPT ![v] = l]
    BY <1>0, <1>13, LocalsOf DEF Files!NotADuplicate
  <2> HIDE DEF l
  <2>3. Moves(v) /\ proc'[v].pc = "checked"
    BY <1>0, <2>1, <2>2, MovesOf
  <2>4. proc[v].pc \notin Busy /\ UNCHANGED <<dir, body, trouble>>
    BY <1>13 DEF Files!NotADuplicate, Files!At, Busy
  <2> QED
    BY <1>1, <2>3, <2>4, ReviewMoves DEF Busy
<1>14. CASE Files!Backup(v)
  <2>5. PICK prev \in {body, Files!None} :
          /\ proc' = [proc EXCEPT ![v].pc = "calling", ![v].prev = prev, ![v].mine = body]
          /\ trouble' = IF prev \in Files!Torn THEN trouble \cup {"unchecked"} ELSE trouble
    BY <1>14 DEF Files!Backup
  <2>6. prev \in Bodies \cup {Files!None}
    BY <1>1
  <2> DEFINE l == [proc[v] EXCEPT !.pc = "calling", !.prev = prev, !.mine = body]
  <2>1. l \in LocalsSet /\ l.pc = "calling" /\ l.prev = prev
    BY <1>0, <1>1, <2>6 DEF LocalsSet, Files!Phases
  <2>2. proc' = [proc EXCEPT ![v] = l]
    BY <1>0, <2>5, LocalsOf
  <2> HIDE DEF l
  <2>3. Moves(v) /\ proc'[v].pc = "calling" /\ proc'[v].prev = prev
    BY <1>0, <2>1, <2>2, MovesOf
  <2>4. UNCHANGED <<dir, body>> /\ trouble' \subseteq Troubles
    BY <1>1, <1>14, <2>5 DEF Files!Backup, Troubles
  <2>7. trouble' = {} => trouble = {} /\ prev \in Good
    BY <2>5, <2>6, TornTexts
  <2> QED
    BY <1>1, <2>3, <2>4, <2>7, ReviewMoves DEF Busy
<1>15. CASE Files!Succeed(v)
  <2>1. Moves(v) /\ proc'[v].pc = "done"
    BY <1>0, <1>15, FinishMoves DEF Files!Succeed
  <2>2. body \in Good /\ UNCHANGED <<dir, body, trouble>>
    BY <1>15 DEF Files!Succeed, Files!Accepted, Good
  <2> QED
    BY <1>1, <2>1, <2>2, ReviewMoves DEF Busy
<1>16. CASE Files!FallBack(v)
  <2> DEFINE patch == [proc[v].op EXCEPT !.action = "patch", !.fits = proc[v].prev]
             l == [proc[v] EXCEPT !.pc = "calling", !.op = patch]
  <2>1. patch \in Files!Operations
    <3>1. proc[v].prev \in Bodies
      BY <1>2, <1>16 DEF Files!FallBack, Files!CanFallBack
    <3> QED
      BY <1>2, <3>1 DEF Files!Operations
  <2>2. /\ proc' = [proc EXCEPT ![v].pc = "calling", ![v].op.action = "patch",
                                ![v].op.fits = proc[v].prev]
        /\ proc[v].pc = "executed" /\ UNCHANGED <<dir, body, trouble>>
    BY <1>16 DEF Files!FallBack, Files!At
  <2>3. proc' = [proc EXCEPT ![v] = l]
    BY <1>0, <1>2, <2>2, LocalsOf DEF LocalsSet, Files!Operations
  <2> HIDE DEF patch
  <2>4. l \in LocalsSet /\ l.pc = "calling" /\ l.prev = proc[v].prev
    BY <1>0, <2>1 DEF LocalsSet, Files!Phases
  <2> HIDE DEF l
  <2>5. Moves(v) /\ proc'[v].pc = "calling" /\ proc'[v].prev = proc[v].prev
    BY <1>0, <2>3, <2>4, MovesOf
  <2> QED
    BY <1>1, <1>4, <2>2, <2>5 DEF Busy
<1>17. CASE Files!Rollback(v)
  <2>1. Moves(v) /\ proc'[v].pc = "done"
    BY <1>0, <1>17, FinishMoves DEF Files!Rollback
  <2>2. /\ proc[v].pc = "executed" /\ body' = proc[v].prev
        /\ dir' = (dir \/ proc[v].prev # Files!None)
        /\ trouble' = IF body = proc[v].mine THEN trouble ELSE trouble \cup {"stale"}
    BY <1>17 DEF Files!Rollback, Files!At
  <2>3. trouble = {} => body' \in Good
    BY <1>3, <2>2 DEF Busy
  <2>4. /\ dir' \in BOOLEAN /\ (body' # Files!None => dir')
        /\ body' \in Bodies \cup {Files!None}
    BY <1>1, <1>2, <2>2
  <2>5. trouble' \subseteq Troubles /\ (trouble' = {} => trouble = {})
    BY <1>1, <2>2 DEF Troubles
  <2> QED
    BY <2>1, <2>3, <2>4, <2>5, ReviewMoves DEF Busy
<1>19. CASE Files!RollbackFails(v)
  <2>1. Moves(v) /\ proc'[v].pc = "done"
    BY <1>0, <1>19, FinishMoves DEF Files!RollbackFails
  <2>2. /\ body' \in {body} \cup Files!Torn /\ dir' = (dir \/ body' # Files!None)
        /\ trouble' = IF body' \in Files!Torn THEN trouble \cup {"failed"} ELSE trouble
    BY <1>19 DEF Files!RollbackFails, Files!Left
  <2>3. body' \in Bodies \cup {Files!None}
    BY <1>1, <2>2, TornTexts
  <2>4. /\ dir' \in BOOLEAN /\ (body' # Files!None => dir')
        /\ trouble' \subseteq Troubles /\ (trouble' = {} => trouble = {})
    BY <1>1, <2>2 DEF Troubles
  <2>5. trouble' = {} => body' \in Good
    BY <2>2, <2>3, TornTexts
  <2> QED
    BY <2>1, <2>3, <2>4, <2>5, ReviewMoves DEF Busy
<1> QED
  BY <1>5, <1>6, <1>8, <1>9, <1>10, <1>11, <1>12, <1>13, <1>14, <1>15, <1>16, <1>17, <1>18,
     <1>19 DEF Files!Step

(* The end of the process.                                                 *)
LEMMA CrashStep ==
    ASSUME FilesInv, Files!Crash
    PROVE  FilesInv'
<1>0. Files!TypeOK /\ CallsInv /\ GuardInv
  BY DEF FilesInv
<1>1. /\ dir \in BOOLEAN /\ body \in Bodies \cup {Files!None} /\ (body # Files!None => dir)
      /\ trouble \subseteq Troubles
  BY <1>0 DEF Files!TypeOK, Troubles
<1>2. /\ dir' = dir /\ body' \in {body} \cup (IF dir THEN Files!Torn ELSE {})
      /\ trouble' = IF body' \in Files!Torn THEN trouble \cup {"failed"} ELSE trouble
  BY DEF Files!Crash, Files!Left
<1>3. proc' \in [Files!Processes -> LocalsSet]
  <2>1. [Files!Idle EXCEPT !.pc = "done"] \in LocalsSet
    BY IdleLocals DEF LocalsSet, Files!Phases
  <2> QED
    BY <2>1, IdleLocals DEF Files!Crash
<1>4. \A p \in Files!Processes : proc'[p].pc \in {"idle", "done"}
  BY DEF Files!Crash, Files!Idle
<1>5. body' \in Bodies \cup {Files!None} /\ (body' # Files!None => dir')
  BY <1>1, <1>2, TornTexts
<1>6. Files!TypeOK'
  BY <1>1, <1>2, <1>3, <1>5 DEF Files!TypeOK, LocalsSet, Troubles
<1>7. CallsInv'
  BY <1>4 DEF CallsInv, Files!Processes
<1>8. GuardInv'
  BY <1>2, <1>4, <1>5, TornTexts DEF GuardInv, Good, Busy, Files!Processes
<1> QED
  BY <1>6, <1>7, <1>8 DEF FilesInv

LEMMA FilesStep == FilesInv /\ [Files!Next]_fileVars => FilesInv'
<1> SUFFICES ASSUME FilesInv, [Files!Next]_fileVars PROVE FilesInv'
  OBVIOUS
<1>1. CASE UNCHANGED fileVars
  BY <1>1 DEF fileVars, FilesInv, Files!TypeOK, CallsInv, GuardInv, Good
<1>2. CASE Files!Next
  BY <1>2, CallStep, ReviewStep, CrashStep DEF Files!Next, Files!Processes
<1> QED
  BY <1>1, <1>2

-----------------------------------------------------------------------------
(* The gate.  When a turn of a session was queued is known from when the   *)
(* session was noted, unless it is about to be (Spaced); who is past the   *)
(* test has found the interval over, and is the only one of its session.   *)
(* The memory maintainer owes that to the mutex it tests and notes under,  *)
(* the skill maintainer to calls that do not overlap.                      *)

Spaced ==
    /\ \A s \in Sessions :
         (\A c \in Callers : caller[c].at = "noting" => caller[c].session # s)
           => since[s] <= queued[s]
    /\ \A c \in Callers :
         Gate!Sending(c) =>
           /\ queued[caller[c].session] >= MinInterval
           /\ kind = "memory" => since[caller[c].session] = 0
    /\ \A c, d \in Callers :
         c # d /\ caller[c].session = caller[d].session => caller[c].session = Gate!None
    /\ kind = "memory" => \A c \in Callers : caller[c].at # "noting"

GateInv == Gate!TypeOK /\ (kind = "memory" \/ ~overlap => Spaced)

CallerSet ==
    {Gate!Outside} \cup [at : {"sending", "noting"}, session : Sessions]

LEMMA GateNumbers ==
    /\ Gate!None \notin Sessions /\ Gate!Worker \notin Flushes
    /\ QueueSize \in Nat /\ NudgeInterval \in Nat \ {0} /\ MinInterval \in Nat \ {0}
    /\ Cooldown \in Nat /\ Backoff \in Nat /\ Patience \in Nat \ {0}
  BY Assumptions DEF Gate!GateAssumption, Gate!None, Gate!Worker

LEMMA GateZeros ==
    /\ 0 \in 0..(NudgeInterval - 1) /\ 0 \in 0..(Patience - 1)
    /\ 0 \in 0..MinInterval /\ MinInterval \in 0..MinInterval
    /\ 0 \in 0..Cooldown /\ Cooldown \in 0..Cooldown
    /\ 0 \in 0..(2 * Backoff) /\ Backoff \in 0..(2 * Backoff) /\ 2 * Backoff \in 0..(2 * Backoff)
  BY GateNumbers

LEMMA Remainder ==
    ASSUME NEW n \in Nat, NEW m \in Nat \ {0}
    PROVE  (n + 1) % m \in 0..(m - 1)
  OBVIOUS

LEMMA CallerFields ==
    ASSUME Gate!TypeOK, NEW c \in Callers
    PROVE  /\ caller \in [Callers -> CallerSet] /\ caller[c] \in CallerSet
           /\ caller[c].at \in {"outside", "sending", "noting"}
           /\ caller[c].at = "outside" <=> caller[c] = Gate!Outside
           /\ caller[c].at # "outside" => caller[c].session \in Sessions
           /\ caller[c].at = "outside" => caller[c].session = Gate!None
<1>1. caller \in [Callers -> CallerSet]
  BY DEF Gate!TypeOK, CallerSet
<1>2. caller[c] \in CallerSet
  BY <1>1
<1>3. CASE caller[c] = Gate!Outside
  BY <1>1, <1>3 DEF Gate!Outside, CallerSet
<1>4. CASE caller[c] \in [at : {"sending", "noting"}, session : Sessions]
  BY <1>1, <1>2, <1>4 DEF Gate!Outside
<1> QED
  BY <1>2, <1>3, <1>4 DEF CallerSet

LEMMA GateInit == Gate!Init => GateInv
<1> SUFFICES ASSUME Gate!Init PROVE GateInv
  OBVIOUS
<1>1. Gate!TypeOK
  <2>1. /\ kind \in {"memory", "skill"} /\ overlap \in BOOLEAN
        /\ queue \in Seq(Sessions) /\ Len(queue) <= QueueSize
    <3>1. queue = <<>> /\ kind \in {"memory", "skill"} /\ overlap = FALSE
      BY DEF Gate!Init
    <3>2. QueueSize \in Nat
      BY GateNumbers
    <3>3. queue \in Seq(Sessions)
      <4>1. <<>> \in Seq(Sessions)
        OBVIOUS
      <4> QED
        BY <3>1, <4>1, Zenon
    <3>4. Len(queue) <= QueueSize
      <4>1. Len(<<>>) = 0
        OBVIOUS
      <4>2. Len(queue) = 0
        BY <3>1, <4>1, Zenon
      <4> QED
        BY <3>2, <4>2
    <3>5. overlap \in BOOLEAN
      BY <3>1, Zenon
    <3> QED
      BY <3>1, <3>3, <3>4, <3>5, Zenon
  <2>2. /\ turns \in [Sessions -> 0..(NudgeInterval - 1)]
        /\ failures \in [Sessions -> 0..(Patience - 1)]
        /\ lowQuality \in [Sessions -> 0..(Patience - 1)]
    BY GateZeros DEF Gate!Init
  <2>3. /\ since \in [Sessions -> 0..MinInterval] /\ queued \in [Sessions -> 0..MinInterval]
        /\ midRun \in [Sessions -> 0..Cooldown]
        /\ backoff \in [Sessions -> 0..(2 * Backoff)]
    BY GateZeros DEF Gate!Init
  <2>4. /\ review \in [Gate!Reviewers -> Sessions \cup {Gate!None}]
        /\ caller \in [Callers -> CallerSet]
    BY DEF Gate!Init, CallerSet
  <2> QED
    BY <2>1, <2>2, <2>3, <2>4 DEF Gate!TypeOK, CallerSet
<1>2. \A c \in Callers : caller[c].at = "outside" /\ caller[c].session = Gate!None
  BY DEF Gate!Init, Gate!Outside
<1>3. \A s \in Sessions : since[s] = MinInterval /\ queued[s] = MinInterval
  BY DEF Gate!Init
<1>4. Spaced
  BY <1>2, <1>3, GateNumbers DEF Spaced, Gate!Sending
<1> QED
  BY <1>1, <1>4 DEF GateInv

(* Every step keeps the types.                                             *)
LEMMA GateTypes == Gate!TypeOK /\ [Gate!Next]_gateVars => Gate!TypeOK'
<1> SUFFICES ASSUME Gate!TypeOK, [Gate!Next]_gateVars PROVE Gate!TypeOK'
  OBVIOUS
<1>0. /\ kind \in {"memory", "skill"} /\ overlap \in BOOLEAN
      /\ turns \in [Sessions -> 0..(NudgeInterval - 1)]
      /\ since \in [Sessions -> 0..MinInterval] /\ queued \in [Sessions -> 0..MinInterval]
      /\ midRun \in [Sessions -> 0..Cooldown]
      /\ backoff \in [Sessions -> 0..(2 * Backoff)]
      /\ failures \in [Sessions -> 0..(Patience - 1)]
      /\ lowQuality \in [Sessions -> 0..(Patience - 1)]
      /\ queue \in Seq(Sessions) /\ Len(queue) <= QueueSize
      /\ review \in [Gate!Reviewers -> Sessions \cup {Gate!None}]
      /\ caller \in [Callers -> CallerSet]
  BY DEF Gate!TypeOK, CallerSet
<1>1. CASE UNCHANGED gateVars
  BY <1>1 DEF gateVars, Gate!TypeOK, Gate!Reviewers, Gate!Worker, Gate!None, Gate!Outside
<1>2. ASSUME NEW c \in Callers, Gate!ShouldRun(c) PROVE Gate!TypeOK'
  <2>1. PICK s \in Sessions :
          /\ turns' = [turns EXCEPT ![s] = (@ + 1) % NudgeInterval]
          /\ \/ /\ caller' = [caller EXCEPT ![c] = [at |-> "sending", session |-> s]]
                /\ since' = [since EXCEPT ![s] = 0] \/ since' = since
             \/ caller' = caller /\ since' = since
          /\ overlap' = (overlap \/ \E d \in Callers \ {c} : caller[d].session = s)
    BY <1>2 DEF Gate!ShouldRun
  <2>2. (turns[s] + 1) % NudgeInterval \in 0..(NudgeInterval - 1)
    <3>1. turns[s] \in Nat /\ NudgeInterval \in Nat \ {0}
      <4>1. turns[s] \in 0..(NudgeInterval - 1) /\ NudgeInterval \in Nat \ {0}
        BY <1>0, GateNumbers
      <4> QED
        BY <4>1
    <3> QED
      BY <3>1, Remainder
  <2>3. turns' \in [Sessions -> 0..(NudgeInterval - 1)]
    BY <1>0, <2>1, <2>2
  <2>4. since' \in [Sessions -> 0..MinInterval]
    BY <1>0, <2>1, GateZeros
  <2>5. caller' \in [Callers -> CallerSet]
    <3>1. [at |-> "sending", session |-> s] \in CallerSet
      BY DEF CallerSet
    <3> QED
      BY <1>0, <2>1, <3>1
  <2>6. overlap' \in BOOLEAN
    BY <1>0, <2>1
  <2>7. UNCHANGED <<kind, midRun, backoff, failures, lowQuality, queue, review, queued>>
    BY <1>2 DEF Gate!ShouldRun
  <2> QED
    BY <1>0, <2>3, <2>4, <2>5, <2>6, <2>7 DEF Gate!TypeOK, CallerSet
<1>3. ASSUME NEW c \in Callers, Gate!Send(c) PROVE Gate!TypeOK'
  <2>1. /\ caller[c].at = "sending" /\ Len(queue) < QueueSize
        /\ queue' = Append(queue, caller[c].session)
        /\ queued' = [queued EXCEPT ![caller[c].session] = 0]
        /\ \/ caller' = [caller EXCEPT ![c] = Gate!Outside]
           \/ caller' = [caller EXCEPT ![c] = [caller[c] EXCEPT !.at = "noting"]]
        /\ UNCHANGED <<kind, turns, since, midRun, backoff, failures, lowQuality, review, overlap>>
    BY <1>0, <1>3 DEF Gate!Send, Gate!Sending
  <2>2. caller[c].session \in Sessions /\ caller[c] \in [at : {"sending", "noting"}, session : Sessions]
    BY <2>1, CallerFields DEF CallerSet, Gate!Outside
  <2>3. caller' \in [Callers -> CallerSet]
    <3>1. [caller[c] EXCEPT !.at = "noting"] \in CallerSet
      BY <2>2 DEF CallerSet
    <3> QED
      BY <1>0, <2>1, <3>1 DEF CallerSet
  <2>4. queue' \in Seq(Sessions) /\ Len(queue') <= QueueSize
    BY <1>0, <2>1, <2>2, AppendProperties, GateNumbers, LenProperties
  <2>5. queued' \in [Sessions -> 0..MinInterval]
    BY <1>0, <2>1, GateZeros
  <2> QED
    BY <1>0, <2>1, <2>3, <2>4, <2>5 DEF Gate!TypeOK, CallerSet
<1>4. ASSUME NEW c \in Callers, Gate!DropTurn(c) \/ Gate!NoteQueuedRun(c) PROVE Gate!TypeOK'
  <2>1. /\ caller' = [caller EXCEPT ![c] = Gate!Outside]
        /\ since' = since \/ since' = [since EXCEPT ![caller[c].session] = 0]
        /\ UNCHANGED <<kind, turns, midRun, backoff, failures, lowQuality, queue, review, queued, overlap>>
    BY <1>4 DEF Gate!DropTurn, Gate!NoteQueuedRun
  <2>2. caller' \in [Callers -> CallerSet] /\ since' \in [Sessions -> 0..MinInterval]
    <3>1. Gate!Outside \in CallerSet
      BY DEF CallerSet
    <3> QED
      BY <1>0, <2>1, <3>1, GateZeros
  <2> QED
    BY <1>0, <2>1, <2>2 DEF Gate!TypeOK, CallerSet
<1>5. ASSUME NEW f \in Flushes, Gate!Flush(f) \/ Gate!MaybeReflectMidRun(f) PROVE Gate!TypeOK'
  <2>1. PICK s \in Sessions :
          /\ review' = [review EXCEPT ![f] = s]
          /\ midRun' = midRun \/ midRun' = [midRun EXCEPT ![s] = 0]
          /\ UNCHANGED <<kind, turns, since, backoff, failures, lowQuality, queue, caller, queued, overlap>>
    BY <1>5 DEF Gate!Flush, Gate!MaybeReflectMidRun
  <2>2. /\ review' \in [Gate!Reviewers -> Sessions \cup {Gate!None}]
        /\ midRun' \in [Sessions -> 0..Cooldown]
    BY <1>0, <2>1, GateZeros
  <2> QED
    BY <1>0, <2>1, <2>2 DEF Gate!TypeOK, CallerSet
<1>6. CASE Gate!TakeTurn
  <2>1. /\ queue # <<>> /\ queue' = Tail(queue)
        /\ review' = [review EXCEPT ![Gate!Worker] = Head(queue)]
        /\ UNCHANGED <<kind, turns, since, midRun, backoff, failures, lowQuality, caller, queued, overlap>>
    BY <1>6 DEF Gate!TakeTurn
  <2>2. /\ Head(queue) \in Sessions /\ Tail(queue) \in Seq(Sessions)
        /\ Len(Tail(queue)) = Len(queue) - 1 /\ Len(queue) \in Nat
    BY <1>0, <2>1, HeadTailProperties, LenProperties
  <2>3. review' \in [Gate!Reviewers -> Sessions \cup {Gate!None}]
    BY <1>0, <2>1, <2>2
  <2>4. queue' \in Seq(Sessions) /\ Len(queue') <= QueueSize
    BY <1>0, <2>1, <2>2, GateNumbers
  <2> QED
    BY <1>0, <2>1, <2>3, <2>4 DEF Gate!TypeOK, CallerSet
<1>7. ASSUME NEW v \in Gate!Reviewers, Gate!Outcome(v) PROVE Gate!TypeOK'
  <2>1. /\ review' = [review EXCEPT ![v] = Gate!None]
        /\ review[v] \in Sessions
        /\ UNCHANGED <<kind, turns, since, midRun, queue, caller, queued, overlap>>
    BY <1>0, <1>7 DEF Gate!Outcome, Gate!NoOperation, Gate!MarkSuccess, Gate!MarkFailure,
                      Gate!MarkLowQuality, Gate!Reviewed
  <2> DEFINE s == review[v]
  <2>2. /\ Gate!Counted(failures[s]) \in 0..(Patience - 1)
        /\ Gate!Counted(lowQuality[s]) \in 0..(Patience - 1)
    <3>1. /\ failures[s] \in 0..(Patience - 1) /\ lowQuality[s] \in 0..(Patience - 1)
          /\ Patience \in Nat \ {0}
      BY <1>0, <2>1, GateNumbers
    <3>2. failures[s] \in Nat /\ lowQuality[s] \in Nat
      BY <3>1
    <3> QED
      BY <3>1, <3>2, Remainder DEF Gate!Counted
  <2>4. /\ failures' \in {failures, [failures EXCEPT ![s] = 0],
                          [failures EXCEPT ![s] = Gate!Counted(@)]}
        /\ lowQuality' \in {lowQuality, [lowQuality EXCEPT ![s] = 0],
                            [lowQuality EXCEPT ![s] = Gate!Counted(@)]}
        /\ backoff' \in {backoff, [backoff EXCEPT ![s] = 0], [backoff EXCEPT ![s] = Backoff],
                         [backoff EXCEPT ![s] = 2 * Backoff]}
    <3>1. CASE Gate!NoOperation(v)
      BY <3>1 DEF Gate!NoOperation
    <3>2. CASE Gate!MarkSuccess(v)
      BY <3>2 DEF Gate!MarkSuccess
    <3>3. CASE Gate!MarkFailure(v)
      BY <3>3 DEF Gate!MarkFailure, Gate!BacksOff
    <3>4. CASE Gate!MarkLowQuality(v)
      BY <3>4 DEF Gate!MarkLowQuality, Gate!BacksOff
    <3> QED
      BY <1>7, <3>1, <3>2, <3>3, <3>4 DEF Gate!Outcome
  <2>5. failures' \in [Sessions -> 0..(Patience - 1)]
    BY <1>0, <2>1, <2>2, <2>4, GateZeros
  <2>6. lowQuality' \in [Sessions -> 0..(Patience - 1)]
    BY <1>0, <2>1, <2>2, <2>4, GateZeros
  <2>7. backoff' \in [Sessions -> 0..(2 * Backoff)]
    BY <1>0, <2>1, <2>4, GateZeros
  <2>8. review' \in [Gate!Reviewers -> Sessions \cup {Gate!None}]
    BY <1>0, <2>1
  <2> QED
    BY <1>0, <2>1, <2>5, <2>6, <2>7, <2>8 DEF Gate!TypeOK, CallerSet
<1>8. CASE Gate!Tick
  <2>1. /\ since' = [s \in Sessions |-> IF since[s] < MinInterval THEN since[s] + 1 ELSE MinInterval]
        /\ queued' = [s \in Sessions |-> IF queued[s] < MinInterval THEN queued[s] + 1 ELSE MinInterval]
        /\ midRun' = [s \in Sessions |-> IF midRun[s] < Cooldown THEN midRun[s] + 1 ELSE Cooldown]
        /\ backoff' = [s \in Sessions |-> IF backoff[s] > 0 THEN backoff[s] - 1 ELSE 0]
        /\ UNCHANGED <<kind, turns, failures, lowQuality, queue, caller, review, overlap>>
    BY <1>8 DEF Gate!Tick, Gate!Longer
  <2>2. since' \in [Sessions -> 0..MinInterval]
    BY <1>0, <2>1, GateNumbers
  <2>3. queued' \in [Sessions -> 0..MinInterval]
    BY <1>0, <2>1, GateNumbers
  <2>4. midRun' \in [Sessions -> 0..Cooldown]
    BY <1>0, <2>1, GateNumbers
  <2>5. backoff' \in [Sessions -> 0..(2 * Backoff)]
    BY <1>0, <2>1, GateNumbers
  <2> QED
    BY <1>0, <2>1, <2>2, <2>3, <2>4, <2>5 DEF Gate!TypeOK, CallerSet
<1> QED
  BY <1>1, <1>2, <1>3, <1>4, <1>5, <1>6, <1>7, <1>8 DEF Gate!Next, Gate!Enqueue

LEMMA Ages ==
    ASSUME Gate!TypeOK
    PROVE  /\ since \in [Sessions -> 0..MinInterval] /\ queued \in [Sessions -> 0..MinInterval]
           /\ \A s \in Sessions : since[s] \in Nat /\ queued[s] \in Nat
           /\ kind \in {"memory", "skill"} /\ overlap \in BOOLEAN
  BY GateNumbers DEF Gate!TypeOK

(* A step that leaves the gate alone, or in which the time passes.         *)
LEMMA SpacedElsewhere ==
    ASSUME Spaced, UNCHANGED <<kind, since, queued, caller>>
    PROVE  Spaced'
  BY DEF Spaced, Gate!Sending, Gate!None

LEMMA SpacedTick ==
    ASSUME Gate!TypeOK, Spaced, Gate!Tick
    PROVE  Spaced'
<1>1. /\ \A c \in Callers : caller[c].at = "outside"
      /\ caller' = caller /\ kind' = kind
      /\ since' = [s \in Sessions |-> IF since[s] < MinInterval THEN since[s] + 1 ELSE MinInterval]
      /\ queued' = [s \in Sessions |-> IF queued[s] < MinInterval THEN queued[s] + 1 ELSE MinInterval]
  BY DEF Gate!Tick, Gate!Longer, Gate!Outside
<1>2. \A s \in Sessions : since[s] <= queued[s]
  BY <1>1 DEF Spaced
<1>3. \A s \in Sessions : since'[s] <= queued'[s]
  BY <1>1, <1>2, Ages, GateNumbers
<1>4. \A c, d \in Callers :
        c # d /\ caller[c].session = caller[d].session => caller[c].session = Gate!None
  BY DEF Spaced
<1> QED
  BY <1>1, <1>3, <1>4 DEF Spaced, Gate!Sending, Gate!None

(* A run is let through: the memory maintainer notes it at once; the skill *)
(* maintainer will, and has no other run of the session at the gate.       *)
LEMMA SpacedShouldRun ==
    ASSUME Gate!TypeOK, Spaced, NEW c \in Callers, Gate!ShouldRun(c),
           kind = "memory" \/ ~overlap'
    PROVE  Spaced'
<1>1. PICK s \in Sessions :
        /\ IF Gate!Due(s)
           THEN /\ caller' = [caller EXCEPT ![c] = [at |-> "sending", session |-> s]]
                /\ since' = IF kind = "memory" THEN [since EXCEPT ![s] = 0] ELSE since
           ELSE UNCHANGED <<caller, since>>
        /\ overlap' = (overlap \/ \E d \in Callers \ {c} : caller[d].session = s)
  BY DEF Gate!ShouldRun
<1>2. kind' = kind /\ queued' = queued /\ caller[c] = Gate!Outside
  BY DEF Gate!ShouldRun
<1>3. CASE ~Gate!Due(s)
  BY <1>1, <1>2, <1>3, SpacedElsewhere
<1>4. CASE Gate!Due(s)
  <2> DEFINE l == [at |-> "sending", session |-> s]
  <2>0. l.at = "sending" /\ l.session = s
    OBVIOUS
  <2>1. /\ caller' = [caller EXCEPT ![c] = l]
        /\ since' = IF kind = "memory" THEN [since EXCEPT ![s] = 0] ELSE since
        /\ since[s] >= MinInterval
    BY <1>1, <1>4 DEF Gate!Due
  <2> HIDE DEF l
  <2>2. caller'[c] = l /\ \A d \in Callers : d # c => caller'[d] = caller[d]
    BY <2>1, CallerFields
  <2>3. /\ \A t \in Sessions : since'[t] \in Nat /\ since'[t] <= since[t]
        /\ \A t \in Sessions : t # s => since'[t] = since[t]
        /\ kind = "memory" => since'[s] = 0
    BY <2>1, Ages
  <2>4. \A d \in Callers : d # c => caller[d].session # s
    <3>1. CASE kind = "memory"
      <4> SUFFICES ASSUME NEW d \in Callers, caller[d].session = s PROVE FALSE
        BY <3>1
      <4>1. caller[d].at = "sending"
        BY <3>1, CallerFields, GateNumbers DEF Spaced
      <4>2. since[s] = 0
        BY <3>1, <4>1 DEF Spaced, Gate!Sending
      <4> QED
        BY <2>1, <4>2, GateNumbers
    <3>2. CASE kind # "memory"
      BY <1>1, <3>2
    <3> QED
      BY <3>1, <3>2
  <2>5. \A d \in Callers : caller[d].at = "noting" => caller[d].session # s
    <3>1. caller[c].at = "outside"
      BY <1>2 DEF Gate!Outside
    <3> QED
      BY <2>4, <3>1
  <2>6. since[s] <= queued[s] /\ queued[s] >= MinInterval
    <3>1. since[s] <= queued[s]
      BY <2>5 DEF Spaced
    <3> QED
      BY <2>1, <3>1, Ages, GateNumbers
  <2>7. ASSUME NEW t \in Sessions,
               \A d \in Callers : caller'[d].at = "noting" => caller'[d].session # t
        PROVE  since'[t] <= queued'[t]
    <3>1. CASE t = s
      BY <2>3, <2>6, <3>1, <1>2, Ages
    <3>2. CASE t # s
      <4>1. caller[c].at = "outside"
        BY <1>2 DEF Gate!Outside
      <4>2. since[t] <= queued[t]
        BY <2>2, <2>7, <4>1 DEF Spaced
      <4> QED
        BY <1>2, <2>3, <3>2, <4>2
    <3> QED
      BY <3>1, <3>2
  <2>8. ASSUME NEW d \in Callers, caller'[d].at = "sending"
        PROVE  /\ queued'[caller'[d].session] >= MinInterval
               /\ kind' = "memory" => since'[caller'[d].session] = 0
    <3>1. CASE d = c
      BY <1>2, <2>0, <2>2, <2>3, <2>6, <3>1
    <3>2. CASE d # c
      <4>1. caller'[d] = caller[d] /\ caller[d].session # s /\ caller[d].session \in Sessions
        BY <2>2, <2>4, <2>8, <3>2, CallerFields
      <4>2. /\ queued[caller[d].session] >= MinInterval
            /\ kind = "memory" => since[caller[d].session] = 0
        BY <2>8, <4>1 DEF Spaced, Gate!Sending
      <4> QED
        BY <1>2, <2>3, <4>1, <4>2
    <3> QED
      BY <3>1, <3>2
  <2>9. \A d, e \in Callers :
          d # e /\ caller'[d].session = caller'[e].session => caller'[d].session = Gate!None
    BY <2>0, <2>2, <2>4 DEF Spaced
  <2>10. kind' = "memory" => \A d \in Callers : caller'[d].at # "noting"
    BY <1>2, <2>0, <2>2 DEF Spaced
  <2> QED
    BY <2>7, <2>8, <2>9, <2>10 DEF Spaced, Gate!Sending, Gate!None
<1> QED
  BY <1>3, <1>4

(* A caller leaves the gate, or goes on to note its session.               *)
LEMMA SpacedSend ==
    ASSUME Gate!TypeOK, Spaced, NEW c \in Callers, Gate!Send(c)
    PROVE  Spaced'
<1> DEFINE s == caller[c].session
           l == IF kind = "memory" THEN Gate!Outside ELSE [caller[c] EXCEPT !.at = "noting"]
<1>1. /\ caller[c].at = "sending" /\ queued' = [queued EXCEPT ![s] = 0]
      /\ caller' = [caller EXCEPT ![c] = l] /\ since' = since /\ kind' = kind
  BY CallerFields DEF Gate!Send, Gate!Sending
<1>2. s \in Sessions /\ s # Gate!None
  BY <1>1, CallerFields, GateNumbers
<1>3. /\ kind = "memory" => l.at = "outside" /\ l.session = Gate!None
      /\ kind # "memory" => l.at = "noting" /\ l.session = s
  <2>1. caller[c] \in [at : {"sending", "noting"}, session : Sessions]
    BY <1>1, CallerFields DEF CallerSet, Gate!Outside
  <2> QED
    BY <2>1 DEF Gate!Outside
<1>4. \A d \in Callers : d # c => caller[d].session # s
  BY <1>2 DEF Spaced
<1>5. kind = "memory" => since[s] = 0
  BY <1>1 DEF Spaced, Gate!Sending
<1> HIDE DEF s, l
<1>6. caller'[c] = l /\ \A d \in Callers : d # c => caller'[d] = caller[d]
  BY <1>1, CallerFields
<1>7. queued'[s] = 0 /\ \A t \in Sessions : t # s => queued'[t] = queued[t]
  BY <1>1, <1>2, Ages
<1>8. ASSUME NEW t \in Sessions,
             \A d \in Callers : caller'[d].at = "noting" => caller'[d].session # t
      PROVE  since'[t] <= queued'[t]
  <2>1. CASE t = s
    <3>1. kind = "memory"
      BY <1>3, <1>6, <1>8, <2>1
    <3> QED
      BY <1>1, <1>5, <1>7, <2>1, <3>1
  <2>2. CASE t # s
    <3>1. since[t] <= queued[t]
      BY <1>1, <1>6, <1>8 DEF Spaced
    <3> QED
      BY <1>1, <1>7, <2>2, <3>1
  <2> QED
    BY <2>1, <2>2
<1>9. ASSUME NEW d \in Callers, caller'[d].at = "sending"
      PROVE  /\ queued'[caller'[d].session] >= MinInterval
             /\ kind' = "memory" => since'[caller'[d].session] = 0
  <2>1. d # c
    BY <1>1, <1>3, <1>6, <1>9
  <2>2. caller'[d] = caller[d] /\ caller[d].session # s /\ caller[d].session \in Sessions
    BY <1>4, <1>6, <1>9, <2>1, CallerFields
  <2>3. /\ queued[caller[d].session] >= MinInterval
        /\ kind = "memory" => since[caller[d].session] = 0
    BY <1>9, <2>2 DEF Spaced, Gate!Sending
  <2> QED
    BY <1>1, <1>7, <2>2, <2>3
<1>10. \A d, e \in Callers :
         d # e /\ caller'[d].session = caller'[e].session => caller'[d].session = Gate!None
  <2> SUFFICES ASSUME NEW d \in Callers, NEW e \in Callers, d # e,
                      caller'[d].session = caller'[e].session
               PROVE  caller'[d].session = Gate!None
    OBVIOUS
  <2>1. CASE d # c /\ e # c
    BY <1>6, <2>1 DEF Spaced
  <2>2. CASE d = c
    BY <1>3, <1>4, <1>6, <2>2
  <2>3. CASE e = c
    BY <1>3, <1>4, <1>6, <2>3
  <2> QED
    BY <2>1, <2>2, <2>3
<1>11. kind' = "memory" => \A d \in Callers : caller'[d].at # "noting"
  BY <1>1, <1>3, <1>6 DEF Spaced
<1> QED
  BY <1>8, <1>9, <1>10, <1>11 DEF Spaced, Gate!Sending, Gate!None

(* A turn is dropped, or the session is noted after it was queued.         *)
LEMMA SpacedLeave ==
    ASSUME Gate!TypeOK, Spaced, NEW c \in Callers, Gate!DropTurn(c) \/ Gate!NoteQueuedRun(c)
    PROVE  Spaced'
<1> DEFINE s == caller[c].session
<1>1. /\ caller' = [caller EXCEPT ![c] = Gate!Outside] /\ queued' = queued /\ kind' = kind
      /\ \/ caller[c].at = "sending" /\ since' = since
         \/ caller[c].at = "noting" /\ since' = [since EXCEPT ![s] = 0]
  BY DEF Gate!DropTurn, Gate!NoteQueuedRun, Gate!Sending
<1>2. s \in Sessions /\ s # Gate!None
  BY <1>1, CallerFields, GateNumbers
<1>3. Gate!Outside.at = "outside" /\ Gate!Outside.session = Gate!None
  BY DEF Gate!Outside
<1> HIDE DEF s
<1>4. caller'[c] = Gate!Outside /\ \A d \in Callers : d # c => caller'[d] = caller[d]
  BY <1>1, CallerFields
<1>5. /\ \A t \in Sessions : since'[t] = since[t] \/ since'[t] = 0
      /\ caller[c].at = "noting" => since'[s] = 0
  BY <1>1, <1>2, Ages
<1>6. ASSUME NEW t \in Sessions,
             \A d \in Callers : caller'[d].at = "noting" => caller'[d].session # t
      PROVE  since'[t] <= queued'[t]
  <2>0. queued'[t] = queued[t] /\ queued[t] \in Nat
    BY <1>1, Ages
  <2>1. CASE since'[t] = 0
    BY <2>0, <2>1
  <2>2. CASE since'[t] # 0
    <3>1. since'[t] = since[t] /\ (caller[c].at = "noting" => t # s)
      BY <1>5, <2>2
    <3>2. \A d \in Callers : caller[d].at = "noting" => caller[d].session # t
      BY <1>4, <1>6, <3>1 DEF s
    <3> QED
      BY <2>0, <3>1, <3>2 DEF Spaced
  <2> QED
    BY <2>1, <2>2
<1>7. ASSUME NEW d \in Callers, caller'[d].at = "sending"
      PROVE  /\ queued'[caller'[d].session] >= MinInterval
             /\ kind' = "memory" => since'[caller'[d].session] = 0
  <2>1. d # c /\ caller'[d] = caller[d] /\ caller[d].session \in Sessions
    BY <1>3, <1>4, <1>7, CallerFields
  <2>2. /\ queued[caller[d].session] >= MinInterval
        /\ kind = "memory" => since[caller[d].session] = 0
    BY <1>7, <2>1 DEF Spaced, Gate!Sending
  <2> QED
    BY <1>1, <1>5, <2>1, <2>2
<1>8. \A d, e \in Callers :
        d # e /\ caller'[d].session = caller'[e].session => caller'[d].session = Gate!None
  <2> SUFFICES ASSUME NEW d \in Callers, NEW e \in Callers, d # e,
                      caller'[d].session = caller'[e].session
               PROVE  caller'[d].session = Gate!None
    OBVIOUS
  <2>1. CASE d # c /\ e # c
    BY <1>4, <2>1 DEF Spaced
  <2>2. CASE d = c \/ e = c
    BY <1>3, <1>4, <2>2
  <2> QED
    BY <2>1, <2>2
<1>9. kind' = "memory" => \A d \in Callers : caller'[d].at # "noting"
  BY <1>1, <1>3, <1>4 DEF Spaced
<1> QED
  BY <1>6, <1>7, <1>8, <1>9 DEF Spaced, Gate!Sending, Gate!None

LEMMA GateStep == GateInv /\ [Gate!Next]_gateVars => GateInv'
<1> SUFFICES ASSUME GateInv, [Gate!Next]_gateVars PROVE GateInv'
  OBVIOUS
<1>1. Gate!TypeOK /\ Gate!TypeOK' /\ overlap \in BOOLEAN /\ kind \in {"memory", "skill"}
  BY GateTypes, Ages DEF GateInv
<1> SUFFICES ASSUME kind' = "memory" \/ ~overlap' PROVE Spaced'
  BY <1>1 DEF GateInv
<1>2. kind' = kind /\ (overlap => overlap')
  <2>1. CASE UNCHANGED gateVars
    BY <2>1 DEF gateVars
  <2>2. CASE Gate!Next
    <3>1. ASSUME NEW c \in Callers, Gate!ShouldRun(c) PROVE kind' = kind /\ (overlap => overlap')
      BY <3>1, Zenon DEF Gate!ShouldRun
    <3>2. ASSUME NEW c \in Callers, Gate!Send(c) \/ Gate!DropTurn(c) \/ Gate!NoteQueuedRun(c)
          PROVE  kind' = kind /\ overlap' = overlap
      BY <3>2, Zenon DEF Gate!Send, Gate!DropTurn, Gate!NoteQueuedRun
    <3>3. ASSUME NEW f \in Flushes, Gate!Flush(f) \/ Gate!MaybeReflectMidRun(f)
          PROVE  kind' = kind /\ overlap' = overlap
      BY <3>3, Zenon DEF Gate!Flush, Gate!MaybeReflectMidRun
    <3>4. ASSUME NEW v \in Gate!Reviewers, Gate!Outcome(v)
          PROVE  kind' = kind /\ overlap' = overlap
      BY <3>4, Zenon DEF Gate!Outcome, Gate!NoOperation, Gate!MarkSuccess, Gate!MarkFailure,
        Gate!MarkLowQuality
    <3>5. CASE Gate!TakeTurn
      BY <3>5 DEF Gate!TakeTurn
    <3>6. CASE Gate!Tick
      BY <3>6 DEF Gate!Tick
    <3> QED
      BY <2>2, <3>1, <3>2, <3>3, <3>4, <3>5, <3>6, Zenon DEF Gate!Next, Gate!Enqueue
  <2> QED
    BY <2>1, <2>2
<1>3. Spaced
  BY <1>1, <1>2 DEF GateInv
<1>4. CASE UNCHANGED gateVars
  BY <1>3, <1>4, SpacedElsewhere DEF gateVars
<1>5. ASSUME NEW c \in Callers, Gate!ShouldRun(c) PROVE Spaced'
  BY <1>1, <1>2, <1>3, <1>5, SpacedShouldRun
<1>6. ASSUME NEW c \in Callers, Gate!Send(c) PROVE Spaced'
  BY <1>1, <1>3, <1>6, SpacedSend
<1>7. ASSUME NEW c \in Callers, Gate!DropTurn(c) \/ Gate!NoteQueuedRun(c) PROVE Spaced'
  BY <1>1, <1>3, <1>7, SpacedLeave
<1>8. ASSUME NEW f \in Flushes, Gate!Flush(f) \/ Gate!MaybeReflectMidRun(f) PROVE Spaced'
  BY <1>3, <1>8, SpacedElsewhere DEF Gate!Flush, Gate!MaybeReflectMidRun
<1>9. CASE Gate!TakeTurn
  BY <1>3, <1>9, SpacedElsewhere DEF Gate!TakeTurn
<1>10. ASSUME NEW v \in Gate!Reviewers, Gate!Outcome(v) PROVE Spaced'
  BY <1>3, <1>10, SpacedElsewhere
  DEF Gate!Outcome, Gate!NoOperation, Gate!MarkSuccess, Gate!MarkFailure, Gate!MarkLowQuality
<1>11. CASE Gate!Tick
  BY <1>1, <1>3, <1>11, SpacedTick
<1> QED
  BY <1>4, <1>5, <1>6, <1>7, <1>8, <1>9, <1>10, <1>11 DEF Gate!Next, Gate!Enqueue

-----------------------------------------------------------------------------
LearnersInv == Thresholds!TypeOK /\ FilesInv /\ GateInv

LEMMA LearnersInvariant == Spec => []LearnersInv
<1>1. Init => LearnersInv
  BY ThresholdsInit, FilesInit, GateInit DEF Init, LearnersInv
<1>2. LearnersInv /\ [Next]_vars => LearnersInv'
  BY ThresholdsStep, FilesStep, GateStep, Parts DEF LearnersInv
<1> QED
  BY <1>1, <1>2, PTL DEF Spec

(* Types: what a batch makes of the floors is within the bounds of the     *)
(* configuration and saved, a session's counters stay below what makes     *)
(* them start over, and a SKILL.md has its directory (Observe, markFailure, *)
(* the create action).                                                     *)
THEOREM TypeCorrect == Spec => []TypeOK
<1>1. LearnersInv => TypeOK
  BY DEF LearnersInv, FilesInv, GateInv, TypeOK
<1> QED
  BY <1>1, LearnersInvariant, PTL

(* Reviews that are over leave no malformed skill behind, whoever writes   *)
(* the file meanwhile, as long as none has put a backup over another's     *)
(* text or taken one of a malformed one, no write of the agent and no      *)
(* rollback has failed half-way, and the process has not ended between a   *)
(* malformed write and its rollback (rollbackSkillFile).                   *)
THEOREM MalformedTextUndone == Spec => []MalformedUndone
<1>1. LearnersInv => MalformedUndone
  BY DEF LearnersInv, FilesInv, GuardInv, Good, Busy, MalformedUndone, Files!MalformedUndone
<1> QED
  BY <1>1, LearnersInvariant, PTL

(* Two turns of a session are queued at least MinInterval apart, always by *)
(* the memory maintainer, by the skill maintainer as long as no two calls  *)
(* of a session overlap (shouldRunForSession, shouldRun, Enqueue).         *)
THEOREM TurnsSpaced == Spec => ReviewsSpaced
<1>1. ASSUME LearnersInv, [Next]_vars, NEW c \in Callers,
             Gate!Sending(c), queue' # queue, caller'[c] # caller[c]
      PROVE  queued[caller[c].session] >= MinInterval \/ (kind = "skill" /\ overlap)
  <2>1. [Gate!Next]_gateVars /\ GateInv
    BY <1>1, Parts DEF LearnersInv
  <2>2. kind \in {"memory", "skill"}
    BY <2>1, Ages DEF GateInv
  <2> QED
    BY <1>1, <2>1, <2>2 DEF GateInv, Spaced
<1>2. LearnersInv /\ [Next]_vars =>
        [\A c \in Callers :
           (Gate!Sending(c) /\ queue' # queue /\ caller'[c] # caller[c]) =>
             queued[caller[c].session] >= MinInterval \/ (kind = "skill" /\ overlap)]_gateVars
  BY <1>1
<1> QED
  BY <1>2, LearnersInvariant, PTL DEF Spec, ReviewsSpaced, Gate!ReviewsSpaced, Gate!vars, gateVars
=============================================================================
