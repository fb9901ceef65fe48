------------------------------ MODULE MCLearners ------------------------------
(* Instances of the three modules about the learners that do not share     *)
(* state, in one run: the first state says which of them moves, and the    *)
(* others rest in an initial state.                                        *)
EXTENDS Integers, Sequences

CONSTANTS
    Sessions, Callers, Flushes, QueueSize, NudgeInterval, MinInterval, Cooldown, Backoff,
    Patience,
    Batch, Target, Kp, Ki, Kd, MinFloor, MaxFloor, StartQuality, StartConfidence, Scores,
    Confidences,
    Calls, Reviews, Bodies, WellFormed

VARIABLES
    part,
    kind, turns, since, midRun, backoff, failures, lowQuality, queue, caller, review,
    queued, overlap,
    tuning, good, bad, quality, confidence, integral, prevErr, saved, last,
    dir, body, proc, trouble

Gate == INSTANCE Maintainer
Thresholds == INSTANCE AdaptiveController
Files == INSTANCE SkillFiles

gateVars ==
    <<kind, turns, since, midRun, backoff, failures, lowQuality, queue, caller, review,
      queued, overlap>>
thresholdVars == <<tuning, good, bad, quality, confidence, integral, prevErr, saved, last>>
fileVars == <<dir, body, proc, trouble>>
vars == <<part, gateVars, thresholdVars, fileVars>>

ASSUME LearnersAssumption ==
    Gate!GateAssumption /\ Thresholds!ThresholdsAssumption /\ Files!FilesAssumption

Init ==
    /\ part \in {"gate", "thresholds", "files"}
    /\ Gate!Init /\ Thresholds!Init /\ Files!Init
    /\ part # "gate" => kind = "memory"
    /\ part # "thresholds" => ~tuning
    /\ part # "files" => body = Files!None /\ ~dir

Next ==
    /\ UNCHANGED part
    /\ \/ part = "gate" /\ Gate!Next /\ UNCHANGED <<thresholdVars, fileVars>>
       \/ part = "thresholds" /\ Thresholds!Next /\ UNCHANGED <<gateVars, fileVars>>
       \/ part = "files" /\ Files!Next /\ UNCHANGED <<gateVars, thresholdVars>>

Spec ==
    /\ Init
    /\ [][Next]_vars
    /\ Gate!WorkerRuns

TypeOK == Gate!TypeOK /\ Thresholds!TypeOK /\ Files!TypeOK
ReviewsSpaced == Gate!ReviewsSpaced
TurnsReviewed == Gate!TurnsReviewed
FloorsFall == Thresholds!FloorsFall
MalformedUndone == Files!MalformedUndone
=============================================================================
