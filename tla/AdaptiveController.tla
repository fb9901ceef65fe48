-------------------------- MODULE AdaptiveController --------------------------
(***************************************************************************)
(* The thresholds of a maintainer: AdaptiveThresholdController, and the    *)
(* counters of good and bad outcomes that feed it (record and              *)
(* adaptThresholdsLocked, the same in both maintainers).  Ratios, errors   *)
(* and the integral are in thousandths.  Online tuning, on by default,     *)
(* moves the gains by a few per cent a batch: then a batch uses any gains  *)
(* between the configured ones and the bounds the tuning keeps them in.    *)
(***************************************************************************)
EXTENDS Integers

CONSTANTS
    Batch,             \* ControllerBatchSize
    Target,            \* ControllerTargetBadRate
    Kp, Ki, Kd,        \* gains
    MinFloor, MaxFloor,
    StartQuality, StartConfidence,  \* MinQualityScore, MinConfidence
    Scores, Confidences             \* what candidates there are

(* No configuration is refused: floors may start outside their bounds, and *)
(* these may be the wrong way round.                                       *)
ThresholdsAssumption ==
    /\ Batch \in Nat \ {0} /\ Target \in Int
    /\ Kp \in Int /\ Ki \in Int /\ Kd \in Int
    /\ MinFloor \in Int /\ MaxFloor \in Int
    /\ StartQuality \in Int /\ StartConfidence \in Int

VARIABLES
    tuning,               \* OnlineTuning
    good, bad,            \* outcomes since the last batch
    quality, confidence,  \* the floors
    integral, prevErr,
    saved,                \* the floors in the state file, <<>> without one
    last                  \* history: the last event

vars == <<tuning, good, bad, quality, confidence, integral, prevErr, saved, last>>

Init ==
    /\ tuning \in BOOLEAN
    /\ good = 0 /\ bad = 0
    /\ quality = StartQuality /\ confidence = StartConfidence
    /\ integral = 0 /\ prevErr = 0
    /\ saved = <<>>
    /\ last = "start"

Clamp(v, lo, hi) == IF v < lo THEN lo ELSE IF v > hi THEN hi ELSE v

(* int(output): towards zero; a floating-point value at a whole number may *)
(* lie just below it.                                                      *)
Truncated(n) ==
    LET size == IF n < 0 THEN -n ELSE n
        whole == size \div 1000
        wholes == IF size % 1000 = 0 /\ whole > 0 THEN {whole, whole - 1} ELSE {whole}
    IN IF n < 0 THEN {-w : w \in wholes} ELSE wholes

(* Mutant: the integral is not kept within its bounds.                     *)
IntegralOfUnbounded(err) == integral + err

IntegralOf(err) == Clamp(integral + err, -3000, 3000)
Error(g, b) == (b * 1000) \div (g + b) - Target

(* The least and the greatest of gain * x, for a gain between its          *)
(* configured value and what tuning makes of it.                           *)
Least(a, b) == IF a < b THEN a ELSE b
Most(a, b) == IF a < b THEN b ELSE a
Low(gain, lo, hi, x) == Least(Least(gain, lo) * x, Most(gain, hi) * x)
High(gain, lo, hi, x) == Most(Least(gain, lo) * x, Most(gain, hi) * x)

(* int(output) for an error, the integral with it and its derivative.      *)
Deltas(err, sum, step) ==
    IF tuning
    THEN LET low == Low(Kp, 1, 60, err) + Low(Ki, 0, 40, sum) + Low(Kd, 0, 60, step)
             high == High(Kp, 1, 60, err) + High(Ki, 0, 40, sum) + High(Kd, 0, 60, step)
         IN {d \in -7..7 : \E l \in Truncated(low), h \in Truncated(high) :
                Clamp(l, -7, 7) <= d /\ d <= Clamp(h, -7, 7)}
    ELSE {Clamp(d, -7, 7) : d \in Truncated(Kp * err + Ki * sum + Kd * step)}

(* Mutant: the error is taken the other way round.                         *)
ObserveFlipped(g, b) ==
    LET err == Target - (b * 1000) \div (g + b)
        sum == IntegralOf(err)
    IN \E delta \in Deltas(err, sum, err - prevErr) :
         /\ quality' = Clamp(quality + delta, MinFloor, MaxFloor)
         /\ confidence' = Clamp(confidence + delta, MinFloor, MaxFloor)
         /\ integral' = sum /\ prevErr' = err
         /\ saved' = <<quality', confidence'>>

Observe(g, b) ==
    LET err == Error(g, b)
        sum == IntegralOf(err)
    IN \E delta \in Deltas(err, sum, err - prevErr) :
         /\ quality' = Clamp(quality + delta, MinFloor, MaxFloor)
         /\ confidence' = Clamp(confidence + delta, MinFloor, MaxFloor)
         /\ integral' = sum /\ prevErr' = err
         /\ saved' = <<quality', confidence'>>

(* record, adaptThresholdsLocked                                           *)
Record(g, b) ==
    IF g + b < Batch
    THEN good' = g /\ bad' = b /\ UNCHANGED <<quality, confidence, integral, prevErr, saved>>
    ELSE good' = 0 /\ bad' = 0 /\ Observe(g, b)

(* A candidate below a floor is dropped, and a drop is a bad outcome.      *)
Drop ==
    /\ \E s \in Scores, c \in Confidences : c < confidence \/ s < quality
    /\ Record(good, bad + 1)
    /\ last' = "bad"

Rollback ==
    /\ \E s \in Scores, c \in Confidences : c >= confidence /\ s >= quality
    /\ Record(good, bad + 1)
    /\ last' = "bad"

Apply ==
    /\ \E s \in Scores, c \in Confidences : c >= confidence /\ s >= quality
    /\ Record(good + 1, bad)
    /\ last' = "good"

(* NewAdaptiveThresholdController, loadState                               *)
Restart ==
    /\ good' = 0 /\ bad' = 0 /\ integral' = 0 /\ prevErr' = 0
    /\ quality' = IF saved = <<>> THEN StartQuality ELSE saved[1]
    /\ confidence' = IF saved = <<>> THEN StartConfidence ELSE saved[2]
    /\ last' = "start"
    /\ UNCHANGED saved

Next ==
    /\ Drop \/ Rollback \/ Apply \/ Restart
    /\ UNCHANGED tuning

Spec == Init /\ [][Next]_vars

-----------------------------------------------------------------------------
(* What Clamp makes of a floor.                                            *)
Floors == (MinFloor..MaxFloor) \cup {MinFloor, MaxFloor}

(* Types; the floors a batch has set are within their bounds, and those of *)
(* the start otherwise.                                                    *)
TypeOK ==
    /\ tuning \in BOOLEAN
    /\ good \in 0..(Batch - 1) /\ bad \in 0..(Batch - 1) /\ good + bad < Batch
    /\ integral \in -3000..3000 /\ prevErr \in {0} \cup (-Target)..(1000 - Target)
    /\ saved \in {<<>>} \cup (Floors \X Floors)
    /\ saved = <<>> => quality = StartQuality /\ confidence = StartConfidence
    /\ saved # <<>> => saved = <<quality, confidence>>
    /\ last \in {"start", "good", "bad"}

(* What one step makes of the floors: it raises neither.                   *)
NoRise == quality' <= quality /\ confidence' <= confidence

(* A maintainer that does well lowers its thresholds: whatever went wrong  *)
(* before, when from some time on candidates are applied and none is       *)
(* dropped or rolled back, the floors rise no more once the integral,      *)
(* wound up by the bad outcomes, has unwound, and both end up at their     *)
(* minimum if the gains are fixed.  With online tuning they need not: good *)
(* batches shrink the gains (adaptive_controller.go:184), and an output    *)
(* below one in size moves nothing.                                        *)
FloorsFall ==
    (<>[](last = "good") /\ []<><<Apply>>_vars)
        => /\ <>[][NoRise]_<<quality, confidence>>
           /\ ~tuning => <>[](quality = MinFloor /\ confidence = MinFloor)
=============================================================================
