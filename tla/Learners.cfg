SPECIFICATION Spec
CONSTANTS
    Sessions = {s1}
    Callers = {p, q}
    Flushes = {f}
    QueueSize = 2
    NudgeInterval = 2
    MinInterval = 2
    Cooldown = 1
    Backoff = 1
    Patience = 3
    Batch = 2
    Target = 100
    Kp = 16
    Ki = 4
    Kd = 6
    MinFloor = 40
    MaxFloor = 50
    StartQuality = 44
    StartConfidence = 47
    Scores = {45, 80}
    Confidences = {100}
    Calls = {c1}
    Reviews = {v1, v2}
    Bodies = {fine, broken}
    WellFormed = {fine}
INVARIANTS
    TypeOK
    MalformedUndone
PROPERTIES
    ReviewsSpaced
    TurnsReviewed
    FloorsFall
CHECK_DEADLOCK FALSE
