------------------------- MODULE RateLimiterProofs -------------------------
(***************************************************************************)
(* The limiter keeps its entries bounded and grants exactly the windows of *)
(* WindowQuota, for every number of callers and keys, every limit and      *)
(* window, and every wait for the mutex up to one window.                  *)
(*                                                                         *)
(* The argument: a call holds a time at most MaxLag old (CallInv), an entry*)
(* in the map tells the last window of its key, and one that is not in the *)
(* map was dropped two windows after its window began (EntryInv), so that  *)
(* no call still under way can be of that window.                          *)
(***************************************************************************)
EXTENDS RateLimiter, TLAPS

CallInv ==
    /\ lastGC <= clock
    /\ \A c \in Callers : calls[c] # None =>
          calls[c].at <= clock /\ clock <= calls[c].at + MaxLag

EntryInv ==
    \A k \in Names :
        IF entries[k] = None
        THEN opened[k] = -Window \/ opened[k] + TTL <= lastGC
        ELSE entries[k].start = opened[k] /\ entries[k].count = spent[k]

IInv == TypeOK /\ CallInv /\ EntryInv /\ OldEntriesFreed

Times == [key : Names, at : Nat]
Entries == [start : Nat, count : 1..Limit]

-----------------------------------------------------------------------------
(* None is neither a call nor an entry.                                    *)
LEMMA NoneIsNothing ==
    /\ \A x \in Times : x # None
    /\ \A e \in Entries : e # None
<1>1. ASSUME NEW x \in Times PROVE x # None
  BY <1>1, RateAssumption DEF Times
<1>2. ASSUME NEW e \in Entries PROVE e # None
  <2>1. e \in [start : Int, count : Int]
    BY <1>2, RateAssumption DEF Entries
  <2> QED BY <2>1, RateAssumption
<1> QED BY <1>1, <1>2

(* A call under way holds a key of the map and a time near the clock.      *)
LEMMA CallUnderWay ==
    ASSUME IInv, NEW c \in Callers, calls[c] # None
    PROVE  /\ calls[c] \in Times
           /\ calls[c].key \in Names
           /\ calls[c].at \in Nat
           /\ calls[c].at <= clock
           /\ lastGC <= calls[c].at + Window
<1>1. calls[c] \in Times
  BY DEF IInv, TypeOK, Times
<1>2. calls[c].at <= clock /\ clock <= calls[c].at + MaxLag /\ lastGC <= clock
  BY DEF IInv, CallInv
<1>3. calls[c].key \in Names /\ calls[c].at \in Nat
  BY <1>1 DEF Times
<1>4. clock \in Nat /\ lastGC \in Nat
  BY DEF IInv, TypeOK
<1> QED BY <1>1, <1>2, <1>3, <1>4, RateAssumption

(* A call that finds no entry, or one of an expired window, is a whole     *)
(* window later than the last window of its key.                           *)
LEMMA ExpiredIsLater ==
    ASSUME IInv, NEW c \in Callers, calls[c] # None,
           Expired(calls[c].key, calls[c].at)
    PROVE  calls[c].at >= opened[calls[c].key] + Window
<1> DEFINE k == calls[c].key
           now == calls[c].at
<1>1. k \in Names /\ now \in Nat /\ lastGC <= now + Window
  BY CallUnderWay
<1>2. opened[k] \in Int /\ lastGC \in Nat /\ Window \in Nat
  BY <1>1, RateAssumption DEF IInv, TypeOK
<1>3. CASE entries[k] = None
  <2>1. opened[k] = -Window \/ opened[k] + TTL <= lastGC
    BY <1>1, <1>3 DEF IInv, EntryInv
  <2> QED BY <2>1, <1>1, <1>2 DEF TTL
<1>4. CASE entries[k] # None
  <2>1. now - entries[k].start >= Window
    BY <1>4 DEF Expired
  <2>2. entries[k].start = opened[k]
    BY <1>1, <1>4 DEF IInv, EntryInv
  <2> QED BY <2>1, <2>2, <1>1, <1>2
<1> QED BY <1>3, <1>4

(* A call inside a window finds the entry of the last window of its key.   *)
LEMMA InsideIsLast ==
    ASSUME IInv, NEW c \in Callers, calls[c] # None,
           ~Expired(calls[c].key, calls[c].at)
    PROVE  /\ entries[calls[c].key] \in Entries
           /\ entries[calls[c].key].start = opened[calls[c].key]
           /\ entries[calls[c].key].count = spent[calls[c].key]
           /\ calls[c].at < opened[calls[c].key] + Window
<1> DEFINE k == calls[c].key
           now == calls[c].at
<1>1. k \in Names /\ now \in Nat
  BY CallUnderWay
<1>2. entries[k] # None /\ ~(now - entries[k].start >= Window)
  BY DEF Expired
<1>3. entries[k] \in Entries
  BY <1>1, <1>2 DEF IInv, TypeOK, Entries
<1>4. entries[k].start = opened[k] /\ entries[k].count = spent[k]
  BY <1>1, <1>2 DEF IInv, EntryInv
<1>5. opened[k] \in Int /\ Window \in Nat
  BY <1>1, RateAssumption DEF IInv, TypeOK
<1> QED BY <1>1, <1>2, <1>3, <1>4, <1>5

-----------------------------------------------------------------------------
(* The map after Collect: an entry stays as it is or is dropped, and one   *)
(* that is dropped is two windows old at the time that becomes lastGC.     *)
LEMMA CollectDrops ==
    ASSUME NEW map \in [Names -> Entries \cup {None}], NEW now \in Nat,
           lastGC \in Nat, Collect(map, now)
    PROVE  /\ entries' \in [Names -> Entries \cup {None}]
           /\ lastGC' \in {lastGC, now} /\ lastGC' >= lastGC
           /\ \A k \in Names :
                 \/ entries'[k] = map[k]
                 \/ /\ map[k] \in Entries /\ entries'[k] = None
                    /\ map[k].start + TTL <= lastGC'
           /\ lastGC' = lastGC \/ \A k \in Names :
                 entries'[k] # None => entries'[k].start > lastGC' - TTL
<1> USE DEF Entries
<1>1. CASE now - lastGC < GCInterval
  BY <1>1 DEF Collect
<1>2. CASE ~(now - lastGC < GCInterval)
  <2>1. /\ entries' = [k \in Names |-> IF map[k] = None \/ Old(map[k], now)
                                       THEN None ELSE map[k]]
        /\ lastGC' = now
    BY <1>2 DEF Collect
  <2>2. lastGC' >= lastGC
    BY <2>1, <1>2, RateAssumption DEF GCInterval
  <2>3. \A k \in Names :
           \/ entries'[k] = map[k]
           \/ map[k] \in Entries /\ entries'[k] = None /\ Old(map[k], now)
    BY <2>1
  <2>4. ASSUME NEW k \in Names, map[k] \in Entries, Old(map[k], now)
        PROVE  map[k].start + TTL <= lastGC'
    BY <2>1, <2>4, RateAssumption DEF Old, TTL
  <2>5. ASSUME NEW k \in Names, entries'[k] # None
        PROVE  entries'[k].start > lastGC' - TTL
    <3>1. entries'[k] = map[k] /\ map[k] \in Entries /\ ~Old(map[k], now)
      BY <2>1, <2>5
    <3> QED BY <3>1, <2>1, RateAssumption DEF Old, TTL
  <2>6. entries' \in [Names -> Entries \cup {None}]
    BY <2>1
  <2> QED BY <2>1, <2>2, <2>3, <2>4, <2>5, <2>6
<1> QED BY <1>1, <1>2

-----------------------------------------------------------------------------
LEMMA InitIInv == Init => IInv
<1> SUFFICES ASSUME Init PROVE IInv
  OBVIOUS
<1>1. TypeOK
  BY RateAssumption DEF Init, TypeOK
<1>2. CallInv
  BY DEF Init, CallInv
<1>3. EntryInv
  BY DEF Init, EntryInv
<1>4. OldEntriesFreed
  BY DEF Init, OldEntriesFreed
<1> QED BY <1>1, <1>2, <1>3, <1>4 DEF IInv

LEMMA TickKeeps == IInv /\ Tick => IInv'
<1> SUFFICES ASSUME IInv, Tick PROVE IInv'
  OBVIOUS
<1>1. /\ clock' = clock + 1
      /\ \A c \in Callers : calls[c] # None => clock - calls[c].at < MaxLag
      /\ UNCHANGED <<calls, entries, lastGC, opened, spent, answer>>
  BY DEF Tick, limiterVars, historyVars
<1>2. TypeOK'
  BY <1>1 DEF IInv, TypeOK
<1>3. CallInv'
  <2>1. lastGC' <= clock'
    BY <1>1 DEF IInv, TypeOK, CallInv
  <2>2. ASSUME NEW c \in Callers, calls'[c] # None
        PROVE  calls'[c].at <= clock' /\ clock' <= calls'[c].at + MaxLag
    <3>1. calls[c].at \in Nat /\ calls[c].at <= clock
      BY <2>2, <1>1, CallUnderWay
    <3>2. clock - calls[c].at < MaxLag /\ clock \in Nat
      BY <2>2, <1>1 DEF IInv, TypeOK
    <3> QED BY <3>1, <3>2, <1>1, RateAssumption
  <2> QED BY <2>1, <2>2 DEF CallInv
<1>4. EntryInv' /\ OldEntriesFreed'
  BY <1>1 DEF IInv, EntryInv, OldEntriesFreed, TTL
<1> QED BY <1>2, <1>3, <1>4 DEF IInv

LEMMA CallKeeps ==
    ASSUME IInv, NEW c \in Callers, NEW name \in Names, Call(c, name)
    PROVE  IInv'
<1>1. /\ calls' = [calls EXCEPT ![c] = [key |-> KeyOf(name), at |-> clock]]
      /\ UNCHANGED <<clock, entries, lastGC, opened, spent, answer>>
  BY DEF Call, limiterVars, historyVars
<1>2. KeyOf(name) \in Names /\ clock \in Nat
  BY RateAssumption DEF KeyOf, IInv, TypeOK
<1>3. TypeOK'
  BY <1>1, <1>2 DEF IInv, TypeOK
<1>4. CallInv'
  <2>1. ASSUME NEW d \in Callers, calls'[d] # None
        PROVE  calls'[d].at <= clock' /\ clock' <= calls'[d].at + MaxLag
    <3>1. CASE d = c
      <4>1. calls'[d].at = clock
        BY <3>1, <1>1 DEF IInv, TypeOK
      <4> QED BY <4>1, <1>1, <1>2, RateAssumption
    <3>2. CASE d # c
      <4>1. calls'[d] = calls[d]
        BY <3>2, <1>1 DEF IInv, TypeOK
      <4> QED BY <4>1, <2>1, <1>1 DEF IInv, CallInv
    <3> QED BY <3>1, <3>2
  <2> QED BY <2>1, <1>1 DEF IInv, CallInv
<1>5. EntryInv' /\ OldEntriesFreed'
  BY <1>1 DEF IInv, EntryInv, OldEntriesFreed, TTL
<1> QED BY <1>3, <1>4, <1>5 DEF IInv

(* What the three outcomes of Allow have in common: given the map they     *)
(* hand to Collect and the history, nothing else about them matters.       *)
LEMMA AllowKeeps ==
    ASSUME IInv, NEW c \in Callers, calls[c] # None,
           NEW allowed \in BOOLEAN, Return(c, allowed),
           NEW map \in [Names -> Entries \cup {None}],
           Collect(map, calls[c].at),
           opened' \in [Names -> Int], spent' \in [Names -> 0..Limit],
           \A k \in Names :
              \/ /\ map[k] = entries[k]
                 /\ opened'[k] = opened[k] /\ spent'[k] = spent[k]
              \/ /\ map[k] # None /\ map[k].start + Window >= lastGC
                 /\ opened'[k] = map[k].start /\ spent'[k] = map[k].count
              \/ /\ map[k] # None /\ entries[k] # None
                 /\ map[k].start = entries[k].start
                 /\ opened'[k] = map[k].start /\ spent'[k] = map[k].count
    PROVE  IInv'
<1> DEFINE now == calls[c].at
<1>1. now \in Nat /\ now <= clock /\ calls[c].key \in Names
  BY CallUnderWay
<1>2. clock \in Nat /\ lastGC \in Nat
  BY DEF IInv, TypeOK
<1>3. /\ calls' = [calls EXCEPT ![c] = None]
      /\ answer' = [key |-> calls[c].key, at |-> now, allowed |-> allowed]
      /\ clock' = clock
  BY DEF Return
<1>4. /\ entries' \in [Names -> Entries \cup {None}]
      /\ lastGC' \in {lastGC, now} /\ lastGC' >= lastGC
      /\ \A k \in Names :
            \/ entries'[k] = map[k]
            \/ /\ map[k] \in Entries /\ entries'[k] = None
               /\ map[k].start + TTL <= lastGC'
      /\ lastGC' = lastGC \/ \A k \in Names :
            entries'[k] # None => entries'[k].start > lastGC' - TTL
  BY <1>1, <1>2, CollectDrops
<1>5. TypeOK'
  <2>1. calls' \in [Callers -> [key : Names, at : Nat] \cup {None}]
    BY <1>3 DEF IInv, TypeOK
  <2>2. answer' \in [key : Names, at : Nat, allowed : BOOLEAN]
    BY <1>1, <1>3
  <2> QED BY <2>1, <2>2, <1>1, <1>2, <1>3, <1>4 DEF TypeOK, Entries
<1>6. CallInv'
  <2>1. lastGC' <= clock'
    BY <1>1, <1>3, <1>4 DEF IInv, CallInv
  <2>2. ASSUME NEW d \in Callers, calls'[d] # None
        PROVE  calls'[d].at <= clock' /\ clock' <= calls'[d].at + MaxLag
    <3>1. calls'[d] = calls[d]
      BY <2>2, <1>3 DEF IInv, TypeOK
    <3> QED BY <3>1, <2>2, <1>3 DEF IInv, CallInv
  <2> QED BY <2>1, <2>2 DEF CallInv
<1>7. ASSUME NEW k \in Names
      PROVE  IF entries'[k] = None
             THEN opened'[k] = -Window \/ opened'[k] + TTL <= lastGC'
             ELSE entries'[k].start = opened'[k] /\ entries'[k].count = spent'[k]
  <2> USE <1>7
  <2>1. CASE entries'[k] = map[k] /\ map[k] = None
    <3>1. entries[k] = None /\ opened'[k] = opened[k]
      BY <2>1
    <3>2. opened[k] = -Window \/ opened[k] + TTL <= lastGC
      BY <3>1 DEF IInv, EntryInv
    <3>3. opened[k] \in Int /\ TTL \in Nat
      BY RateAssumption DEF IInv, TypeOK, TTL
    <3> QED BY <3>1, <3>2, <3>3, <2>1, <1>1, <1>2, <1>4
  <2>2. CASE map[k] # None
    <3>1. opened'[k] = map[k].start /\ spent'[k] = map[k].count
      BY <2>2 DEF IInv, EntryInv
    <3> QED BY <3>1, <2>2, <1>4
  <2>3. CASE map[k] = None /\ entries'[k] # map[k]
    BY <2>3, <1>4, NoneIsNothing
  <2> QED BY <2>1, <2>2, <2>3
<1>8. ASSUME NEW k \in Names, entries'[k] # None
      PROVE  entries'[k].start > lastGC' - TTL
  <2> USE <1>8
  <2>1. CASE lastGC' = lastGC
    <3>1. entries'[k] = map[k] /\ map[k] \in Entries
      BY <1>4
    <3>2. CASE map[k].start + Window >= lastGC
      BY <3>1, <3>2, <2>1, <1>2, RateAssumption DEF TTL, Entries
    <3>3. CASE entries[k] # None /\ map[k].start = entries[k].start
      BY <3>1, <3>3, <2>1 DEF IInv, OldEntriesFreed, TTL
    <3>4. CASE map[k] = entries[k]
      BY <3>1, <3>4, <2>1 DEF IInv, OldEntriesFreed, TTL
    <3> QED BY <3>2, <3>3, <3>4
  <2>2. CASE lastGC' # lastGC
    BY <2>2, <1>4
  <2> QED BY <2>1, <2>2
<1>9. EntryInv' /\ OldEntriesFreed'
  BY <1>7, <1>8 DEF EntryInv, OldEntriesFreed, TTL
<1> QED BY <1>5, <1>6, <1>9 DEF IInv

LEMMA OpenWindowKeeps ==
    ASSUME IInv, NEW c \in Callers, OpenWindow(c)
    PROVE  IInv'
<1> DEFINE k == calls[c].key
           now == calls[c].at
           map == [entries EXCEPT ![k] = [start |-> now, count |-> 1]]
<1>1. /\ calls[c] # None
      /\ Collect(map, now)
      /\ opened' = [opened EXCEPT ![k] = now]
      /\ spent' = [spent EXCEPT ![k] = 1]
      /\ Return(c, TRUE)
  BY DEF OpenWindow
<1>2. k \in Names /\ now \in Nat /\ lastGC <= now + Window
  BY <1>1, CallUnderWay
<1>3. /\ entries \in [Names -> Entries \cup {None}]
      /\ opened \in [Names -> Int] /\ spent \in [Names -> 0..Limit]
  BY DEF IInv, TypeOK, Entries
<1>4. [start |-> now, count |-> 1] \in Entries
  BY <1>2, RateAssumption DEF Entries
<1>5. map \in [Names -> Entries \cup {None}]
  BY <1>3, <1>4
<1>6. opened' \in [Names -> Int] /\ spent' \in [Names -> 0..Limit]
  BY <1>1, <1>2, <1>3, RateAssumption
<1>7. map[k] # None /\ map[k].start = now /\ map[k].count = 1
  BY <1>2, <1>3, <1>4, NoneIsNothing
<1>8. opened'[k] = now /\ spent'[k] = 1
  BY <1>1, <1>2, <1>3
<1>9. \A j \in Names \ {k} :
         map[j] = entries[j] /\ opened'[j] = opened[j] /\ spent'[j] = spent[j]
  BY <1>1, <1>2, <1>3
<1>10. map[k].start + Window >= lastGC
  BY <1>2, <1>7, RateAssumption DEF IInv, TypeOK
<1> HIDE DEF k, map
<1>11. \A j \in Names :
          \/ /\ map[j] = entries[j]
             /\ opened'[j] = opened[j] /\ spent'[j] = spent[j]
          \/ /\ map[j] # None /\ map[j].start + Window >= lastGC
             /\ opened'[j] = map[j].start /\ spent'[j] = map[j].count
          \/ /\ map[j] # None /\ entries[j] # None
             /\ map[j].start = entries[j].start
             /\ opened'[j] = map[j].start /\ spent'[j] = map[j].count
  BY <1>7, <1>8, <1>9, <1>10
<1> QED BY <1>1, <1>5, <1>6, <1>11, AllowKeeps

LEMMA RefuseKeeps ==
    ASSUME IInv, NEW c \in Callers, Refuse(c)
    PROVE  IInv'
<1>1. /\ calls[c] # None
      /\ Collect(entries, calls[c].at)
      /\ Return(c, FALSE)
      /\ UNCHANGED <<opened, spent>>
  BY DEF Refuse
<1>2. /\ entries \in [Names -> Entries \cup {None}]
      /\ opened' \in [Names -> Int] /\ spent' \in [Names -> 0..Limit]
  BY <1>1 DEF IInv, TypeOK, Entries
<1> QED BY <1>1, <1>2, AllowKeeps

LEMMA CountCallKeeps ==
    ASSUME IInv, NEW c \in Callers, CountCall(c)
    PROVE  IInv'
<1> DEFINE k == calls[c].key
           now == calls[c].at
           counted == [start |-> entries[k].start, count |-> entries[k].count + 1]
           map == [entries EXCEPT ![k] = counted]
<1>1. /\ calls[c] # None
      /\ ~Expired(k, now) /\ ~SpentOut(k)
      /\ Collect(map, now)
      /\ spent' = [spent EXCEPT ![k] = @ + 1]
      /\ Return(c, TRUE)
      /\ opened' = opened
  BY DEF CountCall
<1>2. k \in Names /\ now \in Nat
  BY <1>1, CallUnderWay
<1>3. /\ entries[k] \in Entries
      /\ entries[k].start = opened[k] /\ entries[k].count = spent[k]
  BY <1>1, InsideIsLast
<1>4. /\ entries \in [Names -> Entries \cup {None}]
      /\ opened \in [Names -> Int] /\ spent \in [Names -> 0..Limit]
  BY DEF IInv, TypeOK, Entries
<1>5. counted \in Entries
  BY <1>1, <1>3, RateAssumption DEF SpentOut, Entries
<1>6. map \in [Names -> Entries \cup {None}]
  BY <1>4, <1>5
<1>7. spent[k] + 1 \in 0..Limit
  BY <1>3, <1>5 DEF Entries
<1>8. opened' \in [Names -> Int] /\ spent' \in [Names -> 0..Limit]
  BY <1>1, <1>2, <1>4, <1>7
<1>9. /\ map[k] # None /\ entries[k] # None
      /\ map[k].start = entries[k].start
      /\ opened'[k] = map[k].start /\ spent'[k] = map[k].count
  <2>1. map[k] = counted
    BY <1>2, <1>4
  <2>2. spent'[k] = spent[k] + 1
    BY <1>1, <1>2, <1>4
  <2> QED BY <2>1, <2>2, <1>1, <1>3, <1>5, NoneIsNothing
<1>10. \A j \in Names \ {k} :
          map[j] = entries[j] /\ opened'[j] = opened[j] /\ spent'[j] = spent[j]
  BY <1>1, <1>2, <1>4
<1> HIDE DEF k, counted, map
<1>11. \A j \in Names :
          \/ /\ map[j] = entries[j]
             /\ opened'[j] = opened[j] /\ spent'[j] = spent[j]
          \/ /\ map[j] # None /\ map[j].start + Window >= lastGC
             /\ opened'[j] = map[j].start /\ spent'[j] = map[j].count
          \/ /\ map[j] # None /\ entries[j] # None
             /\ map[j].start = entries[j].start
             /\ opened'[j] = map[j].start /\ spent'[j] = map[j].count
  BY <1>9, <1>10
<1> QED BY <1>1, <1>6, <1>8, <1>11, AllowKeeps

LEMMA NextIInv == IInv /\ [Next]_vars => IInv'
<1> SUFFICES ASSUME IInv, [Next]_vars PROVE IInv'
  OBVIOUS
<1>1. CASE Tick
  BY <1>1, TickKeeps
<1>2. ASSUME NEW c \in Callers, OpenWindow(c) PROVE IInv'
  BY <1>2, OpenWindowKeeps
<1>3. ASSUME NEW c \in Callers, Refuse(c) PROVE IInv'
  BY <1>3, RefuseKeeps
<1>4. ASSUME NEW c \in Callers, CountCall(c) PROVE IInv'
  BY <1>4, CountCallKeeps
<1>5. ASSUME NEW c \in Callers, NEW name \in Names, Call(c, name) PROVE IInv'
  BY <1>5, CallKeeps
<1>6. CASE UNCHANGED vars
  BY <1>6 DEF vars, limiterVars, historyVars, IInv, TypeOK, CallInv, EntryInv,
              OldEntriesFreed, TTL
<1> QED BY <1>1, <1>2, <1>3, <1>4, <1>5, <1>6 DEF Next

(* The inductive invariant of the limiter holds in every behaviour.        *)
THEOREM Invariance == Spec => []IInv
<1> QED BY InitIInv, NextIInv, PTL DEF Spec

(* No count of Allow passes the limit, and every variable has its type.    *)
THEOREM TypeCorrect == Spec => []TypeOK
<1>1. IInv => TypeOK
  BY DEF IInv
<1> QED BY <1>1, Invariance, PTL

(* gcLocked bounds the map, also against callers that come late.           *)
THEOREM MapBounded == Spec => []OldEntriesFreed
<1>1. IInv => OldEntriesFreed
  BY DEF IInv
<1> QED BY <1>1, Invariance, PTL

-----------------------------------------------------------------------------
LEMMA InitQuota == Init => Quota!Init
<1> SUFFICES ASSUME Init PROVE Quota!Init
  OBVIOUS
<1> QED BY RateAssumption DEF Init, Quota!Init

LEMMA StepQuota ==
    IInv /\ [Next]_vars => [Quota!Next]_<<opened, spent, answer>>
<1> SUFFICES ASSUME IInv, [Next]_vars
             PROVE  [Quota!Next]_<<opened, spent, answer>>
  OBVIOUS
<1>1. ASSUME NEW c \in Callers, OpenWindow(c)
      PROVE  \E k \in Names : Quota!Open(k)
  <2> DEFINE k == calls[c].key
  <2>1. /\ calls[c] # None /\ Expired(k, calls[c].at)
        /\ opened' = [opened EXCEPT ![k] = calls[c].at]
        /\ spent' = [spent EXCEPT ![k] = 1]
        /\ answer' = [key |-> k, at |-> calls[c].at, allowed |-> TRUE]
    BY <1>1 DEF OpenWindow, Return
  <2>2. k \in Names /\ calls[c].at >= opened[k] + Window
    BY <2>1, CallUnderWay, ExpiredIsLater
  <2>3. Quota!Open(k)
    BY <2>1, <2>2 DEF Quota!Open, Quota!Answered
  <2> QED BY <2>2, <2>3
<1>2. ASSUME NEW c \in Callers, CountCall(c)
      PROVE  \E k \in Names : Quota!Charge(k)
  <2> DEFINE k == calls[c].key
  <2>1. /\ calls[c] # None /\ ~Expired(k, calls[c].at) /\ ~SpentOut(k)
        /\ opened' = opened
        /\ spent' = [spent EXCEPT ![k] = @ + 1]
        /\ answer' = [key |-> k, at |-> calls[c].at, allowed |-> TRUE]
    BY <1>2 DEF CountCall, Return
  <2>2. /\ k \in Names /\ calls[c].at < opened[k] + Window
        /\ entries[k] \in Entries /\ entries[k].count = spent[k]
    BY <2>1, CallUnderWay, InsideIsLast
  <2>3. spent[k] < Limit
    BY <2>1, <2>2, RateAssumption DEF SpentOut, Entries
  <2>4. Quota!Charge(k)
    BY <2>1, <2>2, <2>3 DEF Quota!Charge, Quota!Answered
  <2> QED BY <2>2, <2>4
<1>3. ASSUME NEW c \in Callers, Refuse(c)
      PROVE  \E k \in Names : Quota!Deny(k)
  <2> DEFINE k == calls[c].key
  <2>1. /\ calls[c] # None /\ ~Expired(k, calls[c].at) /\ SpentOut(k)
        /\ UNCHANGED <<opened, spent>>
        /\ answer' = [key |-> k, at |-> calls[c].at, allowed |-> FALSE]
    BY <1>3 DEF Refuse, Return
  <2>2. /\ k \in Names /\ calls[c].at < opened[k] + Window
        /\ entries[k] \in Entries /\ entries[k].count = spent[k]
    BY <2>1, CallUnderWay, InsideIsLast
  <2>3. spent[k] = Limit
    BY <2>1, <2>2, RateAssumption DEF SpentOut, Entries
  <2>4. Quota!Deny(k)
    BY <2>1, <2>2, <2>3 DEF Quota!Deny, Quota!Answered
  <2> QED BY <2>2, <2>4
<1>4. CASE Tick
  BY <1>4 DEF Tick, historyVars
<1>5. ASSUME NEW c \in Callers, NEW name \in Names, Call(c, name)
      PROVE  UNCHANGED <<opened, spent, answer>>
  BY <1>5 DEF Call, historyVars
<1>6. CASE UNCHANGED vars
  BY <1>6 DEF vars, historyVars
<1> QED BY <1>1, <1>2, <1>3, <1>4, <1>5, <1>6 DEF Next, Quota!Next

(* The limiter implements WindowQuota: what gcLocked drops and the order in*)
(* which callers take the mutex change no answer of Allow.                 *)
THEOREM QuotaKept == Spec => QuotaSpec
<1> QED BY InitQuota, StepQuota, Invariance, PTL DEF Spec, QuotaSpec, Quota!Spec
=============================================================================
