---------------------------- MODULE RateLimiter ----------------------------
(***************************************************************************)
(* FixedWindowLimiter of utils/rate_limit.go, which the HTTP handlers of   *)
(* the gateway and the webhook channel call concurrently.  A caller reads  *)
(* the clock before it takes the mutex, so callers pass in any order, with *)
(* times up to MaxLag old; what is done under the mutex is one step.       *)
(***************************************************************************)
EXTENDS Integers

CONSTANTS
    Callers,         \* goroutines inside Allow
    Names,           \* keys as callers pass them
    Empty, Unknown,  \* the key "" and the key that stands for it
    Limit, Window,
    MaxLag,          \* longest wait for the mutex, in units of the clock
    Horizon,         \* bound on the clock
    None             \* no entry in the map, no call under way

ASSUME RateAssumption ==
    /\ Unknown \in Names /\ Unknown # Empty
    /\ Limit \in Nat \ {0} /\ Window \in Nat \ {0}
    /\ MaxLag \in 0..Window
    /\ Horizon \in Nat
    /\ None \notin [start : Int, count : Int]
    /\ None \notin [key : Names, at : Int]

VARIABLES
    clock,
    calls,    \* calls[c]: the key and the time caller c holds, or None
    entries,  \* entries[k]: windowStart and count, or None
    lastGC,
    opened, spent, answer   \* history: see WindowQuota

limiterVars == <<entries, lastGC>>
historyVars == <<opened, spent, answer>>
vars == <<clock, calls, limiterVars, historyVars>>

Init ==
    /\ clock = 0
    /\ calls = [c \in Callers |-> None]
    /\ entries = [k \in Names |-> None]
    /\ lastGC = 0
    /\ opened = [k \in Names |-> -Window]
    /\ spent = [k \in Names |-> 0]
    /\ answer = [key |-> Unknown, at |-> 0, allowed |-> FALSE]

(* Time passes, but nobody waits for the mutex longer than MaxLag.         *)
Tick ==
    /\ clock < Horizon
    /\ \A c \in Callers : calls[c] # None => clock - calls[c].at < MaxLag
    /\ clock' = clock + 1
    /\ UNCHANGED <<calls, limiterVars, historyVars>>

KeyOf(name) == IF name = Empty THEN Unknown ELSE name

(* Allow up to the mutex.                                                  *)
Call(c, name) ==
    /\ calls[c] = None
    /\ calls' = [calls EXCEPT ![c] = [key |-> KeyOf(name), at |-> clock]]
    /\ UNCHANGED <<clock, limiterVars, historyVars>>

GCInterval == 5 * Window

(* Mutant: an entry is kept no longer than its window lasts.               *)
TTLOneWindow == Window

TTL == 2 * Window

(* Mutant: an entry that has just reached the time to live is kept.        *)
OldLate(e, now) == now - e.start > TTL

(* gcLocked drops the entry.                                               *)
Old(e, now) == now - e.start >= TTL

(* gcLocked(now), on the map as Allow leaves it.                           *)
Collect(map, now) ==
    IF now - lastGC < GCInterval
    THEN entries' = map /\ UNCHANGED lastGC
    ELSE /\ entries' = [k \in Names |-> IF map[k] = None \/ Old(map[k], now)
                                        THEN None ELSE map[k]]
         /\ lastGC' = now

Return(c, allowed) ==
    /\ calls' = [calls EXCEPT ![c] = None]
    /\ answer' = [key |-> calls[c].key, at |-> calls[c].at, allowed |-> allowed]
    /\ UNCHANGED clock

(* Whether the call is the first of a window, by the map.                  *)
Expired(k, now) == entries[k] # None => now - entries[k].start >= Window

OpenWindow(c) ==
    /\ calls[c] # None
    /\ LET k == calls[c].key  now == calls[c].at IN
       /\ Expired(k, now)
       /\ Collect([entries EXCEPT ![k] = [start |-> now, count |-> 1]], now)
       /\ opened' = [opened EXCEPT ![k] = now]
       /\ spent' = [spent EXCEPT ![k] = 1]
    /\ Return(c, TRUE)

(* Mutant: the comparison lets one call more pass.                         *)
SpentOutLate(k) == entries[k].count > Limit

SpentOut(k) == entries[k].count >= Limit

Refuse(c) ==
    /\ calls[c] # None
    /\ LET k == calls[c].key  now == calls[c].at IN
       /\ ~Expired(k, now) /\ SpentOut(k)
       /\ Collect(entries, now)
    /\ Return(c, FALSE)
    /\ UNCHANGED <<opened, spent>>

CountCall(c) ==
    /\ calls[c] # None
    /\ LET k == calls[c].key  now == calls[c].at IN
       /\ ~Expired(k, now) /\ ~SpentOut(k)
       /\ Collect([entries EXCEPT ![k] = [start |-> entries[k].start,
                                          count |-> entries[k].count + 1]], now)
       /\ spent' = [spent EXCEPT ![k] = @ + 1]
    /\ Return(c, TRUE)
    /\ UNCHANGED opened

Next ==
    \/ Tick
    \/ \E c \in Callers :
        \/ OpenWindow(c) \/ Refuse(c) \/ CountCall(c)
        \/ \E name \in Names : Call(c, name)

Spec == Init /\ [][Next]_vars

-----------------------------------------------------------------------------
(* Properties.                                                             *)

(* Every variable stays in its domain; a count never passes the limit.     *)
TypeOK ==
    /\ clock \in Nat /\ lastGC \in Nat
    /\ calls \in [Callers -> [key : Names, at : Nat] \cup {None}]
    /\ entries \in [Names -> [start : Nat, count : 1..Limit] \cup {None}]
    /\ opened \in [Names -> Int] /\ spent \in [Names -> 0..Limit]
    /\ answer \in [key : Names, at : Nat, allowed : BOOLEAN]

(* Garbage collection forgets no window a caller may still count in: with  *)
(* entries dropped behind their backs and times that are out of order the  *)
(* callers still see the windows of WindowQuota.                           *)
Quota == INSTANCE WindowQuota
QuotaSpec == Quota!Spec

(* The map keeps no entry the last garbage collection should have dropped, *)
(* also none a late caller has brought back: it is bounded by the keys of  *)
(* the last GCInterval + TTL.                                              *)
OldEntriesFreed ==
    \A k \in Names : entries[k] # None => entries[k].start > lastGC - TTL
=============================================================================
