---------------------------- MODULE WindowQuota ----------------------------
(***************************************************************************)
(* What a limiter of utils/rate_limit.go promises of every key: the key    *)
(* has windows at least Window apart, at most Limit calls are granted in   *)
(* one, and a call is denied only while a window that has granted Limit    *)
(* calls lasts.  Nothing is ever forgotten here.                           *)
(***************************************************************************)
EXTENDS Integers

CONSTANTS Names, Limit, Window

VARIABLES
    opened,  \* start of the last window of each key
    spent,   \* calls granted in it
    answer   \* the last call: its key, the time it was made, the answer

Init ==
    /\ opened = [k \in Names |-> -Window]
    /\ spent = [k \in Names |-> 0]
    /\ answer \in [key : Names, at : {0}, allowed : {FALSE}]

Answered(k, allowed) ==
    answer' = [key |-> k, at |-> answer'.at, allowed |-> allowed]

(* The first call a whole Window after the last window began begins one.   *)
Open(k) ==
    /\ Answered(k, TRUE)
    /\ answer'.at >= opened[k] + Window
    /\ opened' = [opened EXCEPT ![k] = answer'.at]
    /\ spent' = [spent EXCEPT ![k] = 1]

Charge(k) ==
    /\ Answered(k, TRUE)
    /\ answer'.at < opened[k] + Window
    /\ spent[k] < Limit
    /\ spent' = [spent EXCEPT ![k] = @ + 1]
    /\ UNCHANGED opened

Deny(k) ==
    /\ Answered(k, FALSE)
    /\ answer'.at < opened[k] + Window
    /\ spent[k] = Limit
    /\ UNCHANGED <<opened, spent>>

Next == \E k \in Names : Open(k) \/ Charge(k) \/ Deny(k)

Spec == Init /\ [][Next]_<<opened, spent, answer>>
=============================================================================
