------------------------- MODULE CronServiceProofs -------------------------
(***************************************************************************)
(* Safety of CronService for every set of jobs, kinds and intervals.       *)
(*                                                                         *)
(* An ID stands once in the store, in the copies of the due jobs, in every *)
(* image and in the file, and was given out before (KnownInv): so what     *)
(* tick writes back or deletes is the job it has run.  A one-shot wakes at *)
(* its time or never, its time is over once it has run, and from then on   *)
(* nothing but the copy in hand is due under its ID (SpentInv): whatever   *)
(* brings the job back computes its next run anew, and finds none.  The    *)
(* time a recurring job still waits and the time since its last start make *)
(* up its interval (ApartInv).  All this rests on what an edit of the tool *)
(* or of the scheduler has read of the slice still being so when it writes *)
(* (EditInv, SlotInv), and ends with the first overlap: from there on only *)
(* the types and the states of the loop are kept.                          *)
(***************************************************************************)
EXTENDS CronService, TLAPS, SequenceTheorems, FiniteSetTheorems,
        WellFoundedInduction, NaturalsInduction

Distinct(s) == \A i, k \in DOMAIN s : s[i].id = s[k].id => i = k
Known(s) == Distinct(s) /\ IdsOf(s) \subseteq created

(* The copy tick works on is that of j.                                    *)
Busy == loop \in {"executing", "placing"}
Executing(j) == Busy /\ due[1].id = j

LoopInv ==
    /\ ~up => loop = "off" /\ edit = Never
    /\ image # Never <=> loop \in {"starting", "writing", "saving"}
    /\ Busy => due # <<>>

KnownInv ==
    /\ Known(store) /\ Known(due) /\ Known(disk)
    /\ image \notin {Never, Pending} => Known(image)
    /\ toolImage \notin {Never, Pending} => Known(toolImage)
    /\ cli # Never => Known(cli)

TimeInv ==
    /\ \A i \in DOMAIN store :
         Kind[store[i].id] = "at" => store[i].next \in {Never, atIn[store[i].id]}
    /\ \A k \in DOMAIN due : Kind[due[k].id] = "at" => atIn[due[k].id] = 0

Spent(j) ==
    /\ Kind[j] = "at" /\ j \in created /\ atIn[j] = 0
    /\ \A i \in DOMAIN store : store[i].id = j /\ store[i].next = 0 => Executing(j)
    /\ \A k \in DOMAIN due : due[k].id = j => k = 1 /\ Executing(j)

SpentInv == \A j \in Jobs : runs[j] <= 1 /\ (runs[j] = 1 => Spent(j))

ApartInv ==
    /\ \A i \in DOMAIN store :
         Kind[store[i].id] = "every" /\ store[i].next # Never
         => \/ store[i].next + sinceRun[store[i].id] >= Period[store[i].id]
            \/ Executing(store[i].id)
    /\ \A k \in DOMAIN due :
         Kind[due[k].id] = "every"
         => sinceRun[due[k].id] >= Period[due[k].id] \/ (k = 1 /\ Busy)

(* The job under way has not been given out, and its time is still ahead.  *)
EditInv ==
    edit # Never /\ edit.at = 0
    => /\ edit.stale = <<>> /\ edit.rec.id \in ByTool \ created
       /\ edit.rec = NewRecord(edit.rec.id)

IndexOf(s, j) == SelectInSeq(s, LAMBDA rec : rec.id = j)

SlotInv == loop = "placing" => slot = IndexOf(store, due[1].id)

Orderly == KnownInv /\ TimeInv /\ SpentInv /\ ApartInv /\ EditInv /\ SlotInv

Sound == TypeOK /\ LoopInv /\ Orderly

IInv == TypeOK /\ LoopInv /\ (raced \/ Orderly)

-----------------------------------------------------------------------------
(* Sequences of records with an id.                                        *)

(* A set of natural numbers has a least element.                           *)
LEMMA Smallest ==
    ASSUME NEW I \in SUBSET Nat, I # {}
    PROVE  Min(I) \in I /\ \A n \in I : Min(I) <= n
<1>1. \A n, m \in Nat : n < m => <<n, m>> \in OpToRel(<, Nat)
  BY Zenon DEF OpToRel
<1>2. PICK m \in I : \A n \in I : ~(<<n, m>> \in OpToRel(<, Nat))
  BY NatLessThanWellFounded, WFMin, Zenon
<1>3. \A n \in I : ~(n < m)
  BY <1>1, <1>2, Zenon
<1>4. \E n \in I : \A o \in I : n <= o
  BY <1>3
<1> QED
  BY <1>4 DEF Min

(* SelectInSeq finds an element with the id if there is one.               *)
LEMMA FirstWithId ==
    ASSUME NEW S, NEW s \in Seq(S), NEW j
    PROVE  /\ j \in IdsOf(s) => IndexOf(s, j) \in DOMAIN s /\ s[IndexOf(s, j)].id = j
           /\ j \notin IdsOf(s) => IndexOf(s, j) = 0
<1> DEFINE I == {i \in 1..Len(s) : s[i].id = j}
<1>1. DOMAIN s = 1..Len(s) /\ Len(s) \in Nat
  BY LenProperties
<1>2. IndexOf(s, j) = IF I # {} THEN Min(I) ELSE 0
  BY DEF IndexOf, SelectInSeq
<1>3. I \in SUBSET Nat
  BY <1>1
<1>4. j \in IdsOf(s) <=> I # {}
  BY <1>1 DEF IdsOf
<1>5. I # {} => Min(I) \in I
  <2> HIDE DEF I
  <2> QED
    BY <1>3, Smallest
<1> QED
  BY <1>1, <1>2, <1>4, <1>5

(* What is left of a sequence without its n-th element.                    *)
LEMMA RemoveAtProperties ==
    ASSUME NEW S, NEW s \in Seq(S), NEW n \in 1..Len(s)
    PROVE  /\ RemoveAt(s, n) \in Seq(S)
           /\ \A k \in DOMAIN RemoveAt(s, n) : \E i \in DOMAIN s : RemoveAt(s, n)[k] = s[i]
           /\ Distinct(s) => Distinct(RemoveAt(s, n)) /\ s[n].id \notin IdsOf(RemoveAt(s, n))
<1> DEFINE t == RemoveAt(s, n)
<1>1. DOMAIN s = 1..Len(s) /\ Len(s) \in Nat
  BY LenProperties
<1>2. /\ t \in Seq(S) /\ Len(t) = Len(s) - 1
      /\ \A k \in 1..Len(t) : t[k] = IF k < n THEN s[k] ELSE s[k + 1]
  <2>1. t = SubSeq(s, 1, n - 1) \o SubSeq(s, n + 1, Len(s))
    BY DEF RemoveAt
  <2> DEFINE front == SubSeq(s, 1, n - 1)
             back == SubSeq(s, n + 1, Len(s))
  <2>2. /\ front \in Seq(S) /\ Len(front) = n - 1
        /\ \A k \in 1..(n - 1) : front[k] = s[k]
    <3>1. n - 1 \in Int /\ \A i \in 1..(n - 1) : s[i] \in S
      BY <1>1, ElementOfSeq
    <3>2. /\ front \in Seq(S) /\ Len(front) = IF 1 <= n - 1 THEN (n - 1) - 1 + 1 ELSE 0
          /\ \A i \in 1..((n - 1) - 1 + 1) : front[i] = s[1 + i - 1]
      BY <3>1, SubSeqProperties
    <3> HIDE DEF front
    <3>3. (n - 1) - 1 + 1 = n - 1 /\ \A i \in 1..(n - 1) : 1 + i - 1 = i
      BY <1>1
    <3> QED
      BY <1>1, <3>2, <3>3
  <2>3. /\ back \in Seq(S) /\ Len(back) = Len(s) - n
        /\ \A k \in n..(Len(s) - 1) : back[k - (n - 1)] = s[k + 1]
    <3>1. n + 1 \in Int /\ Len(s) \in Int /\ \A i \in (n + 1)..Len(s) : s[i] \in S
      BY <1>1, ElementOfSeq
    <3>2. /\ back \in Seq(S)
          /\ Len(back) = IF n + 1 <= Len(s) THEN Len(s) - (n + 1) + 1 ELSE 0
          /\ \A i \in 1..(Len(s) - (n + 1) + 1) : back[i] = s[(n + 1) + i - 1]
      BY <3>1, SubSeqProperties
    <3> HIDE DEF back
    <3>3. \A k \in n..(Len(s) - 1) :
            /\ k - (n - 1) \in 1..(Len(s) - (n + 1) + 1)
            /\ (n + 1) + (k - (n - 1)) - 1 = k + 1
      BY <1>1
    <3>4. Len(back) = Len(s) - n
      <4>1. CASE n + 1 <= Len(s)
        BY <1>1, <3>2, <4>1
      <4>2. CASE ~(n + 1 <= Len(s))
        <5>0. Len(s) \in Int /\ n \in Int /\ n <= Len(s)
          BY <1>1
        <5>1. Len(s) - n = 0
          BY <5>0, <4>2
        <5> QED
          BY <3>2, <4>2, <5>1
      <4> QED
        BY <4>1, <4>2
    <3>5. \A k \in n..(Len(s) - 1) : back[k - (n - 1)] = s[(n + 1) + (k - (n - 1)) - 1]
      BY <3>2, <3>3, Zenon
    <3>6. \A k \in n..(Len(s) - 1) : back[k - (n - 1)] = s[k + 1]
      BY <3>3, <3>5
    <3> QED
      BY <3>2, <3>4, <3>6
  <2> HIDE DEF t, front, back
  <2>4. /\ t \in Seq(S) /\ Len(t) = Len(front) + Len(back)
        /\ \A k \in 1..(Len(front) + Len(back)) :
             t[k] = IF k <= Len(front) THEN front[k] ELSE back[k - Len(front)]
    <3>1. t = front \o back
      BY <2>1 DEF front, back
    <3> QED
      BY <2>2, <2>3, <3>1, ConcatProperties
  <2>5. Len(t) = Len(s) - 1
    BY <1>1, <2>2, <2>3, <2>4
  <2>6. ASSUME NEW k \in 1..Len(t) PROVE t[k] = IF k < n THEN s[k] ELSE s[k + 1]
    <3>0. t[k] = IF k <= n - 1 THEN front[k] ELSE back[k - (n - 1)]
      BY <2>2, <2>4
    <3>1. CASE k < n
      <4>1. k \in 1..(n - 1) /\ k <= n - 1
        BY <1>1, <3>1
      <4> QED
        BY <2>2, <3>0, <3>1, <4>1
    <3>2. CASE ~(k < n)
      <4>1. k \in n..(Len(s) - 1) /\ ~(k <= n - 1)
        BY <1>1, <2>5, <3>2
      <4> QED
        BY <2>3, <3>0, <3>2, <4>1
    <3> QED
      BY <3>1, <3>2
  <2> QED
    BY <2>4, <2>5, <2>6
<1> HIDE DEF t
<1>3. DOMAIN t = 1..Len(t)
  BY <1>2, LenProperties
<1>4. \A k \in DOMAIN t :
        LET i == IF k < n THEN k ELSE k + 1 IN i \in DOMAIN s /\ i # n /\ t[k] = s[i]
  BY <1>1, <1>2, <1>3
<1>5. ASSUME Distinct(s) PROVE Distinct(t) /\ s[n].id \notin IdsOf(t)
  <2>1. Distinct(t)
    BY <1>1, <1>2, <1>3, <1>4, <1>5 DEF Distinct
  <2>2. s[n].id \notin IdsOf(t)
    BY <1>1, <1>4, <1>5 DEF Distinct, IdsOf
  <2> QED
    BY <2>1, <2>2
<1> QED
  BY <1>2, <1>4, <1>5 DEF t

(* What Without leaves.                                                    *)
LEMMA WithoutProperties ==
    ASSUME NEW S, NEW s \in Seq(S), NEW j
    PROVE  /\ Without(s, j) \in Seq(S)
           /\ \A k \in DOMAIN Without(s, j) : \E i \in DOMAIN s : Without(s, j)[k] = s[i]
           /\ Distinct(s) => Distinct(Without(s, j)) /\ j \notin IdsOf(Without(s, j))
<1> DEFINE n == IndexOf(s, j)
<1>1. DOMAIN s = 1..Len(s) /\ Len(s) \in Nat
  BY LenProperties
<1>2. CASE j \notin IdsOf(s)
  <2>1. Without(s, j) = s
    BY <1>1, <1>2 DEF Without, RemoveFirstMatch, IdsOf
  <2> QED
    BY <1>2, <2>1
<1>3. CASE j \in IdsOf(s)
  <2>1. n \in 1..Len(s) /\ s[n].id = j
    BY <1>1, <1>3, FirstWithId
  <2>2. Without(s, j) = RemoveAt(s, n)
    BY <1>1, <1>3 DEF Without, RemoveFirstMatch, IdsOf, IndexOf
  <2> HIDE DEF n
  <2> QED
    BY <2>1, <2>2, RemoveAtProperties
<1> QED
  BY <1>2, <1>3

(* What DueJobs selects.                                                   *)
LEMMA DueProperties ==
    ASSUME NEW S, NEW s \in Seq(S), NEW d \in DueJobs(s)
    PROVE  /\ d \in Seq(S)
           /\ \A k \in DOMAIN d : \E i \in DOMAIN s : d[k] = s[i] /\ IsDue(s[i])
           /\ Distinct(s) => Distinct(d)
<1> DEFINE dueAt == {i \in DOMAIN s : IsDue(s[i])}
<1>1. DOMAIN s = 1..Len(s) /\ Len(s) \in Nat
  BY LenProperties
<1>2. IsFiniteSet(dueAt)
  <2>1. IsFiniteSet(1..Len(s)) /\ dueAt \in SUBSET (1..Len(s))
    BY <1>1, FS_Interval
  <2> QED
    BY <2>1, FS_Subset
<1>3. Cardinality(dueAt) \in Nat
  BY <1>2, FS_CardinalityType
<1>4. PICK at \in [1..Cardinality(dueAt) -> dueAt] :
        /\ \A k, l \in DOMAIN at : k < l => at[k] < at[l]
        /\ d = [k \in DOMAIN at |-> s[at[k]]]
  BY DEF DueJobs
<1> DEFINE n == Cardinality(dueAt)
<1>5. n \in Nat /\ at \in [1..n -> dueAt] /\ d = [k \in 1..n |-> s[at[k]]]
  BY <1>3, <1>4
<1> HIDE DEF n
<1>6. \A k \in 1..n : at[k] \in 1..Len(s) /\ IsDue(s[at[k]]) /\ s[at[k]] \in S
  BY <1>1, <1>5, ElementOfSeq
<1>7. d \in Seq(S)
  BY <1>5, <1>6, IsASeq
<1>8. ASSUME Distinct(s) PROVE Distinct(d)
  <2>1. \A k, l \in 1..n : k < l => at[k] # at[l]
    <3>1. DOMAIN at = 1..n
      BY <1>5
    <3>2. \A k, l \in 1..n : k < l => at[k] < at[l]
      BY <1>4, <3>1, Zenon
    <3> QED
      BY <1>1, <1>6, <3>2
  <2>2. \A k, l \in 1..n : k # l => at[k] # at[l]
    BY <1>5, <2>1
  <2> QED
    BY <1>1, <1>5, <1>6, <1>8, <2>2 DEF Distinct
<1> QED
  BY <1>1, <1>5, <1>6, <1>7, <1>8

(* What Append and Tail do to IDs.                                         *)
LEMMA AppendDistinct ==
    ASSUME NEW S, NEW s \in Seq(S), NEW e \in S, Distinct(s), e.id \notin IdsOf(s)
    PROVE  Distinct(Append(s, e)) /\ IdsOf(Append(s, e)) = IdsOf(s) \cup {e.id}
<1> DEFINE t == Append(s, e)
<1>1. /\ t \in Seq(S) /\ DOMAIN s = 1..Len(s) /\ Len(s) \in Nat
      /\ DOMAIN t = 1..(Len(s) + 1)
      /\ \A i \in 1..Len(s) : t[i] = s[i]
      /\ t[Len(s) + 1] = e
  BY AppendProperties, LenProperties
<1> HIDE DEF t
<1>2. Distinct(t)
  BY <1>1 DEF Distinct, IdsOf
<1>3. IdsOf(t) = IdsOf(s) \cup {e.id}
  BY <1>1 DEF IdsOf
<1> QED
  BY <1>2, <1>3 DEF t

(* What is left of a sequence without its head.                            *)
LEMMA TailProperties ==
    ASSUME NEW S, NEW s \in Seq(S), s # <<>>
    PROVE  /\ Tail(s) \in Seq(S)
           /\ \A k \in DOMAIN Tail(s) : k + 1 \in DOMAIN s /\ Tail(s)[k] = s[k + 1]
           /\ Distinct(s) => Distinct(Tail(s))
           /\ 1 \in DOMAIN s /\ Head(s) = s[1] /\ s[1] \in S
<1>1. /\ Tail(s) \in Seq(S) /\ Len(Tail(s)) = Len(s) - 1 /\ Len(s) \in Nat \ {0}
      /\ DOMAIN s = 1..Len(s) /\ DOMAIN Tail(s) = 1..Len(Tail(s))
      /\ \A k \in 1..Len(Tail(s)) : Tail(s)[k] = s[k + 1]
      /\ Head(s) = s[1]
  BY HeadTailProperties, LenProperties, EmptySeq
<1>2. Distinct(s) => Distinct(Tail(s))
  BY <1>1 DEF Distinct
<1> QED
  BY <1>1, <1>2, ElementOfSeq

(* Sequences with the same IDs.                                            *)
LEMMA SameIds ==
    ASSUME NEW s, NEW t, DOMAIN s = DOMAIN t, \A i \in DOMAIN s : s[i].id = t[i].id
    PROVE  IdsOf(s) = IdsOf(t) /\ (Distinct(s) <=> Distinct(t))
  BY DEF IdsOf, Distinct

(* Image keeps the IDs.                                                    *)
LEMMA ImageProperties ==
    ASSUME NEW s \in Seq(Record)
    PROVE  /\ Image(s) \in Seq(Entry) /\ IdsOf(Image(s)) = IdsOf(s)
           /\ Distinct(s) <=> Distinct(Image(s))
<1>1. DOMAIN s = 1..Len(s) /\ Len(s) \in Nat /\ \A i \in 1..Len(s) : s[i] \in Record
  BY LenProperties, ElementOfSeq
<1>2. \A i \in 1..Len(s) : [id |-> s[i].id, enabled |-> s[i].enabled] \in Entry
  BY <1>1 DEF Record, Entry
<1>3. Image(s) = [i \in 1..Len(s) |-> [id |-> s[i].id, enabled |-> s[i].enabled]]
  BY <1>1 DEF Image
<1>4. Image(s) \in Seq(Entry)
  BY <1>1, <1>2, <1>3, IsASeq
<1>5. DOMAIN Image(s) = DOMAIN s /\ \A i \in DOMAIN s : s[i].id = Image(s)[i].id
  BY <1>1, <1>3
<1> QED
  BY <1>4, <1>5, SameIds

(* The times of computeNextRun, which lie ahead.                           *)
LEMMA NextRunProperties ==
    ASSUME TypeOK, NEW j \in Jobs
    PROVE  /\ NextRun(j) \in Nat \cup {Never} /\ NextRun(j) # 0
           /\ Kind[j] = "at" => NextRun(j) = IF atIn[j] > 0 THEN atIn[j] ELSE Never
           /\ Kind[j] = "every" => NextRun(j) = Period[j]
<1>1. /\ Kind[j] \in {"at", "every", "cron"} /\ Period[j] \in Nat \ {0}
      /\ Grid \in Nat \ {0} /\ Never \notin Nat /\ atIn[j] \in Nat /\ phase \in 0..(Grid - 1)
  BY CronAssumption DEF CronAssumption, TypeOK
<1>2. CASE Kind[j] = "at"
  BY <1>1, <1>2 DEF NextRun
<1>3. CASE Kind[j] = "every"
  BY <1>1, <1>3 DEF NextRun
<1>4. CASE Kind[j] = "cron"
  BY <1>1, <1>4 DEF NextRun
<1> QED
  BY <1>1, <1>2, <1>3, <1>4

(* recomputeNextRuns touches the times only.                               *)
LEMMA Rescheduled ==
    ASSUME TypeOK, NEW s \in Seq(Record)
    PROVE  /\ Reschedule(s) \in Seq(Record)
           /\ DOMAIN Reschedule(s) = DOMAIN s
           /\ \A i \in DOMAIN s :
                /\ s[i].id \in Jobs /\ Reschedule(s)[i].id = s[i].id
                /\ Reschedule(s)[i].next = IF s[i].enabled THEN NextRun(s[i].id)
                                           ELSE s[i].next
<1>1. DOMAIN s = 1..Len(s) /\ Len(s) \in Nat /\ \A i \in 1..Len(s) : s[i] \in Record
  BY LenProperties, ElementOfSeq
<1> DEFINE f(r) == IF r.enabled THEN [r EXCEPT !.next = NextRun(r.id)] ELSE r
<1>2. ASSUME NEW r \in Record
      PROVE  /\ f(r) \in Record /\ f(r).id = r.id /\ r.id \in Jobs
             /\ f(r).next = IF r.enabled THEN NextRun(r.id) ELSE r.next
  <2>1. r.id \in Jobs
    BY DEF Record
  <2>2. NextRun(r.id) \in Nat \cup {Never}
    BY <2>1, NextRunProperties
  <2> QED
    BY <2>1, <2>2 DEF Record
<1>3. Reschedule(s) = [i \in 1..Len(s) |-> f(s[i])]
  BY <1>1 DEF Reschedule
<1> HIDE DEF f
<1>4. Reschedule(s) \in Seq(Record)
  BY <1>1, <1>2, <1>3, IsASeq
<1> QED
  BY <1>1, <1>2, <1>3, <1>4

(* The write-back of runJob replaces the record with the ID of the copy.   *)
LEMMA WriteBackProperties ==
    ASSUME store \in Seq(Record), NEW rec \in Record, slot = IndexOf(store, rec.id)
    PROVE  /\ WriteBack(rec) \in Seq(Record)
           /\ DOMAIN WriteBack(rec) = DOMAIN store
           /\ \A i \in DOMAIN store :
                /\ WriteBack(rec)[i].id = store[i].id
                /\ store[i].id # rec.id => WriteBack(rec)[i] = store[i]
                /\ WriteBack(rec)[i] \in {store[i], rec}
                /\ Distinct(store) /\ store[i].id = rec.id => WriteBack(rec)[i] = rec
<1>1. WriteBack(rec) = IF slot = 0 THEN store ELSE [store EXCEPT ![slot] = rec]
  BY DEF WriteBack
<1>2. /\ rec.id \in IdsOf(store) => slot \in DOMAIN store /\ store[slot].id = rec.id
      /\ rec.id \notin IdsOf(store) => slot = 0
  BY FirstWithId
<1>3. DOMAIN store = 1..Len(store) /\ Len(store) \in Nat
  BY LenProperties
<1>4. CASE rec.id \in IdsOf(store)
  <2>1. WriteBack(rec) = [store EXCEPT ![slot] = rec]
    BY <1>1, <1>2, <1>3, <1>4
  <2>2. WriteBack(rec) \in Seq(Record)
    BY <1>2, <1>3, <1>4, <2>1, ExceptSeq
  <2> QED
    BY <1>2, <1>4, <2>1, <2>2 DEF Distinct
<1>5. CASE rec.id \notin IdsOf(store)
  BY <1>1, <1>2, <1>5 DEF IdsOf
<1> QED
  BY <1>4, <1>5

(* Wherever it goes, the slice stays one of records.                       *)
LEMMA WriteBackType ==
    ASSUME store \in Seq(Record), slot \in Nat, slot <= Len(store), NEW rec \in Record
    PROVE  WriteBack(rec) \in Seq(Record)
<1>1. DOMAIN store = 1..Len(store) /\ Len(store) \in Nat
  BY LenProperties
<1>2. CASE slot = 0
  BY <1>2 DEF WriteBack
<1>3. CASE slot # 0
  <2>1. slot \in 1..Len(store)
    BY <1>1, <1>3
  <2>2. WriteBack(rec) = [store EXCEPT ![slot] = rec]
    BY <1>3 DEF WriteBack
  <2> QED
    BY <1>1, <2>1, <2>2, ExceptSeq
<1> QED
  BY <1>2, <1>3

-----------------------------------------------------------------------------
(* Steps that touch none of what the invariant is about but the files and  *)
(* an edit of the tool that begins, and those in which the loop only waits.*)
Quiet ==
    /\ UNCHANGED <<up, store, loop, due, slot, image, atIn, sinceRun, runs>>
    /\ created \subseteq created'
    /\ up \/ edit' = edit

Waits ==
    /\ loop \in {"idle", "polling", "sleeping"}
    /\ loop' \in {"idle", "polling", "sleeping", "off"}
    /\ UNCHANGED <<up, store, due, image, edit, atIn, sinceRun, runs, created>>

(* The kinds of steps.                                                     *)
LEMMA StepKinds ==
    ASSUME [Next]_vars
    PROVE  \/ Quiet \/ Waits \/ Start \/ Exit \/ Tick \/ Wake \/ StartJob \/ FinishJob
           \/ Place \/ EndTick \/ MarshalImage \/ WriteImage \/ EditEnds
<1> USE DEF vars, procVars, toolVars, loopVars, fileVars, timeVars
<1>1. UNCHANGED vars => Quiet
  BY DEF Quiet
<1>2. Shutdown \/ MarshalToolImage \/ WriteToolImage \/ CliLoad \/ CliLeaves => Quiet
  BY DEF Quiet, Shutdown, MarshalToolImage, WriteToolImage, CliLoad, CliLeaves
<1>3. \A j \in Jobs : CliAdd(j) \/ CliRemove(j) \/ CliRun(j) => Quiet
  BY DEF Quiet, CliAdd, CliRemove, CliRun, CliSave
<1>4. \A j \in Jobs, enabled \in BOOLEAN : CliEnable(j, enabled) => Quiet
  BY DEF Quiet, CliEnable, CliSave
<1>5. Arm => Waits
  BY DEF Waits, Arm
<1>6. PollAgain \/ LoopEnds => Waits
  BY DEF Waits, PollAgain, LoopEnds
<1>7. \A j \in Jobs : AddJob(j) => Quiet
  BY DEF Quiet, AddJob, ToolIdle
<1>8. \A i \in DOMAIN store : RemoveJob(i) => Quiet
  BY DEF Quiet, RemoveJob, ToolIdle
<1>9. PlacePanics \/ EditPanics => Exit
  BY DEF PlacePanics, EditPanics
<1> QED
  BY <1>1, <1>2, <1>3, <1>4, <1>5, <1>6, <1>7, <1>8, <1>9, Zenon DEF Next

(* An overlap is not forgotten.                                            *)
LEMMA RacedStays == [Next]_vars /\ raced => raced'
<1> SUFFICES ASSUME [Next]_vars, raced PROVE raced'
  OBVIOUS
<1> USE DEF vars, procVars, toolVars, loopVars, fileVars, timeVars
<1>1. UNCHANGED vars \/ Start \/ Shutdown \/ Exit \/ Tick => UNCHANGED raced
  BY DEF Start, Shutdown, Exit, Tick
<1>2. Arm \/ PollAgain \/ LoopEnds \/ Wake \/ StartJob \/ FinishJob => UNCHANGED raced
  BY DEF Arm, PollAgain, LoopEnds, Wake, StartJob, FinishJob
<1>3. Place \/ EndTick \/ EditEnds => raced'
  BY DEF Place, EndTick, EditEnds
<1>4. PlacePanics \/ EditPanics => UNCHANGED raced
  BY DEF PlacePanics, EditPanics, Exit
<1>5. MarshalImage \/ WriteImage \/ MarshalToolImage \/ WriteToolImage => UNCHANGED raced
  BY DEF MarshalImage, WriteImage, MarshalToolImage, WriteToolImage
<1>6. \A j \in Jobs : AddJob(j) => UNCHANGED raced
  BY DEF AddJob
<1>7. \A i \in DOMAIN store : RemoveJob(i) => UNCHANGED raced
  BY DEF RemoveJob
<1>8. CliLoad \/ CliLeaves => UNCHANGED raced
  BY DEF CliLoad, CliLeaves
<1>9. \A j \in Jobs : CliAdd(j) \/ CliRemove(j) \/ CliRun(j) => UNCHANGED raced
  BY DEF CliAdd, CliRemove, CliRun, CliSave
<1>10. \A j \in Jobs, enabled \in BOOLEAN : CliEnable(j, enabled) => UNCHANGED raced
  BY DEF CliEnable, CliSave
<1> QED
  BY <1>1, <1>2, <1>3, <1>4, <1>5, <1>6, <1>7, <1>8, <1>9, <1>10, Zenon DEF Next

(* An empty file or store.                                                 *)
LEMMA Nothing == <<>> \in Seq(Record) /\ <<>> \in Seq(Entry) /\ DOMAIN <<>> = {}
  OBVIOUS

(* The initial states.                                                     *)
LEMMA InvInit == Init => IInv
<1> SUFFICES ASSUME Init PROVE IInv
  OBVIOUS
<1> USE CronAssumption DEF CronAssumption, Init
<1>1. <<>> \in Seq(Record) /\ <<>> \in Seq(Entry) /\ DOMAIN <<>> = {}
  BY Nothing
<1>2. TypeOK
  <2>1. atIn \in [Jobs -> Nat] /\ sinceRun \in [Jobs -> Nat] /\ runs \in [Jobs -> Nat]
    OBVIOUS
  <2>2. phase \in 0..(Grid - 1) /\ timer \in Nat /\ loop \in LoopStates
    BY DEF LoopStates
  <2> QED
    BY <1>1, <2>1, <2>2 DEF TypeOK
<1>3. LoopInv
  BY DEF LoopInv, Busy
<1>4. KnownInv
  BY <1>1 DEF KnownInv, Known, Distinct, IdsOf
<1>5. TimeInv /\ SpentInv /\ ApartInv
  BY <1>1 DEF TimeInv, SpentInv, ApartInv
<1>6. EditInv /\ SlotInv
  BY DEF EditInv, SlotInv
<1> QED
  BY <1>2, <1>3, <1>4, <1>5, <1>6 DEF IInv, Orderly

-----------------------------------------------------------------------------
(* The records of jobs.json as Start loads them.                           *)
Read(entries) ==
    [i \in DOMAIN entries |->
       [id |-> entries[i].id, enabled |-> entries[i].enabled, next |-> Never]]

(* They keep their IDs, and no time yet.                                   *)
LEMMA ReadProperties ==
    ASSUME NEW es \in Seq(Entry)
    PROVE  /\ Read(es) \in Seq(Record) /\ DOMAIN Read(es) = DOMAIN es
           /\ \A i \in DOMAIN es : Read(es)[i].id = es[i].id /\ Read(es)[i].next = Never
<1>1. DOMAIN es = 1..Len(es) /\ Len(es) \in Nat /\ \A i \in 1..Len(es) : es[i] \in Entry
  BY LenProperties, ElementOfSeq
<1>2. \A i \in 1..Len(es) :
        [id |-> es[i].id, enabled |-> es[i].enabled, next |-> Never] \in Record
  BY <1>1 DEF Record, Entry
<1>3. Read(es) = [i \in 1..Len(es) |->
                    [id |-> es[i].id, enabled |-> es[i].enabled, next |-> Never]]
  BY <1>1 DEF Read
<1>4. Read(es) \in Seq(Record)
  BY <1>1, <1>2, <1>3, IsASeq
<1> QED
  BY <1>1, <1>3, <1>4

(* The store after Start: the entries of the file, with times ahead.       *)
LEMMA Started ==
    ASSUME TypeOK, Start
    PROVE  /\ store' \in Seq(Record) /\ DOMAIN store' = DOMAIN disk
           /\ \A i \in DOMAIN disk :
                /\ disk[i].id \in Jobs /\ store'[i].id = disk[i].id
                /\ store'[i].next \in {Never, NextRun(disk[i].id)}
<1>1. store' = Reschedule(Read(disk)) /\ disk \in Seq(Entry)
  BY DEF Start, Read, TypeOK
<1>2. /\ Read(disk) \in Seq(Record) /\ DOMAIN Read(disk) = DOMAIN disk
      /\ \A i \in DOMAIN disk : Read(disk)[i].id = disk[i].id /\ Read(disk)[i].next = Never
  BY <1>1, ReadProperties
<1> QED
  BY <1>1, <1>2, Rescheduled

(* The store after a tick of the clock.                                    *)
LEMMA Ticked ==
    ASSUME TypeOK, Tick
    PROVE  /\ store' \in Seq(Record) /\ DOMAIN store' = DOMAIN store
           /\ \A i \in DOMAIN store :
                /\ store[i] \in Record
                /\ store'[i].id = store[i].id /\ store'[i].next = CountDown(store[i].next)
<1>1. DOMAIN store = 1..Len(store) /\ Len(store) \in Nat
      /\ \A i \in 1..Len(store) : store[i] \in Record
  BY LenProperties, ElementOfSeq DEF TypeOK
<1> DEFINE f(r) == [r EXCEPT !.next = CountDown(@)]
<1>2. \A n \in Nat \cup {Never} : CountDown(n) \in Nat \cup {Never}
  BY CronAssumption DEF CountDown, CronAssumption
<1>3. \A r \in Record : f(r) \in Record /\ f(r).id = r.id /\ f(r).next = CountDown(r.next)
  BY <1>2 DEF Record
<1>4. store' = [i \in 1..Len(store) |-> f(store[i])]
  BY <1>1 DEF Tick
<1> HIDE DEF f
<1>5. store' \in Seq(Record)
  BY <1>1, <1>3, <1>4, IsASeq
<1> QED
  BY <1>1, <1>3, <1>4, <1>5

(* The record runJob writes back.                                          *)
LEMMA FinishedProperties ==
    ASSUME TypeOK, NEW rec \in Record
    PROVE  /\ Finished(rec) \in Record /\ Finished(rec).id = rec.id /\ rec.id \in Jobs
           /\ Kind[rec.id] = "at" => Finished(rec).next = Never
           /\ Kind[rec.id] # "at" => Finished(rec).next = NextRun(rec.id)
<1>1. rec.id \in Jobs
  BY DEF Record
<1>2. NextRun(rec.id) \in Nat \cup {Never}
  BY <1>1, NextRunProperties
<1>3. CASE Kind[rec.id] = "at"
  BY <1>1, <1>3 DEF Finished, Record
<1>4. CASE Kind[rec.id] # "at"
  BY <1>1, <1>2, <1>4 DEF Finished, Record
<1> QED
  BY <1>1, <1>3, <1>4

(* The job in hand, and the jobs after it.                                 *)
LEMMA InHand ==
    ASSUME TypeOK, due # <<>>
    PROVE  /\ 1 \in DOMAIN due /\ Head(due) = due[1] /\ due[1] \in Record
           /\ due[1].id \in Jobs /\ Tail(due) \in Seq(Record)
           /\ \A k \in DOMAIN Tail(due) : k + 1 \in DOMAIN due /\ Tail(due)[k] = due[k + 1]
           /\ Distinct(due) => Distinct(Tail(due))
<1>1. due \in Seq(Record)
  BY DEF TypeOK
<1>2. /\ Tail(due) \in Seq(Record)
      /\ \A k \in DOMAIN Tail(due) : k + 1 \in DOMAIN due /\ Tail(due)[k] = due[k + 1]
      /\ Distinct(due) => Distinct(Tail(due))
      /\ 1 \in DOMAIN due /\ Head(due) = due[1] /\ due[1] \in Record
  BY <1>1, TailProperties
<1> QED
  BY <1>2 DEF Record

(* The deleted or written-back job, and the others as they were.           *)
LEMMA JobFinished ==
    ASSUME Sound, Place
    PROVE  /\ due # <<>> /\ store' \in Seq(Record)
           /\ Distinct(store') /\ IdsOf(store') \subseteq IdsOf(store)
           /\ \A i \in DOMAIN store' :
                \/ /\ store'[i].id # due[1].id
                   /\ \E k \in DOMAIN store : store'[i] = store[k]
                \/ store'[i] = Finished(due[1])
<1>1. /\ due # <<>> /\ TypeOK /\ store \in Seq(Record)
      /\ Distinct(store) /\ slot = IndexOf(store, due[1].id)
  BY DEF Sound, Orderly, LoopInv, Busy, KnownInv, Known, SlotInv, Place, TypeOK
<1>2. Head(due) = due[1] /\ due[1] \in Record
  BY <1>1, InHand
<1> DEFINE j == due[1].id
<1>3. CASE DeleteAfterRun(j)
  <2>1. store' = IF slot = 0 THEN store ELSE RemoveAt(store, slot)
    BY <1>2, <1>3 DEF Place
  <2>2. DOMAIN store = 1..Len(store) /\ Len(store) \in Nat
    BY <1>1, LenProperties
  <2>3. CASE j \in IdsOf(store)
    <3>1. slot \in 1..Len(store) /\ store[slot].id = j
      BY <1>1, <2>2, <2>3, FirstWithId
    <3>2. store' = RemoveAt(store, slot)
      BY <2>1, <2>2, <3>1
    <3>3. /\ store' \in Seq(Record)
          /\ \A k \in DOMAIN store' : \E i \in DOMAIN store : store'[k] = store[i]
          /\ Distinct(store') /\ j \notin IdsOf(store')
      BY <1>1, <3>1, <3>2, RemoveAtProperties
    <3> QED
      BY <1>1, <3>3 DEF IdsOf
  <2>4. CASE j \notin IdsOf(store)
    <3>1. store' = store
      BY <1>1, <2>1, <2>4, FirstWithId
    <3> QED
      BY <1>1, <2>4, <3>1 DEF IdsOf
  <2> QED
    BY <2>3, <2>4
<1>4. CASE ~DeleteAfterRun(j)
  <2> DEFINE rec == Finished(due[1])
  <2>1. store' = WriteBack(rec)
    BY <1>2, <1>4 DEF Place
  <2>2. rec \in Record /\ rec.id = j
    BY <1>1, <1>2, FinishedProperties
  <2> HIDE DEF rec
  <2>3. /\ store' \in Seq(Record) /\ DOMAIN store' = DOMAIN store
        /\ \A i \in DOMAIN store :
             /\ store'[i].id = store[i].id
             /\ store[i].id # j => store'[i] = store[i]
             /\ store[i].id = j => store'[i] = rec
    BY <1>1, <2>1, <2>2, WriteBackProperties
  <2>4. IdsOf(store') = IdsOf(store) /\ Distinct(store')
    BY <1>1, <2>3, SameIds
  <2> QED
    BY <1>1, <2>3, <2>4 DEF rec
<1> QED
  BY <1>3, <1>4

-----------------------------------------------------------------------------
(* Type correctness.                                                       *)

(* Edits of the entries the cron command has loaded.                       *)
LEMMA EnabledProperties ==
    ASSUME NEW es \in Seq(Entry), NEW j, NEW b \in BOOLEAN
    PROVE  /\ WithEnabled(es, j, b) \in Seq(Entry)
           /\ DOMAIN WithEnabled(es, j, b) = DOMAIN es
           /\ \A i \in DOMAIN es : es[i].id = WithEnabled(es, j, b)[i].id
<1>1. DOMAIN es = 1..Len(es) /\ Len(es) \in Nat /\ \A i \in 1..Len(es) : es[i] \in Entry
  BY LenProperties, ElementOfSeq
<1> DEFINE f(e) == IF e.id = j THEN [e EXCEPT !.enabled = b] ELSE e
<1>2. \A e \in Entry : f(e) \in Entry /\ f(e).id = e.id
  BY DEF Entry
<1>3. WithEnabled(es, j, b) = [i \in 1..Len(es) |-> f(es[i])]
  BY <1>1 DEF WithEnabled
<1> HIDE DEF f
<1>4. WithEnabled(es, j, b) \in Seq(Entry)
  BY <1>1, <1>2, <1>3, IsASeq
<1> QED
  BY <1>1, <1>2, <1>3, <1>4

(* What a save of the cron command may write.                              *)
CliSaves(j) ==
    /\ cli # Never /\ cli' = Never
    /\ UNCHANGED <<procVars, timeVars, runs>>
    /\ \/ /\ j \notin created \cup ByTool /\ created' = created \cup {j}
          /\ disk' = Append(cli, [id |-> j, enabled |-> TRUE])
       \/ /\ created' = created
          /\ \/ disk' \in {cli, Without(cli, j)}
             \/ \E b \in BOOLEAN : disk' = WithEnabled(cli, j, b)

(* It writes no more than that.                                            *)
LEMMA CliSaving ==
    ASSUME NEW j \in Jobs,
           \/ CliAdd(j) \/ CliRemove(j) \/ CliRun(j)
           \/ \E b \in BOOLEAN : CliEnable(j, b)
    PROVE  CliSaves(j)
<1>1. CASE CliAdd(j)
  BY <1>1 DEF CliAdd, CliSave, CliSaves
<1>2. CASE CliRemove(j)
  BY <1>2 DEF CliRemove, CliSave, CliSaves
<1>3. CASE CliRun(j)
  <2>1. /\ cli # Never /\ cli' = Never /\ created' = created
        /\ UNCHANGED <<procVars, timeVars, runs>>
        /\ disk' = CASE Kind[j] # "at" -> cli
                     [] DeleteAfterRun(j) -> Without(cli, j)
                     [] OTHER -> WithEnabled(cli, j, FALSE)
    BY <1>3 DEF CliRun, CliSave
  <2>2. disk' \in {cli, Without(cli, j), WithEnabled(cli, j, FALSE)}
    <3>1. CASE Kind[j] # "at"
      BY <2>1, <3>1 DEF DeleteAfterRun
    <3>2. CASE Kind[j] = "at" /\ DeleteAfterRun(j)
      BY <2>1, <3>2
    <3>3. CASE Kind[j] = "at" /\ ~DeleteAfterRun(j)
      BY <2>1, <3>3
    <3> QED
      BY <3>1, <3>2, <3>3
  <2> QED
    BY <2>1, <2>2 DEF CliSaves
<1>4. ASSUME NEW b \in BOOLEAN, CliEnable(j, b) PROVE CliSaves(j)
  BY <1>4 DEF CliEnable, CliSave, CliSaves
<1> QED
  BY <1>1, <1>2, <1>3, <1>4

(* It is a file of entries, whose IDs stay known if they were.             *)
LEMMA CliSaved ==
    ASSUME TypeOK, NEW j \in Jobs, CliSaves(j)
    PROVE  /\ disk' \in Seq(Entry) /\ created' \subseteq Jobs
           /\ created \subseteq created'
           /\ Known(cli) => Known(disk)'
<1>1. cli \in Seq(Entry) /\ created \subseteq Jobs
  BY DEF TypeOK, CliSaves
<1>2. ASSUME disk' = Append(cli, [id |-> j, enabled |-> TRUE]), j \notin created,
             created' = created \cup {j}
      PROVE  disk' \in Seq(Entry) /\ (Known(cli) => Known(disk)')
  <2> DEFINE e == [id |-> j, enabled |-> TRUE]
  <2>1. e \in Entry /\ e.id = j /\ disk' = Append(cli, e)
    BY <1>2 DEF Entry
  <2> HIDE DEF e
  <2>2. disk' \in Seq(Entry)
    BY <1>1, <2>1, AppendProperties
  <2>3. ASSUME Known(cli) PROVE Known(disk)'
    <3>1. Distinct(cli) /\ e.id \notin IdsOf(cli)
      BY <1>2, <2>1, <2>3 DEF Known
    <3>2. Distinct(disk') /\ IdsOf(disk') = IdsOf(cli) \cup {j}
      BY <1>1, <2>1, <3>1, AppendDistinct
    <3> QED
      BY <1>2, <2>3, <3>2 DEF Known
  <2> QED
    BY <2>2, <2>3
<1>3. ASSUME disk' = cli, created' = created
      PROVE  disk' \in Seq(Entry) /\ (Known(cli) => Known(disk)')
  BY <1>1, <1>3 DEF Known
<1>4. ASSUME disk' = Without(cli, j), created' = created
      PROVE  disk' \in Seq(Entry) /\ (Known(cli) => Known(disk)')
  <2>1. /\ disk' \in Seq(Entry)
        /\ \A k \in DOMAIN disk' : \E i \in DOMAIN cli : disk'[k] = cli[i]
        /\ Distinct(cli) => Distinct(disk')
    BY <1>1, <1>4, WithoutProperties
  <2> QED
    BY <1>4, <2>1 DEF Known, IdsOf
<1>5. ASSUME NEW b \in BOOLEAN, disk' = WithEnabled(cli, j, b), created' = created
      PROVE  disk' \in Seq(Entry) /\ (Known(cli) => Known(disk)')
  <2>1. /\ disk' \in Seq(Entry) /\ DOMAIN disk' = DOMAIN cli
        /\ \A i \in DOMAIN cli : cli[i].id = disk'[i].id
    BY <1>1, <1>5, EnabledProperties
  <2>2. IdsOf(cli) = IdsOf(disk') /\ (Distinct(cli) <=> Distinct(disk'))
    BY <2>1, SameIds
  <2> QED
    BY <1>5, <2>1, <2>2 DEF Known
<1> QED
  BY <1>1, <1>2, <1>3, <1>4, <1>5 DEF CliSaves

(* Every step keeps the types.                                             *)
LEMMA TypeStep == TypeOK /\ LoopInv /\ [Next]_vars => TypeOK'
<1> SUFFICES ASSUME TypeOK, LoopInv, [Next]_vars PROVE TypeOK'
  OBVIOUS
<1> USE CronAssumption DEF procVars, toolVars, loopVars, fileVars, timeVars
<1>0. TypeOK
  OBVIOUS
<1>1. CASE UNCHANGED vars
  BY <1>0, <1>1 DEF TypeOK, vars
<1>2. CASE Start
  <2>1. store' \in Seq(Record)
    BY <1>0, <1>2, Started
  <2> QED
    BY <1>0, <1>2, <2>1 DEF TypeOK, Start, LoopStates
<1>3. CASE Shutdown
  BY <1>0, <1>3 DEF TypeOK, Shutdown
<1>4. CASE Exit
  <2>1. disk' \in {disk, <<>>} /\ store' = <<>> /\ due' = <<>>
    BY <1>4 DEF Exit, Torn
  <2>2. disk' \in Seq(Entry) /\ store' \in Seq(Record) /\ due' \in Seq(Record)
    BY <1>0, <2>1, Nothing DEF TypeOK
  <2> QED
    BY <1>0, <1>4, <2>2 DEF TypeOK, Exit, LoopStates
<1>5. CASE Tick
  <2>1. store' \in Seq(Record)
    BY <1>0, <1>5, Ticked
  <2>2. \A n \in Nat : CountDown(n) \in Nat
    BY DEF CountDown, CronAssumption
  <2>3. timer' \in Nat /\ atIn' \in [Jobs -> Nat]
    BY <1>0, <1>5, <2>2 DEF TypeOK, Tick
  <2>4. sinceRun' \in [Jobs -> Nat]
    BY <1>0, <1>5 DEF TypeOK, Tick
  <2>5. phase' \in 0..(Grid - 1)
    BY <1>0, <1>5 DEF TypeOK, Tick, CronAssumption
  <2> QED
    BY <1>0, <1>5, <2>1, <2>3, <2>4, <2>5 DEF TypeOK, Tick
<1>6. CASE Arm
  <2>1. Wakes \subseteq Nat
    <3>1. \A i \in DOMAIN store : store[i] \in Record
      BY <1>0, ElementOfSeq, LenProperties DEF TypeOK
    <3> QED
      BY <3>1 DEF Wakes, Scheduled, Record
  <2>2. timer' \in Nat /\ loop' \in LoopStates
    BY <1>6, <2>1 DEF Arm, LoopStates, CronAssumption
  <2> QED
    BY <1>0, <1>6, <2>2 DEF TypeOK, Arm
<1>7. CASE PollAgain
  BY <1>0, <1>7 DEF TypeOK, PollAgain, LoopStates
<1>8. CASE LoopEnds
  BY <1>0, <1>8 DEF TypeOK, LoopEnds, LoopStates
<1>9. CASE Wake
  <2>1. due' \in Seq(Record)
    BY <1>0, <1>9, DueProperties DEF TypeOK, Wake
  <2> QED
    BY <1>0, <1>9, <2>1 DEF TypeOK, Wake, LoopStates
<1>10. CASE StartJob
  <2>1. Head(due).id \in Jobs
    BY <1>0, <1>10, InHand DEF StartJob
  <2>2. sinceRun' \in [Jobs -> Nat] /\ runs' \in [Jobs -> Nat]
    <3>1. runs' = runs \/ runs' = [runs EXCEPT ![Head(due).id] = @ + 1]
      BY <1>10 DEF StartJob
    <3>2. sinceRun' = [sinceRun EXCEPT ![Head(due).id] =
                         IF Kind[Head(due).id] = "every" THEN 0 ELSE @]
      BY <1>10 DEF StartJob
    <3>5. runs \in [Jobs -> Nat] /\ sinceRun \in [Jobs -> Nat]
      BY <1>0 DEF TypeOK
    <3>3. runs' \in [Jobs -> Nat]
      <4>1. CASE runs' = runs
        BY <3>5, <4>1
      <4>2. CASE runs' = [runs EXCEPT ![Head(due).id] = @ + 1]
        <5>1. runs[Head(due).id] + 1 \in Nat
          BY <2>1, <3>5
        <5> QED
          BY <2>1, <3>5, <4>2, <5>1
      <4> QED
        BY <3>1, <4>1, <4>2
    <3>4. sinceRun' \in [Jobs -> Nat]
      BY <2>1, <3>2, <3>5
    <3> QED
      BY <3>3, <3>4
  <2> QED
    BY <1>0, <1>10, <2>2 DEF TypeOK, StartJob, LoopStates
<1>11. CASE FinishJob
  <2>1. slot' \in Nat
    <3>1. slot' = IndexOf(store, Head(due).id) /\ store \in Seq(Record)
      BY <1>0, <1>11 DEF FinishJob, IndexOf, TypeOK
    <3>2. IndexOf(store, Head(due).id) \in DOMAIN store \cup {0}
      BY <3>1, FirstWithId
    <3>3. DOMAIN store = 1..Len(store)
      BY <3>1, LenProperties
    <3> QED
      BY <3>1, <3>2, <3>3
  <2> QED
    BY <1>0, <1>11, <2>1 DEF TypeOK, FinishJob, LoopStates
<1>22. CASE Place
  <2>0. /\ store \in Seq(Record) /\ slot \in Nat /\ slot <= Len(store) /\ Len(store) \in Nat
        /\ DOMAIN store = 1..Len(store)
    BY <1>0, <1>22, LenProperties DEF TypeOK, Place
  <2>1. due # <<>>
    BY <1>22 DEF Place, LoopInv, Busy
  <2>2. due' \in Seq(Record) /\ Head(due) \in Record
    BY <1>0, <1>22, <2>1, InHand DEF Place
  <2>3. image' \in {image, Pending} /\ loop' \in {"writing", "running"} /\ slot' = 0
        /\ raced' = (raced \/ edit # Never)
    BY <1>22 DEF Place
  <2>4. store' \in Seq(Record)
    <3>1. CASE DeleteAfterRun(Head(due).id)
      <4>1. store' = IF slot = 0 THEN store ELSE RemoveAt(store, slot)
        BY <1>22, <3>1 DEF Place
      <4>2. CASE slot = 0
        BY <2>0, <4>1, <4>2
      <4>3. CASE slot # 0
        <5>1. slot \in 1..Len(store)
          BY <2>0, <4>3
        <5>2. RemoveAt(store, slot) \in Seq(Record)
          BY <2>0, <5>1, RemoveAtProperties
        <5> QED
          BY <4>1, <4>3, <5>2
      <4> QED
        BY <4>2, <4>3
    <3>2. CASE ~DeleteAfterRun(Head(due).id)
      <4>1. store' = WriteBack(Finished(Head(due)))
        BY <1>22, <3>2 DEF Place
      <4>2. Finished(Head(due)) \in Record
        BY <1>0, <2>2, FinishedProperties
      <4> QED
        BY <2>0, <4>1, <4>2, WriteBackType
    <3> QED
      BY <3>1, <3>2
  <2>5. edit' \in Edit \cup {Never}
    <3>1. CASE edit' = edit
      BY <1>0, <3>1 DEF TypeOK
    <3>2. CASE edit' # edit
      <4>1. /\ edit # Never /\ slot # 0
            /\ edit' = [edit EXCEPT !.stale = <<Last(store)>> \o @]
        BY <1>22, <3>2 DEF Place
      <4>2. edit \in Edit /\ edit.stale \in Seq(Record)
        BY <1>0, <4>1 DEF TypeOK, Edit
      <4>3. Last(store) \in Record
        <5>1. Len(store) \in 1..Len(store)
          BY <2>0, <4>1
        <5> QED
          BY <2>0, <5>1, ElementOfSeq DEF Last
      <4>4. <<Last(store)>> \in Seq(Record)
        BY <4>3
      <4>5. <<Last(store)>> \o edit.stale \in Seq(Record)
        BY <4>2, <4>4, ConcatProperties
      <4> QED
        BY <4>1, <4>2, <4>5 DEF Edit
    <3> QED
      BY <3>1, <3>2
  <2>6. UNCHANGED <<up, stopping, timer, toolImage, fileVars, timeVars, created, runs>>
    BY <1>22 DEF Place
  <2> QED
    BY <1>0, <2>2, <2>3, <2>4, <2>5, <2>6 DEF TypeOK, LoopStates
<1>12. CASE EndTick
  <2>1. store' \in Seq(Record)
    BY <1>0, <1>12, Rescheduled DEF TypeOK, EndTick
  <2> QED
    BY <1>0, <1>12, <2>1 DEF TypeOK, EndTick, LoopStates
<1>13. CASE MarshalImage
  <2>1. image' \in Seq(Entry)
    BY <1>0, <1>13, ImageProperties DEF TypeOK, MarshalImage
  <2> QED
    BY <1>0, <1>13, <2>1 DEF TypeOK, MarshalImage
<1>14. CASE WriteImage
  BY <1>0, <1>14 DEF TypeOK, WriteImage, LoopStates
<1>15. CASE MarshalToolImage
  <2>1. toolImage' \in Seq(Entry)
    BY <1>0, <1>15, ImageProperties DEF TypeOK, MarshalToolImage
  <2> QED
    BY <1>0, <1>15, <2>1 DEF TypeOK, MarshalToolImage
<1>16. CASE WriteToolImage
  BY <1>0, <1>16 DEF TypeOK, WriteToolImage
<1>17. CASE CliLoad
  BY <1>0, <1>17 DEF TypeOK, CliLoad
<1>18. CASE CliLeaves
  <2>1. disk' \in Seq(Entry)
    BY <1>0, <1>18, Nothing DEF TypeOK, CliLeaves, Torn
  <2> QED
    BY <1>0, <1>18, <2>1 DEF TypeOK, CliLeaves
<1>19. ASSUME NEW j \in Jobs, AddJob(j) PROVE TypeOK'
  <2>1. NewRecord(j) \in Record
    BY <1>0, NextRunProperties DEF NewRecord, Record
  <2>2. edit' \in Edit
    BY <1>19, <2>1 DEF AddJob, Edit
  <2> QED
    BY <1>0, <1>19, <2>2 DEF TypeOK, AddJob
<1>20. ASSUME NEW i \in DOMAIN store, RemoveJob(i) PROVE TypeOK'
  <2>1. store[i] \in Record /\ i \in Nat
    BY <1>0, LenProperties, ElementOfSeq DEF TypeOK
  <2>2. edit' \in Edit
    BY <1>20, <2>1 DEF RemoveJob, Edit
  <2> QED
    BY <1>0, <1>20, <2>2 DEF TypeOK, RemoveJob
<1>21. ASSUME NEW j \in Jobs,
              \/ CliAdd(j) \/ CliRemove(j) \/ CliRun(j)
              \/ \E b \in BOOLEAN : CliEnable(j, b)
       PROVE  TypeOK'
  <2>1. CliSaves(j)
    BY <1>21, CliSaving
  <2>2. disk' \in Seq(Entry) /\ created' \subseteq Jobs
    BY <1>0, <2>1, CliSaved
  <2>3. cli' = Never /\ UNCHANGED <<procVars, timeVars, runs>>
    BY <2>1 DEF CliSaves
  <2> QED
    BY <1>0, <2>2, <2>3 DEF TypeOK
<1>23. CASE EditEnds
  <2>0. /\ edit \in Edit /\ store \in Seq(Record) /\ Len(store) \in Nat
        /\ edit.rec \in Record /\ edit.at \in Nat /\ edit.stale \in Seq(Record)
        /\ edit.at <= Len(store) /\ created \subseteq Jobs
    BY <1>0, <1>23, LenProperties DEF TypeOK, Edit, EditEnds
  <2>1. store' \in Seq(Record)
    <3>1. CASE edit.at = 0
      <4>1. store' = store \o edit.stale \o <<edit.rec>>
        BY <1>23, <3>1 DEF EditEnds
      <4>2. store \o edit.stale \in Seq(Record) /\ <<edit.rec>> \in Seq(Record)
        BY <2>0, ConcatProperties
      <4> QED
        BY <4>1, <4>2, ConcatProperties
    <3>2. CASE edit.at # 0
      <4>1. edit.at \in 1..Len(store)
        BY <2>0, <3>2
      <4>2. store' = RemoveAt(store, edit.at)
        BY <1>23, <3>2 DEF EditEnds
      <4> QED
        BY <2>0, <4>1, <4>2, RemoveAtProperties
    <3> QED
      BY <3>1, <3>2
  <2>2. created' \subseteq Jobs
    BY <1>23, <2>0 DEF EditEnds, Record
  <2>3. edit' = Never /\ toolImage' = Pending /\ raced' = (raced \/ loop = "placing")
        /\ UNCHANGED <<up, stopping, loopVars, fileVars, timeVars, runs>>
    BY <1>23 DEF EditEnds
  <2> QED
    BY <1>0, <2>1, <2>2, <2>3 DEF TypeOK
<1>24. PlacePanics \/ EditPanics => Exit
  BY DEF PlacePanics, EditPanics
<1> QED
  BY <1>1, <1>2, <1>3, <1>4, <1>5, <1>6, <1>7, <1>8, <1>9, <1>10, <1>11, <1>12, <1>13,
     <1>14, <1>15, <1>16, <1>17, <1>18, <1>19, <1>20, <1>21, <1>22, <1>23, <1>24 DEF Next

-----------------------------------------------------------------------------
(* The loop, its save and the process.                                     *)
LEMMA LoopInvStep == TypeOK /\ LoopInv /\ [Next]_vars => LoopInv'
<1> SUFFICES ASSUME TypeOK, LoopInv, [Next]_vars PROVE LoopInv'
  OBVIOUS
<1> USE DEF LoopInv, Busy, loopVars, toolVars, procVars
<1>0. LoopInv /\ TypeOK
  OBVIOUS
<1>1. CASE Quiet
  BY <1>0, <1>1 DEF Quiet
<1>2. CASE Waits
  BY <1>0, <1>2 DEF Waits
<1>3. CASE Start
  <2>1. image' # Never
    BY <1>0, <1>3, CronAssumption DEF Start, TypeOK, CronAssumption
  <2> QED
    BY <1>3, <2>1 DEF Start
<1>4. CASE Exit
  BY <1>4 DEF Exit
<1>5. CASE Tick
  BY <1>0, <1>5 DEF Tick
<1>6. CASE Wake
  BY <1>0, <1>6 DEF Wake
<1>7. CASE StartJob
  BY <1>0, <1>7 DEF StartJob
<1>8. CASE FinishJob
  BY <1>0, <1>8 DEF FinishJob
<1>13. CASE Place
  <2>1. Pending # Never
    BY CronAssumption DEF CronAssumption
  <2>2. \/ image' = Pending /\ loop' = "writing"
        \/ image' = image /\ loop' = "running"
    BY <1>13 DEF Place
  <2>3. loop = "placing" /\ up' = up
    BY <1>13 DEF Place
  <2> QED
    BY <1>0, <2>1, <2>2, <2>3
<1>9. CASE EndTick
  BY <1>0, <1>9, CronAssumption DEF EndTick, CronAssumption
<1>10. CASE MarshalImage
  <2>1. image' # Never /\ image # Never
    <3>1. Image(store) \in Seq(Entry)
      BY <1>0, ImageProperties DEF TypeOK
    <3> QED
      BY <1>10, <3>1, CronAssumption DEF MarshalImage, CronAssumption
  <2> QED
    BY <1>0, <1>10, <2>1 DEF MarshalImage
<1>11. CASE WriteImage
  BY <1>0, <1>11 DEF WriteImage
<1>12. CASE EditEnds
  BY <1>0, <1>12 DEF EditEnds
<1> QED
  BY <1>1, <1>2, <1>3, <1>4, <1>5, <1>6, <1>7, <1>8, <1>9, <1>10, <1>11, <1>12, <1>13, StepKinds

-----------------------------------------------------------------------------
(* IDs.                                                                    *)

(* A step that keeps the IDs of the store.                                  *)
LEMMA StoreKnown ==
    ASSUME KnownInv, created \subseteq created', DOMAIN store' = DOMAIN store,
           \A i \in DOMAIN store : store'[i].id = store[i].id
    PROVE  Known(store)'
<1>1. IdsOf(store') = IdsOf(store) /\ (Distinct(store) <=> Distinct(store'))
  BY SameIds
<1> QED
  BY <1>1 DEF KnownInv, Known

(* What AddJob leaves: its record at the end, under a new ID.              *)
LEMMA Added ==
    ASSUME Sound, EditEnds, edit.at = 0
    PROVE  /\ Distinct(store') /\ IdsOf(store') = IdsOf(store) \cup {edit.rec.id}
           /\ created' = created \cup {edit.rec.id}
           /\ edit.rec.id \in Jobs \ created
           /\ \A i \in DOMAIN store' :
                \/ i \in DOMAIN store /\ store'[i] = store[i]
                \/ store'[i].id = edit.rec.id /\ store'[i].next = NextRun(edit.rec.id)
<1>1. /\ TypeOK /\ store \in Seq(Record) /\ Distinct(store) /\ IdsOf(store) \subseteq created
      /\ edit \in Edit /\ edit.rec \in Record
      /\ edit.stale = <<>> /\ edit.rec.id \in ByTool \ created
      /\ edit.rec = NewRecord(edit.rec.id)
  BY DEF Sound, Orderly, TypeOK, Edit, KnownInv, Known, EditInv, EditEnds
<1> DEFINE e == edit.rec
<1>2. e.id \in Jobs /\ e.next = NextRun(e.id) /\ e.id \notin IdsOf(store)
  BY <1>1, CronAssumption DEF CronAssumption, NewRecord
<1>3. created' = created \cup {e.id}
  BY DEF EditEnds
<1>4. store' = Append(store, e)
  <2>1. store' = store \o <<>> \o <<e>>
    BY <1>1 DEF EditEnds
  <2>2. store \o <<>> = store
    BY <1>1
  <2>3. store \o <<e>> = Append(store, e)
    BY <1>1
  <2> QED
    BY <2>1, <2>2, <2>3
<1> HIDE DEF e
<1>5. e \in Record
  BY <1>1 DEF e
<1>6. Distinct(store') /\ IdsOf(store') = IdsOf(store) \cup {e.id}
  BY <1>1, <1>2, <1>4, <1>5, AppendDistinct
<1>7. /\ DOMAIN store' = 1..(Len(store) + 1) /\ DOMAIN store = 1..Len(store)
      /\ Len(store) \in Nat
      /\ \A i \in 1..Len(store) : store'[i] = store[i]
      /\ store'[Len(store) + 1] = e
  BY <1>1, <1>4, <1>5, AppendProperties, LenProperties
<1>8. \A i \in DOMAIN store' :
        \/ i \in DOMAIN store /\ store'[i] = store[i]
        \/ store'[i].id = e.id /\ store'[i].next = NextRun(e.id)
  BY <1>2, <1>7
<1> QED
  BY <1>1, <1>2, <1>3, <1>6, <1>8 DEF e

(* What RemoveJob leaves was there before.                                 *)
LEMMA Removed ==
    ASSUME TypeOK, EditEnds, edit.at # 0
    PROVE  /\ \A i \in DOMAIN store' : \E k \in DOMAIN store : store'[i] = store[k]
           /\ Distinct(store) => Distinct(store')
           /\ created' = created
<1>1. /\ store \in Seq(Record) /\ Len(store) \in Nat /\ edit.at \in Nat
      /\ edit.at <= Len(store) /\ store' = RemoveAt(store, edit.at) /\ created' = created
  BY LenProperties DEF TypeOK, Edit, EditEnds
<1>2. edit.at \in 1..Len(store)
  BY <1>1
<1> QED
  BY <1>1, <1>2, RemoveAtProperties

(* Every step keeps the IDs in order.                                      *)
LEMMA KnownStep == Sound /\ ~raced' /\ [Next]_vars => KnownInv'
<1> SUFFICES ASSUME Sound, ~raced', [Next]_vars PROVE KnownInv'
  OBVIOUS
<1> USE DEF loopVars, toolVars, procVars, fileVars, timeVars
<1>0. KnownInv /\ TypeOK
  BY DEF Sound, Orderly
<1>a. Known(<<>>) /\ Distinct(<<>>) /\ IdsOf(<<>>) = {}
  BY Nothing DEF Known, Distinct, IdsOf
<1>b. store \in Seq(Record) /\ disk \in Seq(Entry)
  BY <1>0 DEF TypeOK
<1>1. CASE UNCHANGED vars
  BY <1>0, <1>1 DEF KnownInv, Known, vars
<1>2. CASE Start
  <2>1. DOMAIN store' = DOMAIN disk /\ \A i \in DOMAIN disk : store'[i].id = disk[i].id
    BY <1>0, <1>2, Started
  <2>2. IdsOf(store') = IdsOf(disk) /\ (Distinct(disk) <=> Distinct(store'))
    BY <2>1, SameIds
  <2>3. Known(store)' /\ Known(image)'
    BY <1>0, <1>2, <2>2 DEF Start, KnownInv, Known
  <2>4. UNCHANGED <<due, toolImage, disk, cli, created>>
    BY <1>2 DEF Start
  <2> QED
    BY <1>0, <2>3, <2>4 DEF KnownInv, Known
<1>3. CASE Shutdown \/ PollAgain \/ LoopEnds
  <2>1. UNCHANGED <<store, due, disk, image, toolImage, cli, created>>
    BY <1>3 DEF Shutdown, PollAgain, LoopEnds
  <2> QED
    BY <1>0, <2>1 DEF KnownInv, Known
<1>4. CASE Exit
  <2>1. /\ disk' \in {disk, <<>>} /\ store' = <<>> /\ due' = <<>> /\ image' = Never
        /\ toolImage' = Never /\ UNCHANGED <<cli, created>>
    BY <1>4 DEF Exit, Torn
  <2> QED
    BY <1>0, <1>a, <2>1 DEF KnownInv, Known
<1>5. CASE Tick
  <2>1. UNCHANGED <<due, image, toolImage, disk, cli, created>>
    BY <1>5 DEF Tick
  <2>2. Known(store)'
    BY <1>0, <1>5, <2>1, Ticked, StoreKnown
  <2> QED
    BY <1>0, <2>1, <2>2 DEF KnownInv, Known
<1>6. CASE Arm
  <2>1. UNCHANGED <<store, due, disk, image, toolImage, cli, created>>
    BY <1>6 DEF Arm
  <2> QED
    BY <1>0, <2>1 DEF KnownInv, Known
<1>7. CASE Wake
  <2>1. UNCHANGED <<store, image, toolImage, disk, cli, created>>
    BY <1>7 DEF Wake
  <2>2. /\ \A k \in DOMAIN due' : \E i \in DOMAIN store : due'[k] = store[i]
        /\ Distinct(store) => Distinct(due')
    BY <1>b, <1>7, DueProperties DEF Wake
  <2>3. Known(due)'
    BY <1>0, <2>1, <2>2 DEF KnownInv, Known, IdsOf
  <2> QED
    BY <1>0, <2>1, <2>3 DEF KnownInv, Known
<1>8. CASE StartJob
  <2>1. UNCHANGED <<store, due, disk, image, toolImage, cli, created>>
    BY <1>8 DEF StartJob
  <2> QED
    BY <1>0, <2>1 DEF KnownInv, Known
<1>19. CASE FinishJob
  <2>1. UNCHANGED <<store, due, disk, image, toolImage, cli, created>>
    BY <1>19 DEF FinishJob
  <2> QED
    BY <1>0, <2>1 DEF KnownInv, Known
<1>9. CASE Place
  <2>1. due # <<>> /\ Distinct(store') /\ IdsOf(store') \subseteq IdsOf(store)
    BY <1>9, JobFinished
  <2>2. due' = Tail(due) /\ UNCHANGED <<toolImage, disk, cli, created>>
    BY <1>9 DEF Place
  <2>3. image' \in {image, Pending}
    BY <1>9 DEF Place
  <2>4. /\ \A k \in DOMAIN due' : k + 1 \in DOMAIN due /\ due'[k] = due[k + 1]
        /\ Distinct(due) => Distinct(due')
    BY <1>0, <2>1, <2>2, InHand
  <2>5. Known(due)'
    BY <1>0, <2>2, <2>4 DEF KnownInv, Known, IdsOf
  <2>6. Known(store)'
    BY <1>0, <2>1, <2>2 DEF KnownInv, Known
  <2> QED
    BY <1>0, <2>2, <2>3, <2>5, <2>6 DEF KnownInv, Known
<1>10. CASE EndTick
  <2>1. image' = Pending /\ UNCHANGED <<due, toolImage, disk, cli, created>>
    BY <1>10 DEF EndTick
  <2>2. Known(store)'
    BY <1>0, <1>b, <1>10, <2>1, Rescheduled, StoreKnown DEF EndTick
  <2> QED
    BY <1>0, <2>1, <2>2 DEF KnownInv, Known
<1>11. CASE MarshalImage
  <2>1. image' = Image(store) /\ UNCHANGED <<store, due, toolImage, disk, cli, created>>
    BY <1>11 DEF MarshalImage
  <2>2. Known(image)'
    BY <1>0, <1>b, <2>1, ImageProperties DEF KnownInv, Known
  <2> QED
    BY <1>0, <2>1, <2>2 DEF KnownInv, Known
<1>12. CASE WriteImage
  <2>1. /\ image \notin {Never, Pending} /\ disk' = image /\ image' = Never
        /\ UNCHANGED <<store, due, toolImage, cli, created>>
    BY <1>12 DEF WriteImage
  <2> QED
    BY <1>0, <2>1 DEF KnownInv, Known
<1>13. CASE MarshalToolImage
  <2>1. toolImage' = Image(store) /\ UNCHANGED <<store, due, image, disk, cli, created>>
    BY <1>13 DEF MarshalToolImage
  <2>2. Known(toolImage)'
    BY <1>0, <1>b, <2>1, ImageProperties DEF KnownInv, Known
  <2> QED
    BY <1>0, <2>1, <2>2 DEF KnownInv, Known
<1>14. CASE WriteToolImage
  <2>1. /\ toolImage \notin {Never, Pending} /\ disk' = toolImage /\ toolImage' = Never
        /\ UNCHANGED <<store, due, image, cli, created>>
    BY <1>14 DEF WriteToolImage
  <2> QED
    BY <1>0, <2>1 DEF KnownInv, Known
<1>15. CASE CliLoad \/ CliLeaves
  <2>1. /\ disk' \in {disk, <<>>} /\ cli' \in {disk, Never}
        /\ UNCHANGED <<store, due, image, toolImage, created>>
    BY <1>15 DEF CliLoad, CliLeaves, Torn
  <2> QED
    BY <1>0, <1>a, <2>1 DEF KnownInv, Known
<1>16. ASSUME NEW j \in Jobs, AddJob(j) PROVE KnownInv'
  <2>1. UNCHANGED <<store, due, disk, image, toolImage, cli, created>>
    BY <1>16 DEF AddJob
  <2> QED
    BY <1>0, <2>1 DEF KnownInv, Known
<1>17. ASSUME NEW i \in DOMAIN store, RemoveJob(i) PROVE KnownInv'
  <2>1. UNCHANGED <<store, due, disk, image, toolImage, cli, created>>
    BY <1>17 DEF RemoveJob
  <2> QED
    BY <1>0, <2>1 DEF KnownInv, Known
<1>18. ASSUME NEW j \in Jobs,
              \/ CliAdd(j) \/ CliRemove(j) \/ CliRun(j)
              \/ \E b \in BOOLEAN : CliEnable(j, b)
       PROVE  KnownInv'
  <2>1. CliSaves(j)
    BY <1>18, CliSaving
  <2>2. created \subseteq created' /\ (Known(cli) => Known(disk)')
    BY <1>0, <2>1, CliSaved
  <2>3. /\ cli # Never /\ cli' = Never /\ UNCHANGED <<store, due, image, toolImage>>
    BY <2>1 DEF CliSaves
  <2> QED
    BY <1>0, <2>2, <2>3 DEF KnownInv, Known
<1>20. CASE EditEnds /\ edit.at = 0
  <2>1. toolImage' = Pending /\ UNCHANGED <<due, image, disk, cli>>
    BY <1>20 DEF EditEnds
  <2>2. /\ Distinct(store') /\ IdsOf(store') = IdsOf(store) \cup {edit.rec.id}
        /\ created' = created \cup {edit.rec.id}
    BY <1>20, Added
  <2>3. Known(store)'
    BY <1>0, <2>2 DEF KnownInv, Known
  <2> QED
    BY <1>0, <2>1, <2>2, <2>3 DEF KnownInv, Known
<1>21. CASE EditEnds /\ edit.at # 0
  <2>1. toolImage' = Pending /\ UNCHANGED <<due, image, disk, cli, created>>
    BY <1>21 DEF EditEnds
  <2>2. Known(store)'
    BY <1>0, <1>21, <2>1, Removed DEF KnownInv, Known, IdsOf
  <2> QED
    BY <1>0, <2>1, <2>2 DEF KnownInv, Known
<1>22. CASE PlacePanics \/ EditPanics
  BY <1>4, <1>22 DEF PlacePanics, EditPanics
<1> QED
  BY <1>1, <1>2, <1>3, <1>4, <1>5, <1>6, <1>7, <1>8, <1>9, <1>10, <1>11, <1>12, <1>13,
     <1>14, <1>15, <1>16, <1>17, <1>18, <1>19, <1>20, <1>21, <1>22 DEF Next

-----------------------------------------------------------------------------
(* Times.                                                                  *)

(* The types of the parts of a record, and of the tables of times.         *)
LEMMA RecordTypes ==
    ASSUME TypeOK
    PROVE  /\ \A i \in DOMAIN store : store[i].id \in Jobs /\ store[i].next \in Nat \cup {Never}
           /\ \A k \in DOMAIN due : due[k].id \in Jobs
           /\ \A j \in Jobs : atIn[j] \in Nat /\ sinceRun[j] \in Nat /\ runs[j] \in Nat
           /\ \A j \in Jobs : Period[j] \in Nat \ {0}
           /\ Never \notin Nat
<1>1. /\ \A i \in DOMAIN store : store[i] \in Record
      /\ \A k \in DOMAIN due : due[k] \in Record
  BY ElementOfSeq, LenProperties DEF TypeOK
<1> QED
  BY <1>1, CronAssumption DEF TypeOK, Record, CronAssumption

(* What a wake copies.                                                     *)
LEMMA Woken ==
    ASSUME TypeOK, Wake
    PROVE  \A k \in DOMAIN due' : \E i \in DOMAIN store : due'[k] = store[i] /\ store[i].next = 0
<1>1. store \in Seq(Record) /\ due' \in DueJobs(store)
  BY DEF TypeOK, Wake
<1> QED
  BY <1>1, DueProperties DEF IsDue

(* Every step keeps one-shots at their time.                               *)
LEMMA TimeStep == Sound /\ ~raced' /\ [Next]_vars => TimeInv'
<1> SUFFICES ASSUME Sound, ~raced', [Next]_vars PROVE TimeInv'
  OBVIOUS
<1> USE DEF loopVars, toolVars, procVars, fileVars, timeVars
<1>0. TypeOK /\ TimeInv /\ IdsOf(store) \subseteq created
  BY DEF Sound, Orderly, KnownInv, Known
<1>a. /\ \A i \in DOMAIN store : store[i].id \in Jobs /\ store[i].next \in Nat \cup {Never}
      /\ \A k \in DOMAIN due : due[k].id \in Jobs
      /\ \A j \in Jobs : atIn[j] \in Nat
      /\ Never \notin Nat
  BY <1>0, RecordTypes
<1>1. CASE UNCHANGED <<store, due, atIn>>
  BY <1>0, <1>1 DEF TimeInv
<1>2. CASE Start
  <2>1. UNCHANGED <<due, atIn>>
    BY <1>2 DEF Start
  <2>2. ASSUME NEW i \in DOMAIN store', Kind[store'[i].id] = "at"
        PROVE  store'[i].next \in {Never, atIn[store'[i].id]}
    <3>1. store'[i].id \in Jobs /\ store'[i].next \in {Never, NextRun(store'[i].id)}
      BY <1>0, <1>2, Started
    <3> QED
      BY <1>0, <2>2, <3>1, NextRunProperties
  <2> QED
    BY <1>0, <2>1, <2>2 DEF TimeInv
<1>3. CASE Exit
  <2>1. store' = <<>> /\ due' = <<>>
    BY <1>3 DEF Exit
  <2> QED
    BY <2>1, Nothing DEF TimeInv
<1>4. CASE Tick
  <2>1. /\ due' = due
        /\ \A j \in Jobs : atIn'[j] = IF Kind[j] = "at" /\ j \in created
                                       THEN CountDown(atIn[j]) ELSE atIn[j]
    BY <1>4 DEF Tick
  <2>2. /\ DOMAIN store' = DOMAIN store
        /\ \A i \in DOMAIN store : /\ store'[i].id = store[i].id
                                   /\ store'[i].next = CountDown(store[i].next)
    BY <1>0, <1>4, Ticked
  <2>3. ASSUME NEW i \in DOMAIN store', Kind[store'[i].id] = "at"
        PROVE  store'[i].next \in {Never, atIn'[store'[i].id]}
    <3>1. store[i].id \in created /\ store[i].id \in Jobs
      BY <1>0, <1>a, <2>2 DEF IdsOf
    <3>2. store[i].next \in {Never, atIn[store[i].id]}
      BY <1>0, <2>2, <2>3 DEF TimeInv
    <3> QED
      BY <2>1, <2>2, <2>3, <3>1, <3>2 DEF CountDown
  <2>4. \A k \in DOMAIN due : Kind[due[k].id] = "at" => atIn'[due[k].id] = 0
    BY <1>0, <1>a, <2>1 DEF TimeInv, CountDown
  <2> QED
    BY <2>1, <2>3, <2>4 DEF TimeInv
<1>5. CASE Wake
  <2>1. UNCHANGED <<store, atIn>>
    BY <1>5 DEF Wake
  <2>2. \A k \in DOMAIN due' : Kind[due'[k].id] = "at" => atIn[due'[k].id] = 0
    BY <1>0, <1>a, <1>5, Woken DEF TimeInv
  <2> QED
    BY <1>0, <2>1, <2>2 DEF TimeInv
<1>6. CASE Place
  <2>1. /\ due # <<>>
        /\ \A i \in DOMAIN store' : (\E k \in DOMAIN store : store'[i] = store[k])
                                     \/ store'[i] = Finished(due[1])
    BY <1>6, JobFinished
  <2>2. due' = Tail(due) /\ atIn' = atIn
    BY <1>6 DEF Place
  <2>3. /\ due[1] \in Record
        /\ \A k \in DOMAIN due' : k + 1 \in DOMAIN due /\ due'[k] = due[k + 1]
    BY <1>0, <2>1, <2>2, InHand
  <2>4. Kind[Finished(due[1]).id] = "at" => Finished(due[1]).next = Never
    BY <1>0, <2>3, FinishedProperties
  <2> QED
    BY <1>0, <2>1, <2>2, <2>3, <2>4 DEF TimeInv
<1>7. CASE EndTick
  <2>1. store' = Reschedule(store) /\ store \in Seq(Record) /\ UNCHANGED <<due, atIn>>
    BY <1>0, <1>7 DEF EndTick, TypeOK
  <2>2. /\ DOMAIN store' = DOMAIN store
        /\ \A i \in DOMAIN store :
             store'[i].id = store[i].id /\ store'[i].next \in {store[i].next, NextRun(store[i].id)}
    BY <1>0, <2>1, Rescheduled
  <2>3. \A j \in Jobs : Kind[j] = "at" => NextRun(j) \in {Never, atIn[j]}
    BY <1>0, NextRunProperties
  <2> QED
    BY <1>0, <1>a, <2>1, <2>2, <2>3 DEF TimeInv
<1>8. CASE EditEnds /\ edit.at = 0
  <2>1. UNCHANGED <<due, atIn>>
    BY <1>8 DEF EditEnds
  <2>2. PICK j \in Jobs :
          \A i \in DOMAIN store' :
            \/ i \in DOMAIN store /\ store'[i] = store[i]
            \/ store'[i].id = j /\ store'[i].next = NextRun(j)
    BY <1>8, Added
  <2>3. Kind[j] = "at" => NextRun(j) \in {Never, atIn[j]}
    BY <1>0, NextRunProperties
  <2> QED
    BY <1>0, <2>1, <2>2, <2>3 DEF TimeInv
<1>9. CASE EditEnds /\ edit.at # 0
  <2>1. UNCHANGED <<due, atIn>>
    BY <1>9 DEF EditEnds
  <2> QED
    BY <1>0, <1>9, <2>1, Removed DEF TimeInv
<1>10. Quiet \/ Waits \/ StartJob \/ FinishJob \/ MarshalImage \/ WriteImage
       => UNCHANGED <<store, due, atIn>>
  BY DEF Quiet, Waits, StartJob, FinishJob, MarshalImage, WriteImage
<1> QED
  BY <1>1, <1>2, <1>3, <1>4, <1>5, <1>6, <1>7, <1>8, <1>9, <1>10, StepKinds

-----------------------------------------------------------------------------
(* One-shots.                                                              *)

(* A step after which no copy is in hand, of which each record was there   *)
(* before or lies ahead, keeps a spent job spent.                          *)
LEMMA StaysSpent ==
    ASSUME NEW j \in Jobs, Spent(j), ~Busy,
           created \subseteq created', atIn'[j] = atIn[j],
           \A i \in DOMAIN store' :
             \/ store'[i].id # j \/ store'[i].next # 0
             \/ \E k \in DOMAIN store : store'[i].id = store[k].id /\ store'[i].next = store[k].next,
           \A i \in DOMAIN due' :
             \/ \E k \in DOMAIN due : due'[i] = due[k]
             \/ \E k \in DOMAIN store : due'[i] = store[k] /\ store[k].next = 0
    PROVE  Spent(j)'
  BY DEF Spent, Executing

(* Every step keeps one-shots from running again.                          *)
LEMMA SpentStep == Sound /\ ~raced' /\ [Next]_vars => SpentInv'
<1> SUFFICES ASSUME Sound, ~raced', [Next]_vars PROVE SpentInv'
  OBVIOUS
<1> USE DEF loopVars, toolVars, procVars, fileVars, timeVars
<1>0. TypeOK /\ TimeInv /\ SpentInv /\ LoopInv /\ Distinct(due) /\ IdsOf(due) \subseteq created
  BY DEF Sound, Orderly, KnownInv, Known
<1>a. /\ \A i \in DOMAIN store : store[i].id \in Jobs /\ store[i].next \in Nat \cup {Never}
      /\ \A k \in DOMAIN due : due[k].id \in Jobs
      /\ \A j \in Jobs : atIn[j] \in Nat /\ runs[j] \in Nat
      /\ Never \notin Nat
  BY <1>0, RecordTypes
<1>1. CASE UNCHANGED <<store, due, Busy, atIn, runs>> /\ created \subseteq created'
  BY <1>0, <1>1 DEF SpentInv, Spent, Executing
<1>2. CASE Waits \/ WriteImage
  <2>1. /\ ~Busy /\ UNCHANGED <<store, due, atIn, runs, created>>
    BY <1>0, <1>2 DEF Waits, WriteImage, LoopInv, Busy
  <2> QED
    BY <1>0, <2>1, StaysSpent DEF SpentInv
<1>3. CASE Start
  <2>1. ~Busy /\ UNCHANGED <<due, atIn, runs, created>>
    BY <1>0, <1>3 DEF Start, LoopInv, Busy
  <2>2. \A i \in DOMAIN store' : store'[i].next # 0
    BY <1>0, <1>a, <1>3, Started, NextRunProperties
  <2> QED
    BY <1>0, <2>1, <2>2, StaysSpent DEF SpentInv
<1>4. CASE Exit
  <2>1. store' = <<>> /\ due' = <<>> /\ UNCHANGED <<atIn, runs, created>>
    BY <1>4 DEF Exit
  <2> QED
    BY <1>0, <2>1, Nothing DEF SpentInv, Spent
<1>5. CASE Tick
  <2>1. /\ UNCHANGED <<loop, due, runs, created>>
        /\ \A j \in Jobs : atIn[j] = 0 => atIn'[j] = 0
    BY <1>5 DEF Tick, CountDown
  <2>2. /\ DOMAIN store' = DOMAIN store
        /\ \A i \in DOMAIN store : /\ store'[i].id = store[i].id
                                   /\ store'[i].next = CountDown(store[i].next)
    BY <1>0, <1>5, Ticked
  <2>3. ASSUME NEW j \in Jobs, Spent(j) PROVE Spent(j)'
    <3>1. ASSUME NEW i \in DOMAIN store, store'[i].id = j, store'[i].next = 0
          PROVE  store[i].id = j /\ store[i].next = 0
      <4>1. store[i].id = j /\ Kind[j] = "at" /\ atIn[j] = 0
        BY <2>2, <2>3, <3>1 DEF Spent
      <4>2. store[i].next \in {Never, 0}
        BY <1>0, <4>1 DEF TimeInv
      <4>3. CountDown(Never) = Never
        BY DEF CountDown
      <4> QED
        BY <1>a, <2>2, <3>1, <4>1, <4>2, <4>3
    <3> QED
      BY <2>1, <2>2, <2>3, <3>1 DEF Spent, Executing, Busy
  <2> QED
    BY <1>0, <2>1, <2>3 DEF SpentInv
<1>6. CASE Wake
  <2>1. ~Busy /\ UNCHANGED <<store, atIn, runs, created>>
    BY <1>6 DEF Wake, Busy
  <2> QED
    BY <1>0, <1>6, <2>1, Woken, StaysSpent DEF SpentInv
<1>7. CASE StartJob
  <2>1. /\ ~Busy /\ Busy' /\ due # <<>>
        /\ UNCHANGED <<store, due, atIn, created>>
    BY <1>7 DEF StartJob, Busy
  <2>2. PICK h \in Jobs : 1 \in DOMAIN due /\ Head(due) = due[1] /\ h = due[1].id
    BY <1>0, <2>1, InHand
  <2>3. runs' = IF Kind[h] = "at" /\ ~stopping THEN [runs EXCEPT ![h] = @ + 1] ELSE runs
    BY <1>7, <2>2 DEF StartJob
  <2>4. runs[h] = 0
    <3>1. runs[h] <= 1 /\ (runs[h] = 1 => Executing(h))
      BY <1>0, <2>2 DEF SpentInv, Spent
    <3> QED
      BY <1>a, <2>1, <2>2, <3>1 DEF Executing
  <2>5. ASSUME Kind[h] = "at" PROVE Spent(h)'
    <3>1. h \in created /\ atIn[h] = 0
      BY <1>0, <2>2, <2>5 DEF TimeInv, IdsOf
    <3>2. \A k \in DOMAIN due : due[k].id = h => k = 1
      BY <1>0, <2>2 DEF Distinct
    <3> QED
      BY <2>1, <2>2, <2>5, <3>1, <3>2 DEF Spent, Executing
  <2>6. ASSUME NEW j \in Jobs, Spent(j) PROVE Spent(j)'
    BY <2>1, <2>6, StaysSpent
  <2>7. ASSUME NEW j \in Jobs PROVE runs'[j] <= 1 /\ (runs'[j] = 1 => Spent(j)')
    <3>1. CASE runs'[j] = runs[j]
      BY <1>0, <2>6, <3>1 DEF SpentInv
    <3>2. CASE runs'[j] # runs[j]
      <4>1. j = h /\ Kind[h] = "at" /\ runs'[j] = runs[h] + 1
        BY <1>0, <2>2, <2>3, <3>2 DEF TypeOK
      <4> QED
        BY <2>4, <2>5, <4>1
    <3> QED
      BY <3>1, <3>2
  <2> QED
    BY <2>7 DEF SpentInv
<1>8. CASE Place
  <2>1. /\ due # <<>>
        /\ \A i \in DOMAIN store' :
             \/ /\ store'[i].id # due[1].id
                /\ \E k \in DOMAIN store : store'[i] = store[k]
             \/ store'[i] = Finished(due[1])
    BY <1>8, JobFinished
  <2>2. due' = Tail(due) /\ ~Busy' /\ UNCHANGED <<atIn, runs, created>>
    BY <1>8 DEF Place, Busy
  <2>3. /\ due[1] \in Record /\ DOMAIN due \subseteq Nat
        /\ \A k \in DOMAIN due' : k \in Nat \ {0} /\ k + 1 \in DOMAIN due /\ due'[k] = due[k + 1]
    <3>1. /\ due[1] \in Record /\ Tail(due) \in Seq(Record)
          /\ \A k \in DOMAIN due' : k + 1 \in DOMAIN due /\ due'[k] = due[k + 1]
      BY <1>0, <2>1, <2>2, InHand
    <3>2. DOMAIN due = 1..Len(due) /\ DOMAIN due' = 1..Len(due')
      BY <1>0, <2>2, <3>1, LenProperties DEF TypeOK
    <3> QED
      BY <3>1, <3>2
  <2>4. /\ Finished(due[1]).id = due[1].id
        /\ Kind[due[1].id] = "at" => Finished(due[1]).next = Never
    BY <1>0, <2>3, FinishedProperties
  <2>5. ASSUME NEW j \in Jobs, Spent(j) PROVE Spent(j)'
    <3>1. \A i \in DOMAIN store' : store'[i].id = j => store'[i].next # 0
      BY <1>a, <2>1, <2>4, <2>5 DEF Spent, Executing
    <3>2. \A k \in DOMAIN due' : due'[k].id # j
      BY <2>3, <2>5 DEF Spent
    <3> QED
      BY <2>2, <2>5, <3>1, <3>2 DEF Spent, Executing
  <2> QED
    BY <1>0, <2>2, <2>5 DEF SpentInv
<1>9. CASE EndTick
  <2>1. /\ store' = Reschedule(store) /\ store \in Seq(Record) /\ ~Busy
        /\ UNCHANGED <<due, atIn, runs, created>>
    BY <1>0, <1>9 DEF EndTick, TypeOK, Busy
  <2>2. /\ DOMAIN store' = DOMAIN store
        /\ \A i \in DOMAIN store :
             store'[i].id = store[i].id /\ store'[i].next \in {store[i].next, NextRun(store[i].id)}
    BY <1>0, <2>1, Rescheduled
  <2>3. \A i \in DOMAIN store' : store'[i].next # 0 \/ store'[i].next = store[i].next
    BY <1>0, <1>a, <2>2, NextRunProperties
  <2> QED
    BY <1>0, <2>1, <2>2, <2>3, StaysSpent DEF SpentInv
<1>10. CASE EditEnds /\ edit.at = 0
  <2>1. UNCHANGED <<loop, due, atIn, runs>>
    BY <1>10 DEF EditEnds
  <2>2. PICK new \in Jobs \ created :
          /\ created \subseteq created'
          /\ \A i \in DOMAIN store' :
               (i \in DOMAIN store /\ store'[i] = store[i]) \/ store'[i].id = new
    BY <1>10, Added
  <2> QED
    BY <1>0, <2>1, <2>2 DEF SpentInv, Spent, Executing, Busy
<1>11. CASE EditEnds /\ edit.at # 0
  <2>1. UNCHANGED <<loop, due, atIn, runs, created>>
    BY <1>0, <1>11, Removed DEF EditEnds
  <2>2. \A i \in DOMAIN store' : \E k \in DOMAIN store : store'[i] = store[k]
    BY <1>0, <1>11, Removed
  <2> QED
    BY <1>0, <2>1, <2>2 DEF SpentInv, Spent, Executing, Busy
<1>12. Quiet \/ FinishJob \/ MarshalImage
       => UNCHANGED <<store, due, Busy, atIn, runs>> /\ created \subseteq created'
  BY DEF Quiet, FinishJob, MarshalImage, Busy
<1> QED
  BY <1>1, <1>2, <1>3, <1>4, <1>5, <1>6, <1>7, <1>8, <1>9, <1>10, <1>11, <1>12, StepKinds

-----------------------------------------------------------------------------
(* Recurring jobs.                                                         *)

(* What ApartInv says of one record.                                       *)
Apart(id, next) ==
    Kind[id] = "every" /\ next # Never
    => next + sinceRun[id] >= Period[id] \/ Executing(id)

(* Every step keeps the starts of an interval job apart.                   *)
LEMMA ApartStep == Sound /\ ~raced' /\ [Next]_vars => ApartInv'
<1> SUFFICES ASSUME Sound, ~raced', [Next]_vars PROVE ApartInv'
  OBVIOUS
<1> USE DEF loopVars, toolVars, procVars, fileVars, timeVars
<1>0. TypeOK /\ ApartInv /\ LoopInv /\ Distinct(due)
  BY DEF Sound, Orderly, KnownInv, Known
<1>a. /\ \A i \in DOMAIN store : store[i].id \in Jobs /\ store[i].next \in Nat \cup {Never}
      /\ \A k \in DOMAIN due : due[k].id \in Jobs
      /\ \A j \in Jobs : sinceRun[j] \in Nat /\ Period[j] \in Nat \ {0}
      /\ Never \notin Nat
  BY <1>0, RecordTypes
<1>b. /\ \A i \in DOMAIN store : Apart(store[i].id, store[i].next)
      /\ \A j \in Jobs : Kind[j] = "every" =>
           NextRun(j) = Period[j] /\ NextRun(j) + sinceRun[j] >= Period[j]
  <2>1. \A j \in Jobs : Kind[j] = "every" => NextRun(j) = Period[j]
    BY <1>0, NextRunProperties
  <2>2. \A j \in Jobs : Period[j] + sinceRun[j] >= Period[j]
    BY <1>a
  <2> QED
    BY <1>0, <2>1, <2>2 DEF ApartInv, Apart
<1>1. CASE UNCHANGED <<store, due, Busy, sinceRun>>
  BY <1>0, <1>1 DEF ApartInv, Executing
<1>2. CASE Waits \/ WriteImage
  <2>1. ~Busy /\ UNCHANGED <<store, due, sinceRun>>
    BY <1>0, <1>2 DEF Waits, WriteImage, LoopInv, Busy
  <2> QED
    BY <1>0, <2>1 DEF ApartInv, Executing
<1>3. CASE Start
  <2>1. ~Busy /\ UNCHANGED <<due, sinceRun>>
    BY <1>0, <1>3 DEF Start, LoopInv, Busy
  <2>2. \A i \in DOMAIN store' :
          store'[i].id \in Jobs /\ store'[i].next \in {Never, NextRun(store'[i].id)}
    BY <1>0, <1>3, Started
  <2>3. \A i \in DOMAIN store' :
          Kind[store'[i].id] = "every" /\ store'[i].next # Never
          => store'[i].next + sinceRun[store'[i].id] >= Period[store'[i].id]
    BY <1>b, <2>2
  <2> QED
    BY <1>0, <2>1, <2>3 DEF ApartInv
<1>4. CASE Exit
  <2>1. store' = <<>> /\ due' = <<>>
    BY <1>4 DEF Exit
  <2> QED
    BY <2>1, Nothing DEF ApartInv
<1>5. CASE Tick
  <2>1. /\ UNCHANGED <<loop, due>>
        /\ \A j \in Jobs : Kind[j] = "every" =>
             sinceRun'[j] = IF sinceRun[j] < Period[j] THEN sinceRun[j] + 1 ELSE sinceRun[j]
    BY <1>5 DEF Tick
  <2>2. /\ DOMAIN store' = DOMAIN store
        /\ \A i \in DOMAIN store : /\ store'[i].id = store[i].id
                                   /\ store'[i].next = CountDown(store[i].next)
    BY <1>0, <1>5, Ticked
  <2>3. \A n \in Nat : \A j \in Jobs : Kind[j] = "every" /\ n + sinceRun[j] >= Period[j]
          => CountDown(n) + sinceRun'[j] >= Period[j]
    BY <1>a, <2>1 DEF CountDown
  <2>4. CountDown(Never) = Never
    BY DEF CountDown
  <2>5. ASSUME NEW i \in DOMAIN store', Kind[store'[i].id] = "every", store'[i].next # Never
        PROVE  \/ store'[i].next + sinceRun'[store'[i].id] >= Period[store'[i].id]
               \/ Busy' /\ due'[1].id = store'[i].id
    <3>1. store[i].next \in Nat /\ store[i].id \in Jobs /\ Kind[store[i].id] = "every"
      BY <1>a, <2>2, <2>4, <2>5
    <3>2. store[i].next + sinceRun[store[i].id] >= Period[store[i].id] \/ Executing(store[i].id)
      BY <1>a, <1>b, <2>2, <3>1 DEF Apart
    <3>3. CASE Executing(store[i].id)
      BY <2>1, <2>2, <3>3 DEF Executing, Busy
    <3>4. CASE store[i].next + sinceRun[store[i].id] >= Period[store[i].id]
      BY <2>2, <2>3, <3>1, <3>4
    <3> QED
      BY <3>2, <3>3, <3>4
  <2>6. \A k \in DOMAIN due :
          Kind[due[k].id] = "every"
          => sinceRun'[due[k].id] >= Period[due[k].id] \/ (k = 1 /\ Busy)
    BY <1>0, <1>a, <2>1 DEF ApartInv
  <2> QED
    BY <2>1, <2>5, <2>6 DEF ApartInv, Executing, Busy
<1>6. CASE Wake
  <2>1. ~Busy /\ ~Busy' /\ UNCHANGED <<store, sinceRun>>
    BY <1>6 DEF Wake, Busy
  <2>2. ASSUME NEW k \in DOMAIN due', Kind[due'[k].id] = "every"
        PROVE  sinceRun[due'[k].id] >= Period[due'[k].id]
    <3>1. PICK i \in DOMAIN store : due'[k] = store[i] /\ store[i].next = 0
      BY <1>0, <1>6, Woken
    <3> QED
      BY <1>a, <1>b, <2>1, <2>2, <3>1 DEF Apart, Executing
  <2>3. \A i \in DOMAIN store :
          Kind[store[i].id] = "every" /\ store[i].next # Never
          => store[i].next + sinceRun[store[i].id] >= Period[store[i].id]
    BY <1>b, <2>1 DEF Apart, Executing
  <2> QED
    BY <2>1, <2>2, <2>3 DEF ApartInv
<1>7. CASE StartJob
  <2>1. /\ ~Busy /\ Busy' /\ due # <<>> /\ UNCHANGED <<store, due>>
    BY <1>7 DEF StartJob, Busy
  <2>2. PICK h \in Jobs : 1 \in DOMAIN due /\ Head(due) = due[1] /\ h = due[1].id
    BY <1>0, <2>1, InHand
  <2>3. \/ sinceRun' = [sinceRun EXCEPT ![h] = 0]
        \/ sinceRun' = [sinceRun EXCEPT ![h] = @]
    BY <1>7, <2>2 DEF StartJob
  <2>4. \A j \in Jobs : j # h => sinceRun'[j] = sinceRun[j]
    BY <1>0, <2>2, <2>3 DEF TypeOK
  <2>5. ASSUME NEW i \in DOMAIN store', Kind[store'[i].id] = "every", store'[i].next # Never
        PROVE  \/ store'[i].next + sinceRun'[store'[i].id] >= Period[store'[i].id]
               \/ Busy' /\ due'[1].id = store'[i].id
    <3>1. CASE store[i].id = h
      BY <2>1, <2>2, <3>1
    <3>2. CASE store[i].id # h
      BY <1>a, <1>b, <2>1, <2>4, <2>5, <3>2 DEF Apart, Executing
    <3> QED
      BY <3>1, <3>2
  <2>6. ASSUME NEW k \in DOMAIN due, Kind[due[k].id] = "every", k # 1
        PROVE  sinceRun'[due[k].id] >= Period[due[k].id]
    <3>1. due[k].id # h
      BY <1>0, <2>2, <2>6 DEF Distinct
    <3> QED
      BY <1>0, <1>a, <2>4, <2>6, <3>1 DEF ApartInv
  <2> QED
    BY <2>1, <2>5, <2>6 DEF ApartInv, Executing
<1>8. CASE Place
  <2>1. /\ due # <<>>
        /\ \A i \in DOMAIN store' :
             \/ /\ store'[i].id # due[1].id
                /\ \E k \in DOMAIN store : store'[i] = store[k]
             \/ store'[i] = Finished(due[1])
    BY <1>8, JobFinished
  <2>2. due' = Tail(due) /\ Busy /\ UNCHANGED sinceRun
    BY <1>8 DEF Place, Busy
  <2>3. /\ due[1] \in Record
        /\ \A k \in DOMAIN due' : k + 1 \in DOMAIN due /\ k + 1 # 1 /\ due'[k] = due[k + 1]
    <3>1. /\ due[1] \in Record /\ Tail(due) \in Seq(Record)
          /\ \A k \in DOMAIN due' : k + 1 \in DOMAIN due /\ due'[k] = due[k + 1]
      BY <1>0, <2>1, <2>2, InHand
    <3>2. DOMAIN due' = 1..Len(due')
      BY <2>2, <3>1, LenProperties
    <3> QED
      BY <3>1, <3>2
  <2>4. /\ Finished(due[1]).id = due[1].id /\ due[1].id \in Jobs
        /\ Kind[due[1].id] = "every" => Finished(due[1]).next = NextRun(due[1].id)
    BY <1>0, <2>3, FinishedProperties
  <2>5. ASSUME NEW i \in DOMAIN store', Kind[store'[i].id] = "every", store'[i].next # Never
        PROVE  store'[i].next + sinceRun[store'[i].id] >= Period[store'[i].id]
    <3>1. CASE store'[i] = Finished(due[1])
      BY <1>b, <2>4, <2>5, <3>1
    <3>2. CASE store'[i] # Finished(due[1])
      BY <1>b, <2>1, <2>5, <3>2 DEF Apart, Executing
    <3> QED
      BY <3>1, <3>2
  <2>6. \A k \in DOMAIN due' :
          Kind[due'[k].id] = "every" => sinceRun[due'[k].id] >= Period[due'[k].id]
    BY <1>0, <2>3 DEF ApartInv
  <2> QED
    BY <2>2, <2>5, <2>6 DEF ApartInv, Executing
<1>9. CASE EndTick
  <2>1. /\ store' = Reschedule(store) /\ store \in Seq(Record) /\ ~Busy
        /\ UNCHANGED <<due, sinceRun>>
    BY <1>0, <1>9 DEF EndTick, TypeOK, Busy
  <2>2. /\ DOMAIN store' = DOMAIN store
        /\ \A i \in DOMAIN store :
             store'[i].id = store[i].id /\ store'[i].next \in {store[i].next, NextRun(store[i].id)}
    BY <1>0, <2>1, Rescheduled
  <2>3. \A i \in DOMAIN store' :
          Kind[store'[i].id] = "every" /\ store'[i].next # Never
          => store'[i].next + sinceRun[store'[i].id] >= Period[store'[i].id]
    BY <1>a, <1>b, <2>1, <2>2 DEF Apart, Executing
  <2> QED
    BY <1>0, <2>1, <2>3 DEF ApartInv
<1>10. CASE EditEnds /\ edit.at = 0
  <2>1. UNCHANGED <<loop, due, sinceRun>>
    BY <1>10 DEF EditEnds
  <2>2. PICK new \in Jobs :
          \A i \in DOMAIN store' :
            \/ i \in DOMAIN store /\ store'[i] = store[i]
            \/ store'[i].id = new /\ store'[i].next = NextRun(new)
    BY <1>10, Added
  <2> QED
    BY <1>0, <1>b, <2>1, <2>2 DEF ApartInv, Executing, Busy
<1>11. CASE EditEnds /\ edit.at # 0
  <2>1. UNCHANGED <<loop, due, sinceRun>>
    BY <1>11 DEF EditEnds
  <2> QED
    BY <1>0, <1>11, <2>1, Removed DEF ApartInv, Executing, Busy
<1>12. Quiet \/ FinishJob \/ MarshalImage => UNCHANGED <<store, due, Busy, sinceRun>>
  BY DEF Quiet, FinishJob, MarshalImage, Busy
<1> QED
  BY <1>1, <1>2, <1>3, <1>4, <1>5, <1>6, <1>7, <1>8, <1>9, <1>10, <1>11, <1>12, StepKinds

-----------------------------------------------------------------------------
(* What the two sides have read of the slice.                              *)

(* Every step keeps the new job of an edit under way.                      *)
LEMMA EditInvStep == Sound /\ ~raced' /\ [Next]_vars => EditInv'
<1> SUFFICES ASSUME Sound, ~raced', [Next]_vars PROVE EditInv'
  OBVIOUS
<1> USE DEF loopVars, toolVars, procVars, fileVars, timeVars
<1>0. TypeOK /\ LoopInv /\ EditInv
  BY DEF Sound, Orderly
<1>1. CASE UNCHANGED <<edit, atIn, phase>> /\ created' \cap ByTool \subseteq created
  BY <1>0, <1>1 DEF EditInv, NewRecord, NextRun
<1>2. CASE edit' = Never
  BY <1>2 DEF EditInv
<1>3. ASSUME NEW j \in Jobs, AddJob(j) PROVE EditInv'
  <2>1. /\ edit' = [rec |-> NewRecord(j), at |-> 0, stale |-> <<>>]
        /\ j \in ByTool \ created /\ UNCHANGED <<atIn, phase, created>>
    BY <1>3 DEF AddJob
  <2>2. NewRecord(j).id = j /\ NewRecord(j)' = NewRecord(j)
    BY <2>1 DEF NewRecord, NextRun
  <2>3. edit'.rec = NewRecord(j) /\ edit'.stale = <<>> /\ edit'.rec.id = j
    BY <2>1, <2>2
  <2> QED
    BY <2>1, <2>2, <2>3 DEF EditInv
<1>4. ASSUME NEW i \in DOMAIN store, RemoveJob(i) PROVE EditInv'
  <2>1. edit' = [rec |-> store[i], at |-> i, stale |-> <<>>] /\ i # 0
    BY <1>0, <1>4, LenProperties DEF RemoveJob, TypeOK
  <2> QED
    BY <2>1 DEF EditInv
<1>5. Exit \/ PlacePanics \/ EditPanics \/ EditEnds => edit' = Never
  BY DEF Exit, PlacePanics, EditPanics, EditEnds
<1>6. Start \/ Tick => edit = Never /\ edit' = edit
  BY <1>0 DEF Start, Tick, LoopInv
<1>7. Place => edit' = Never
  BY DEF Place
<1>8. UNCHANGED vars \/ Shutdown \/ Arm \/ PollAgain \/ LoopEnds \/ Wake
      => UNCHANGED <<edit, atIn, phase, created>>
  BY DEF vars, Shutdown, Arm, PollAgain, LoopEnds, Wake
<1>9. StartJob \/ FinishJob \/ EndTick \/ MarshalImage \/ WriteImage
      => UNCHANGED <<edit, atIn, phase, created>>
  BY DEF StartJob, FinishJob, EndTick, MarshalImage, WriteImage
<1>10. MarshalToolImage \/ WriteToolImage \/ CliLoad \/ CliLeaves
       => UNCHANGED <<edit, atIn, phase, created>>
  BY DEF MarshalToolImage, WriteToolImage, CliLoad, CliLeaves
<1>11. ASSUME NEW j \in Jobs,
              \/ CliAdd(j) \/ CliRemove(j) \/ CliRun(j)
              \/ \E b \in BOOLEAN : CliEnable(j, b)
       PROVE  UNCHANGED <<edit, atIn, phase>> /\ created' \cap ByTool \subseteq created
  <2>1. CliSaves(j)
    BY <1>11, CliSaving
  <2> QED
    BY <2>1 DEF CliSaves
<1>12. UNCHANGED <<edit, atIn, phase, created>>
       => UNCHANGED <<edit, atIn, phase>> /\ created' \cap ByTool \subseteq created
  OBVIOUS
<1> QED
  BY <1>1, <1>2, <1>3, <1>4, <1>5, <1>6, <1>7, <1>8, <1>9, <1>10, <1>11, <1>12 DEF Next

(* Every step keeps the index of runJob that of its job.                   *)
LEMMA SlotStep == Sound /\ ~raced' /\ [Next]_vars => SlotInv'
<1> SUFFICES ASSUME Sound, ~raced', [Next]_vars PROVE SlotInv'
  OBVIOUS
<1> USE DEF loopVars, toolVars, procVars
<1>0. TypeOK /\ LoopInv /\ SlotInv
  BY DEF Sound, Orderly
<1>1. CASE UNCHANGED <<store, loop, due, slot>>
  BY <1>0, <1>1 DEF SlotInv
<1>2. CASE loop' # "placing"
  BY <1>2 DEF SlotInv
<1>3. CASE FinishJob
  <2>1. due # <<>>
    BY <1>0, <1>3 DEF FinishJob, LoopInv, Busy
  <2>2. Head(due) = due[1]
    BY <1>0, <2>1, InHand
  <2>3. slot' = IndexOf(store, Head(due).id) /\ UNCHANGED <<store, due>>
    BY <1>3 DEF FinishJob, IndexOf
  <2> QED
    BY <2>2, <2>3 DEF SlotInv
<1>4. Quiet \/ MarshalImage => UNCHANGED <<store, loop, due, slot>>
  BY DEF Quiet, MarshalImage
<1>5. Waits \/ Start \/ Exit \/ Tick \/ Wake \/ StartJob \/ Place \/ EndTick \/ WriteImage
      => loop' # "placing"
  BY DEF Waits, Start, Exit, Tick, Wake, StartJob, Place, EndTick, WriteImage
<1>6. EditEnds => loop' # "placing"
  BY DEF EditEnds
<1> QED
  BY <1>1, <1>2, <1>3, <1>4, <1>5, <1>6, StepKinds

-----------------------------------------------------------------------------
(* The theorems.                                                           *)

(* Every step keeps the strengthening.                                     *)
LEMMA InvStep == IInv /\ [Next]_vars => IInv'
<1> SUFFICES ASSUME IInv, [Next]_vars PROVE IInv'
  OBVIOUS
<1>1. TypeOK' /\ LoopInv'
  BY TypeStep, LoopInvStep DEF IInv
<1>2. ASSUME ~raced' PROVE Orderly'
  <2>1. Sound
    BY <1>2, RacedStays DEF IInv, Sound
  <2> QED
    BY <1>2, <2>1, KnownStep, TimeStep, SpentStep, ApartStep, EditInvStep, SlotStep, Zenon DEF Orderly
<1> QED
  BY <1>1, <1>2 DEF IInv

(* The strengthening is an invariant of the scheduler.                     *)
THEOREM Invariance == Spec => []IInv
  BY InvInit, InvStep, PTL DEF Spec

(* Every variable stays in its domain.                                     *)
THEOREM TypeCorrect == Spec => []TypeOK
<1>1. IInv => TypeOK
  BY DEF IInv
<1> QED
  BY <1>1, Invariance, PTL

(* A one-shot job is executed at most once, whatever the crashes between   *)
(* its execution and the save that removes it, and whoever enables it,     *)
(* until an edit of the tool overlaps one of the scheduler.                *)
THEOREM OneShotOnce == Spec => []OneShotAtMostOnce
<1>1. IInv => OneShotAtMostOnce
  BY DEF IInv, Orderly, SpentInv, OneShotAtMostOnce
<1> QED
  BY <1>1, Invariance, PTL

(* Two runs of an interval job start at least an interval apart, until     *)
(* such an overlap.                                                        *)
THEOREM RunsApart == Spec => IntervalRunsApart
<1> DEFINE A == \A j \in Jobs :
                  /\ ~raced
                  /\ Kind[j] = "every" /\ loop = "running" /\ loop' = "executing" /\ Head(due).id = j
                  => sinceRun[j] >= Period[j]
<1>1. IInv /\ [Next]_vars => [A]_vars
  <2> SUFFICES ASSUME IInv, [Next]_vars, vars' # vars, NEW j \in Jobs, ~raced,
                      Kind[j] = "every", loop = "running", loop' = "executing", Head(due).id = j
               PROVE  sinceRun[j] >= Period[j]
    OBVIOUS
  <2>1. StartJob
    <3>1. ~Quiet /\ ~Waits
      BY DEF Quiet, Waits
    <3>2. /\ ~Start /\ ~Exit /\ ~Tick /\ ~Wake /\ ~FinishJob /\ ~Place /\ ~EndTick
          /\ ~MarshalImage /\ ~WriteImage
      BY DEF Start, Exit, Tick, Wake, FinishJob, Place, EndTick, MarshalImage, WriteImage
    <3>3. ~EditEnds
      BY DEF EditEnds, loopVars
    <3> QED
      BY <3>1, <3>2, <3>3, StepKinds
  <2>2. due # <<>> /\ TypeOK
    BY <2>1 DEF StartJob, IInv
  <2>3. 1 \in DOMAIN due /\ Head(due) = due[1]
    BY <2>2, InHand
  <2> QED
    BY <2>3 DEF IInv, Orderly, ApartInv, Busy
<1>2. Spec => [][A]_vars
  BY <1>1, Invariance, PTL DEF Spec
<1> QED
  BY <1>2 DEF IntervalRunsApart

(* Within one process an ID that left the store is gone, until a removal   *)
(* overlaps the write-back of the scheduler.                               *)
THEOREM RemovedStays == Spec => RemovedStaysRemoved
<1> DEFINE A == \A j \in created :
                  up /\ up' /\ ~raced' /\ j \notin IdsOf(store) => j \notin IdsOf(store')
<1>1. IInv /\ [Next]_vars => [A]_vars
  <2> SUFFICES ASSUME IInv, [Next]_vars, NEW j \in created, up, up', ~raced', j \in IdsOf(store')
               PROVE  j \in IdsOf(store)
    OBVIOUS
  <2>0. TypeOK /\ Sound
    BY RacedStays DEF IInv, Sound
  <2>1. CASE Quiet \/ Waits \/ Wake \/ StartJob \/ FinishJob \/ MarshalImage \/ WriteImage
    BY <2>1 DEF Quiet, Waits, Wake, StartJob, FinishJob, MarshalImage, WriteImage
  <2>2. ~Start /\ ~Exit
    BY DEF Start, Exit
  <2>3. CASE Tick
    BY <2>0, <2>3, Ticked DEF IdsOf
  <2>4. CASE Place
    BY <2>0, <2>4, JobFinished
  <2>5. CASE EndTick
    BY <2>0, <2>5, Rescheduled DEF EndTick, TypeOK, IdsOf
  <2>6. CASE EditEnds /\ edit.at = 0
    BY <2>0, <2>6, Added
  <2>7. CASE EditEnds /\ edit.at # 0
    BY <2>0, <2>7, Removed DEF IdsOf
  <2> QED
    BY <2>1, <2>2, <2>3, <2>4, <2>5, <2>6, <2>7, StepKinds
<1>2. Spec => [][A]_vars
  BY <1>1, Invariance, PTL DEF Spec
<1> QED
  BY <1>2 DEF RemovedStaysRemoved
=============================================================================
