------------------------- MODULE CuratedMemoryProofs -------------------------
(***************************************************************************)
(* Safety of CuratedMemory for every set of calls, reviews and audits,     *)
(* every set of entries and every budget.                                  *)
(*                                                                         *)
(* The first part says what an edit of the store and a rewrite of the      *)
(* audit do to the entries of a file.  Of the three parts about steps, the *)
(* first gives the types and the mutex; the second shows that every image  *)
(* of the file a process holds is as good as the file, so that putting it  *)
(* back adds no duplicate and breaks no budget; the third that an entry    *)
(* that is to stay is, at each moment, in the file or in what the one      *)
(* process in the middle of a write is about to write.  The last part      *)
(* carries the theorems of LcmStoreProofs over to MCMemory, the sum of the *)
(* two modules.                                                            *)
(***************************************************************************)
EXTENDS MCMemory, SequenceTheorems, WellFoundedInduction, TLAPS

-----------------------------------------------------------------------------
(* What the edits of a file do to its entries.                             *)

(* A set of numbers that is not empty has a smallest one.                  *)
LEMMA Smallest ==
    ASSUME NEW T, T \subseteq Nat, T # {}
    PROVE  \E x \in T : \A y \in T : x <= y
<1>1. \E x \in T : \A y \in T : ~(<<y, x>> \in OpToRel(<, Nat))
  BY NatLessThanWellFounded, WFMin
<1>2. \A x, y \in Nat : <<y, x>> \in OpToRel(<, Nat) <=> y < x
  BY DEF OpToRel
<1>3. PICK x \in T : \A y \in T : ~(<<y, x>> \in OpToRel(<, Nat))
  BY <1>1
<1>4. \A y \in T : ~(y < x)
  BY <1>2, <1>3
<1>5. \A y \in T : x <= y
  BY <1>4
<1> QED
  BY <1>5

(* The entries of a file are texts, and their folds are folds.            *)
LEMMA FoldTypes ==
    ASSUME NEW es \in Seq(Texts)
    PROVE  /\ Range(es) \subseteq Texts /\ FoldsOf(es) \subseteq Folds
           /\ FoldsOf(es) = {Fold[es[i]] : i \in DOMAIN es}
           /\ \A i \in DOMAIN es : es[i] \in Texts /\ Fold[es[i]] \in Folds
  BY CuratedAssumption DEF Range, FoldsOf, Folds

(* A file that has just been truncated.                                    *)
LEMMA EmptyFile ==
    /\ <<>> \in Seq(Texts) /\ FoldsOf(<<>>) = {} /\ Twice(<<>>) = {}
    /\ \A es \in Seq(Texts) : es \o SubSeq(<<>>, Len(es) + 1, Len(<<>>)) = es
<1>1. \A es \in Seq(Texts) : es \o SubSeq(<<>>, Len(es) + 1, Len(<<>>)) = es
  OBVIOUS
<1> QED
  BY <1>1 DEF FoldsOf, Twice, Range

(* What a text is read as.                                                 *)
LEMMA PartTypes ==
    /\ Lines \subseteq Texts /\ Seq(Lines) \subseteq Seq(Texts)
    /\ \A t \in Texts : Parts[t] \in Seq(Texts) /\ (t \in Lines => Parts[t] = <<t>>)
<1>1. Lines \subseteq Texts
  BY DEF Lines
<1>2. Seq(Lines) \subseteq Seq(Texts)
  BY <1>1
<1> QED
  BY <1>1, <1>2, CuratedAssumption DEF Lines

(* Added entries are there, and a single one makes no fold double that was *)
(* not there before.                                                       *)
LEMMA JoinEntries ==
    ASSUME NEW es \in Seq(Texts), NEW more \in Seq(Texts)
    PROVE  /\ es \o more \in Seq(Texts)
           /\ Len(es \o more) = Len(es) + Len(more)
           /\ FoldsOf(es) \cup FoldsOf(more) \subseteq FoldsOf(es \o more)
           /\ \A t \in Texts :
                more = <<t>> /\ Twins(es, t) = {} => Twice(es \o more) \subseteq Twice(es)
<1> DEFINE new == es \o more
<1>1. /\ new \in Seq(Texts) /\ Len(new) = Len(es) + Len(more)
      /\ \A k \in 1..(Len(es) + Len(more)) :
           new[k] = IF k <= Len(es) THEN es[k] ELSE more[k - Len(es)]
  BY ConcatProperties
<1>2. Len(es) \in Nat /\ Len(more) \in Nat /\ DOMAIN es = 1..Len(es) /\ DOMAIN more = 1..Len(more)
  OBVIOUS
<1>3. DOMAIN new = 1..(Len(es) + Len(more))
  BY <1>1, <1>2
<1> HIDE DEF new
<1>4. \A j \in DOMAIN es : j \in DOMAIN new /\ new[j] = es[j]
  BY <1>1, <1>2, <1>3
<1>5. \A j \in DOMAIN more : Len(es) + j \in DOMAIN new /\ new[Len(es) + j] = more[j]
  <2> SUFFICES ASSUME NEW j \in 1..Len(more)
               PROVE  Len(es) + j \in DOMAIN new /\ new[Len(es) + j] = more[j]
    BY <1>2
  <2>1. /\ Len(es) + j \in 1..(Len(es) + Len(more)) /\ ~(Len(es) + j <= Len(es))
        /\ Len(es) + j - Len(es) = j
    BY <1>2
  <2> QED
    BY <1>1, <1>3, <2>1
<1>6. FoldsOf(es) \cup FoldsOf(more) \subseteq FoldsOf(new)
  BY <1>4, <1>5 DEF FoldsOf, Range
<1>7. ASSUME NEW t \in Texts, more = <<t>>, Twins(es, t) = {}
      PROVE  Twice(new) \subseteq Twice(es)
  <2>1. /\ DOMAIN new = DOMAIN es \cup {Len(es) + 1} /\ new[Len(es) + 1] = t
        /\ \A i \in DOMAIN es : new[i] = es[i]
    <3>1. Len(more) = 1 /\ more[1] = t
      BY <1>7
    <3>2. new[Len(es) + 1] = more[1]
      BY <1>2, <1>5, <3>1
    <3>3. DOMAIN new = DOMAIN es \cup {Len(es) + 1}
      BY <1>2, <1>3, <3>1
    <3> QED
      BY <1>4, <3>1, <3>2, <3>3
  <2> QED
    BY <1>7, <2>1 DEF Twins, Twice
<1> QED
  BY <1>1, <1>6, <1>7 DEF new

(* An entry that goes leaves the others, what comes in its place is there, *)
(* and if that is one entry or none it makes no fold double.               *)
LEMMA WithoutEntry ==
    ASSUME NEW es \in Seq(Texts), NEW i \in DOMAIN es, NEW between \in Seq(Texts)
    PROVE  /\ Without(es, i, between) \in Seq(Texts)
           /\ Len(Without(es, i, between)) = Len(es) - 1 + Len(between)
           /\ FoldsOf(between) \subseteq FoldsOf(Without(es, i, between))
           /\ FoldsOf(es) \subseteq FoldsOf(Without(es, i, between)) \cup {Fold[es[i]]}
           /\ between = <<>> => Twice(Without(es, i, between)) \subseteq Twice(es)
           /\ \A t \in Texts :
                between = <<t>> /\ Twins(es, t) \ {i} = {} =>
                  Twice(Without(es, i, between)) \subseteq Twice(es)
<1> DEFINE new == Without(es, i, between)
           m == Len(between)
           front == SubSeq(es, 1, i - 1)
           back == SubSeq(es, i + 1, Len(es))
           both == front \o between
           from(k) == IF k < i THEN k ELSE k - m + 1
<1>1. i \in 1..Len(es) /\ Len(es) \in Nat /\ m \in Nat
  OBVIOUS
<1>2. \A j \in 1..Len(es) : es[j] \in Texts
  OBVIOUS
<1>3. /\ front \in Seq(Texts) /\ Len(front) = i - 1
      /\ \A k \in 1..(i - 1) : front[k] = es[k]
  <2>1. i - 1 \in Int /\ \A j \in 1..(i - 1) : es[j] \in Texts
    BY <1>1, <1>2
  <2>2. /\ front \in Seq(Texts) /\ Len(front) = IF 1 <= i - 1 THEN i - 1 - 1 + 1 ELSE 0
        /\ \A k \in 1..(i - 1 - 1 + 1) : front[k] = es[1 + k - 1]
    BY <2>1, SubSeqProperties
  <2> HIDE DEF front
  <2> QED
    BY <1>1, <2>2
<1>4. /\ back \in Seq(Texts) /\ Len(back) = Len(es) - i
      /\ \A k \in 1..(Len(es) - i) : back[k] = es[i + k]
  <2>1. i + 1 \in Int /\ Len(es) \in Int /\ \A j \in (i + 1)..Len(es) : es[j] \in Texts
    BY <1>1, <1>2
  <2>2. /\ back \in Seq(Texts)
        /\ Len(back) = IF i + 1 <= Len(es) THEN Len(es) - (i + 1) + 1 ELSE 0
        /\ \A k \in 1..(Len(es) - (i + 1) + 1) : back[k] = es[(i + 1) + k - 1]
    BY <2>1, SubSeqProperties
  <2> HIDE DEF back
  <2> QED
    BY <1>1, <2>2
<1>5. new = both \o back
  BY DEF Without
<1> HIDE DEF front, back, new, m
<1>6. /\ both \in Seq(Texts) /\ Len(both) = i - 1 + m
      /\ \A k \in 1..(i - 1 + m) :
           both[k] = IF k <= i - 1 THEN front[k] ELSE between[k - (i - 1)]
  BY <1>3, ConcatProperties DEF m
<1> HIDE DEF both
<1>7. /\ new \in Seq(Texts) /\ Len(new) = i - 1 + m + (Len(es) - i)
      /\ \A k \in 1..(i - 1 + m + (Len(es) - i)) :
           new[k] = IF k <= i - 1 + m THEN both[k] ELSE back[k - (i - 1 + m)]
  BY <1>4, <1>5, <1>6, ConcatProperties
<1>8. Len(new) = Len(es) - 1 + m /\ DOMAIN new = 1..(Len(es) - 1 + m) /\ DOMAIN es = 1..Len(es)
  BY <1>1, <1>7
<1>20. DOMAIN between = 1..m
  BY DEF m
<1>9. \A k \in 1..(i - 1) : new[k] = es[k]
  <2> SUFFICES ASSUME NEW k \in 1..(i - 1) PROVE new[k] = es[k]
    OBVIOUS
  <2>1. /\ k \in 1..(i - 1 + m + (Len(es) - i)) /\ k <= i - 1 + m /\ k <= i - 1
        /\ k \in 1..(i - 1 + m)
    BY <1>1
  <2> QED
    BY <1>3, <1>6, <1>7, <2>1
<1>10. \A k \in 1..m : i - 1 + k \in DOMAIN new /\ new[i - 1 + k] = between[k]
  <2> SUFFICES ASSUME NEW k \in 1..m
               PROVE  i - 1 + k \in DOMAIN new /\ new[i - 1 + k] = between[k]
    OBVIOUS
  <2>1. /\ i - 1 + k \in 1..(i - 1 + m + (Len(es) - i)) /\ i - 1 + k <= i - 1 + m
        /\ ~(i - 1 + k <= i - 1) /\ i - 1 + k \in 1..(i - 1 + m) /\ i - 1 + k - (i - 1) = k
        /\ i - 1 + k \in 1..(Len(es) - 1 + m)
    BY <1>1
  <2> QED
    BY <1>6, <1>7, <1>8, <2>1
<1>11. \A k \in (i + m)..(Len(es) - 1 + m) : new[k] = es[k - m + 1]
  <2> SUFFICES ASSUME NEW k \in (i + m)..(Len(es) - 1 + m) PROVE new[k] = es[k - m + 1]
    OBVIOUS
  <2>1. /\ k \in 1..(i - 1 + m + (Len(es) - i)) /\ ~(k <= i - 1 + m)
        /\ k - (i - 1 + m) \in 1..(Len(es) - i) /\ i + (k - (i - 1 + m)) = k - m + 1
    BY <1>1
  <2> QED
    BY <1>4, <1>7, <2>1
<1>12. FoldsOf(between) \subseteq FoldsOf(new)
  BY <1>10, <1>20 DEF FoldsOf, Range
<1>13. \A j \in DOMAIN es : j # i => \E k \in DOMAIN new : new[k] = es[j]
  <2> SUFFICES ASSUME NEW j \in 1..Len(es), j # i
               PROVE  \E k \in DOMAIN new : new[k] = es[j]
    BY <1>8
  <2>1. CASE j < i
    <3>1. j \in 1..(i - 1) /\ j \in 1..(Len(es) - 1 + m)
      BY <1>1, <2>1
    <3> QED
      BY <1>8, <1>9, <3>1
  <2>2. CASE j > i
    <3>1. /\ j - 1 + m \in (i + m)..(Len(es) - 1 + m) /\ j - 1 + m - m + 1 = j
          /\ j - 1 + m \in 1..(Len(es) - 1 + m)
      BY <1>1, <2>2
    <3>2. PICK k \in (i + m)..(Len(es) - 1 + m) : k = j - 1 + m
      BY <3>1
    <3>3. new[k] = es[k - m + 1]
      BY <1>11
    <3>4. k - m + 1 = j /\ k \in 1..(Len(es) - 1 + m)
      BY <1>1, <3>1, <3>2
    <3> QED
      BY <1>8, <3>3, <3>4
  <2> QED
    BY <1>1, <2>1, <2>2
<1>14. FoldsOf(es) \subseteq FoldsOf(new) \cup {Fold[es[i]]}
  BY <1>13 DEF FoldsOf, Range
(* An entry that is not of what has come in was there before, elsewhere.   *)
<1>15. \A k \in DOMAIN new : k \in i..(i - 1 + m)
         \/ (from(k) \in DOMAIN es /\ from(k) # i /\ new[k] = es[from(k)])
  <2> SUFFICES ASSUME NEW k \in 1..(Len(es) - 1 + m), k \notin i..(i - 1 + m)
               PROVE  from(k) \in 1..Len(es) /\ from(k) # i /\ new[k] = es[from(k)]
    BY <1>8
  <2>1. CASE k < i
    <3>1. k \in 1..(i - 1) /\ from(k) = k /\ k \in 1..Len(es) /\ k # i
      BY <1>1, <2>1
    <3> QED
      BY <1>9, <3>1
  <2>2. CASE ~(k < i)
    <3>1. /\ k \in (i + m)..(Len(es) - 1 + m) /\ from(k) = k - m + 1
          /\ k - m + 1 \in 1..Len(es) /\ k - m + 1 # i
      BY <1>1, <2>2
    <3> QED
      BY <1>11, <3>1
  <2> QED
    BY <2>1, <2>2
<1>16. \A k, l \in DOMAIN new :
         k # l /\ k \notin i..(i - 1 + m) /\ l \notin i..(i - 1 + m) => from(k) # from(l)
  BY <1>1, <1>8
<1>17. ASSUME \A k, l \in DOMAIN new :
                k # l /\ Fold[new[k]] = Fold[new[l]] =>
                  k \notin i..(i - 1 + m) /\ l \notin i..(i - 1 + m)
       PROVE  Twice(new) \subseteq Twice(es)
  <2> SUFFICES ASSUME NEW f \in Folds, NEW k \in DOMAIN new, NEW l \in DOMAIN new,
                      k # l, Fold[new[k]] = f, Fold[new[l]] = f
               PROVE  \E x, y \in DOMAIN es :
                        x # y /\ Fold[es[x]] = f /\ Fold[es[y]] = f
    BY DEF Twice
  <2>1. k \notin i..(i - 1 + m) /\ l \notin i..(i - 1 + m)
    BY <1>17
  <2> HIDE DEF from
  <2>2. /\ from(k) \in DOMAIN es /\ from(l) \in DOMAIN es /\ from(k) # from(l)
        /\ new[k] = es[from(k)] /\ new[l] = es[from(l)]
    BY <1>15, <1>16, <2>1
  <2> QED
    BY <2>2
<1>18. ASSUME between = <<>> PROVE Twice(new) \subseteq Twice(es)
  <2>1. m = 0
    BY <1>18 DEF m
  <2>2. \A k \in DOMAIN new : k \notin i..(i - 1 + m)
    BY <1>1, <2>1
  <2> QED
    BY <1>17, <2>2
<1>19. ASSUME NEW t \in Texts, between = <<t>>, Twins(es, t) \ {i} = {}
       PROVE  Twice(new) \subseteq Twice(es)
  <2>1. m = 1 /\ between[1] = t
    BY <1>19 DEF m
  <2>2. i - 1 + 1 = i /\ i..(i - 1 + m) = {i}
    BY <1>1, <2>1
  <2>3. new[i] = t
    BY <1>10, <2>1, <2>2
  <2> HIDE DEF from
  <2>4. \A k \in DOMAIN new : k # i => Fold[new[k]] # Fold[t]
    BY <1>15, <1>19, <2>2 DEF Twins
  <2>5. \A k, l \in DOMAIN new : k # l /\ Fold[new[k]] = Fold[new[l]] => k # i /\ l # i
    BY <2>3, <2>4
  <2> QED
    BY <1>17, <2>2, <2>5
<1> QED
  BY <1>7, <1>8, <1>12, <1>14, <1>18, <1>19 DEF new, m

(* rewriteDedupMemory keeps the first of those that are the same, which    *)
(* exists for each.                                                        *)
LEMMA DedupEntries ==
    ASSUME NEW es \in Seq(Texts), NEW d \in Deduped(es)
    PROVE  /\ d \in Seq(Texts) /\ Len(d) <= Len(es)
           /\ FoldsOf(es) \subseteq FoldsOf(d)
           /\ Twice(d) \subseteq Twice(es)
<1>1. PICK m \in 0..Len(es) : \E at \in [1..m -> Firsts(es)] :
        /\ \A k, l \in DOMAIN at : k < l => at[k] < at[l]
        /\ Range(at) = Firsts(es)
        /\ d = [k \in DOMAIN at |-> es[at[k]]]
  BY DEF Deduped
<1>2. PICK at \in [1..m -> Firsts(es)] :
        /\ \A k, l \in 1..m : k < l => at[k] < at[l]
        /\ Range(at) = Firsts(es)
        /\ d = [k \in 1..m |-> es[at[k]]]
  BY <1>1
<1>9. m \in Nat /\ m <= Len(es) /\ Firsts(es) \subseteq DOMAIN es /\ DOMAIN es = 1..Len(es)
  BY DEF Firsts
<1>3. DOMAIN d = 1..m /\ \A k \in 1..m : d[k] = es[at[k]] /\ at[k] \in DOMAIN es
  BY <1>2, <1>9
<1>4. d \in Seq(Texts) /\ Len(d) = m
  <2>1. d = [k \in 1..m |-> es[at[k]]] /\ \A k \in 1..m : es[at[k]] \in Texts
    BY <1>2, <1>3
  <2> QED
    BY <1>9, <2>1
<1>5. FoldsOf(es) \subseteq FoldsOf(d)
  <2> SUFFICES ASSUME NEW i \in DOMAIN es
               PROVE  \E k \in DOMAIN d : d[k] = es[i]
    BY DEF FoldsOf, Range
  <2> DEFINE same == {j \in DOMAIN es : es[j] = es[i]}
  <2>1. PICK x \in same : \A y \in same : x <= y
    <3>1. same \subseteq Nat /\ same # {}
      BY <1>9
    <3> QED
      BY <3>1, Smallest
  <2>2. x \in Firsts(es)
    <3>1. x \in DOMAIN es /\ es[x] = es[i]
      BY <2>1
    <3>2. \A j \in 1..(x - 1) : j \in DOMAIN es /\ ~(x <= j)
      BY <1>9, <3>1
    <3>3. \A j \in 1..(x - 1) : es[j] # es[x]
      BY <2>1, <3>1, <3>2
    <3> QED
      BY <3>1, <3>3 DEF Firsts
  <2>3. PICK k \in 1..m : at[k] = x
    BY <1>2, <2>2 DEF Range
  <2> QED
    BY <1>3, <2>1, <2>3
<1>6. Twice(d) \subseteq Twice(es)
  <2> SUFFICES ASSUME NEW f \in Folds, NEW k \in 1..m, NEW l \in 1..m,
                      k # l, Fold[d[k]] = f, Fold[d[l]] = f
               PROVE  \E x, y \in DOMAIN es :
                        x # y /\ Fold[es[x]] = f /\ Fold[es[y]] = f
    BY <1>3 DEF Twice
  <2>1. at[k] # at[l]
    <3>1. at[k] \in Nat /\ at[l] \in Nat
      BY <1>9, <1>3
    <3> QED
      BY <1>2, <1>9, <3>1
  <2> QED
    BY <1>3, <2>1
<1> QED
  BY <1>9, <1>4, <1>5, <1>6

-----------------------------------------------------------------------------
(* An edit of the store, and the entries it is made to.                    *)
LEMMA EditFacts ==
    ASSUME NEW es \in Seq(Texts), NEW op \in Operations,
           ~Refuses(op, es), ~AlreadyThere(op, es), NEW edit \in Edits(op, es)
    PROVE  /\ edit.entries \in Seq(Texts) /\ edit.gone \in SUBSET Folds
           /\ FoldsOf(es) \subseteq FoldsOf(edit.entries) \cup edit.gone
           /\ op.action # "remove" =>
                FoldsOf(Parts[op.content]) \subseteq FoldsOf(edit.entries)
           /\ Split(op) = {} => Twice(edit.entries) \subseteq Twice(es)
           /\ Len(edit.entries) <= Limit \/ Len(edit.entries) <= Len(es)
<1> DEFINE t == op.content
           more == Parts[t]
<1>1. /\ t \in Texts /\ Len(es) \in Nat /\ Limit \in Nat
      /\ op.action \in {"add", "replace", "remove"}
  BY CuratedAssumption DEF Operations
<1>2. more \in Seq(Texts) /\ Len(more) \in Nat
  BY <1>1, PartTypes
<1>3. op.action # "remove" /\ Split(op) = {} => more = <<t>>
  BY <1>1, PartTypes DEF Split
<1>4. \A i \in FirstMatch(es, op.old) : i \in DOMAIN es /\ {Fold[es[i]]} \in SUBSET Folds
  BY FoldTypes DEF FirstMatch, Matches
<1>5. CASE op.action = "add"
  <2>1. edit = [entries |-> es \o more, gone |-> {}]
    BY <1>5 DEF Edits
  <2>2. Twins(es, t) = {} /\ ~(Len(es) + Len(more) > Limit)
    BY <1>5 DEF Refuses, AlreadyThere
  <2>3. /\ es \o more \in Seq(Texts) /\ Len(es \o more) = Len(es) + Len(more)
        /\ FoldsOf(es) \cup FoldsOf(more) \subseteq FoldsOf(es \o more)
        /\ more = <<t>> => Twice(es \o more) \subseteq Twice(es)
    BY <1>1, <1>2, <2>2, JoinEntries
  <2>4. Len(es \o more) <= Limit
    BY <1>1, <1>2, <2>2, <2>3
  <2>5. edit.entries = es \o more /\ edit.gone = {}
    BY <2>1
  <2> QED
    BY <1>3, <1>5, <2>3, <2>4, <2>5
<1>6. CASE op.action = "replace"
  <2>1. PICK i \in FirstMatch(es, op.old) :
          edit = [entries |-> Without(es, i, more), gone |-> {Fold[es[i]]}]
    BY <1>6 DEF Edits
  <2>2. Twins(es, t) \ {i} = {} /\ ~(Len(es) - 1 + Len(more) > Limit)
    BY <1>6 DEF AlreadyThere, Refuses
  <2> DEFINE new == Without(es, i, more)
  <2>3. /\ new \in Seq(Texts) /\ Len(new) = Len(es) - 1 + Len(more)
        /\ FoldsOf(more) \subseteq FoldsOf(new)
        /\ FoldsOf(es) \subseteq FoldsOf(new) \cup {Fold[es[i]]}
        /\ more = <<t>> => Twice(new) \subseteq Twice(es)
    <3>1. i \in DOMAIN es
      BY <1>4
    <3>2. /\ new \in Seq(Texts) /\ Len(new) = Len(es) - 1 + Len(more)
          /\ FoldsOf(more) \subseteq FoldsOf(new)
          /\ FoldsOf(es) \subseteq FoldsOf(new) \cup {Fold[es[i]]}
          /\ \A u \in Texts :
               more = <<u>> /\ Twins(es, u) \ {i} = {} => Twice(new) \subseteq Twice(es)
      BY <1>2, <3>1, WithoutEntry
    <3> QED
      BY <1>1, <2>2, <3>2
  <2>4. edit.entries = new /\ edit.gone = {Fold[es[i]]}
    BY <2>1
  <2> HIDE DEF new
  <2>5. Len(new) <= Limit
    BY <1>1, <1>2, <2>2, <2>3
  <2> QED
    BY <1>3, <1>4, <1>6, <2>3, <2>4, <2>5
<1>7. CASE op.action = "remove"
  <2>1. PICK i \in FirstMatch(es, op.old) :
          edit = [entries |-> Without(es, i, <<>>), gone |-> {Fold[es[i]]}]
    BY <1>7 DEF Edits
  <2> DEFINE new == Without(es, i, <<>>)
  <2>2. /\ new \in Seq(Texts) /\ Len(new) = Len(es) - 1 + Len(<<>>)
        /\ FoldsOf(es) \subseteq FoldsOf(new) \cup {Fold[es[i]]}
        /\ Twice(new) \subseteq Twice(es)
    <3>1. i \in DOMAIN es /\ <<>> \in Seq(Texts)
      BY <1>4, EmptyFile
    <3> QED
      BY <3>1, WithoutEntry
  <2>3. edit.entries = new /\ edit.gone = {Fold[es[i]]}
    BY <2>1
  <2> HIDE DEF new
  <2>4. Len(new) <= Len(es)
    BY <1>1, <2>2
  <2> QED
    BY <1>4, <1>7, <2>2, <2>3, <2>4
<1> QED
  BY <1>1, <1>5, <1>6, <1>7

(* What a process is about to ask is an operation.                         *)
LEMMA AskedTypes ==
    ASSUME TypeOK, NEW p \in Processes
    PROVE  /\ Asked(p) \subseteq Operations
           /\ Asked(p) # {} => At(p, "idle") \/ At(p, "calling")
  BY DEF TypeOK, Locals, Asked, At

(* The locals of a process that has not begun, and of one that is done.    *)
LEMMA IdleTypes ==
    /\ Idle \in Locals /\ Finished \in Locals
    /\ Finished.pc = "done" /\ Finished.prev = <<>> /\ Finished.entries = <<>>
    /\ Idle.pc = "idle" /\ Idle.prev = <<>> /\ Idle.entries = <<>>
<1>1. SomeOperation \in Operations
  <2>1. PICK t \in Texts : TRUE
    BY CuratedAssumption
  <2>2. [action |-> "add", content |-> t, old |-> {}] \in Operations
    BY DEF Operations
  <2> QED
    BY <2>2 DEF SomeOperation
<1>2. <<>> \in Seq(Texts)
  BY EmptyFile
<1>3. Idle \in Locals
  BY <1>1, <1>2 DEF Idle, Locals, Phases
<1>4. Finished \in Locals
  BY <1>3 DEF Finished, Locals, Phases
<1>5. /\ Finished.pc = "done" /\ Finished.prev = Idle.prev /\ Finished.entries = Idle.entries
  BY <1>3 DEF Finished, Locals
<1>6. Idle.pc = "idle" /\ Idle.prev = <<>> /\ Idle.entries = <<>>
  BY DEF Idle
<1> QED
  BY <1>3, <1>4, <1>5, <1>6

(* Overwriting an empty file.                                              *)
LEMMA OverTypes ==
    ASSUME TypeOK, NEW es \in Seq(Texts)
    PROVE  Over(es) \in Seq(Texts) /\ (Mixed = {} => Over(es) = es)
<1>1. SubSeq(file, Len(es) + 1, Len(file)) \in Seq(Texts)
  <2>1. /\ Len(es) + 1 \in Int /\ Len(file) \in Int
        /\ \A i \in (Len(es) + 1)..Len(file) : file[i] \in Texts
    BY DEF TypeOK
  <2> QED
    BY <2>1, SubSeqProperties
<1>2. Over(es) \in Seq(Texts)
  BY <1>1, ConcatProperties DEF Over
<1>3. Mixed = {} => file = <<>>
  BY DEF Mixed
<1> QED
  BY <1>2, <1>3, EmptyFile DEF Over

-----------------------------------------------------------------------------
(* Types, and the holder of the mutex.                                     *)

(* A step changes the locals of one process, and its hold of the mutex     *)
(* with them.                                                              *)
Holding(l) == l.pc \in {"writing", "truncated"}
Moves(p, l) ==
    /\ proc' = [proc EXCEPT ![p] = l]
    /\ lock' = (lock \ {p}) \cup (IF Holding(l) THEN {p} ELSE {})

(* The images of the file it holds are ones it had or what it makes of the *)
(* file now.                                                               *)
Edited(es) ==
    /\ "split" \notin trouble' => Twice(es) \subseteq Twice(file)
    /\ Len(es) <= Limit \/ Len(es) <= Len(file)

Keeps(p, l) ==
    /\ l.prev \in {proc[p].prev, file, <<>>}
    /\ l.entries \in {proc[p].entries, proc[p].prev, <<>>} \/ Edited(l.entries)

(* Such a step keeps the types.                                            *)
LEMMA MovesTypes ==
    ASSUME TypeOK, NEW p \in Processes, NEW l \in Locals, Moves(p, l)
    PROVE  /\ proc' \in [Processes -> Locals]
           /\ lock' = {q \in Processes : At(q, "writing") \/ At(q, "truncated")}'
  BY DEF TypeOK, At, Moves, Holding

(* A call of the store returns: the tool's is done, a review goes on.      *)
LEMMA ReturnedMoves ==
    ASSUME TypeOK, NEW p \in Processes, NEW ok \in BOOLEAN, Returned(p, ok), lock' = lock \ {p}
    PROVE  \E l \in Locals :
             /\ Moves(p, l) /\ Keeps(p, l)
             /\ \/ p \in Calls /\ l = Finished
                \/ p \notin Calls /\ l = [proc[p] EXCEPT !.pc = "executed", !.ok = ok]
<1>1. CASE p \in Calls
  BY <1>1, IdleTypes DEF Returned, Finish, Moves, Holding, Keeps
<1>2. CASE p \notin Calls
  <2> DEFINE l == [proc[p] EXCEPT !.pc = "executed", !.ok = ok]
  <2>1. l \in Locals /\ l.pc = "executed" /\ Keeps(p, l)
    BY DEF TypeOK, Locals, Phases, Keeps
  <2>2. proc' = [proc EXCEPT ![p] = l]
    BY <1>2 DEF Returned, TypeOK
  <2> QED
    BY <1>2, <2>1, <2>2 DEF Moves, Holding
<1> QED
  BY <1>1, <1>2

(* A process that ends does not hold the mutex.                            *)
LEMMA FinishMoves ==
    ASSUME TypeOK, NEW p \in Processes, Finish(p), lock' = lock \ {p}
    PROVE  Finished \in Locals /\ Moves(p, Finished) /\ Keeps(p, Finished)
  BY IdleTypes DEF Finish, Moves, Holding, Keeps

(* The locals of a process, and whether it holds the mutex.                *)
LEMMA LockTypes ==
    ASSUME TypeOK, NEW p \in Processes
    PROVE  /\ ~At(p, "writing") /\ ~At(p, "truncated") => lock \ {p} = lock
           /\ At(p, "writing") \/ At(p, "truncated") => p \in lock
           /\ lock = {} => lock \ {p} = lock
           /\ proc[p] \in Locals /\ proc[p].op \in Operations /\ Content(p) \in Texts
           /\ proc[p].prev \in Seq(Texts) /\ proc[p].entries \in Seq(Texts)
           /\ proc[p].gone \in SUBSET Folds
<1>1. /\ proc[p] \in Locals /\ proc[p].op \in Operations
      /\ proc[p].prev \in Seq(Texts) /\ proc[p].entries \in Seq(Texts)
      /\ proc[p].gone \in SUBSET Folds
  BY DEF TypeOK, Locals
<1>2. Content(p) \in Texts
  BY <1>1, CuratedAssumption DEF Content, Operations
<1>3. /\ ~At(p, "writing") /\ ~At(p, "truncated") => lock \ {p} = lock
      /\ At(p, "writing") \/ At(p, "truncated") => p \in lock
      /\ lock = {} => lock \ {p} = lock
  BY DEF TypeOK, At
<1> QED
  BY <1>1, <1>2, <1>3

(* What is read is the file, or nothing, and what is made of it is no      *)
(* worse than the file.                                                    *)
LEMMA ReadTypes ==
    ASSUME TypeOK
    PROVE  \A es \in Readable :
             /\ es \in Seq(Texts) /\ Twice(es) \subseteq Twice(file) /\ Len(es) <= Len(file)
             /\ Unread(es) = {} => es = file /\ HalfWritten = {}
<1> SUFFICES ASSUME NEW es \in Readable
             PROVE  /\ es \in Seq(Texts) /\ Twice(es) \subseteq Twice(file)
                    /\ Len(es) <= Len(file)
                    /\ Unread(es) = {} => es = file /\ HalfWritten = {}
  OBVIOUS
<1>1. file \in Seq(Texts) /\ Len(file) \in Nat /\ Len(<<>>) = 0
  BY DEF TypeOK
<1>2. Unread(es) = {} => es = file /\ HalfWritten = {}
  BY DEF Unread
<1>3. CASE es = file
  BY <1>1, <1>2, <1>3
<1>4. CASE es = <<>>
  <2>1. Len(es) <= Len(file)
    BY <1>1, <1>4
  <2>2. es \in Seq(Texts) /\ Twice(es) \subseteq Twice(file)
    BY <1>4, EmptyFile
  <2> QED
    BY <1>2, <2>1, <2>2
<1> QED
  BY <1>3, <1>4 DEF Readable

LEMMA EditMade ==
    ASSUME TypeOK, NEW p \in Processes, NEW op \in Asked(p), NEW entries \in Readable,
           Edit(p, op, entries), NEW edit \in Edits(op, entries)
    PROVE  /\ op \in Operations /\ edit.entries \in Seq(Texts) /\ edit.gone \in SUBSET Folds
           /\ Edited(edit.entries)
<1>1. op \in Operations /\ ~Refuses(op, entries) /\ ~AlreadyThere(op, entries)
  BY AskedTypes DEF Edit
<1>2. /\ entries \in Seq(Texts) /\ Twice(entries) \subseteq Twice(file)
      /\ Len(entries) <= Len(file) /\ Len(entries) \in Nat /\ Len(file) \in Nat
  BY ReadTypes DEF TypeOK
<1>3. /\ edit.entries \in Seq(Texts) /\ edit.gone \in SUBSET Folds
      /\ Split(op) = {} => Twice(edit.entries) \subseteq Twice(entries)
      /\ Len(edit.entries) <= Limit \/ Len(edit.entries) <= Len(entries)
  BY <1>1, <1>2, EditFacts
<1>4. "split" \notin trouble' => Split(op) = {}
  BY DEF Edit, Split
<1>5. Len(edit.entries) <= Limit \/ Len(edit.entries) <= Len(file)
  <2>1. Len(edit.entries) \in Nat
    BY <1>3
  <2> QED
    BY <1>2, <1>3, <2>1
<1>6. "split" \notin trouble' => Twice(edit.entries) \subseteq Twice(file)
  BY <1>2, <1>3, <1>4
<1> QED
  BY <1>1, <1>3, <1>5, <1>6 DEF Edited

LEMMA DedupMade ==
    ASSUME TypeOK, NEW entries \in Readable, NEW fewer \in Deduped(entries)
    PROVE  fewer \in Seq(Texts) /\ Edited(fewer)
<1>1. /\ entries \in Seq(Texts) /\ Twice(entries) \subseteq Twice(file)
      /\ Len(entries) <= Len(file) /\ Len(entries) \in Nat /\ Len(file) \in Nat
  BY ReadTypes DEF TypeOK
<1>2. fewer \in Seq(Texts) /\ Len(fewer) <= Len(entries) /\ Twice(fewer) \subseteq Twice(entries)
  BY <1>1, DedupEntries
<1>3. Len(fewer) <= Len(file)
  <2>1. Len(fewer) \in Nat
    BY <1>2
  <2> QED
    BY <1>1, <1>2, <2>1
<1> QED
  BY <1>1, <1>2, <1>3 DEF Edited

(* What each step does to the locals of its process.                       *)
LEMMA StepMoves ==
    ASSUME TypeOK, NEW p \in Processes, Step(p)
    PROVE  \E l \in Locals : Moves(p, l) /\ Keeps(p, l)
<1> USE LockTypes
<1>1. CASE Refuse(p)
  BY <1>1, ReturnedMoves DEF Refuse
<1>2. CASE NothingToWrite(p)
  BY <1>2, ReturnedMoves DEF NothingToWrite
<1>3. CASE ReadEntries(p)
  <2>1. PICK op \in Asked(p), entries \in Readable : Edit(p, op, entries)
    BY <1>3 DEF ReadEntries
  <2>2. PICK edit \in Edits(op, entries) :
          proc' = [proc EXCEPT ![p].pc = "writing", ![p].op = op,
                               ![p].entries = edit.entries, ![p].gone = edit.gone]
    BY <2>1 DEF Edit
  <2>3. /\ op \in Operations /\ edit.entries \in Seq(Texts) /\ edit.gone \in SUBSET Folds
        /\ Edited(edit.entries)
    BY <2>1, EditMade
  <2> DEFINE l == [proc[p] EXCEPT !.pc = "writing", !.op = op,
                                  !.entries = edit.entries, !.gone = edit.gone]
  <2>4. l \in Locals /\ l.pc = "writing" /\ Keeps(p, l)
    BY <2>3 DEF Locals, Phases, Keeps
  <2>5. proc' = [proc EXCEPT ![p] = l]
    BY <2>2 DEF TypeOK
  <2>6. lock' = (lock \ {p}) \cup {p}
    BY <1>3 DEF ReadEntries
  <2> HIDE DEF l
  <2> QED
    BY <2>4, <2>5, <2>6 DEF Moves, Holding
<1>4. CASE Truncate(p)
  <2> DEFINE l == [proc[p] EXCEPT !.pc = "truncated"]
  <2>1. l \in Locals /\ l.pc = "truncated" /\ Keeps(p, l)
    BY DEF Locals, Phases, Keeps
  <2>2. proc' = [proc EXCEPT ![p] = l] /\ lock' = (lock \ {p}) \cup {p}
    BY <1>4 DEF Truncate, TypeOK
  <2> HIDE DEF l
  <2> QED
    BY <2>1, <2>2 DEF Moves, Holding
<1>5. CASE WriteEntries(p)
  BY <1>5, ReturnedMoves DEF WriteEntries
<1>6. CASE WriteFails(p)
  BY <1>6, ReturnedMoves DEF WriteFails
<1>7. CASE Review(p)
  <2>1. PICK op \in Operations : proc' = [proc EXCEPT ![p].pc = "reviewed", ![p].op = op]
    BY <1>7 DEF Review
  <2> DEFINE l == [proc[p] EXCEPT !.pc = "reviewed", !.op = op]
  <2>2. l \in Locals /\ l.pc = "reviewed" /\ Keeps(p, l)
    BY DEF Locals, Phases, Keeps
  <2>3. proc' = [proc EXCEPT ![p] = l] /\ lock' = lock \ {p}
    BY <1>7, <2>1 DEF Review, TypeOK, At
  <2> HIDE DEF l
  <2> QED
    BY <2>2, <2>3 DEF Moves, Holding
<1>8. CASE NearDuplicate(p)
  BY <1>8, FinishMoves DEF NearDuplicate, At
<1>9. CASE NotADuplicate(p)
  <2> DEFINE l == [proc[p] EXCEPT !.pc = "checked"]
  <2>1. l \in Locals /\ l.pc = "checked" /\ Keeps(p, l)
    BY DEF Locals, Phases, Keeps
  <2>2. proc' = [proc EXCEPT ![p] = l] /\ lock' = lock \ {p}
    BY <1>9 DEF NotADuplicate, TypeOK, At
  <2> HIDE DEF l
  <2> QED
    BY <2>1, <2>2 DEF Moves, Holding
<1>10. CASE Backup(p)
  <2>3. PICK prev \in Readable : proc' = [proc EXCEPT ![p].pc = "calling", ![p].prev = prev]
    BY <1>10 DEF Backup
  <2> DEFINE l == [proc[p] EXCEPT !.pc = "calling", !.prev = prev]
  <2>1. l \in Locals /\ l.pc = "calling" /\ Keeps(p, l)
    BY ReadTypes DEF Locals, Phases, Keeps, Readable
  <2>2. proc' = [proc EXCEPT ![p] = l] /\ lock' = lock \ {p}
    BY <1>10, <2>3 DEF Backup, TypeOK, At
  <2> HIDE DEF l
  <2> QED
    BY <2>1, <2>2 DEF Moves, Holding
<1>11. CASE Succeed(p)
  BY <1>11, FinishMoves DEF Succeed, At
<1>12. CASE Rollback(p)
  <2> DEFINE l == [proc[p] EXCEPT !.pc = "overwriting", !.entries = proc[p].prev]
  <2>1. l \in Locals /\ l.pc = "overwriting" /\ Keeps(p, l)
    BY DEF Locals, Phases, Keeps
  <2>2. proc' = [proc EXCEPT ![p] = l] /\ lock' = lock \ {p}
    BY <1>12 DEF Rollback, TypeOK, At
  <2> HIDE DEF l
  <2> QED
    BY <2>1, <2>2 DEF Moves, Holding
<1>13. CASE Audit(p)
  <2>1. CASE Finish(p)
    BY <1>13, <2>1, FinishMoves DEF Audit, At
  <2>2. CASE ~Finish(p)
    <3>5. PICK entries \in Readable :
            \E fewer \in Deduped(entries) :
              proc' = [proc EXCEPT ![p].pc = "overwriting", ![p].entries = fewer,
                                   ![p].prev = entries]
      BY <1>13, <2>2 DEF Audit
    <3>1. PICK fewer \in Deduped(entries) :
            proc' = [proc EXCEPT ![p].pc = "overwriting", ![p].entries = fewer,
                                 ![p].prev = entries]
      BY <3>5
    <3> DEFINE l == [proc[p] EXCEPT !.pc = "overwriting", !.entries = fewer, !.prev = entries]
    <3>2. /\ entries \in Seq(Texts) /\ fewer \in Seq(Texts) /\ Edited(fewer)
          /\ entries \in {file, <<>>}
      BY <3>1, ReadTypes, DedupMade DEF Readable
    <3>3. l \in Locals /\ l.pc = "overwriting" /\ Keeps(p, l)
      BY <3>2 DEF Locals, Phases, Keeps
    <3>4. proc' = [proc EXCEPT ![p] = l] /\ lock' = lock \ {p}
      BY <1>13, <3>1 DEF Audit, TypeOK, At
    <3> HIDE DEF l
    <3> QED
      BY <3>3, <3>4 DEF Moves, Holding
  <2> QED
    BY <2>1, <2>2
<1>14. CASE OverwriteTruncates(p)
  <2> DEFINE l == [proc[p] EXCEPT !.pc = "overwritten"]
  <2>1. l \in Locals /\ l.pc = "overwritten" /\ Keeps(p, l)
    BY DEF Locals, Phases, Keeps
  <2>2. proc' = [proc EXCEPT ![p] = l] /\ lock' = lock \ {p}
    BY <1>14 DEF OverwriteTruncates, TypeOK, At
  <2> HIDE DEF l
  <2> QED
    BY <2>1, <2>2 DEF Moves, Holding
<1>15. CASE OverwriteWrites(p)
  BY <1>15, FinishMoves DEF OverwriteWrites, At
<1>16. CASE OverwriteFails(p)
  BY <1>16, FinishMoves DEF OverwriteFails, At
<1> QED
  BY <1>1, <1>2, <1>3, <1>4, <1>5, <1>6, <1>7, <1>8, <1>9, <1>10, <1>11, <1>12, <1>13,
     <1>14, <1>15, <1>16 DEF Step

(* Every step keeps the types.                                             *)
LEMMA TypeStep == TypeOK /\ [Next]_vars => TypeOK'
<1> SUFFICES ASSUME TypeOK, [Next]_vars PROVE TypeOK'
  OBVIOUS
<1>1. CASE UNCHANGED vars
  BY <1>1 DEF TypeOK, vars, At
<1>2. CASE Crash
  <2>1. proc' \in [Processes -> Locals]
    BY <1>2, IdleTypes DEF Crash
  <2>2. \A p \in Processes : proc'[p].pc \in {"idle", "done"}
    BY <1>2, IdleTypes DEF Crash, Idle
  <2>3. lock' = {p \in Processes : At(p, "writing") \/ At(p, "truncated")}'
    BY <1>2, <2>2 DEF Crash, At
  <2> QED
    BY <1>2, <2>1, <2>3 DEF Crash, TypeOK
<1>3. ASSUME NEW p \in Processes, Step(p) PROVE TypeOK'
  <2>1. /\ proc' \in [Processes -> Locals]
        /\ lock' = {q \in Processes : At(q, "writing") \/ At(q, "truncated")}'
    BY <1>3, StepMoves, MovesTypes
  <2>2. /\ file \in Seq(Texts) /\ original \in Seq(Texts) /\ kept \subseteq Folds
        /\ \A t \in Texts : Fold[t] \in Folds
        /\ Content(p) \in Texts /\ <<>> \in Seq(Texts) /\ FoldsOf(Parts[Content(p)]) \subseteq Folds
        /\ Asked(p) \subseteq Operations /\ \A op \in Operations : op.content \in Texts
        /\ Over(proc[p].entries) \in Seq(Texts)
    <3>1. Content(p) \in Texts /\ Parts[Content(p)] \in Seq(Texts)
      BY LockTypes, PartTypes
    <3>2. FoldsOf(Parts[Content(p)]) \subseteq Folds
      BY <3>1, FoldTypes
    <3>3. \A t \in Texts : Fold[t] \in Folds
      BY CuratedAssumption DEF Folds, Range
    <3>4. Asked(p) \subseteq Operations /\ \A op \in Operations : op.content \in Texts
      BY AskedTypes, CuratedAssumption DEF Operations
    <3>5. Over(proc[p].entries) \in Seq(Texts) /\ <<>> \in Seq(Texts)
      BY LockTypes, OverTypes, EmptyFile
    <3> QED
      BY <3>1, <3>2, <3>3, <3>4, <3>5 DEF TypeOK
  <2>3. file' \in Seq(Texts) /\ original' = original
    BY <1>3, <2>2 DEF Step, Refuse, NothingToWrite, ReadEntries, Truncate, WriteEntries,
      WriteFails, Review, NearDuplicate, NotADuplicate, Backup, Succeed, Rollback, Audit,
      OverwriteTruncates, OverwriteWrites, OverwriteFails
  <2>4. \/ kept' = kept
        \/ \E t \in Texts : kept' = kept \cup {Fold[t]}
        \/ \E gone, more : kept' = (kept \ gone) \cup more /\ more \subseteq Folds
    <3>1. CASE NothingToWrite(p)
      <4>1. PICK op \in Asked(p) :
              kept' = IF p \in Calls THEN kept \cup {Fold[op.content]} ELSE kept
        BY <3>1 DEF NothingToWrite
      <4> QED
        BY <2>2, <4>1
    <3>2. CASE WriteEntries(p)
      <4>1. kept' = (kept \ proc[p].gone)
                     \cup (IF p \in Calls /\ proc[p].op.action # "remove"
                           THEN FoldsOf(Parts[Content(p)]) ELSE {})
        BY <3>2 DEF WriteEntries
      <4> QED
        BY <2>2, <4>1
    <3>3. CASE Succeed(p)
      <4>1. kept' = IF proc[p].op.action = "remove" THEN kept ELSE kept \cup {Fold[Content(p)]}
        BY <3>3 DEF Succeed
      <4> QED
        BY <2>2, <4>1
    <3> QED
      BY <1>3, <3>1, <3>2, <3>3 DEF Step, Refuse, ReadEntries, Truncate, WriteFails, Review,
        NearDuplicate, NotADuplicate, Backup, Rollback, Audit, OverwriteTruncates,
        OverwriteWrites, OverwriteFails
  <2>5. kept' \subseteq Folds
    BY <2>2, <2>4
  <2> QED
    BY <2>1, <2>2, <2>3, <2>5 DEF TypeOK
<1> QED
  BY <1>1, <1>2, <1>3 DEF Next

(* The types hold at the start.                                            *)
LEMMA TypeInit == Init => TypeOK
<1> SUFFICES ASSUME Init PROVE TypeOK
  OBVIOUS
<1>1. file \in Seq(Texts) /\ original \in Seq(Texts) /\ kept \subseteq Folds
  <2>1. file \in Seq(Texts) /\ original = file /\ kept = FoldsOf(file)
    BY CuratedAssumption, PartTypes DEF Init
  <2> QED
    BY <2>1, FoldTypes
<1>2. proc \in [Processes -> Locals]
  BY IdleTypes DEF Init
<1>3. \A p \in Processes : proc[p].pc = "idle"
  BY DEF Init, Idle
<1> QED
  BY <1>1, <1>2, <1>3 DEF TypeOK, Init, At

(* The mutex excludes: at most one call writes.                            *)
MutexInv == \A p, q \in lock : p = q

(* Every step keeps that.                                                  *)
LEMMA MutexStep == MutexInv /\ [Next]_vars => MutexInv'
<1> SUFFICES ASSUME MutexInv, [Next]_vars PROVE MutexInv'
  OBVIOUS
<1>1. CASE UNCHANGED vars
  BY <1>1 DEF MutexInv, vars
<1>2. lock' = {} \/ (\E p \in Processes : lock' = {p}) \/ lock' \subseteq lock \/ UNCHANGED vars
  BY DEF Next, Crash, Step, Refuse, NothingToWrite, ReadEntries, Truncate, WriteEntries,
    WriteFails, Review, NearDuplicate, NotADuplicate, Backup, Succeed, Rollback, Audit,
    OverwriteTruncates, OverwriteWrites, OverwriteFails
<1> QED
  BY <1>1, <1>2 DEF MutexInv

(* The types, and the mutex of MemoryNoteStore held exactly by the call    *)
(* that writes.                                                            *)
THEOREM TypesKept == Spec => []TypeOK
  BY TypeInit, TypeStep, PTL DEF Spec

-----------------------------------------------------------------------------
(* Duplicates and the budget.                                              *)

(* An image of the file: it has no more duplicates, unless a text was read *)
(* as several, and is no longer past the budget, than the file at the      *)
(* start.                                                                  *)
Sound(es) ==
    /\ "split" \notin trouble => Twice(es) \subseteq Twice(original)
    /\ Len(es) <= Limit \/ Len(es) <= Len(original)

(* The file is such an image, and so is every one a process holds, however *)
(* old: whoever puts one back does no harm to these two.                   *)
ImagesInv ==
    "mixed" \notin trouble =>
      /\ Sound(file)
      /\ \A p \in Processes : Sound(proc[p].prev) /\ Sound(proc[p].entries)

(* The same, by what has happened after a step.                            *)
StillSound(es) ==
    /\ "split" \notin trouble' => Twice(es) \subseteq Twice(original)
    /\ Len(es) <= Limit \/ Len(es) <= Len(original)

(* What is made of a sound file is sound.                                  *)
LEMMA SoundTypes ==
    ASSUME TypeOK, Sound(file)
    PROVE  /\ Sound(<<>>)
           /\ trouble \subseteq trouble' =>
                /\ \A es : Sound(es) => StillSound(es)
                /\ \A es \in Seq(Texts) : Edited(es) => StillSound(es)
<1>1. /\ file \in Seq(Texts) /\ original \in Seq(Texts) /\ Limit \in Nat
      /\ Len(file) \in Nat /\ Len(original) \in Nat
  BY CuratedAssumption DEF TypeOK
<1>2. Sound(<<>>)
  BY <1>1, EmptyFile DEF Sound
<1>3. ASSUME trouble \subseteq trouble', NEW es, Sound(es) PROVE StillSound(es)
  BY <1>3 DEF Sound, StillSound
<1>4. ASSUME trouble \subseteq trouble', NEW es \in Seq(Texts), Edited(es) PROVE StillSound(es)
  <2>1. Len(es) \in Nat
    OBVIOUS
  <2>2. Len(es) <= Limit \/ Len(es) <= Len(original)
    BY <1>1, <1>4, <2>1 DEF Sound, Edited
  <2>3. "split" \notin trouble' => Twice(es) \subseteq Twice(original)
    BY <1>4 DEF Sound, Edited
  <2> QED
    BY <2>2, <2>3 DEF StillSound
<1> QED
  BY <1>2, <1>3, <1>4

(* At the start the file is its own image.                                 *)
LEMMA ImagesInit == Init => ImagesInv
<1> SUFFICES ASSUME Init PROVE ImagesInv
  OBVIOUS
<1>1. TypeOK /\ Sound(file)
  BY TypeInit DEF Init, Sound, TypeOK
<1>2. Sound(<<>>)
  BY <1>1, SoundTypes
<1>3. \A p \in Processes : proc[p].prev = <<>> /\ proc[p].entries = <<>>
  BY IdleTypes DEF Init
<1> QED
  BY <1>1, <1>2, <1>3 DEF ImagesInv

(* What a step puts in the file is what its process holds, or nothing; of  *)
(* what has happened nothing is forgotten.                                 *)
LEMMA StepFile ==
    ASSUME TypeOK, NEW p \in Processes, Step(p)
    PROVE  /\ original' = original /\ trouble \subseteq trouble'
           /\ "mixed" \notin trouble' => file' \in {file, <<>>, proc[p].entries}
<1>1. proc[p].entries \in Seq(Texts)
  BY LockTypes
<1>2. Mixed \subseteq trouble' /\ "mixed" \notin trouble' => Over(proc[p].entries) = proc[p].entries
  BY <1>1, OverTypes DEF Mixed
<1>3. CASE WriteEntries(p)
  BY <1>2, <1>3 DEF WriteEntries
<1>4. CASE OverwriteWrites(p)
  BY <1>2, <1>4 DEF OverwriteWrites
<1>5. CASE ReadEntries(p)
  BY <1>5 DEF ReadEntries, Edit
<1>6. CASE Backup(p) \/ Audit(p)
  BY <1>6 DEF Backup, Audit
<1> QED
  BY <1>3, <1>4, <1>5, <1>6 DEF Step, Refuse, NothingToWrite, Truncate, WriteFails, Review,
    NearDuplicate, NotADuplicate, Succeed, Rollback, OverwriteTruncates, OverwriteFails

(* Every step keeps the images sound.                                      *)
LEMMA ImagesStep == TypeOK /\ ImagesInv /\ [Next]_vars => ImagesInv'
<1> SUFFICES ASSUME TypeOK, ImagesInv, [Next]_vars, "mixed" \notin trouble'
             PROVE  /\ Sound(file)'
                    /\ \A p \in Processes : Sound(proc[p].prev)' /\ Sound(proc[p].entries)'
  BY DEF ImagesInv
<1>1. CASE UNCHANGED vars
  BY <1>1 DEF ImagesInv, Sound, Twice, vars
<1>2. CASE Crash
  <2>1. file' = file /\ original' = original /\ trouble \subseteq trouble'
    BY <1>2 DEF Crash
  <2>2. Sound(file) /\ Sound(<<>>)
    BY <2>1, SoundTypes DEF ImagesInv
  <2>3. \A q \in Processes : proc'[q].prev = <<>> /\ proc'[q].entries = <<>>
    BY <1>2, IdleTypes DEF Crash
  <2> QED
    BY <2>1, <2>2, <2>3 DEF Sound
<1>3. ASSUME NEW p \in Processes, Step(p)
      PROVE  /\ Sound(file)'
             /\ \A q \in Processes : Sound(proc[q].prev)' /\ Sound(proc[q].entries)'
  <2>1. /\ original' = original /\ trouble \subseteq trouble'
        /\ file' \in {file, <<>>, proc[p].entries}
    BY <1>3, StepFile
  <2>2. Sound(file) /\ \A q \in Processes : Sound(proc[q].prev) /\ Sound(proc[q].entries)
    BY <2>1 DEF ImagesInv
  <2>3. /\ Sound(<<>>) /\ \A es : Sound(es) => StillSound(es)
        /\ \A es \in Seq(Texts) : Edited(es) => StillSound(es)
    BY <2>1, <2>2, SoundTypes
  <2>4. PICK l \in Locals : Moves(p, l) /\ Keeps(p, l)
    BY <1>3, StepMoves
  <2>5. StillSound(l.prev) /\ StillSound(l.entries)
    <3>1. StillSound(l.prev)
      BY <2>2, <2>3, <2>4 DEF Keeps
    <3>2. l.entries \in Seq(Texts)
      BY DEF Locals
    <3>3. StillSound(l.entries)
      BY <2>2, <2>3, <2>4, <3>2 DEF Keeps
    <3> QED
      BY <3>1, <3>3
  <2>6. \A q \in Processes : proc'[q] = IF q = p THEN l ELSE proc[q]
    BY <2>4 DEF Moves, TypeOK
  <2>7. \A q \in Processes : StillSound(proc'[q].prev) /\ StillSound(proc'[q].entries)
    BY <2>2, <2>3, <2>5, <2>6
  <2>8. StillSound(file')
    BY <2>1, <2>2, <2>3
  <2> QED
    BY <2>1, <2>7, <2>8 DEF Sound, StillSound
<1> QED
  BY <1>1, <1>2, <1>3 DEF Next

(* "no duplicate added", "no duplicate written": two entries of one fold   *)
(* were there from the start, whatever images overwrite each other and     *)
(* whatever reads fail, unless a text holds the delimiter.                 *)
THEOREM DuplicatesNotAdded == Spec => []NoNewDuplicates
<1>1. ImagesInv => NoNewDuplicates
  BY DEF ImagesInv, Sound, NoNewDuplicates
<1> QED
  BY <1>1, TypeInit, TypeStep, ImagesInit, ImagesStep, PTL DEF Spec

(* "Would exceed char budget": no write makes the file outgrow its budget. *)
THEOREM BudgetNotOutgrown == Spec => []BudgetKept
<1>1. ImagesInv => BudgetKept
  BY DEF ImagesInv, Sound, BudgetKept
<1> QED
  BY <1>1, TypeInit, TypeStep, ImagesInit, ImagesStep, PTL DEF Spec

-----------------------------------------------------------------------------
(* Entries that are to stay.                                               *)

(* Without stale images, failing reads and reads of a truncated file at    *)
(* most one process is in the middle of a write, and what it is to write   *)
(* holds the entries that are to stay.                                     *)
QuietProcess(p) ==
    /\ At(p, "writing") =>
         HalfWritten = {} /\ FoldsOf(file) \subseteq FoldsOf(proc[p].entries) \cup proc[p].gone
    /\ At(p, "truncated") =>
         HalfWritten = {p} /\ kept \subseteq FoldsOf(proc[p].entries) \cup proc[p].gone
    /\ (At(p, "writing") \/ At(p, "truncated")) /\ proc[p].op.action # "remove" =>
         FoldsOf(Parts[Content(p)]) \subseteq FoldsOf(proc[p].entries)
    /\ At(p, "overwriting") => FoldsOf(proc[p].prev) \subseteq FoldsOf(proc[p].entries)
    /\ At(p, "overwritten") => HalfWritten = {p} /\ kept \subseteq FoldsOf(proc[p].entries)

QuietInv ==
    trouble \subseteq {"crash", "split"} =>
      /\ IF HalfWritten = {} THEN kept \subseteq FoldsOf(file) ELSE file = <<>>
      /\ \A p \in Processes : QuietProcess(p)

(* At the start nobody writes.                                             *)
LEMMA QuietInit == Init => QuietInv
<1> SUFFICES ASSUME Init PROVE QuietInv
  OBVIOUS
<1>1. \A p \in Processes : proc[p].pc = "idle"
  BY IdleTypes DEF Init
<1> QED
  BY <1>1 DEF QuietInv, QuietProcess, HalfWritten, At, Init

(* The processes in the middle of a write, before and after a step of one. *)
LEMMA HalfMoves ==
    ASSUME TypeOK, NEW p \in Processes, NEW l \in Locals, Moves(p, l)
    PROVE  /\ proc'[p] = l /\ \A q \in Processes : q # p => proc'[q] = proc[q]
           /\ HalfWritten' = (HalfWritten \ {p})
                               \cup (IF l.pc \in {"truncated", "overwritten"} THEN {p} ELSE {})
<1>1. proc'[p] = l /\ \A q \in Processes : q # p => proc'[q] = proc[q]
  BY DEF Moves, TypeOK
<1>2. HalfWritten' = {q \in Processes : proc'[q].pc \in {"truncated", "overwritten"}}
  BY DEF HalfWritten, At
<1>3. HalfWritten = {q \in Processes : proc[q].pc \in {"truncated", "overwritten"}}
  BY DEF HalfWritten, At
<1> QED
  BY <1>1, <1>2, <1>3

(* A process that does not write, and reports at most what is there.       *)
LEMMA CalmStep ==
    ASSUME TypeOK, QuietInv, trouble \subseteq {"crash", "split"},
           NEW p \in Processes, NEW l \in Locals, Moves(p, l),
           l.pc \notin {"writing", "truncated", "overwriting", "overwritten"},
           ~At(p, "truncated"), ~At(p, "overwritten"),
           file' = file,
           kept' = kept \/ \E f \in FoldsOf(file) : kept' = kept \cup {f}
    PROVE  QuietInv'
<1>1. /\ proc'[p] = l /\ \A q \in Processes : q # p => proc'[q] = proc[q]
      /\ HalfWritten' = HalfWritten
  BY HalfMoves DEF HalfWritten
<1>2. HalfWritten # {} => kept' = kept
  BY EmptyFile DEF QuietInv
<1>3. IF HalfWritten' = {} THEN kept' \subseteq FoldsOf(file') ELSE file' = <<>>
  BY <1>1, <1>2 DEF QuietInv
<1>4. ASSUME NEW q \in Processes PROVE QuietProcess(q)'
  <2>1. CASE q = p
    BY <1>1, <2>1 DEF QuietProcess, At
  <2>2. CASE q # p
    <3>1. QuietProcess(q) /\ proc'[q] = proc[q]
      BY <1>1, <2>2 DEF QuietInv
    <3>2. At(q, "truncated") \/ At(q, "overwritten") => HalfWritten # {}
      BY DEF HalfWritten
    <3> QED
      BY <1>1, <1>2, <3>1, <3>2 DEF QuietProcess, At, FoldsOf, Content
  <2> QED
    BY <2>1, <2>2
<1> QED
  BY <1>3, <1>4 DEF QuietInv

(* A process that has made up its mind what to write over the file.        *)
LEMMA ImageStep ==
    ASSUME TypeOK, QuietInv, trouble \subseteq {"crash", "split"},
           NEW p \in Processes, NEW l \in Locals, Moves(p, l),
           l.pc = "overwriting", FoldsOf(l.prev) \subseteq FoldsOf(l.entries),
           ~At(p, "truncated"), ~At(p, "overwritten"),
           file' = file, kept' = kept
    PROVE  QuietInv'
<1>1. /\ proc'[p] = l /\ \A q \in Processes : q # p => proc'[q] = proc[q]
      /\ HalfWritten' = HalfWritten
  BY HalfMoves DEF HalfWritten
<1>2. IF HalfWritten' = {} THEN kept' \subseteq FoldsOf(file') ELSE file' = <<>>
  BY <1>1 DEF QuietInv
<1>3. ASSUME NEW q \in Processes PROVE QuietProcess(q)'
  <2>1. CASE q = p
    BY <1>1, <2>1 DEF QuietProcess, At
  <2>2. CASE q # p
    <3>1. QuietProcess(q) /\ proc'[q] = proc[q]
      BY <1>1, <2>2 DEF QuietInv
    <3> QED
      BY <1>1, <3>1 DEF QuietProcess, At, FoldsOf, Content
  <2> QED
    BY <2>1, <2>2
<1> QED
  BY <1>2, <1>3 DEF QuietInv

(* The two steps of a write, of a process that alone is at one.            *)
LEMMA TruncateStep ==
    ASSUME TypeOK, QuietInv, trouble \subseteq {"crash", "split"}, HalfWritten = {},
           NEW p \in Processes, NEW l \in Locals, Moves(p, l),
           l.pc \in {"truncated", "overwritten"}, file' = <<>>, kept' = kept,
           lock \subseteq {p}, QuietProcess(p)'
    PROVE  QuietInv'
<1>1. /\ proc'[p] = l /\ \A q \in Processes : q # p => proc'[q] = proc[q]
      /\ HalfWritten' = {p}
  BY HalfMoves
<1>2. ASSUME NEW q \in Processes PROVE QuietProcess(q)'
  <2>1. CASE q = p
    BY <2>1
  <2>2. CASE q # p
    <3>1. QuietProcess(q) /\ proc'[q] = proc[q]
      BY <1>1, <2>2 DEF QuietInv
    <3>2. /\ ~At(q, "writing") /\ ~At(q, "truncated") /\ ~At(q, "overwritten")
      BY <2>2 DEF TypeOK, HalfWritten
    <3> QED
      BY <3>1, <3>2 DEF QuietProcess, At
  <2> QED
    BY <2>1, <2>2
<1> QED
  BY <1>1, <1>2 DEF QuietInv

(* The write that ends it.                                                 *)
LEMMA WriteStep ==
    ASSUME TypeOK, QuietInv, trouble \subseteq {"crash", "split"},
           NEW p \in Processes, HalfWritten = {p}, lock \subseteq {p},
           NEW l \in Locals, Moves(p, l),
           l.pc \in {"executed", "done"}, kept' \subseteq FoldsOf(file')
    PROVE  QuietInv'
<1>1. /\ proc'[p] = l /\ \A q \in Processes : q # p => proc'[q] = proc[q]
      /\ HalfWritten' = {}
  BY HalfMoves
<1>2. ASSUME NEW q \in Processes PROVE QuietProcess(q)'
  <2>1. CASE q = p
    BY <1>1, <2>1 DEF QuietProcess, At
  <2>2. CASE q # p
    <3>1. QuietProcess(q) /\ proc'[q] = proc[q]
      BY <1>1, <2>2 DEF QuietInv
    <3>2. /\ ~At(q, "writing") /\ ~At(q, "truncated") /\ ~At(q, "overwritten")
      BY <2>2 DEF TypeOK, HalfWritten
    <3> QED
      BY <3>1, <3>2 DEF QuietProcess, At
  <2> QED
    BY <2>1, <2>2
<1> QED
  BY <1>1, <1>2 DEF QuietInv

(* Every step that adds no trouble but a crash or a text that is read as   *)
(* several keeps what is to stay.                                          *)
LEMMA QuietStep == TypeOK /\ MutexInv /\ QuietInv /\ [Next]_vars => QuietInv'
<1> SUFFICES ASSUME TypeOK, MutexInv, QuietInv, [Next]_vars, trouble' \subseteq {"crash", "split"}
             PROVE  QuietInv'
  BY DEF QuietInv
<1>1. CASE UNCHANGED vars
  BY <1>1 DEF QuietInv, QuietProcess, HalfWritten, At, FoldsOf, Content, vars
<1>2. CASE Crash
  <2>1. HalfWritten = {} /\ trouble \subseteq {"crash", "split"} /\ file' = file /\ kept' = kept
    BY <1>2 DEF Crash
  <2>2. \A q \in Processes : proc'[q].pc \in {"idle", "done"}
    BY <1>2, IdleTypes DEF Crash
  <2>3. HalfWritten' = {} /\ \A q \in Processes : QuietProcess(q)'
    BY <2>2 DEF HalfWritten, QuietProcess, At
  <2> QED
    BY <2>1, <2>3 DEF QuietInv
<1>3. ASSUME NEW p \in Processes, Step(p) PROVE QuietInv'
  <2>1. trouble \subseteq {"crash", "split"}
    BY <1>3, StepFile
  <2>2. /\ IF HalfWritten = {} THEN kept \subseteq FoldsOf(file) ELSE file = <<>>
        /\ QuietProcess(p)
    BY <2>1 DEF QuietInv
  <2>3. PICK l \in Locals : Moves(p, l)
    BY <1>3, StepMoves
  <2>4. proc'[p] = l /\ proc[p] \in Locals /\ DOMAIN proc = Processes
    BY <2>3 DEF Moves, TypeOK
  <2>5. \A es : Unread(es) \subseteq trouble' => es = file /\ HalfWritten = {}
    BY DEF Unread
  <2>6. CASE Refuse(p)
    <3>1. ~At(p, "truncated") /\ ~At(p, "overwritten")
      BY <2>6, AskedTypes DEF Refuse, At
    <3>2. l.pc \in {"done", "executed"} /\ file' = file /\ kept' = kept
      BY <2>4, <2>6, IdleTypes DEF Refuse, Returned, Finish, Locals
    <3> QED
      BY <2>1, <2>3, <3>1, <3>2, CalmStep
  <2>7. CASE NothingToWrite(p)
    <3>1. ~At(p, "truncated") /\ ~At(p, "overwritten")
      BY <2>7, AskedTypes DEF NothingToWrite, At
    <3>2. l.pc \in {"done", "executed"} /\ file' = file
      BY <2>4, <2>7, IdleTypes DEF NothingToWrite, Returned, Finish, Locals
    <3>3. PICK op \in Asked(p) :
            /\ ~Refuses(op, file) /\ AlreadyThere(op, file)
            /\ kept' = IF p \in Calls THEN kept \cup {Fold[op.content]} ELSE kept
      BY <2>7 DEF NothingToWrite
    <3>4. \E i \in DOMAIN file : Fold[file[i]] = Fold[op.content]
      BY <3>3 DEF AlreadyThere, Twins
    <3>5. Fold[op.content] \in FoldsOf(file)
      BY <3>4 DEF FoldsOf, Range
    <3> QED
      BY <2>1, <2>3, <3>1, <3>2, <3>3, <3>5, CalmStep
  <2>8. CASE ReadEntries(p)
    <3>8. PICK op \in Asked(p), entries \in Readable : Edit(p, op, entries)
      BY <2>8 DEF ReadEntries
    <3>1. /\ HalfWritten = {} /\ file' = file /\ kept' = kept /\ entries = file
          /\ ~Refuses(op, file) /\ ~AlreadyThere(op, file) /\ op \in Operations
      BY <2>5, <2>8, <3>8, AskedTypes DEF ReadEntries, Edit
    <3>3. PICK edit \in Edits(op, file) :
            proc' = [proc EXCEPT ![p].pc = "writing", ![p].op = op,
                                 ![p].entries = edit.entries, ![p].gone = edit.gone]
      BY <3>1, <3>8 DEF Edit
    <3>4. l.pc = "writing" /\ l.op = op /\ l.entries = edit.entries /\ l.gone = edit.gone
      BY <2>4, <3>3 DEF Locals
    <3>5. /\ FoldsOf(file) \subseteq FoldsOf(l.entries) \cup l.gone
          /\ l.op.action # "remove" =>
               FoldsOf(Parts[l.op.content]) \subseteq FoldsOf(l.entries)
      <4>1. file \in Seq(Texts)
        BY DEF TypeOK
      <4> QED
        BY <3>1, <3>4, <4>1, EditFacts
    <3>6. /\ \A q \in Processes : q # p => proc'[q] = proc[q]
          /\ HalfWritten' = {}
      BY <2>3, <3>1, <3>4, HalfMoves
    <3>7. ASSUME NEW q \in Processes PROVE QuietProcess(q)'
      <4>1. CASE q = p
        BY <2>4, <3>1, <3>4, <3>5, <3>6, <4>1 DEF QuietProcess, At, Content, FoldsOf
      <4>2. CASE q # p
        <5>1. QuietProcess(q) /\ proc'[q] = proc[q]
          BY <2>1, <3>6, <4>2 DEF QuietInv
        <5> QED
          BY <3>1, <3>6, <5>1 DEF QuietProcess, At, Content, FoldsOf
      <4> QED
        BY <4>1, <4>2
    <3> QED
      BY <2>2, <3>1, <3>6, <3>7 DEF QuietInv
  <2>9. CASE Truncate(p)
    <3>1. At(p, "writing") /\ file' = <<>> /\ kept' = kept
      BY <2>9 DEF Truncate
    <3>2. l.pc = "truncated" /\ l.op = proc[p].op /\ l.entries = proc[p].entries
            /\ l.gone = proc[p].gone
      BY <2>4, <2>9 DEF Truncate, Locals
    <3>3. HalfWritten = {} /\ HalfWritten' = {p} /\ lock \subseteq {p}
      BY <2>2, <2>3, <3>1, <3>2, LockTypes, HalfMoves DEF QuietProcess, MutexInv
    <3>4. QuietProcess(p)'
      BY <2>2, <2>4, <3>1, <3>2, <3>3 DEF QuietProcess, At, Content
    <3> QED
      BY <2>1, <2>3, <3>1, <3>2, <3>3, <3>4, TruncateStep
  <2>10. CASE WriteEntries(p)
    <3>1. At(p, "truncated") /\ HalfWritten = {p} /\ file = <<>> /\ lock \subseteq {p}
      BY <2>2, <2>10, LockTypes DEF WriteEntries, QuietProcess, MutexInv
    <3>2. file' = proc[p].entries
      BY <2>10, <3>1, LockTypes, OverTypes DEF WriteEntries, Mixed
    <3>3. l.pc \in {"executed", "done"}
      BY <2>4, <2>10, IdleTypes DEF WriteEntries, Returned, Finish, Locals
    <3>4. kept' \subseteq FoldsOf(proc[p].entries)
      BY <2>2, <2>10, <3>1 DEF WriteEntries, QuietProcess
    <3> QED
      BY <2>1, <2>3, <3>1, <3>2, <3>3, <3>4, WriteStep
  <2>11. CASE WriteFails(p)
    BY <2>11 DEF WriteFails
  <2>12. CASE Review(p) \/ NotADuplicate(p) \/ Backup(p)
    <3>1. ~At(p, "truncated") /\ ~At(p, "overwritten") /\ file' = file /\ kept' = kept
      BY <2>12 DEF Review, NotADuplicate, Backup, At
    <3>2. l.pc \in {"reviewed", "checked", "calling"}
      BY <2>4, <2>12 DEF Review, NotADuplicate, Backup, Locals
    <3> QED
      BY <2>1, <2>3, <3>1, <3>2, CalmStep
  <2>13. CASE NearDuplicate(p) \/ Succeed(p)
    <3>1. ~At(p, "truncated") /\ ~At(p, "overwritten") /\ file' = file
      BY <2>13 DEF NearDuplicate, Succeed, At
    <3>2. l.pc = "done"
      BY <2>4, <2>13, IdleTypes DEF NearDuplicate, Succeed, Finish
    <3>3. kept' = kept \/ \E f \in FoldsOf(file) : kept' = kept \cup {f}
      <4>1. CASE Succeed(p) /\ proc[p].op.action # "remove"
        <5>1. Content(p) \in Range(file) /\ kept' = kept \cup {Fold[Content(p)]}
          BY <4>1 DEF Succeed, Valid
        <5> QED
          BY <5>1 DEF FoldsOf
      <4> QED
        BY <2>13, <4>1 DEF NearDuplicate, Succeed
    <3> QED
      BY <2>1, <2>3, <3>1, <3>2, <3>3, CalmStep
  <2>14. CASE Rollback(p)
    <3>1. ~At(p, "truncated") /\ ~At(p, "overwritten") /\ file' = file /\ kept' = kept
      BY <2>14 DEF Rollback, At
    <3>2. l.pc = "overwriting" /\ l.prev = l.entries
      BY <2>4, <2>14 DEF Rollback, Locals
    <3> QED
      BY <2>1, <2>3, <3>1, <3>2, ImageStep
  <2>15. CASE Audit(p)
    <3>1. ~At(p, "truncated") /\ ~At(p, "overwritten") /\ file' = file /\ kept' = kept
      BY <2>15 DEF Audit, At
    <3>2. CASE Finish(p)
      <4>1. l.pc = "done"
        BY <2>4, <3>2, IdleTypes DEF Finish
      <4> QED
        BY <2>1, <2>3, <3>1, <4>1, CalmStep
    <3>3. CASE ~Finish(p)
      <4>1. \E fewer \in Deduped(file) :
              proc' = [proc EXCEPT ![p].pc = "overwriting", ![p].entries = fewer,
                                   ![p].prev = file]
        BY <2>5, <2>15, <3>3 DEF Audit
      <4>2. PICK fewer \in Deduped(file) :
              proc' = [proc EXCEPT ![p].pc = "overwriting", ![p].entries = fewer,
                                   ![p].prev = file]
        BY <4>1
      <4>3. l.pc = "overwriting" /\ l.entries = fewer /\ l.prev = file
        BY <2>4, <4>2 DEF Locals
      <4>4. FoldsOf(l.prev) \subseteq FoldsOf(l.entries)
        BY <4>3, DedupEntries DEF TypeOK
      <4> QED
        BY <2>1, <2>3, <3>1, <4>3, <4>4, ImageStep
    <3> QED
      BY <3>2, <3>3
  <2>16. CASE OverwriteTruncates(p)
    <3>1. At(p, "overwriting") /\ file' = <<>> /\ kept' = kept
      BY <2>16 DEF OverwriteTruncates
    <3>2. file = proc[p].prev /\ lock = {} /\ HalfWritten = {}
      BY <2>16 DEF OverwriteTruncates, Stale
    <3>3. l.pc = "overwritten" /\ l.entries = proc[p].entries
      BY <2>4, <2>16 DEF OverwriteTruncates, Locals
    <3>4. HalfWritten' = {p}
      BY <2>3, <3>2, <3>3, HalfMoves
    <3>5. kept \subseteq FoldsOf(proc[p].entries)
      BY <2>2, <3>1, <3>2 DEF QuietProcess
    <3>6. QuietProcess(p)'
      BY <2>4, <3>1, <3>3, <3>4, <3>5 DEF QuietProcess, At
    <3> QED
      BY <2>1, <2>3, <3>1, <3>2, <3>3, <3>6, TruncateStep
  <2>17. CASE OverwriteWrites(p)
    <3>1. At(p, "overwritten") /\ HalfWritten = {p} /\ file = <<>>
      BY <2>2, <2>17 DEF OverwriteWrites, QuietProcess
    <3>2. lock \subseteq {p}
      <4>1. \A q \in Processes : At(q, "writing") => HalfWritten = {}
        BY <2>1 DEF QuietInv, QuietProcess
      <4>2. \A q \in Processes : At(q, "truncated") => q \in HalfWritten
        BY DEF HalfWritten
      <4> QED
        BY <3>1, <4>1, <4>2 DEF TypeOK
    <3>3. file' = proc[p].entries
      BY <2>17, <3>1, LockTypes, OverTypes DEF OverwriteWrites, Mixed
    <3>4. l.pc = "done" /\ kept' \subseteq FoldsOf(file')
      BY <2>2, <2>4, <2>17, <3>1, <3>3, IdleTypes DEF OverwriteWrites, Finish, QuietProcess
    <3> QED
      BY <2>1, <2>3, <3>1, <3>2, <3>4, WriteStep
  <2>18. CASE OverwriteFails(p)
    <3>1. ~At(p, "truncated") /\ ~At(p, "overwritten") /\ file' = file /\ kept' = kept
      BY <2>18 DEF OverwriteFails, At
    <3>2. l.pc = "done"
      BY <2>4, <2>18, IdleTypes DEF OverwriteFails, Finish
    <3> QED
      BY <2>1, <2>3, <3>1, <3>2, CalmStep
  <2> QED
    BY <1>3, <2>6, <2>7, <2>8, <2>9, <2>10, <2>11, <2>12, <2>13, <2>14, <2>15, <2>16, <2>17,
       <2>18 DEF Step
<1> QED
  BY <1>1, <1>2, <1>3 DEF Next

(* "Save durable facts to persistent curated memory": an entry reported as *)
(* saved stays until a call replaces or removes it, unless a stale image   *)
(* is written, a read or a write fails, the process ends with the file     *)
(* truncated, or two writes go into each other.                            *)
THEOREM SavedEntriesStay == Spec => []SavedStays
<1> DEFINE IInv == TypeOK /\ MutexInv /\ QuietInv
<1>1. Init => IInv
  BY TypeInit, QuietInit DEF Init, MutexInv
<1>2. IInv /\ [Next]_vars => IInv'
  BY TypeStep, MutexStep, QuietStep
<1>3. IInv => SavedStays
  BY DEF QuietInv, SavedStays, HalfWritten
<1> HIDE DEF IInv
<1> QED
  BY <1>1, <1>2, <1>3, PTL DEF Spec

-----------------------------------------------------------------------------
(* LcmStore, as MCMemory instantiates it.                                  *)

LcmP == INSTANCE LcmStoreProofs WITH file <- diary, trouble <- mishaps

(* The store that is proved about is the store of the run.                 *)
LEMMA SameSteps == Lcm!Next <=> LcmP!Next
  BY DEF
       Lcm!UserOf, LcmP!UserOf, Lcm!AssistantOf, LcmP!AssistantOf, Lcm!NoConversation,
       LcmP!NoConversation, Lcm!Begun, LcmP!Begun, Lcm!At, LcmP!At, Lcm!Goto, LcmP!Goto,
       Lcm!Finish, LcmP!Finish, Lcm!Busy, LcmP!Busy, Lcm!Current, LcmP!Current, Lcm!Opened,
       LcmP!Opened, Lcm!Open, LcmP!Open, Lcm!MaxSeq, LcmP!MaxSeq, Lcm!IngestMessages,
       LcmP!IngestMessages, Lcm!ReplaceContextRange, LcmP!ReplaceContextRange, Lcm!Overlap,
       LcmP!Overlap, Lcm!Begin, LcmP!Begin, Lcm!UpToDate, LcmP!UpToDate, Lcm!Bootstrap,
       LcmP!Bootstrap, Lcm!Missing, LcmP!Missing, Lcm!Import, LcmP!Import, Lcm!ImportFails,
       LcmP!ImportFails, Lcm!Assembled, LcmP!Assembled, Lcm!Assemble, LcmP!Assemble,
       Lcm!LcmTool, LcmP!LcmTool, Lcm!TurnFails, LcmP!TurnFails, Lcm!AddUserMessage,
       LcmP!AddUserMessage, Lcm!AddAssistantMessage, LcmP!AddAssistantMessage, Lcm!Ingest,
       LcmP!Ingest, Lcm!InsertTurn, LcmP!InsertTurn, Lcm!IngestFails, LcmP!IngestFails,
       Lcm!NoCompaction, LcmP!NoCompaction, Lcm!Evictable, LcmP!Evictable, Lcm!LeafEnds,
       LcmP!LeafEnds, Lcm!LeafRange, LcmP!LeafRange, Lcm!Contended, LcmP!Contended,
       Lcm!RunIncremental, LcmP!RunIncremental, Lcm!ReplaceByLeaf, LcmP!ReplaceByLeaf,
       Lcm!IsLeafRun, LcmP!IsLeafRun, Lcm!Segments, LcmP!Segments, Lcm!FirstSegments,
       LcmP!FirstSegments, Lcm!CondensedRange, LcmP!CondensedRange, Lcm!RunCondensation,
       LcmP!RunCondensation, Lcm!ReplaceByCondensed, LcmP!ReplaceByCondensed,
       Lcm!CompactionEnds, LcmP!CompactionEnds, Lcm!ClearMessages, LcmP!ClearMessages,
       Lcm!Restricted, LcmP!Restricted, Lcm!ClearSession, LcmP!ClearSession,
       Lcm!ClearSessionFails, LcmP!ClearSessionFails, Lcm!Crash, LcmP!Crash, Lcm!Step,
       LcmP!Step, Lcm!Covered, LcmP!Covered, Lcm!Next, LcmP!Next

(* What MCMemory assumes of the constants.                                 *)
LEMMA LcmValues == LcmP!LcmAssumption
  BY MemoryAssumption
     DEF MemoryAssumption, Lcm!LcmAssumption, LcmP!LcmAssumption, Lcm!Range, LcmP!Range

(* A step of the run is one of the store, or leaves it alone.              *)
LEMMA SameStore == MCSpec => LcmP!Spec
<1>1. MCInit => LcmP!Init
  BY DEF MCInit, Lcm!Init, LcmP!Init, Lcm!NoConversation, LcmP!NoConversation, Lcm!Begun,
         LcmP!Begun
<1>2. [MCNext]_<<part, vars, lcmVars>> => [LcmP!Next]_(LcmP!vars)
  BY SameSteps DEF MCNext, lcmVars, LcmP!vars
<1> QED
  BY <1>1, <1>2, PTL DEF MCSpec, LcmP!Spec

(* The conversation of LCM and its runs stay in their domains, and every   *)
(* item of the context stands for rows of the conversation.                *)
THEOREM LcmTypesKept == MCSpec => []LcmTypeOK
<1>1. LcmP!Spec => []LcmP!TypeOK
  BY LcmP!TypeCorrect, LcmValues
<1>2. LcmP!TypeOK => LcmTypeOK
  BY DEF LcmTypeOK, Lcm!Range, LcmP!Range,
       Lcm!TypeOK, LcmP!TypeOK, Lcm!Message, LcmP!Message, Lcm!Kinds, LcmP!Kinds, Lcm!Item,
       LcmP!Item, Lcm!Conversation, LcmP!Conversation, Lcm!Phases, LcmP!Phases, Lcm!Locals,
       LcmP!Locals
<1> QED
  BY <1>1, <1>2, SameStore, PTL

(* However stale the ordinals a compaction uses, the context stays in the  *)
(* order of the conversation.                                              *)
THEOREM LcmContextOrdered == MCSpec => []ContextInOrder
<1>1. LcmP!Spec => []LcmP!ContextInOrder
  BY LcmP!ContextOrdered, LcmValues
<1>2. LcmP!ContextInOrder => ContextInOrder
  BY DEF ContextInOrder, Lcm!ContextInOrder, LcmP!ContextInOrder, Lcm!InOrder, LcmP!InOrder
<1> QED
  BY <1>1, <1>2, SameStore, PTL

(* As long as no two compactions are at work at once, every row of the     *)
(* conversation is in its context, raw or in a summary.                    *)
THEOREM LcmNothingIsDropped == MCSpec => []NothingDropped
<1>1. LcmP!Spec => []LcmP!NothingDropped
  BY LcmP!NothingIsDropped, LcmValues
<1>2. LcmP!NothingDropped => NothingDropped
  BY DEF NothingDropped, Lcm!NothingDropped, LcmP!NothingDropped, Lcm!Covered, LcmP!Covered
<1> QED
  BY <1>1, <1>2, SameStore, PTL

(* What Assemble gives the model is the end of the session, and not less   *)
(* of it than the fresh tail, as long as the requests come one by one.     *)
THEOREM LcmPromptIsEnd == MCSpec => []PromptIsSession
<1>1. LcmP!Spec => []LcmP!PromptIsSession
  BY LcmP!PromptIsEnd, LcmValues
<1>2. LcmP!PromptIsSession => PromptIsSession
  BY DEF PromptIsSession, Lcm!PromptIsSession, LcmP!PromptIsSession, Lcm!Covered, LcmP!Covered, Lcm!InOrder,
       LcmP!InOrder, Lcm!At, LcmP!At
<1> QED
  BY <1>1, <1>2, SameStore, PTL

(* No single compaction takes a message of the fresh tail out of the       *)
(* context.                                                                *)
THEOREM LcmFreshTailSpared == MCSpec => FreshTailKept
<1>1. LcmP!Spec => LcmP!FreshTailKept
  BY LcmP!FreshTailSpared, LcmValues
<1>2. LcmP!FreshTailKept => FreshTailKept
  BY DEF FreshTailKept, Lcm!FreshTailKept, LcmP!FreshTailKept, Lcm!Raw, LcmP!Raw,
         Lcm!vars, LcmP!vars
<1> QED
  BY <1>1, <1>2, SameStore, PTL
=============================================================================
