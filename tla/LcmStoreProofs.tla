---------------------------- MODULE LcmStoreProofs ----------------------------
(***************************************************************************)
(* Safety of LcmStore for every set of runs, every past and all fanouts.   *)
(*                                                                         *)
(* A compaction replaces a range it has read before a call of the          *)
(* provider, whatever stands there by now.  That this never disturbs the   *)
(* order of the context rests on two facts.  Every range begins at the     *)
(* first item (RangeInv), because only the first item is ever a summary    *)
(* (ItemsInv); and since replacing such a range can only shift the items   *)
(* behind it towards the front, whatever stands behind the range of        *)
(* another compaction has stood behind it all the time.  As long as no two *)
(* compactions are at work at once (AloneInv), the length of the context   *)
(* says which rows each item stands for (ExactInv).  As long as requests   *)
(* come one after the other (BusyInv), the rows are a prefix of the        *)
(* session's file (StoreInv).                                              *)
(***************************************************************************)
EXTENDS LcmStore, TLAPS, SequenceTheorems

Compacts(r) == run[r].pc \in {"leaf", "condensing", "condensed"}
Replaces(r) == run[r].pc \in {"leaf", "condensed"} /\ Current(r)

IdsInv ==
    /\ \A r \in Runs : run[r].conv <= ids
    /\ conv.id = 0 => conv = NoConversation

ItemsInv ==
    /\ \A i \in DOMAIN conv.items : i > 1 => conv.items[i].kind = "message"
    /\ InOrder(conv.items)

(* A range ends before whatever stands behind it.                          *)
Ranged(r) ==
    /\ run[r].start = 0 /\ run[r].end >= 1
    /\ run[r].rows # {} /\ run[r].rows \subseteq DOMAIN conv.rows
    /\ \A i \in DOMAIN conv.items : i > run[r].end =>
         \A x \in run[r].rows, y \in conv.items[i].rows : x < y

RangeInv == \A r \in Runs : Replaces(r) => Ranged(r)

AloneInv ==
    "contended" \notin trouble => \A p, q \in Runs : Compacts(p) /\ Compacts(q) => p = q

(* The first item stands for all rows the others do not.                   *)
Behind == Len(conv.rows) - Len(conv.items)

Exact ==
    /\ Len(conv.items) <= Len(conv.rows)
    /\ Len(conv.items) = 0 => Len(conv.rows) = 0
    /\ \A i \in DOMAIN conv.items :
         conv.items[i].rows = IF i = 1 THEN 1..(Behind + 1) ELSE {Behind + i}

ExactRange(r) ==
    /\ run[r].end + FreshTail <= Len(conv.items)
    /\ run[r].rows = 1..(Behind + run[r].end)

ExactInv ==
    "contended" \notin trouble =>
        Exact /\ \A r \in Runs : Replaces(r) => ExactRange(r)

Sequential == trouble \subseteq {"crash"}

BusyInv == Sequential => \A p, q \in Runs : Busy(p) /\ Busy(q) => p = q

Prefix(s, t) == Len(s) <= Len(t) /\ \A i \in 1..Len(s) : s[i] = t[i]

Settled == session = file /\ Prefix(conv.rows, file)

(* What a run knows of the session and its conversation at each step.      *)
Agrees(r) ==
    CASE run[r].pc \in {"bootstrapping", "importing"} ->
           run[r].past = session /\ Settled
      [] run[r].pc \in {"assembling", "answering"} ->
           run[r].past = session /\ session = file /\ conv.rows = file
      [] run[r].pc = "recording" ->
           session = Append(file, UserOf(r)) /\ conv.rows = file
      [] run[r].pc \in {"ingesting", "inserting"} ->
           /\ session = file
           /\ file = Append(Append(conv.rows, UserOf(r)), AssistantOf(r))
      [] run[r].pc = "deleting" -> session = file
      [] OTHER -> Settled

StoreInv ==
    Sequential =>
        /\ \A r \in Runs : Busy(r) => Agrees(r)
        /\ (\A r \in Runs : ~Busy(r)) => Settled

PromptInv ==
    Sequential =>
        \A r \in Runs : At(r, "answering") =>
            LET n == Len(conv.rows)
                rows == Covered(run[r].prompt)
            IN run[r].prompt # <<>> =>
                 /\ InOrder(run[r].prompt)
                 /\ \E k \in 0..n : rows = (k + 1)..n
                 /\ rows = 1..n \/ Len(run[r].prompt) >= FreshTail

IInv ==
    /\ TypeOK /\ IdsInv /\ ItemsInv /\ RangeInv /\ AloneInv /\ ExactInv
    /\ BusyInv /\ StoreInv /\ PromptInv

-----------------------------------------------------------------------------
(* Sequences.                                                              *)

LEMMA Elements ==
    ASSUME NEW S, NEW s \in Seq(S)
    PROVE  /\ Len(s) \in Nat /\ DOMAIN s = 1..Len(s)
           /\ \A i \in 1..Len(s) : s[i] \in S
  BY LenProperties, ElementOfSeq

(* The end of a sequence from its (n + 1)-th element on.                   *)
LEMMA LastOnes ==
    ASSUME NEW S, NEW s \in Seq(S), NEW n \in Nat
    PROVE  /\ SubSeq(s, n + 1, Len(s)) \in Seq(S)
           /\ Len(SubSeq(s, n + 1, Len(s))) = IF n < Len(s) THEN Len(s) - n ELSE 0
           /\ \A i \in 1..Len(SubSeq(s, n + 1, Len(s))) : SubSeq(s, n + 1, Len(s))[i] = s[n + i]
<1>1. Len(s) \in Nat /\ \A i \in (n + 1)..Len(s) : s[i] \in S
  BY Elements
<1>2. /\ SubSeq(s, n + 1, Len(s)) \in Seq(S)
      /\ Len(SubSeq(s, n + 1, Len(s)))
           = IF n + 1 <= Len(s) THEN Len(s) - (n + 1) + 1 ELSE 0
      /\ \A i \in 1..(Len(s) - (n + 1) + 1) :
           SubSeq(s, n + 1, Len(s))[i] = s[(n + 1) + i - 1]
  <2>1. n + 1 \in Int /\ Len(s) \in Int
    BY <1>1
  <2> QED
    BY <1>1, <2>1, SubSeqProperties
<1>3. ASSUME NEW i \in 1..Len(SubSeq(s, n + 1, Len(s)))
      PROVE  SubSeq(s, n + 1, Len(s))[i] = s[n + i]
  <2>1. i \in 1..(Len(s) - (n + 1) + 1) /\ (n + 1) + i - 1 = n + i
    BY <1>1, <1>2
  <2> QED
    BY <1>2, <2>1
<1>4. Len(SubSeq(s, n + 1, Len(s))) = IF n < Len(s) THEN Len(s) - n ELSE 0
  BY <1>1, <1>2
<1> QED
  BY <1>2, <1>3, <1>4

LEMMA FirstOnes ==
    ASSUME NEW S, NEW s \in Seq(S), NEW n \in 0..Len(s)
    PROVE  /\ SubSeq(s, 1, n) \in Seq(S) /\ Len(SubSeq(s, 1, n)) = n
           /\ \A i \in 1..n : SubSeq(s, 1, n)[i] = s[i]
<1>1. Len(s) \in Nat /\ n \in Int /\ 1 \in Int /\ \A i \in 1..n : s[i] \in S
  BY Elements
<1>2. /\ SubSeq(s, 1, n) \in Seq(S)
      /\ Len(SubSeq(s, 1, n)) = IF 1 <= n THEN n - 1 + 1 ELSE 0
      /\ \A i \in 1..(n - 1 + 1) : SubSeq(s, 1, n)[i] = s[1 + i - 1]
  BY <1>1, SubSeqProperties
<1>3. n - 1 + 1 = n /\ \A i \in 1..n : 1 + i - 1 = i
  BY <1>1
<1> QED
  BY <1>1, <1>2, <1>3

-----------------------------------------------------------------------------
(* The transactions of the store.                                          *)

LEMMA EmptyConversation ==
    /\ NoConversation \in Conversation /\ NoConversation.id = 0
    /\ NoConversation.rows = <<>> /\ NoConversation.items = <<>>
    /\ Len(<<>>) = 0 /\ DOMAIN <<>> = {}
  BY DEF NoConversation, Conversation

LEMMA ConversationFacts ==
    ASSUME TypeOK
    PROVE  /\ conv = [id |-> conv.id, rows |-> conv.rows, items |-> conv.items]
           /\ conv.id \in Nat /\ ids \in Nat /\ conv.id <= ids
           /\ conv.rows \in Seq(Message) /\ conv.items \in Seq(Item)
           /\ Len(conv.rows) \in Nat /\ DOMAIN conv.rows = 1..Len(conv.rows)
           /\ Len(conv.items) \in Nat /\ DOMAIN conv.items = 1..Len(conv.items)
           /\ \A i \in 1..Len(conv.items) :
                /\ conv.items[i] \in Item /\ conv.items[i].rows # {}
                /\ conv.items[i].rows \subseteq 1..Len(conv.rows)
<1>1. conv \in Conversation /\ ids \in Nat /\ conv.id <= ids
  BY DEF TypeOK
<1>2. /\ conv = [id |-> conv.id, rows |-> conv.rows, items |-> conv.items]
      /\ conv.id \in Nat /\ conv.rows \in Seq(Message) /\ conv.items \in Seq(Item)
  BY <1>1 DEF Conversation
<1>3. /\ Len(conv.rows) \in Nat /\ DOMAIN conv.rows = 1..Len(conv.rows)
      /\ Len(conv.items) \in Nat /\ DOMAIN conv.items = 1..Len(conv.items)
      /\ \A i \in 1..Len(conv.items) : conv.items[i] \in Item
  BY <1>2, Elements
<1> QED
  BY <1>1, <1>2, <1>3 DEF TypeOK

(* GetOrCreateConversation.                                                *)
LEMMA Opening ==
    ASSUME TypeOK, IdsInv
    PROVE  /\ Opened \in Conversation /\ Opened.id # 0
           /\ Opened.rows = conv.rows /\ Opened.items = conv.items
           /\ conv.id # 0 => Opened = conv
           /\ conv.id = 0 => Opened.id = ids + 1
<1>1. conv.id \in Nat /\ ids \in Nat /\ conv \in Conversation
  BY ConversationFacts DEF TypeOK
<1>2. CASE conv.id # 0
  BY <1>1, <1>2 DEF Opened
<1>3. CASE conv.id = 0
  <2>1. conv = NoConversation /\ Opened = [NoConversation EXCEPT !.id = ids + 1]
    BY <1>3 DEF Opened, IdsInv
  <2>2. Opened = [id |-> ids + 1, rows |-> <<>>, items |-> <<>>]
    BY <2>1 DEF NoConversation
  <2> QED
    BY <1>1, <1>3, <2>1, <2>2, EmptyConversation DEF Conversation
<1> QED
  BY <1>2, <1>3

LEMMA OpeningStep ==
    ASSUME TypeOK, IdsInv, Open
    PROVE  /\ conv' \in Conversation /\ ids' \in Nat /\ conv'.id <= ids' /\ ids <= ids'
           /\ conv'.id # 0 /\ conv' = Opened
           /\ conv'.rows = conv.rows /\ conv'.items = conv.items
           /\ conv.id # 0 => conv' = conv
           /\ conv.id = 0 => conv'.id = ids + 1
<1>1. /\ conv' = Opened /\ ids' = IF conv.id = 0 THEN ids + 1 ELSE ids
      /\ conv.id \in Nat /\ ids \in Nat /\ conv.id <= ids
  BY ConversationFacts DEF Open
<1> QED
  BY <1>1, Opening

LEMMA FunctionIsSeq ==
    ASSUME NEW S, NEW n \in Nat, NEW f \in [1..n -> S]
    PROVE  f \in Seq(S) /\ Len(f) = n
  OBVIOUS

LEMMA Ingesting ==
    ASSUME TypeOK, NEW r \in Runs, NEW msgs \in Seq(Message), IngestMessages(r, msgs)
    PROVE  /\ conv' \in Conversation /\ conv'.id = conv.id /\ Current(r)
           /\ conv'.rows = conv.rows \o msgs
           /\ Len(conv'.rows) = Len(conv.rows) + Len(msgs)
           /\ Len(conv'.items) = Len(conv.items) + Len(msgs)
           /\ \A i \in 1..Len(conv.items) : conv'.items[i] = conv.items[i]
           /\ \A i \in (Len(conv.items) + 1)..Len(conv'.items) :
                conv'.items[i] = [kind |-> "message",
                                  rows |-> {Len(conv.rows) + i - Len(conv.items)}]
<1> DEFINE n == Len(msgs)
           new == [i \in DOMAIN msgs |->
                     [kind |-> "message", rows |-> {run[r].seq + i}]]
           old == conv.items
           both == old \o new
           rows == conv.rows \o msgs
<1>1. /\ Len(conv.rows) = run[r].seq /\ Len(conv.rows) \in Nat /\ Len(old) \in Nat
      /\ conv.rows \in Seq(Message) /\ old \in Seq(Item)
      /\ conv = [id |-> conv.id, rows |-> conv.rows, items |-> old] /\ conv.id \in Nat
  BY ConversationFacts DEF IngestMessages
<1>2. n \in Nat /\ DOMAIN msgs = 1..n
  BY Elements
<1>3. new \in Seq(Item) /\ Len(new) = n
      /\ \A i \in 1..n : new[i] = [kind |-> "message", rows |-> {Len(conv.rows) + i}]
  <2>1. new \in [1..n -> Item]
    BY <1>1, <1>2 DEF Item, Kinds
  <2> QED
    BY <1>1, <1>2, <2>1, FunctionIsSeq
<1>4. conv' = [id |-> conv.id, rows |-> rows, items |-> both]
  BY <1>1 DEF IngestMessages
<1> HIDE DEF new, n
<1>5. /\ both \in Seq(Item) /\ Len(both) = Len(old) + n
      /\ \A i \in 1..(Len(old) + n) :
           both[i] = IF i <= Len(old) THEN old[i] ELSE new[i - Len(old)]
  <2>1. old \in Seq(Item) /\ new \in Seq(Item) /\ Len(new) = n
    BY <1>1, <1>3
  <2> HIDE DEF old
  <2>2. /\ both \in Seq(Item) /\ Len(both) = Len(old) + Len(new)
        /\ \A i \in 1..(Len(old) + Len(new)) :
             both[i] = IF i <= Len(old) THEN old[i] ELSE new[i - Len(old)]
    BY <2>1, ConcatProperties
  <2> QED
    BY <2>1, <2>2
<1>6. rows \in Seq(Message) /\ Len(rows) = Len(conv.rows) + n
  BY <1>1, ConcatProperties DEF n
<1> HIDE DEF both, rows
<1>7. ASSUME NEW i \in (Len(old) + 1)..Len(both)
      PROVE  both[i] = [kind |-> "message", rows |-> {Len(conv.rows) + i - Len(old)}]
  <2>1. /\ i \in 1..(Len(old) + n) /\ ~(i <= Len(old)) /\ i - Len(old) \in 1..n
        /\ Len(conv.rows) + (i - Len(old)) = Len(conv.rows) + i - Len(old)
    BY <1>1, <1>2, <1>5 DEF n
  <2> HIDE DEF old
  <2>2. both[i] = new[i - Len(old)]
    BY <1>5, <2>1
  <2> QED
    BY <1>3, <2>1, <2>2
<1>8. \A i \in 1..Len(old) : both[i] = old[i]
  BY <1>1, <1>2, <1>5 DEF n
<1>9. /\ conv'.id = conv.id /\ conv'.rows = rows /\ conv'.items = both
      /\ conv' \in Conversation
  BY <1>1, <1>4, <1>5, <1>6 DEF Conversation
<1>10. Current(r)
  BY DEF IngestMessages
<1> QED
  BY <1>5, <1>6, <1>7, <1>8, <1>9, <1>10 DEF rows, n

(* A range that begins at the first item.                                  *)
LEMMA Replacing ==
    ASSUME TypeOK, NEW r \in Runs, NEW kind \in Kinds,
           run[r].start = 0, run[r].end >= 1, ReplaceContextRange(r, kind)
    PROVE  /\ conv' \in Conversation /\ conv'.id = conv.id /\ conv'.rows = conv.rows
           /\ Len(conv'.items) = IF run[r].end < Len(conv.items)
                                 THEN Len(conv.items) - run[r].end + 1
                                 ELSE IF conv.items = <<>> THEN 0 ELSE 1
           /\ conv.items # <<>> =>
                conv'.items[1] = [kind |-> kind, rows |-> run[r].rows]
           /\ \A i \in 2..Len(conv'.items) :
                /\ conv'.items[i] = conv.items[i + run[r].end - 1]
                /\ i + run[r].end - 1 \in i..Len(conv.items) /\ i + run[r].end - 1 > run[r].end
<1> DEFINE new == [kind |-> kind, rows |-> run[r].rows]
           old == conv.items
           end == run[r].end
           front == IF 0 < Len(old) THEN <<new>> ELSE <<>>
           back == SubSeq(old, end + 1, Len(old))
           none == SubSeq(old, 1, 0)
           both == front \o back
<1>1. /\ conv = [id |-> conv.id, rows |-> conv.rows, items |-> old] /\ conv.id \in Nat
      /\ conv.rows \in Seq(Message) /\ old \in Seq(Item) /\ Len(old) \in Nat
  BY ConversationFacts
<1>2. end \in Nat /\ end >= 1 /\ run[r].rows \in SUBSET Nat
  BY DEF TypeOK, Locals
<1>3. none = <<>>
  BY <1>1, SubSeqEmpty
<1>4. conv' = [conv EXCEPT !.items = none \o front \o back]
  BY DEF ReplaceContextRange
<1> HIDE DEF none
<1>5. /\ front \in Seq(Item) /\ Len(front) = (IF 0 < Len(old) THEN 1 ELSE 0)
      /\ 0 < Len(old) => front[1] = new
  <2>1. new \in Item
    BY <1>2 DEF Item
  <2> HIDE DEF new
  <2>2. <<new>> \in Seq(Item) /\ Len(<<new>>) = 1 /\ <<new>>[1] = new
    BY <2>1
  <2>3. <<>> \in Seq(Item) /\ Len(<<>>) = 0
    BY EmptySeq
  <2> QED
    BY <1>1, <2>2, <2>3
<1>6. /\ back \in Seq(Item) /\ Len(back) = IF end < Len(old) THEN Len(old) - end ELSE 0
      /\ \A i \in 1..Len(back) : back[i] = old[end + i]
  BY <1>1, <1>2, LastOnes
<1> HIDE DEF front, back
<1>7. none \o front \o back = both
  BY <1>3, <1>5, <1>6, ConcatEmptySeq
<1>8. /\ both \in Seq(Item) /\ Len(both) = Len(front) + Len(back)
      /\ \A i \in 1..(Len(front) + Len(back)) :
           both[i] = IF i <= Len(front) THEN front[i] ELSE back[i - Len(front)]
  BY <1>5, <1>6, ConcatProperties
<1> HIDE DEF both
<1>9. conv' = [id |-> conv.id, rows |-> conv.rows, items |-> both]
  BY <1>1, <1>4, <1>7
<1>10. Len(both) = IF end < Len(old) THEN Len(old) - end + 1 ELSE IF old = <<>> THEN 0 ELSE 1
  <2>1. old = <<>> <=> Len(old) = 0
    BY <1>1, EmptySeq
  <2> HIDE DEF old, end
  <2> QED
    BY <1>1, <1>2, <1>5, <1>6, <1>8, <2>1
<1>11. old # <<>> => both[1] = new
  <2>1. old # <<>> => 0 < Len(old)
    BY <1>1, EmptySeq
  <2> HIDE DEF old, end, new
  <2>2. 0 < Len(old) => Len(front) = 1 /\ 1 \in 1..(Len(front) + Len(back))
    BY <1>1, <1>2, <1>5, <1>6
  <2> QED
    BY <1>5, <1>8, <2>1, <2>2
<1>12. ASSUME NEW i \in 2..Len(both)
       PROVE  /\ both[i] = old[i + end - 1]
              /\ i + end - 1 \in i..Len(old) /\ i + end - 1 > end
  <2> HIDE DEF old, end, new
  <2>1. end < Len(old) /\ Len(front) = 1 /\ Len(back) = Len(old) - end
    BY <1>1, <1>2, <1>5, <1>6, <1>8, <1>10
  <2>2. /\ i \in 1..(Len(front) + Len(back)) /\ i - 1 \in 1..Len(back)
        /\ end + (i - 1) = i + end - 1 /\ ~(i <= Len(front)) /\ i - Len(front) = i - 1
        /\ i + end - 1 \in i..Len(old) /\ i + end - 1 > end
    <3>1. Len(both) = 1 + (Len(old) - end) /\ i \in Int /\ 2 <= i /\ i <= Len(both)
      BY <1>1, <1>2, <1>8, <2>1
    <3>2. Len(front) + Len(back) = 1 + (Len(old) - end)
      BY <2>1
    <3>3. /\ i \in 1..(Len(front) + Len(back)) /\ i - 1 \in 1..Len(back)
          /\ ~(i <= Len(front)) /\ i - Len(front) = i - 1
      BY <1>1, <1>2, <2>1, <3>1, <3>2
    <3>4. end + (i - 1) = i + end - 1
      BY <1>2, <3>1
    <3>5. i + end - 1 \in i..Len(old)
      BY <1>1, <1>2, <3>1
    <3>6. i + end - 1 > end
      BY <1>2, <3>1
    <3> QED
      BY <3>3, <3>4, <3>5, <3>6
  <2>3. both[i] = back[i - 1] /\ back[i - 1] = old[end + (i - 1)]
    BY <1>6, <1>8, <2>2
  <2> QED
    BY <2>2, <2>3
<1>13. /\ conv'.id = conv.id /\ conv'.rows = conv.rows /\ conv'.items = both
       /\ conv' \in Conversation
  BY <1>1, <1>8, <1>9 DEF Conversation
<1> QED
  BY <1>10, <1>11, <1>12, <1>13

LEMMA CoveredProperties ==
    ASSUME NEW items \in Seq(Item)
    PROVE  /\ Covered(items) \in SUBSET Nat
           /\ \A x : x \in Covered(items) <=> \E i \in 1..Len(items) : x \in items[i].rows
<1>1. DOMAIN items = 1..Len(items) /\ \A i \in 1..Len(items) : items[i] \in Item
  BY Elements
<1>2. \A item \in Item : item.rows \in SUBSET Nat
  BY DEF Item
<1>3. \A i \in 1..Len(items) : items[i].rows \in SUBSET Nat
  BY <1>1, <1>2
<1> QED
  BY <1>1, <1>3 DEF Covered

-----------------------------------------------------------------------------
(* Types.                                                                  *)

(* What a step of a run does to the locals of the runs.                    *)
LEMMA Locally ==
    ASSUME LcmAssumption, TypeOK, IdsInv, NEW r \in Runs, Step(r)
    PROVE  /\ run' \in [Runs -> Locals]
           /\ \A q \in Runs : q # r => run'[q] = run[q]
           /\ run'[r].conv \in {0, run[r].conv} \/ (Open /\ run'[r].conv = Opened.id)
<1> DEFINE Fine(l) == /\ l \in Locals /\ run' = [run EXCEPT ![r] = l]
                      /\ l.conv \in {0, run[r].conv} \/ (Open /\ l.conv = Opened.id)
<1> SUFFICES \E l : Fine(l)
  BY DEF TypeOK
<1>0. /\ run \in [Runs -> Locals] /\ run[r] \in Locals /\ session \in Seq(Message)
      /\ Opened.id \in Nat /\ Opened.items \in Seq(Item) /\ MaxSeq \in Nat
      /\ \A phase \in Phases : Begun(phase) \in Locals /\ Begun(phase).conv = 0
      /\ FreshTail \in Nat /\ LeafMinFanout \in Nat
  <2>1. Opened \in Conversation
    BY Opening
  <2>2. Opened.id \in Nat /\ Opened.items \in Seq(Item) /\ Opened.rows \in Seq(Message)
    BY <2>1 DEF Conversation
  <2>3. MaxSeq \in Nat
    BY <2>2, Elements DEF MaxSeq
  <2>4. \A phase \in Phases : Begun(phase) \in Locals /\ Begun(phase).conv = 0
    BY EmptySeq DEF Begun, Locals
  <2> QED
    BY <2>2, <2>3, <2>4 DEF TypeOK, LcmAssumption
<1>1. ASSUME NEW phase \in Phases, Goto(r, phase)
      PROVE  Fine([run[r] EXCEPT !.pc = phase])
  BY <1>0, <1>1 DEF Goto, Locals
<1>2. CASE Finish(r)
  <2>1. Fine(Begun("done"))
    BY <1>0, <1>2 DEF Finish, Phases
  <2> QED
    BY <2>1
<1>3. CASE Begin(r)
  <2>1. Fine([run[r] EXCEPT !.pc = "bootstrapping", !.past = session])
    BY <1>0, <1>3 DEF Begin, Locals, Phases
  <2> QED
    BY <2>1
<1>4. CASE Bootstrap(r)
  <2> DEFINE next == IF UpToDate(r) THEN "assembling" ELSE "importing"
  <2>1. run' = [run EXCEPT ![r].conv = Opened.id, ![r].seq = MaxSeq, ![r].pc = next] /\ Open
    BY <1>4 DEF Bootstrap
  <2>2. next \in Phases
    BY DEF Phases
  <2> HIDE DEF next
  <2>3. Fine([run[r] EXCEPT !.conv = Opened.id, !.seq = MaxSeq, !.pc = next])
    BY <1>0, <2>1, <2>2 DEF Locals
  <2> QED
    BY <2>3
<1>5. CASE Assemble(r)
  <2>1. PICK prompt \in Assembled(Opened.items) :
          run' = [run EXCEPT ![r].pc = "answering", ![r].conv = Opened.id, ![r].prompt = prompt]
    BY <1>5 DEF Assemble
  <2>2. PICK k \in Nat : prompt = SubSeq(Opened.items, k + 1, Len(Opened.items))
    <3>1. Len(Opened.items) \in Nat
      BY <1>0, Elements
    <3> QED
      BY <2>1, <3>1 DEF Assembled
  <2>3. prompt \in Seq(Item)
    BY <1>0, <2>2, LastOnes
  <2>4. Fine([run[r] EXCEPT !.pc = "answering", !.conv = Opened.id, !.prompt = prompt])
    BY <1>0, <1>5, <2>1, <2>3 DEF Locals, Phases, Assemble
  <2> QED
    BY <2>4
<1>6. CASE LcmTool(r)
  <2>1. Fine(run[r])
    BY <1>0, <1>6 DEF LcmTool
  <2> QED
    BY <2>1
<1>7. CASE AddUserMessage(r)
  <2>1. Fine(Begun("recording"))
    BY <1>0, <1>7 DEF AddUserMessage, Phases
  <2> QED
    BY <2>1
<1>8. CASE Ingest(r)
  <2>1. Fine([run[r] EXCEPT !.conv = Opened.id, !.seq = MaxSeq, !.pc = "inserting"])
    BY <1>0, <1>8 DEF Ingest, Locals, Phases
  <2> QED
    BY <2>1
<1>9. CASE RunIncremental(r)
  <2>1. PICK k \in LeafEnds : LeafRange(r, k)
    BY <1>9 DEF RunIncremental
  <2>2. Len(conv.items) \in Nat /\ conv.items \in Seq(Item)
    BY ConversationFacts
  <2>3. k \in 0..Len(conv.items)
    BY <1>0, <2>1, <2>2 DEF LeafEnds, Evictable
  <2>4. SubSeq(conv.items, 1, k) \in Seq(Item)
    BY <2>2, <2>3, FirstOnes
  <2>5. Covered(SubSeq(conv.items, 1, k)) \in SUBSET Nat
    BY <2>4, CoveredProperties
  <2> DEFINE rows == Covered(SubSeq(conv.items, 1, k))
  <2>6. /\ run' = [run EXCEPT ![r].pc = "leaf", ![r].start = 0, ![r].end = k, ![r].rows = rows]
        /\ rows \in SUBSET Nat /\ k \in Nat
    BY <2>1, <2>2, <2>3, <2>5 DEF LeafRange
  <2> HIDE DEF rows
  <2>7. Fine([run[r] EXCEPT !.pc = "leaf", !.start = 0, !.end = k, !.rows = rows])
    BY <1>0, <2>6 DEF Locals, Phases
  <2> QED
    BY <2>7
<1>10. CASE ReplaceByLeaf(r)
  <2>1. CASE Finish(r)
    BY <1>2, <2>1
  <2>2. CASE ~Finish(r)
    <3>1. run' = [run EXCEPT ![r].pc = "condensing", ![r].rows = {}, ![r].end = 0]
      BY <1>10, <2>2 DEF ReplaceByLeaf
    <3>2. Fine([run[r] EXCEPT !.pc = "condensing", !.rows = {}, !.end = 0])
      BY <1>0, <3>1 DEF Locals, Phases
    <3> QED
      BY <3>2
  <2> QED
    BY <2>1, <2>2
<1>11. CASE RunCondensation(r)
  <2>1. PICK s \in FirstSegments : CondensedRange(r, s)
    BY <1>11 DEF RunCondensation
  <2>2. Len(conv.items) \in Nat /\ conv.items \in Seq(Item)
    BY ConversationFacts
  <2>3. s[1] \in 1..Len(conv.items) /\ s[2] \in 1..Len(conv.items)
    BY <1>0, <2>1, <2>2 DEF FirstSegments, Segments, Evictable
  <2>4. SubSeq(conv.items, s[1], s[2]) \in Seq(Item)
    <3>1. /\ s[1] \in Int /\ s[2] \in Int
          /\ \A i \in s[1]..s[2] : conv.items[i] \in Item
      BY <2>2, <2>3, Elements
    <3> QED
      BY <3>1, SubSeqProperties
  <2>5. Covered(SubSeq(conv.items, s[1], s[2])) \in SUBSET Nat
    BY <2>4, CoveredProperties
  <2>6. s[1] - 1 \in Nat /\ s[2] \in Nat
    BY <2>2, <2>3
  <2>7. Fine([run[r] EXCEPT !.pc = "condensed", !.start = s[1] - 1, !.end = s[2],
                            !.rows = Covered(SubSeq(conv.items, s[1], s[2]))])
    BY <1>0, <2>1, <2>5, <2>6 DEF CondensedRange, Locals, Phases
  <2> QED
    BY <2>7
<1> QED
  <2>1. CASE \E phase \in Phases : Goto(r, phase)
    BY <1>1, <2>1
  <2>2. CASE Import(r) \/ ImportFails(r) \/ AddAssistantMessage(r) \/ InsertTurn(r)
             \/ ClearMessages(r)
    BY <2>1, <2>2
       DEF Import, ImportFails, AddAssistantMessage, InsertTurn, ClearMessages, Phases
  <2>3. CASE TurnFails(r) \/ IngestFails(r) \/ NoCompaction(r) \/ ReplaceByCondensed(r)
             \/ CompactionEnds(r) \/ ClearSession(r) \/ ClearSessionFails(r)
    BY <1>2, <2>3 DEF TurnFails, IngestFails, NoCompaction, ReplaceByCondensed,
                      CompactionEnds, ClearSession, ClearSessionFails
  <2> QED
    BY <1>3, <1>4, <1>5, <1>6, <1>7, <1>8, <1>9, <1>10, <1>11, <2>2, <2>3 DEF Step

(* The conversation: kept, grown, compacted or gone.                       *)
LEMMA Conversations ==
    ASSUME LcmAssumption, TypeOK, IdsInv, RangeInv, NEW r \in Runs, Step(r)
    PROVE  \/ UNCHANGED <<conv, ids>>
           \/ Open /\ ~Compacts(r) /\ ~Compacts(r)'
           \/ /\ \E msgs \in Seq(Message) : IngestMessages(r, msgs)
              /\ ids' = ids /\ ~Compacts(r) /\ ~Compacts(r)'
           \/ /\ \E kind \in Kinds : ReplaceContextRange(r, kind)
              /\ Replaces(r) /\ ids' = ids /\ run'[r].pc \in {"condensing", "done"}
           \/ conv' = NoConversation /\ ids' = ids
<1>0. run \in [Runs -> Locals] /\ session \in Seq(Message) /\ run[r] \in Locals
  BY DEF TypeOK
<1>1. CASE Begin(r) \/ ImportFails(r) \/ TurnFails(r) \/ AddUserMessage(r)
           \/ AddAssistantMessage(r) \/ IngestFails(r) \/ NoCompaction(r) \/ RunIncremental(r)
           \/ RunCondensation(r) \/ CompactionEnds(r) \/ ClearMessages(r)
           \/ ClearSessionFails(r)
  BY <1>1 DEF Begin, ImportFails, TurnFails, AddUserMessage, AddAssistantMessage, IngestFails,
              NoCompaction, RunIncremental, RunCondensation, CompactionEnds, ClearMessages,
              ClearSessionFails
<1>2. CASE Bootstrap(r) \/ Assemble(r) \/ LcmTool(r) \/ Ingest(r)
  <2>1. Open /\ ~Compacts(r)
    BY <1>2 DEF Bootstrap, Assemble, LcmTool, Ingest, At, Compacts
  <2>2. run'[r].pc \in {"assembling", "importing", "answering", "inserting"}
    BY <1>0, <1>2 DEF Bootstrap, Assemble, LcmTool, Ingest, At, Locals
  <2> QED
    BY <2>1, <2>2 DEF Compacts
<1>3. CASE Import(r) \/ InsertTurn(r)
  <2>1. Missing(r) \in Seq(Message)
    <3>1. run[r].past \in Seq(Message) /\ run[r].seq \in Nat
      BY <1>0 DEF Locals
    <3> QED
      BY <3>1, LastOnes DEF Missing
  <2>2. <<UserOf(r), AssistantOf(r)>> \in Seq(Message)
    BY DEF UserOf, AssistantOf, Message
  <2>3. \E msgs \in Seq(Message) : IngestMessages(r, msgs)
    BY <1>3, <2>1, <2>2 DEF Import, InsertTurn
  <2>4. /\ ids' = ids /\ run[r].pc \in {"importing", "inserting"}
        /\ Goto(r, "assembling") \/ Goto(r, "scanning")
    BY <1>3 DEF Import, InsertTurn, At
  <2>5. run'[r].pc \in {"assembling", "scanning"}
    BY <1>0, <2>4 DEF Goto, Locals
  <2> QED
    BY <2>3, <2>4, <2>5 DEF Compacts
<1>4. CASE ReplaceByLeaf(r) \/ ReplaceByCondensed(r)
  <2>1. run'[r].pc \in {"condensing", "done"}
    <3>1. CASE Finish(r)
      BY <1>0, <3>1 DEF Finish, Begun
    <3>2. CASE ~Finish(r)
      <4>1. run' = [run EXCEPT ![r].pc = "condensing", ![r].rows = {}, ![r].end = 0]
        BY <1>4, <3>2 DEF ReplaceByLeaf, ReplaceByCondensed
      <4> QED
        BY <1>0, <4>1 DEF Locals
    <3> QED
      BY <3>1, <3>2
  <2> QED
    BY <1>4, <2>1 DEF ReplaceByLeaf, ReplaceByCondensed, Kinds, Replaces, At
<1>5. CASE ClearSession(r)
  BY <1>5 DEF ClearSession
<1> QED
  BY <1>1, <1>2, <1>3, <1>4, <1>5 DEF Step

LEMMA CrashStep ==
    ASSUME TypeOK, Crash
    PROVE  /\ run' \in [Runs -> Locals] /\ UNCHANGED <<conv, ids, file>> /\ session' = file
           /\ \A r \in Runs : run'[r].pc \in {"idle", "done"} /\ run'[r].conv \in {0, run[r].conv}
<1>1. \A r \in Runs : run[r] \in Locals
  BY DEF TypeOK
<1>2. Begun("done") \in Locals /\ Begun("done").conv = 0 /\ Begun("done").pc = "done"
  BY EmptySeq DEF Begun, Locals, Phases
<1>3. run' = [r \in Runs |-> IF At(r, "idle") THEN run[r] ELSE Begun("done")]
  BY DEF Crash
<1> QED
  BY <1>1, <1>2, <1>3 DEF Crash, At

LEMMA SessionTypes ==
    ASSUME TypeOK, [Next]_vars
    PROVE  /\ session' \in Seq(Message) /\ file' \in Seq(Message)
           /\ trouble \subseteq trouble'
           /\ trouble' \subseteq {"overlap", "contended", "unimported", "undeleted", "crash"}
<1>0. /\ session \in Seq(Message) /\ file \in Seq(Message)
      /\ trouble \subseteq {"overlap", "contended", "unimported", "undeleted", "crash"}
  BY DEF TypeOK
<1>1. CASE UNCHANGED vars
  BY <1>0, <1>1 DEF vars
<1>2. CASE Crash
  BY <1>0, <1>2 DEF Crash
<1>3. ASSUME NEW r \in Runs, AddUserMessage(r) \/ AddAssistantMessage(r)
      PROVE  /\ session' \in Seq(Message) /\ file' \in Seq(Message) /\ trouble' = trouble
  <2>1. UserOf(r) \in Message /\ AssistantOf(r) \in Message
    BY DEF UserOf, AssistantOf, Message
  <2>2. Append(session, UserOf(r)) \in Seq(Message) /\ Append(session, AssistantOf(r)) \in Seq(Message)
    BY <1>0, <2>1, AppendProperties
  <2> QED
    BY <1>0, <1>3, <2>2 DEF AddUserMessage, AddAssistantMessage
<1>4. ASSUME NEW r \in Runs, Begin(r) \/ ImportFails(r) \/ RunIncremental(r) \/ ClearMessages(r)
                             \/ ClearSessionFails(r)
      PROVE  /\ session' \in Seq(Message) /\ file' \in Seq(Message)
             /\ \E more \in SUBSET {"overlap", "contended", "unimported", "undeleted"} :
                  trouble' = trouble \cup more
  <2>1. Overlap(r) \subseteq {"overlap"} /\ Contended(r) \subseteq {"contended"}
    BY DEF Overlap, Contended
  <2>2. <<>> \in Seq(Message)
    BY EmptySeq
  <2> QED
    BY <1>0, <1>4, <2>1, <2>2
       DEF Begin, ImportFails, RunIncremental, ClearMessages, ClearSessionFails
<1>5. ASSUME NEW r \in Runs, Bootstrap(r) \/ Import(r) \/ Assemble(r) \/ LcmTool(r)
                             \/ TurnFails(r) \/ Ingest(r) \/ InsertTurn(r) \/ IngestFails(r)
                             \/ NoCompaction(r) \/ ReplaceByLeaf(r) \/ RunCondensation(r)
                             \/ ReplaceByCondensed(r) \/ CompactionEnds(r) \/ ClearSession(r)
      PROVE  UNCHANGED <<session, file, trouble>>
  BY <1>5 DEF Bootstrap, Import, Assemble, LcmTool, TurnFails, Ingest, InsertTurn, IngestFails,
              NoCompaction, ReplaceByLeaf, RunCondensation, ReplaceByCondensed, CompactionEnds,
              ClearSession
<1> QED
  BY <1>0, <1>1, <1>2, <1>3, <1>4, <1>5 DEF Next, Step

(* The conversation after any step.                                        *)
LEMMA ConversationTypes ==
    ASSUME LcmAssumption, TypeOK, IdsInv, RangeInv, [Next]_vars
    PROVE  /\ conv' \in Conversation /\ ids' \in Nat /\ conv'.id <= ids' /\ ids <= ids'
           /\ conv'.id = 0 => conv' = NoConversation
           /\ \A i \in DOMAIN conv'.items :
                conv'.items[i].rows # {} /\ conv'.items[i].rows \subseteq DOMAIN conv'.rows
           /\ \/ conv'.id = 0
              \/ conv.id = 0 /\ conv'.id = ids + 1 /\ ids' = ids + 1
              \/ conv'.id = conv.id
<1> DEFINE Standing(i) == conv'.items[i].rows # {} /\ conv'.items[i].rows \subseteq DOMAIN conv'.rows
<1> HIDE DEF Standing
<1>0. /\ conv \in Conversation /\ conv.id \in Nat /\ ids \in Nat /\ conv.id <= ids
      /\ Len(conv.rows) \in Nat /\ DOMAIN conv.rows = 1..Len(conv.rows)
      /\ Len(conv.items) \in Nat /\ DOMAIN conv.items = 1..Len(conv.items)
      /\ conv.items = <<>> <=> Len(conv.items) = 0
      /\ \A i \in 1..Len(conv.items) :
           conv.items[i].rows # {} /\ conv.items[i].rows \subseteq 1..Len(conv.rows)
  BY ConversationFacts, EmptySeq DEF TypeOK
<1>1. CASE UNCHANGED <<conv, ids>>
  <2>1. conv' = conv /\ ids' = ids
    BY <1>1
  <2>2. \A i \in DOMAIN conv.items :
          conv.items[i].rows # {} /\ conv.items[i].rows \subseteq DOMAIN conv.rows
    BY DEF TypeOK
  <2>3. \A i \in DOMAIN conv'.items : Standing(i)
    BY <2>1, <2>2, Zenon DEF Standing
  <2> QED
    BY <1>0, <2>1, <2>3 DEF IdsInv
<1>2. CASE Open
  <2>1. /\ conv' \in Conversation /\ ids' \in Nat /\ conv'.id <= ids' /\ ids <= ids'
        /\ conv'.id # 0 /\ conv'.rows = conv.rows /\ conv'.items = conv.items
        /\ conv.id # 0 => conv' = conv
        /\ conv.id = 0 => conv'.id = ids + 1 /\ ids' = ids + 1
    BY <1>2, OpeningStep DEF Open
  <2> QED
    BY <1>0, <2>1 DEF Standing
<1>3. CASE conv' = NoConversation /\ ids' = ids
  BY <1>0, <1>3, EmptyConversation DEF Standing
<1>4. ASSUME NEW r \in Runs, NEW msgs \in Seq(Message), IngestMessages(r, msgs), ids' = ids
      PROVE  /\ conv' \in Conversation /\ conv'.id = conv.id /\ conv.id # 0
             /\ \A i \in DOMAIN conv'.items : Standing(i)
  <2>1. /\ conv' \in Conversation /\ conv'.id = conv.id /\ Current(r)
        /\ Len(conv'.rows) = Len(conv.rows) + Len(msgs)
        /\ Len(conv'.items) = Len(conv.items) + Len(msgs)
        /\ \A i \in 1..Len(conv.items) : conv'.items[i] = conv.items[i]
        /\ \A i \in (Len(conv.items) + 1)..Len(conv'.items) :
             conv'.items[i] = [kind |-> "message", rows |-> {Len(conv.rows) + i - Len(conv.items)}]
    BY <1>4, Ingesting
  <2>2. /\ Len(msgs) \in Nat
        /\ DOMAIN conv'.items = 1..Len(conv'.items) /\ DOMAIN conv'.rows = 1..Len(conv'.rows)
    BY <2>1, Elements DEF Conversation
  <2>3. ASSUME NEW i \in DOMAIN conv'.items
        PROVE  Standing(i)
    <3> USE DEF Standing
    <3>1. CASE i \in 1..Len(conv.items)
      <4>1. conv'.items[i] = conv.items[i] /\ 1..Len(conv.rows) \subseteq 1..Len(conv'.rows)
        BY <1>0, <2>1, <2>2, <3>1
      <4> QED
        BY <1>0, <2>2, <3>1, <4>1
    <3>2. CASE i \notin 1..Len(conv.items)
      <4>1. i \in (Len(conv.items) + 1)..Len(conv'.items)
        BY <1>0, <2>1, <2>2, <3>2
      <4>2. conv'.items[i] = [kind |-> "message", rows |-> {Len(conv.rows) + i - Len(conv.items)}]
        BY <2>1, <4>1, Zenon
      <4>3. Len(conv.rows) + i - Len(conv.items) \in 1..Len(conv'.rows)
        BY <1>0, <2>1, <2>2, <4>1
      <4>4. conv'.items[i].rows = {Len(conv.rows) + i - Len(conv.items)}
        BY <4>2
      <4> QED
        BY <2>2, <4>3, <4>4
    <3> QED
      BY <3>1, <3>2
  <2> QED
    BY <2>1, <2>3 DEF Current
<1>5. ASSUME NEW r \in Runs, NEW kind \in Kinds, ReplaceContextRange(r, kind), Replaces(r),
             ids' = ids
      PROVE  /\ conv' \in Conversation /\ conv'.id = conv.id /\ conv.id # 0
             /\ \A i \in DOMAIN conv'.items : Standing(i)
  <2>0. run[r].end \in Nat
    BY DEF TypeOK, Locals
  <2>1. /\ run[r].start = 0 /\ run[r].end >= 1
        /\ run[r].rows # {} /\ run[r].rows \subseteq DOMAIN conv.rows
    BY <1>5 DEF RangeInv, Ranged
  <2>2. /\ conv' \in Conversation /\ conv'.id = conv.id /\ conv'.rows = conv.rows
        /\ Len(conv'.items) = IF run[r].end < Len(conv.items)
                              THEN Len(conv.items) - run[r].end + 1
                              ELSE IF conv.items = <<>> THEN 0 ELSE 1
        /\ conv.items # <<>> => conv'.items[1] = [kind |-> kind, rows |-> run[r].rows]
        /\ \A i \in 2..Len(conv'.items) :
             /\ conv'.items[i] = conv.items[i + run[r].end - 1]
             /\ i + run[r].end - 1 \in i..Len(conv.items) /\ i + run[r].end - 1 > run[r].end
    BY <1>5, <2>1, Replacing
  <2>3. DOMAIN conv'.items = 1..Len(conv'.items) /\ Len(conv'.items) \in Nat
    BY <2>2, Elements DEF Conversation
  <2>4. ASSUME NEW i \in DOMAIN conv'.items
        PROVE  Standing(i)
    <3> USE DEF Standing
    <3>1. CASE i = 1
      <4>1. conv.items # <<>>
        BY <1>0, <2>0, <2>1, <2>2, <2>3, <3>1, SMTT(30)
      <4> QED
        BY <2>1, <2>2, <3>1, <4>1
    <3>2. CASE i # 1
      <4>1. i \in 2..Len(conv'.items)
        BY <2>3, <3>2
      <4>2. i + run[r].end - 1 \in 1..Len(conv.items)
        BY <1>0, <2>2, <4>1
      <4>3. conv'.items[i] = conv.items[i + run[r].end - 1]
        BY <2>2, <4>1
      <4> QED
        BY <1>0, <2>2, <4>2, <4>3
    <3> QED
      BY <3>1, <3>2
  <2> QED
    BY <1>5, <2>2, <2>4 DEF Replaces, Current
<1>6. CASE UNCHANGED vars \/ Crash
  <2>1. UNCHANGED <<conv, ids>>
    BY <1>6, CrashStep DEF vars
  <2> QED
    BY <1>1, <2>1
<1>7. ASSUME NEW r \in Runs, Step(r)
      PROVE  \/ UNCHANGED <<conv, ids>>
             \/ Open
             \/ conv' = NoConversation /\ ids' = ids
             \/ (\E msgs \in Seq(Message) : IngestMessages(r, msgs)) /\ ids' = ids
             \/ /\ \E kind \in Kinds : ReplaceContextRange(r, kind)
                /\ Replaces(r) /\ ids' = ids
  <2>1. \/ UNCHANGED <<conv, ids>>
        \/ Open /\ ~Compacts(r) /\ ~Compacts(r)'
        \/ /\ \E msgs \in Seq(Message) : IngestMessages(r, msgs)
           /\ ids' = ids /\ ~Compacts(r) /\ ~Compacts(r)'
        \/ /\ \E kind \in Kinds : ReplaceContextRange(r, kind)
           /\ Replaces(r) /\ ids' = ids /\ run'[r].pc \in {"condensing", "done"}
        \/ conv' = NoConversation /\ ids' = ids
    BY <1>7, Conversations
  <2> QED
    BY <2>1
<1>8. CASE /\ conv' \in Conversation /\ conv'.id = conv.id /\ conv.id # 0 /\ ids' = ids
           /\ \A i \in DOMAIN conv'.items : Standing(i)
  BY <1>0, <1>8 DEF Standing
<1> QED
  BY <1>1, <1>2, <1>3, <1>4, <1>5, <1>6, <1>7, <1>8 DEF Next, Standing

LEMMA TypeStep ==
    ASSUME LcmAssumption, TypeOK, IdsInv, RangeInv, [Next]_vars
    PROVE  TypeOK' /\ IdsInv'
<1>1. /\ conv' \in Conversation /\ ids' \in Nat /\ conv'.id <= ids' /\ ids <= ids'
      /\ conv'.id = 0 => conv' = NoConversation
      /\ \A i \in DOMAIN conv'.items :
           conv'.items[i].rows # {} /\ conv'.items[i].rows \subseteq DOMAIN conv'.rows
  BY ConversationTypes
<1>2. /\ session' \in Seq(Message) /\ file' \in Seq(Message)
      /\ trouble' \subseteq {"overlap", "contended", "unimported", "undeleted", "crash"}
  BY SessionTypes
<1>3. /\ run \in [Runs -> Locals] /\ \A q \in Runs : run[q].conv <= ids /\ run[q].conv \in Nat
      /\ ids \in Nat
  BY DEF TypeOK, IdsInv, Locals
<1>4. run' \in [Runs -> Locals] /\ \A q \in Runs : run'[q].conv <= ids'
  <2>1. CASE UNCHANGED vars
    BY <1>1, <1>3, <2>1 DEF vars
  <2>2. CASE Crash
    BY <1>1, <1>3, <2>2, CrashStep
  <2>3. ASSUME NEW r \in Runs, Step(r)
        PROVE  run' \in [Runs -> Locals] /\ \A q \in Runs : run'[q].conv <= ids'
    <3>1. /\ run' \in [Runs -> Locals]
          /\ \A q \in Runs : q # r => run'[q] = run[q]
          /\ run'[r].conv \in {0, run[r].conv} \/ (Open /\ run'[r].conv = Opened.id)
      BY <2>3, Locally
    <3>2. CASE run'[r].conv \in {0, run[r].conv}
      BY <1>1, <1>3, <3>1, <3>2
    <3>3. CASE Open /\ run'[r].conv = Opened.id
      <4>1. run'[r].conv = conv'.id
        BY <3>3, OpeningStep
      <4> QED
        BY <1>1, <1>3, <3>1, <4>1
    <3> QED
      BY <3>1, <3>2, <3>3
  <2> QED
    BY <2>1, <2>2, <2>3 DEF Next
<1> QED
  BY <1>1, <1>2, <1>4 DEF TypeOK, IdsInv

-----------------------------------------------------------------------------
(* The order of the context.                                               *)

(* The items, whatever the step has done to the conversation.              *)
LEMMA ItemsKept ==
    ASSUME TypeOK, IdsInv, ItemsInv,
           UNCHANGED <<conv, ids>> \/ Open \/ (conv' = NoConversation /\ ids' = ids)
    PROVE  ItemsInv'
<1>1. CASE conv'.items = conv.items
  BY <1>1 DEF ItemsInv, InOrder
<1>2. CASE conv'.items = <<>>
  BY <1>2 DEF ItemsInv, InOrder
<1> QED
  <2>1. CASE UNCHANGED <<conv, ids>>
    BY <1>1, <2>1
  <2>2. CASE Open
    BY <1>1, <2>2, OpeningStep
  <2>3. CASE conv' = NoConversation
    BY <1>2, <2>3, EmptyConversation
  <2> QED
    BY <2>1, <2>2, <2>3

LEMMA ItemsGrown ==
    ASSUME TypeOK, ItemsInv, NEW r \in Runs, NEW msgs \in Seq(Message), IngestMessages(r, msgs)
    PROVE  ItemsInv'
<1> DEFINE L == Len(conv.items)
           R == Len(conv.rows)
<1>1. /\ L \in Nat /\ R \in Nat /\ DOMAIN conv.items = 1..L
      /\ \A i \in 1..L : conv.items[i].rows \subseteq 1..R
  BY ConversationFacts
<1>2. /\ conv' \in Conversation /\ Len(conv'.items) = L + Len(msgs)
      /\ \A i \in 1..L : conv'.items[i] = conv.items[i]
      /\ \A i \in (L + 1)..Len(conv'.items) :
           conv'.items[i] = [kind |-> "message", rows |-> {R + i - L}]
  BY Ingesting
<1>3. DOMAIN conv'.items = 1..Len(conv'.items) /\ Len(conv'.items) \in Nat
  BY <1>2, Elements DEF Conversation
<1> DEFINE new == conv'.items
           old == conv.items
<1>4. \A i \in DOMAIN new : i \in 1..L \/ i \in (L + 1)..Len(new)
  BY <1>1, <1>3
<1>5. /\ \A i, j \in 1..L : i < j => \A x \in old[i].rows, y \in old[j].rows : x < y
      /\ \A i \in 1..L : i > 1 => old[i].kind = "message"
  BY <1>1 DEF ItemsInv, InOrder
<1>6. \A i \in (L + 1)..Len(new) : new[i].kind = "message" /\ new[i].rows = {R + i - L}
  <2> SUFFICES ASSUME NEW i \in (L + 1)..Len(new)
               PROVE  new[i].kind = "message" /\ new[i].rows = {R + i - L}
    OBVIOUS
  <2>1. new[i] = [kind |-> "message", rows |-> {R + i - L}]
    BY <1>2, Zenon
  <2> QED
    BY <2>1
<1> HIDE DEF new, old, L, R
<1>7. ASSUME NEW i \in DOMAIN new, i > 1
      PROVE  new[i].kind = "message"
  BY <1>2, <1>4, <1>5, <1>6, <1>7 DEF new, old
<1>8. ASSUME NEW i \in DOMAIN new, NEW j \in DOMAIN new, i < j,
             NEW x \in new[i].rows, NEW y \in new[j].rows
      PROVE  x < y
  <2>1. CASE j \in 1..L
    <3>1. i \in 1..L
      BY <1>1, <1>3, <1>8, <2>1 DEF new
    <3>2. new[i] = old[i] /\ new[j] = old[j]
      BY <1>2, <2>1, <3>1 DEF new, old
    <3> QED
      BY <1>5, <1>8, <2>1, <3>1, <3>2
  <2>2. CASE j \in (L + 1)..Len(new)
    <3>1. y = R + j - L /\ j \in Int /\ L + 1 <= j /\ Len(new) \in Nat
      BY <1>1, <1>3, <1>6, <2>2 DEF new
    <3>2. CASE i \in 1..L
      <4>1. x \in 1..R
        BY <1>1, <1>2, <3>2 DEF new, old
      <4> QED
        BY <1>1, <3>1, <4>1
    <3>3. CASE i \in (L + 1)..Len(new)
      <4>1. x = R + i - L /\ i \in Int
        BY <1>1, <1>6, <3>1, <3>3
      <4> QED
        BY <1>1, <1>8, <3>1, <4>1
    <3> QED
      BY <1>4, <3>2, <3>3
  <2> QED
    BY <1>4, <2>1, <2>2
<1> QED
  BY <1>7, <1>8 DEF ItemsInv, InOrder, new

LEMMA ItemsCompacted ==
    ASSUME TypeOK, ItemsInv, RangeInv, NEW r \in Runs, NEW kind \in Kinds,
           Replaces(r), ReplaceContextRange(r, kind)
    PROVE  ItemsInv'
<1> DEFINE L == Len(conv.items)
           end == run[r].end
           new == conv'.items
           old == conv.items
<1>1. L \in Nat /\ DOMAIN old = 1..L /\ end \in Nat
  BY ConversationFacts DEF TypeOK, Locals
<1>2. /\ run[r].start = 0 /\ end >= 1
      /\ \A i \in 1..L : i > end => \A x \in run[r].rows, y \in old[i].rows : x < y
  BY <1>1 DEF RangeInv, Ranged
<1>3. /\ conv' \in Conversation
      /\ Len(new) = IF end < L THEN L - end + 1 ELSE IF old = <<>> THEN 0 ELSE 1
      /\ old # <<>> => new[1] = [kind |-> kind, rows |-> run[r].rows]
      /\ \A i \in 2..Len(new) :
           /\ new[i] = old[i + end - 1]
           /\ i + end - 1 \in i..L /\ i + end - 1 > end
  BY <1>2, Replacing
<1>4. DOMAIN new = 1..Len(new) /\ Len(new) \in Nat
  BY <1>3, Elements DEF Conversation
<1>5. /\ \A i, j \in 1..L : i < j => \A x \in old[i].rows, y \in old[j].rows : x < y
      /\ \A i \in 1..L : i > 1 => old[i].kind = "message"
  BY <1>1 DEF ItemsInv, InOrder
<1>6. old = <<>> <=> L = 0
  BY ConversationFacts, EmptySeq
<1> HIDE DEF new, old, L, end
<1>7. ASSUME NEW i \in DOMAIN new, i > 1
      PROVE  new[i].kind = "message"
  <2>1. i \in 2..Len(new)
    BY <1>4, <1>7
  <2>2. new[i] = old[i + end - 1] /\ i + end - 1 \in 1..L /\ i + end - 1 > 1
    BY <1>1, <1>2, <1>3, <2>1
  <2> QED
    BY <1>5, <2>2
<1>8. ASSUME NEW i \in DOMAIN new, NEW j \in DOMAIN new, i < j,
             NEW x \in new[i].rows, NEW y \in new[j].rows
      PROVE  x < y
  <2>1. j \in 2..Len(new)
    BY <1>4, <1>8
  <2>2. new[j] = old[j + end - 1] /\ j + end - 1 \in 1..L /\ j + end - 1 > end
    BY <1>1, <1>2, <1>3, <2>1
  <2>3. CASE i = 1
    <3>1. old # <<>>
      BY <1>1, <1>6, <2>2
    <3>2. x \in run[r].rows
      BY <1>3, <2>3, <3>1
    <3> QED
      BY <1>2, <2>2, <3>2
  <2>4. CASE i # 1
    <3>1. i \in 2..Len(new)
      BY <1>4, <2>4
    <3>2. new[i] = old[i + end - 1] /\ i + end - 1 \in 1..L
      BY <1>1, <1>2, <1>3, <3>1
    <3>3. i + end - 1 < j + end - 1
      BY <1>1, <1>8, <2>1, <3>1
    <3> QED
      BY <1>5, <2>2, <3>2, <3>3
  <2> QED
    BY <2>3, <2>4
<1> QED
  BY <1>7, <1>8 DEF ItemsInv, InOrder, new

LEMMA ItemsStep ==
    ASSUME LcmAssumption, TypeOK, IdsInv, ItemsInv, RangeInv, [Next]_vars
    PROVE  ItemsInv'
<1>1. CASE UNCHANGED vars \/ Crash
  <2>1. UNCHANGED <<conv, ids>>
    BY <1>1, CrashStep DEF vars
  <2> QED
    BY <2>1, ItemsKept
<1>2. ASSUME NEW r \in Runs, Step(r)
      PROVE  ItemsInv'
  BY <1>2, Conversations, ItemsKept, ItemsGrown, ItemsCompacted
<1> QED
  BY <1>1, <1>2 DEF Next

-----------------------------------------------------------------------------
(* The ranges compactions are about to replace.                            *)

LEMMA CoveredFront ==
    ASSUME TypeOK, NEW k \in 0..Len(conv.items)
    PROVE  \A x : x \in Covered(SubSeq(conv.items, 1, k))
                    <=> \E i \in 1..k : x \in conv.items[i].rows
<1> DEFINE front == SubSeq(conv.items, 1, k)
<1>1. conv.items \in Seq(Item)
  BY ConversationFacts
<1>2. front \in Seq(Item) /\ Len(front) = k /\ \A i \in 1..k : front[i] = conv.items[i]
  BY <1>1, FirstOnes
<1> HIDE DEF front
<1>3. \A x : x \in Covered(front) <=> \E i \in 1..k : x \in front[i].rows
  BY <1>2, CoveredProperties
<1> QED
  BY <1>2, <1>3 DEF front

(* A leaf stands first, and nowhere else.                                  *)
LEMMA FirstIsOnly ==
    ASSUME LcmAssumption, TypeOK, ItemsInv, NEW s \in FirstSegments
    PROVE  /\ s[1] = 1 /\ s[2] = 1 /\ CondensedMinFanout = 1
           /\ 1 <= Evictable /\ Evictable = Len(conv.items) - FreshTail
<1>1. /\ Len(conv.items) \in Nat /\ DOMAIN conv.items = 1..Len(conv.items)
      /\ FreshTail \in Nat \ {0} /\ CondensedMinFanout \in Nat \ {0}
  BY ConversationFacts DEF LcmAssumption
<1>2. /\ Evictable \in 0..Len(conv.items)
      /\ Evictable > 0 => Evictable = Len(conv.items) - FreshTail
  BY <1>1 DEF Evictable
<1>3. /\ s[1] \in 1..Evictable /\ s[2] \in 1..Evictable
      /\ s[2] - s[1] + 1 >= CondensedMinFanout /\ IsLeafRun(s[1], s[2])
  BY DEF FirstSegments, Segments
<1>4. s[1] \in s[1]..s[2] /\ s[2] \in s[1]..s[2]
  BY <1>1, <1>2, <1>3
<1>5. conv.items[s[1]].kind = "leaf" /\ conv.items[s[2]].kind = "leaf"
  BY <1>3, <1>4 DEF IsLeafRun
<1>6. s[1] \in DOMAIN conv.items /\ s[2] \in DOMAIN conv.items
  BY <1>1, <1>2, <1>3
<1>7. ~(s[1] > 1) /\ ~(s[2] > 1)
  BY <1>5, <1>6 DEF ItemsInv
<1> QED
  BY <1>1, <1>2, <1>3, <1>7

(* What a compaction reads.                                                *)
LEMMA RangeRead ==
    ASSUME LcmAssumption, TypeOK, ItemsInv, NEW r \in Runs, RunIncremental(r) \/ RunCondensation(r)
    PROVE  \E k \in 1..Len(conv.items) :
             /\ k + FreshTail <= Len(conv.items)
             /\ run'[r].start = 0 /\ run'[r].end = k
             /\ run'[r].rows = Covered(SubSeq(conv.items, 1, k))
<1>1. /\ Len(conv.items) \in Nat /\ FreshTail \in Nat \ {0}
      /\ LeafMinFanout \in Nat \ {0} /\ run \in [Runs -> Locals]
  BY ConversationFacts DEF LcmAssumption, TypeOK
<1>2. CASE RunIncremental(r)
  <2>1. PICK k \in LeafEnds : LeafRange(r, k)
    BY <1>2 DEF RunIncremental
  <2>2. k \in 1..Len(conv.items) /\ k + FreshTail <= Len(conv.items)
    BY <1>1, <2>1 DEF LeafEnds, Evictable
  <2> DEFINE rows == Covered(SubSeq(conv.items, 1, k))
  <2>3. run' = [run EXCEPT ![r].pc = "leaf", ![r].start = 0, ![r].end = k, ![r].rows = rows]
    BY <2>1 DEF LeafRange
  <2> HIDE DEF rows
  <2>4. run'[r].start = 0 /\ run'[r].end = k /\ run'[r].rows = rows
    BY <1>1, <2>3 DEF Locals
  <2> QED
    BY <2>2, <2>4 DEF rows
<1>3. CASE RunCondensation(r)
  <2>1. PICK s \in FirstSegments : CondensedRange(r, s)
    BY <1>3 DEF RunCondensation
  <2>2. s[1] = 1 /\ s[2] = 1 /\ 1 \in 1..Len(conv.items) /\ 1 + FreshTail <= Len(conv.items)
    BY <1>1, FirstIsOnly
  <2> DEFINE rows == Covered(SubSeq(conv.items, 1, 1))
  <2>3. run' = [run EXCEPT ![r].pc = "condensed", ![r].start = 0, ![r].end = 1, ![r].rows = rows]
    BY <2>1, <2>2 DEF CondensedRange
  <2> HIDE DEF rows
  <2>4. run'[r].start = 0 /\ run'[r].end = 1 /\ run'[r].rows = rows
    BY <1>1, <2>3 DEF Locals
  <2> QED
    BY <2>2, <2>4 DEF rows
<1> QED
  BY <1>2, <1>3

LEMMA RangeRun ==
    ASSUME TypeOK, NEW r \in Runs, RunIncremental(r) \/ RunCondensation(r)
    PROVE  run'[r].pc \in {"leaf", "condensed"}
<1>0. run \in [Runs -> Locals]
  BY DEF TypeOK
<1>1. ASSUME NEW phase, NEW start, NEW end, NEW rows,
             run' = [run EXCEPT ![r].pc = phase, ![r].start = start, ![r].end = end,
                                ![r].rows = rows]
      PROVE  run'[r].pc = phase
  BY <1>0, <1>1 DEF Locals
<1>2. CASE RunIncremental(r)
  <2>1. PICK k \in LeafEnds : LeafRange(r, k)
    BY <1>2 DEF RunIncremental
  <2> QED
    BY <1>1, <2>1 DEF LeafRange
<1>3. CASE RunCondensation(r)
  <2>1. PICK s \in FirstSegments : CondensedRange(r, s)
    BY <1>3 DEF RunCondensation
  <2> QED
    BY <1>1, <2>1 DEF CondensedRange
<1> QED
  BY <1>2, <1>3

(* Only these two steps make a run one that is to replace a range.         *)
LEMMA RangeReaders ==
    ASSUME TypeOK, NEW r \in Runs, Step(r), run'[r].pc \in {"leaf", "condensed"}
    PROVE  RunIncremental(r) \/ RunCondensation(r)
<1>0. run \in [Runs -> Locals]
  BY DEF TypeOK
<1>1. ASSUME NEW phase, Goto(r, phase)
      PROVE  run'[r].pc = phase
  BY <1>0, <1>1 DEF Goto, Locals
<1>2. ASSUME Finish(r)
      PROVE  run'[r].pc = "done"
  BY <1>0, <1>2 DEF Finish, Begun
<1>3. ~Begin(r) /\ ~Bootstrap(r) /\ ~Assemble(r) /\ ~LcmTool(r) /\ ~AddUserMessage(r) /\ ~Ingest(r)
  BY <1>0 DEF Begin, Bootstrap, Assemble, LcmTool, AddUserMessage, Ingest, Locals, Begun, At
<1>4. ~Import(r) /\ ~ImportFails(r) /\ ~AddAssistantMessage(r) /\ ~InsertTurn(r) /\ ~ClearMessages(r)
  BY <1>1 DEF Import, ImportFails, AddAssistantMessage, InsertTurn, ClearMessages
<1>5. /\ ~TurnFails(r) /\ ~IngestFails(r) /\ ~NoCompaction(r) /\ ~ReplaceByCondensed(r)
      /\ ~CompactionEnds(r) /\ ~ClearSession(r) /\ ~ClearSessionFails(r)
  BY <1>2 DEF TurnFails, IngestFails, NoCompaction, ReplaceByCondensed, CompactionEnds,
              ClearSession, ClearSessionFails
<1>6. ~ReplaceByLeaf(r)
  <2> SUFFICES ASSUME ReplaceByLeaf(r)
               PROVE  run'[r].pc \in {"done", "condensing"}
    OBVIOUS
  <2>1. CASE ~Finish(r)
    <3>1. run' = [run EXCEPT ![r].pc = "condensing", ![r].rows = {}, ![r].end = 0]
      BY <2>1 DEF ReplaceByLeaf
    <3> QED
      BY <1>0, <3>1 DEF Locals
  <2> QED
    BY <1>2, <2>1
<1> QED
  BY <1>3, <1>4, <1>5, <1>6 DEF Step

(* A run that is not at work is about to replace a range of the session's  *)
(* conversation after a step only if it was so before.                     *)
LEMMA StillReplaces ==
    ASSUME LcmAssumption, TypeOK, IdsInv, RangeInv, [Next]_vars,
           NEW q \in Runs, run'[q] = run[q], Replaces(q)'
    PROVE  Replaces(q) /\ conv'.id = conv.id
<1>1. \/ conv'.id = 0
      \/ conv.id = 0 /\ conv'.id = ids + 1
      \/ conv'.id = conv.id
  BY ConversationTypes
<1>2. run[q].conv \in Nat /\ run[q].conv <= ids /\ ids \in Nat
  BY DEF IdsInv, TypeOK, Locals
<1>3. run[q].pc \in {"leaf", "condensed"} /\ conv'.id # 0 /\ run[q].conv = conv'.id
  BY DEF Replaces, Current
<1> QED
  BY <1>1, <1>2, <1>3 DEF Replaces, Current


(* The range of a run that is not at work.                                 *)
LEMMA RangeKept ==
    ASSUME LcmAssumption, TypeOK, IdsInv, RangeInv, [Next]_vars,
           NEW q \in Runs, run'[q] = run[q], Replaces(q)'
    PROVE  Ranged(q)'
<1> DEFINE L == Len(conv.items)
           R == Len(conv.rows)
           new == conv'.items
           old == conv.items
           end == run[q].end
           rows == run[q].rows
<1>0. /\ L \in Nat /\ R \in Nat /\ DOMAIN old = 1..L /\ DOMAIN conv.rows = 1..R
      /\ old = <<>> <=> L = 0
  BY ConversationFacts, EmptySeq
<1>1. /\ conv'.id = conv.id /\ conv'.id # 0
      /\ run[q].start = 0 /\ end >= 1 /\ end \in Nat /\ rows # {} /\ rows \subseteq 1..R
      /\ \A i \in 1..L : i > end => \A x \in rows, y \in old[i].rows : x < y
  BY <1>0, StillReplaces DEF RangeInv, Ranged, Replaces, Current, TypeOK, Locals
<1>2. SUFFICES /\ rows \subseteq DOMAIN conv'.rows
               /\ \A i \in DOMAIN new : i > end => \A x \in rows, y \in new[i].rows : x < y
  BY <1>1, <1>2, Zenon DEF Ranged
<1> HIDE DEF L, R, old, end, rows, new
<1>3. CASE conv'.rows = conv.rows /\ new = old
  BY <1>0, <1>1, <1>3
<1>4. ASSUME NEW r \in Runs, NEW msgs \in Seq(Message), IngestMessages(r, msgs)
      PROVE  /\ rows \subseteq DOMAIN conv'.rows
             /\ \A i \in DOMAIN new : i > end => \A x \in rows, y \in new[i].rows : x < y
  <2>1. /\ conv' \in Conversation /\ Len(conv'.rows) = R + Len(msgs)
        /\ \A i \in 1..L : new[i] = old[i]
        /\ \A i \in (L + 1)..Len(new) : new[i] = [kind |-> "message", rows |-> {R + i - L}]
    BY <1>4, Ingesting DEF L, R, new, old
  <2>2. /\ DOMAIN new = 1..Len(new) /\ DOMAIN conv'.rows = 1..Len(conv'.rows) /\ Len(msgs) \in Nat
        /\ Len(new) \in Nat
    BY <2>1, Elements DEF Conversation, new
  <2>3. ASSUME NEW i \in DOMAIN new, i > end, NEW x \in rows, NEW y \in new[i].rows
        PROVE  x < y
    <3>1. CASE i \in 1..L
      BY <1>1, <2>1, <2>3, <3>1
    <3>2. CASE i \in (L + 1)..Len(new)
      <4>1. new[i] = [kind |-> "message", rows |-> {R + i - L}]
        BY <2>1, <3>2, Zenon
      <4>2. y = R + i - L /\ x \in 1..R
        BY <1>1, <2>3, <4>1
      <4> QED
        BY <1>0, <2>2, <3>2, <4>2
    <3> QED
      BY <1>0, <2>2, <3>1, <3>2
  <2>4. rows \subseteq DOMAIN conv'.rows
    BY <1>0, <1>1, <2>1, <2>2
  <2> QED
    BY <2>3, <2>4
<1>5. ASSUME NEW r \in Runs, NEW kind \in Kinds, ReplaceContextRange(r, kind), Replaces(r)
      PROVE  /\ rows \subseteq DOMAIN conv'.rows
             /\ \A i \in DOMAIN new : i > end => \A x \in rows, y \in new[i].rows : x < y
  <2>1. run[r].start = 0 /\ run[r].end >= 1 /\ run[r].end \in Nat
    BY <1>5 DEF RangeInv, Ranged, TypeOK, Locals
  <2>2. /\ conv' \in Conversation /\ conv'.rows = conv.rows
        /\ \A i \in 2..Len(new) : new[i] = old[i + run[r].end - 1] /\ i + run[r].end - 1 \in i..L
    BY <1>5, <2>1, Replacing DEF L, new, old
  <2>3. DOMAIN new = 1..Len(new) /\ Len(new) \in Nat
    BY <2>2, Elements DEF Conversation, new
  <2>4. ASSUME NEW i \in DOMAIN new, i > end, NEW x \in rows, NEW y \in new[i].rows
        PROVE  x < y
    <3>1. i \in 2..Len(new)
      BY <1>1, <2>3, <2>4
    <3>2. /\ new[i] = old[i + run[r].end - 1]
          /\ i + run[r].end - 1 \in 1..L /\ i + run[r].end - 1 > end
      BY <1>0, <1>1, <2>1, <2>2, <2>4, <3>1
    <3> QED
      BY <1>1, <2>4, <3>2
  <2> QED
    BY <1>0, <1>1, <2>2, <2>4
<1>6. CASE UNCHANGED <<conv, ids>> \/ Open
  BY <1>3, <1>6, OpeningStep DEF new, old
<1>7. conv' # NoConversation
  BY <1>1, EmptyConversation
<1>8. CASE UNCHANGED vars \/ Crash
  <2>1. UNCHANGED <<conv, ids>>
    BY <1>8, CrashStep DEF vars
  <2> QED
    BY <1>6, <2>1
<1>9. ASSUME NEW r \in Runs, Step(r)
      PROVE  /\ rows \subseteq DOMAIN conv'.rows
             /\ \A i \in DOMAIN new : i > end => \A x \in rows, y \in new[i].rows : x < y
  BY <1>4, <1>5, <1>6, <1>7, <1>9, Conversations
<1> QED
  BY <1>8, <1>9 DEF Next

(* The range a compaction has just read.                                   *)
LEMMA RangeNew ==
    ASSUME LcmAssumption, TypeOK, ItemsInv, NEW r \in Runs,
           RunIncremental(r) \/ RunCondensation(r)
    PROVE  Ranged(r)'
<1>1. /\ Len(conv.items) \in Nat /\ DOMAIN conv.items = 1..Len(conv.items)
      /\ DOMAIN conv.rows = 1..Len(conv.rows)
      /\ \A i \in 1..Len(conv.items) :
           conv.items[i].rows # {} /\ conv.items[i].rows \subseteq 1..Len(conv.rows)
  BY ConversationFacts
<1>2. conv' = conv
  BY DEF RunIncremental, RunCondensation
<1>3. PICK k \in 1..Len(conv.items) :
        /\ run'[r].start = 0 /\ run'[r].end = k
        /\ run'[r].rows = Covered(SubSeq(conv.items, 1, k))
  BY RangeRead
<1> DEFINE rows == run'[r].rows
<1>4. \A x : x \in rows <=> \E i \in 1..k : x \in conv.items[i].rows
  BY <1>1, <1>3, CoveredFront
<1> HIDE DEF rows
<1>5. rows # {} /\ rows \subseteq 1..Len(conv.rows)
  <2>1. 1 \in 1..k /\ \A i \in 1..k : i \in 1..Len(conv.items)
    BY <1>1, <1>3
  <2>2. PICK x : x \in conv.items[1].rows
    BY <1>1, <2>1
  <2> QED
    BY <1>1, <1>4, <2>1, <2>2
<1>6. ASSUME NEW i \in DOMAIN conv.items, i > k, NEW x \in rows, NEW y \in conv.items[i].rows
      PROVE  x < y
  <2>1. PICK j \in 1..k : x \in conv.items[j].rows
    BY <1>4, <1>6
  <2>2. j \in DOMAIN conv.items /\ j < i
    BY <1>1, <1>3, <1>6
  <2> QED
    BY <1>6, <2>1, <2>2 DEF ItemsInv, InOrder
<1> QED
  BY <1>1, <1>2, <1>3, <1>5, <1>6 DEF Ranged, rows

LEMMA RangeStep ==
    ASSUME LcmAssumption, TypeOK, IdsInv, ItemsInv, RangeInv, [Next]_vars
    PROVE  RangeInv'
<1> SUFFICES ASSUME NEW q \in Runs, Replaces(q)'
             PROVE  Ranged(q)'
  BY DEF RangeInv
<1>1. CASE run'[q] = run[q]
  BY <1>1, RangeKept
<1>2. CASE Crash
  BY <1>2, CrashStep DEF Replaces
<1>3. ASSUME Step(q)
      PROVE  Ranged(q)'
  BY <1>3, RangeReaders, RangeNew DEF Replaces
<1>4. ASSUME NEW r \in Runs, Step(r), r # q
      PROVE  run'[q] = run[q]
  BY <1>4, Locally
<1> QED
  BY <1>1, <1>2, <1>3, <1>4 DEF Next, vars

-----------------------------------------------------------------------------
(* One compaction at a time.                                               *)

LEMMA NewCompaction ==
    ASSUME TypeOK, NEW r \in Runs, Step(r), Compacts(r)'
    PROVE  Compacts(r) \/ RunIncremental(r)
<1>0. run \in [Runs -> Locals]
  BY DEF TypeOK
<1>1. ASSUME NEW phase, Goto(r, phase)
      PROVE  run'[r].pc = phase
  BY <1>0, <1>1 DEF Goto, Locals
<1>2. ASSUME Finish(r)
      PROVE  run'[r].pc = "done"
  BY <1>0, <1>2 DEF Finish, Begun
<1>3. ~Begin(r) /\ ~Bootstrap(r) /\ ~Assemble(r) /\ ~AddUserMessage(r) /\ ~Ingest(r)
  BY <1>0 DEF Begin, Bootstrap, Assemble, AddUserMessage, Ingest, Locals, Begun, At, Compacts
<1>4. ~Import(r) /\ ~ImportFails(r) /\ ~AddAssistantMessage(r) /\ ~InsertTurn(r) /\ ~ClearMessages(r)
  BY <1>1 DEF Import, ImportFails, AddAssistantMessage, InsertTurn, ClearMessages, Compacts
<1>5. /\ ~TurnFails(r) /\ ~IngestFails(r) /\ ~NoCompaction(r) /\ ~ReplaceByCondensed(r)
      /\ ~CompactionEnds(r) /\ ~ClearSession(r) /\ ~ClearSessionFails(r)
  BY <1>2 DEF TurnFails, IngestFails, NoCompaction, ReplaceByCondensed, CompactionEnds,
              ClearSession, ClearSessionFails, Compacts
<1>6. ReplaceByLeaf(r) \/ RunCondensation(r) \/ LcmTool(r) => Compacts(r)
  BY DEF ReplaceByLeaf, RunCondensation, LcmTool, At, Compacts
<1> QED
  BY <1>3, <1>4, <1>5, <1>6 DEF Step

LEMMA AloneStep ==
    ASSUME LcmAssumption, TypeOK, IdsInv, AloneInv, [Next]_vars
    PROVE  AloneInv'
<1> SUFFICES ASSUME "contended" \notin trouble', NEW p \in Runs, NEW q \in Runs,
                    Compacts(p)', Compacts(q)'
             PROVE  p = q
  BY DEF AloneInv
<1>1. "contended" \notin trouble
  BY SessionTypes
<1>2. CASE UNCHANGED vars
  BY <1>1, <1>2 DEF vars, AloneInv, Compacts
<1>3. ~Crash
  BY CrashStep DEF Compacts
<1>4. ASSUME NEW r \in Runs, Step(r)
      PROVE  p = q
  <2>1. \A s \in Runs : s # r /\ Compacts(s)' => Compacts(s)
    BY <1>4, Locally DEF Compacts
  <2>2. CASE Compacts(r) \/ ~Compacts(r)'
    <3>1. Compacts(p) /\ Compacts(q)
      BY <1>4, <2>1, <2>2, NewCompaction
    <3> QED
      BY <1>1, <3>1 DEF AloneInv
  <2>3. CASE RunIncremental(r)
    <3>1. "contended" \notin Contended(r)
      BY <2>3 DEF RunIncremental
    <3>2. \A s \in Runs : ~Compacts(s)
      BY <3>1 DEF Contended, Compacts
    <3> QED
      BY <2>1, <3>2
  <2> QED
    BY <1>4, <2>2, <2>3, NewCompaction
<1> QED
  BY <1>2, <1>3, <1>4 DEF Next

-----------------------------------------------------------------------------
(* Which rows the items stand for.                                         *)

LEMMA ExactKept ==
    ASSUME Exact, conv'.rows = conv.rows, conv'.items = conv.items
    PROVE  Exact'
  BY DEF Exact, Behind

LEMMA ExactGrown ==
    ASSUME TypeOK, Exact, NEW r \in Runs, NEW msgs \in Seq(Message), IngestMessages(r, msgs)
    PROVE  Exact' /\ Behind' = Behind /\ Len(conv.items) <= Len(conv.items)'
<1> DEFINE L == Len(conv.items)
           R == Len(conv.rows)
           new == conv'.items
           old == conv.items
<1>1. L \in Nat /\ R \in Nat /\ DOMAIN old = 1..L /\ Len(msgs) \in Nat
  BY ConversationFacts, Elements
<1>2. /\ conv' \in Conversation
      /\ Len(conv'.rows) = R + Len(msgs) /\ Len(new) = L + Len(msgs)
      /\ \A i \in 1..L : new[i] = old[i]
      /\ \A i \in (L + 1)..Len(new) : new[i] = [kind |-> "message", rows |-> {R + i - L}]
  BY Ingesting
<1>3. DOMAIN new = 1..Len(new)
  BY <1>2, Elements DEF Conversation
<1>4. /\ Behind = R - L /\ L <= R /\ (L = 0 => R = 0)
      /\ \A i \in 1..L : old[i].rows = IF i = 1 THEN 1..(Behind + 1) ELSE {Behind + i}
  BY <1>1 DEF Exact, Behind
<1>5. Behind' = Len(conv'.rows) - Len(new)
  BY DEF Behind
<1> HIDE DEF L, R, new, old
<1>6. Behind' = Behind /\ L <= Len(new) /\ Behind \in Nat
  BY <1>1, <1>2, <1>4, <1>5
<1>7. ASSUME NEW i \in DOMAIN new
      PROVE  new[i].rows = IF i = 1 THEN 1..(Behind + 1) ELSE {Behind + i}
  <2>1. CASE i \in 1..L
    BY <1>2, <1>4, <2>1
  <2>2. CASE i \in (L + 1)..Len(new)
    <3>1. new[i] = [kind |-> "message", rows |-> {R + i - L}]
      BY <1>2, <2>2, Zenon
    <3>2. R + i - L = Behind + i
      BY <1>1, <1>4, <2>2
    <3>3. i = 1 => L = 0 /\ Behind + 1 = 1
      BY <1>1, <1>4, <2>2
    <3>4. 1..1 = {1}
      OBVIOUS
    <3> QED
      BY <3>1, <3>2, <3>3, <3>4
  <2> QED
    BY <1>1, <1>2, <1>3, <2>1, <2>2
<1>8. Len(new) <= Len(conv'.rows) /\ (Len(new) = 0 => Len(conv'.rows) = 0)
  BY <1>1, <1>2, <1>4
<1> QED
  BY <1>6, <1>7, <1>8 DEF Exact, new, L

LEMMA ExactCompacted ==
    ASSUME LcmAssumption, TypeOK, RangeInv, Exact, NEW r \in Runs, NEW kind \in Kinds,
           Replaces(r), ExactRange(r), ReplaceContextRange(r, kind)
    PROVE  Exact'
<1> DEFINE L == Len(conv.items)
           R == Len(conv.rows)
           end == run[r].end
           new == conv'.items
           old == conv.items
<1>1. L \in Nat /\ R \in Nat /\ DOMAIN old = 1..L /\ end \in Nat /\ FreshTail \in Nat \ {0}
  BY ConversationFacts DEF TypeOK, Locals, LcmAssumption
<1>2. run[r].start = 0 /\ end >= 1 /\ end + FreshTail <= L /\ run[r].rows = 1..(Behind + end)
  BY DEF RangeInv, Ranged, ExactRange
<1>3. old # <<>>
  <2>1. L # 0
    BY <1>1, <1>2
  <2> QED
    BY <2>1, EmptySeq
<1>4. /\ conv' \in Conversation /\ conv'.rows = conv.rows
      /\ Len(new) = IF end < L THEN L - end + 1 ELSE IF old = <<>> THEN 0 ELSE 1
      /\ new[1] = [kind |-> kind, rows |-> run[r].rows]
      /\ \A i \in 2..Len(new) : new[i] = old[i + end - 1] /\ i + end - 1 \in i..L
  BY <1>2, <1>3, Replacing
<1>5. DOMAIN new = 1..Len(new)
  BY <1>4, Elements DEF Conversation
<1>6. /\ Behind = R - L /\ L <= R
      /\ \A i \in 1..L : old[i].rows = IF i = 1 THEN 1..(Behind + 1) ELSE {Behind + i}
  BY <1>1 DEF Exact, Behind
<1>7. Behind' = R - Len(new)
  BY <1>4 DEF Behind
<1>0. Len(conv'.rows) = R
  BY <1>4
<1> HIDE DEF L, R, new, old, end
<1>8. /\ Len(new) = L - end + 1 /\ Len(new) # 0 /\ Len(new) <= R /\ Behind' = Behind + end - 1
  <2>1. end < L
    BY <1>1, <1>2
  <2>2. Len(new) = L - end + 1
    BY <1>4, <2>1
  <2> QED
    BY <1>1, <1>2, <1>6, <1>7, <2>1, <2>2
<1>9. ASSUME NEW i \in DOMAIN new
      PROVE  new[i].rows = IF i = 1 THEN 1..(Behind' + 1) ELSE {Behind' + i}
  <2>1. CASE i = 1
    <3>1. Behind + end = Behind' + 1
      BY <1>1, <1>6, <1>8
    <3> QED
      BY <1>2, <1>4, <2>1, <3>1
  <2>2. CASE i # 1
    <3>1. i \in 2..Len(new)
      BY <1>1, <1>5, <1>8, <2>2
    <3>2. new[i] = old[i + end - 1] /\ i + end - 1 \in i..L
      BY <1>4, <3>1
    <3>3. i + end - 1 \in 1..L /\ i + end - 1 # 1 /\ Behind + (i + end - 1) = Behind' + i
      BY <1>1, <1>2, <1>6, <1>8, <3>1, <3>2
    <3>4. old[i + end - 1].rows = {Behind + (i + end - 1)}
      BY <1>6, <3>3
    <3> QED
      BY <2>2, <3>2, <3>3, <3>4
  <2> QED
    BY <2>1, <2>2
<1> QED
  BY <1>0, <1>8, <1>9, Zenon DEF Exact, new

(* The range a compaction has just read.                                   *)
LEMMA ExactNew ==
    ASSUME LcmAssumption, TypeOK, ItemsInv, Exact, NEW r \in Runs,
           RunIncremental(r) \/ RunCondensation(r)
    PROVE  ExactRange(r)'
<1>1. /\ Len(conv.items) \in Nat /\ Len(conv.rows) \in Nat
      /\ DOMAIN conv.items = 1..Len(conv.items)
  BY ConversationFacts
<1>2. conv' = conv
  BY DEF RunIncremental, RunCondensation
<1>3. PICK k \in 1..Len(conv.items) :
        /\ k + FreshTail <= Len(conv.items) /\ run'[r].end = k
        /\ run'[r].rows = Covered(SubSeq(conv.items, 1, k))
  BY RangeRead
<1>4. /\ Behind \in Nat
      /\ \A i \in 1..k : conv.items[i].rows = IF i = 1 THEN 1..(Behind + 1) ELSE {Behind + i}
  <2>1. Behind \in Nat
    BY <1>1 DEF Exact, Behind
  <2>2. \A i \in 1..k : i \in DOMAIN conv.items
    BY <1>1, <1>3
  <2> QED
    BY <2>1, <2>2 DEF Exact
<1> DEFINE rows == run'[r].rows
<1>5. \A x : x \in rows <=> \E i \in 1..k : x \in conv.items[i].rows
  BY <1>1, <1>3, CoveredFront
<1> HIDE DEF rows
<1>6. ASSUME NEW x \in rows
      PROVE  x \in 1..(Behind + k)
  <2>1. PICK i \in 1..k : x \in conv.items[i].rows
    BY <1>5, <1>6
  <2>2. x \in IF i = 1 THEN 1..(Behind + 1) ELSE {Behind + i}
    BY <1>4, <2>1
  <2> QED
    BY <1>1, <1>3, <1>4, <2>1, <2>2
<1>7. ASSUME NEW x \in 1..(Behind + k)
      PROVE  x \in rows
  <2>1. CASE x <= Behind + 1
    <3>1. 1 \in 1..k /\ x \in 1..(Behind + 1)
      BY <1>1, <1>3, <1>4, <2>1
    <3> QED
      BY <1>4, <1>5, <3>1
  <2>2. CASE x > Behind + 1
    <3>1. x - Behind \in 1..k /\ x - Behind # 1 /\ x = Behind + (x - Behind)
      BY <1>1, <1>3, <1>4, <2>2
    <3> QED
      BY <1>4, <1>5, <3>1
  <2> QED
    BY <1>4, <2>1, <2>2
<1>8. rows = 1..(Behind + k)
  BY <1>6, <1>7
<1> QED
  BY <1>2, <1>3, <1>8 DEF ExactRange, Behind, rows

LEMMA ExactStep ==
    ASSUME LcmAssumption, TypeOK, IdsInv, ItemsInv, RangeInv, AloneInv, ExactInv, [Next]_vars
    PROVE  ExactInv'
<1> SUFFICES ASSUME "contended" \notin trouble'
             PROVE  Exact' /\ \A q \in Runs : Replaces(q)' => ExactRange(q)'
  BY DEF ExactInv
<1>1. "contended" \notin trouble /\ Exact /\ \A q \in Runs : Replaces(q) => ExactRange(q)
  BY SessionTypes DEF ExactInv
<1>2. /\ Len(conv.items) \in Nat /\ Len(conv.rows) \in Nat /\ FreshTail \in Nat
      /\ \A q \in Runs : run[q].end \in Nat
  BY ConversationFacts DEF LcmAssumption, TypeOK, Locals
<1>3. ASSUME conv'.rows = conv.rows, conv'.items = conv.items
      PROVE  /\ Exact'
             /\ \A q \in Runs : run'[q] = run[q] /\ Replaces(q)' => ExactRange(q)'
  <2>1. Exact'
    BY <1>1, <1>3, ExactKept
  <2>2. ASSUME NEW q \in Runs, run'[q] = run[q], Replaces(q)'
        PROVE  ExactRange(q)'
    BY <1>1, <1>3, <2>2, StillReplaces DEF ExactRange, Behind
  <2> QED
    BY <2>1, <2>2
<1>4. CASE UNCHANGED vars \/ Crash
  <2>1. conv' = conv
    BY <1>4, CrashStep DEF vars
  <2>2. ASSUME NEW q \in Runs, Replaces(q)'
        PROVE  run'[q] = run[q]
    BY <1>4, <2>2, CrashStep DEF vars, Replaces
  <2> QED
    BY <1>3, <2>1, <2>2
<1>5. ASSUME NEW r \in Runs, Step(r)
      PROVE  Exact' /\ \A q \in Runs : Replaces(q)' => ExactRange(q)'
  <2>1. \A q \in Runs : q # r => run'[q] = run[q]
    BY <1>5, Locally
  <2>2. ASSUME ~Compacts(r)'
        PROVE  \A q \in Runs : Replaces(q)' => q # r
    BY <2>2 DEF Compacts, Replaces
  <2>3. CASE RunIncremental(r) \/ RunCondensation(r)
    <3>1. conv' = conv
      BY <2>3 DEF RunIncremental, RunCondensation
    <3>2. ExactRange(r)'
      BY <1>1, <2>3, ExactNew
    <3> QED
      BY <1>3, <2>1, <3>1, <3>2
  <2>4. CASE conv'.rows = conv.rows /\ conv'.items = conv.items
    <3>1. Replaces(r)' => RunIncremental(r) \/ RunCondensation(r)
      BY <1>5, RangeReaders DEF Replaces
    <3> QED
      BY <1>3, <2>1, <2>3, <2>4, <3>1
  <2>5. ASSUME NEW msgs \in Seq(Message), IngestMessages(r, msgs), ~Compacts(r)'
        PROVE  Exact' /\ \A q \in Runs : Replaces(q)' => ExactRange(q)'
    <3>1. Exact' /\ Behind' = Behind /\ Len(conv.items) <= Len(conv.items)'
      BY <1>1, <2>5, ExactGrown
    <3>2. ASSUME NEW q \in Runs, Replaces(q)'
          PROVE  ExactRange(q)'
      <4>1. run'[q] = run[q]
        BY <2>1, <2>2, <2>5, <3>2
      <4>2. ExactRange(q)
        BY <1>1, <3>2, <4>1, StillReplaces
      <4>3. run[q].end + FreshTail <= Len(conv'.items)
        <5>1. conv' \in Conversation
          BY ConversationTypes
        <5>2. Len(conv'.items) \in Nat
          BY <5>1, Elements DEF Conversation
        <5> QED
          BY <1>2, <3>1, <4>2, <5>2 DEF ExactRange
      <4> QED
        BY <3>1, <4>1, <4>2, <4>3 DEF ExactRange
    <3> QED
      BY <3>1, <3>2
  <2>6. ASSUME NEW kind \in Kinds, ReplaceContextRange(r, kind), Replaces(r),
               run'[r].pc \in {"condensing", "done"}
        PROVE  Exact' /\ \A q \in Runs : Replaces(q)' => ExactRange(q)'
    <3>1. Exact'
      BY <1>1, <2>6, ExactCompacted
    <3>2. ASSUME NEW q \in Runs, Replaces(q)'
          PROVE  FALSE
      <4>1. q # r
        BY <2>6, <3>2 DEF Replaces
      <4>2. Replaces(q)
        BY <2>1, <3>2, <4>1, StillReplaces
      <4> QED
        BY <1>1, <2>6, <4>1, <4>2 DEF AloneInv, Replaces, Compacts
    <3> QED
      BY <3>1, <3>2
  <2>7. CASE conv' = NoConversation
    <3>1. Exact'
      BY <2>7, EmptyConversation DEF Exact
    <3>2. \A q \in Runs : ~Replaces(q)'
      BY <2>7, EmptyConversation DEF Replaces, Current
    <3> QED
      BY <3>1, <3>2
  <2> QED
    BY <1>5, <2>4, <2>5, <2>6, <2>7, Conversations, OpeningStep
<1> QED
  BY <1>4, <1>5 DEF Next

-----------------------------------------------------------------------------
(* One request at a time.                                                  *)

LEMMA AtWork ==
    ASSUME NEW r \in Runs, Step(r)
    PROVE  Busy(r) \/ Begin(r) \/ ClearMessages(r)
<1>1. Bootstrap(r) \/ Import(r) \/ ImportFails(r) \/ Assemble(r) \/ LcmTool(r) \/ TurnFails(r)
        \/ AddUserMessage(r) \/ AddAssistantMessage(r) => Busy(r)
  BY DEF Bootstrap, Import, ImportFails, Assemble, LcmTool, TurnFails, AddUserMessage,
         AddAssistantMessage, At, Busy
<1>2. Ingest(r) \/ InsertTurn(r) \/ IngestFails(r) \/ NoCompaction(r) \/ RunIncremental(r)
        \/ ReplaceByLeaf(r) \/ RunCondensation(r) \/ ReplaceByCondensed(r)
        \/ CompactionEnds(r) \/ ClearSession(r) \/ ClearSessionFails(r) => Busy(r)
  BY DEF Ingest, InsertTurn, IngestFails, NoCompaction, RunIncremental, ReplaceByLeaf,
         RunCondensation, ReplaceByCondensed, CompactionEnds, ClearSession, ClearSessionFails,
         At, Busy
<1> QED
  BY <1>1, <1>2 DEF Step

(* A step that leaves the requests one after the other is that of the only *)
(* run at work.                                                            *)
LEMMA OneAtWork ==
    ASSUME LcmAssumption, TypeOK, IdsInv, BusyInv, [Next]_vars, Sequential',
           NEW r \in Runs, Step(r)
    PROVE  /\ Sequential
           /\ \A q \in Runs : q # r => ~Busy(q) /\ ~Busy(q)' /\ run'[q] = run[q]
           /\ ~Busy(r) => Begin(r) \/ ClearMessages(r)
<1>1. Sequential /\ "overlap" \notin trouble'
  BY SessionTypes DEF Sequential
<1>2. \A q \in Runs : q # r => run'[q] = run[q]
  BY Locally
<1>3. ASSUME NEW q \in Runs, q # r, Busy(q)
      PROVE  FALSE
  <2>1. CASE Busy(r)
    BY <1>1, <1>3, <2>1 DEF BusyInv
  <2>2. CASE Begin(r) \/ ClearMessages(r)
    BY <1>1, <1>3, <2>2 DEF Begin, ClearMessages, Overlap
  <2> QED
    BY <2>1, <2>2, AtWork
<1> QED
  BY <1>1, <1>2, <1>3, AtWork DEF Busy, At

LEMMA BusyStep ==
    ASSUME LcmAssumption, TypeOK, IdsInv, BusyInv, [Next]_vars
    PROVE  BusyInv'
<1> SUFFICES ASSUME Sequential', NEW p \in Runs, NEW q \in Runs, Busy(p)', Busy(q)'
             PROVE  p = q
  BY DEF BusyInv
<1>1. CASE UNCHANGED vars
  BY <1>1 DEF vars, BusyInv, Busy, At, Sequential
<1>2. ~Crash
  BY CrashStep DEF Busy, At
<1>3. ASSUME NEW r \in Runs, Step(r)
      PROVE  p = q
  BY <1>3, OneAtWork
<1> QED
  BY <1>1, <1>2, <1>3 DEF Next

-----------------------------------------------------------------------------
(* The rows, and the session.                                              *)

LEMMA PrefixRest ==
    ASSUME NEW S, NEW s \in Seq(S), NEW t \in Seq(S), Prefix(s, t)
    PROVE  s \o SubSeq(t, Len(s) + 1, Len(t)) = t
<1> DEFINE rest == SubSeq(t, Len(s) + 1, Len(t))
<1>1. Len(s) \in Nat /\ Len(t) \in Nat
  BY Elements
<1>2. /\ rest \in Seq(S)
      /\ Len(rest) = IF Len(s) < Len(t) THEN Len(t) - Len(s) ELSE 0
      /\ \A i \in 1..Len(rest) : rest[i] = t[Len(s) + i]
  BY <1>1, LastOnes
<1> HIDE DEF rest
<1>3. /\ s \o rest \in Seq(S) /\ Len(s \o rest) = Len(s) + Len(rest)
      /\ \A i \in 1..(Len(s) + Len(rest)) :
           (s \o rest)[i] = IF i <= Len(s) THEN s[i] ELSE rest[i - Len(s)]
  BY <1>2, ConcatProperties
<1>4. Len(s) <= Len(t) /\ \A i \in 1..Len(s) : s[i] = t[i]
  BY DEF Prefix
<1>5. Len(s) + Len(rest) = Len(t)
  BY <1>1, <1>2, <1>4
<1> DEFINE both == s \o rest
<1>6. both \in Seq(S) /\ Len(both) = Len(t)
  BY <1>3, <1>5
<1>7. ASSUME NEW i \in 1..Len(t)
      PROVE  both[i] = t[i]
  <2>1. CASE i <= Len(s)
    BY <1>1, <1>3, <1>4, <1>5, <2>1
  <2>2. CASE ~(i <= Len(s))
    <3>1. i - Len(s) \in 1..Len(rest) /\ Len(s) + (i - Len(s)) = i
      BY <1>1, <1>2, <1>5, <2>2
    <3>2. both[i] = rest[i - Len(s)]
      BY <1>3, <1>5, <2>2
    <3> QED
      BY <1>2, <3>1, <3>2
  <2> QED
    BY <2>1, <2>2
<1> HIDE DEF both
<1>8. both = t
  BY <1>6, <1>7, SeqEqual
<1> QED
  BY <1>8 DEF both, rest

LEMMA PrefixWhole ==
    ASSUME NEW S, NEW s \in Seq(S), NEW t \in Seq(S), Prefix(s, t), Len(s) >= Len(t)
    PROVE  s = t
<1>1. Len(s) \in Nat /\ Len(t) \in Nat
  BY Elements
<1>2. Len(s) = Len(t) /\ \A i \in 1..Len(t) : s[i] = t[i]
  BY <1>1 DEF Prefix
<1> QED
  BY <1>2, SeqEqual

LEMMA PrefixSelf ==
    ASSUME NEW S, NEW s \in Seq(S)
    PROVE  Prefix(s, s) /\ Prefix(<<>>, s)
<1>1. Len(s) \in Nat /\ Len(<<>>) = 0
  BY Elements
<1> QED
  BY <1>1 DEF Prefix

(* The two messages of a turn.                                             *)
LEMMA TurnAdded ==
    ASSUME NEW S, NEW s \in Seq(S), NEW a \in S, NEW b \in S
    PROVE  /\ s \o <<a, b>> = Append(Append(s, a), b)
           /\ Prefix(s, Append(Append(s, a), b))
<1> DEFINE one == Append(s, a)
           two == Append(Append(s, a), b)
           turn == <<a, b>>
           both == s \o turn
<1>1. Len(s) \in Nat
  BY Elements
<1>2. /\ one \in Seq(S) /\ Len(one) = Len(s) + 1
      /\ \A i \in 1..Len(s) : one[i] = s[i]
      /\ one[Len(s) + 1] = a
  BY AppendProperties
<1> HIDE DEF one
<1>3. /\ Append(one, b) \in Seq(S) /\ Len(Append(one, b)) = Len(one) + 1
      /\ \A i \in 1..Len(one) : Append(one, b)[i] = one[i]
      /\ Append(one, b)[Len(one) + 1] = b
  BY <1>2, AppendProperties
<1>4. two = Append(one, b)
  BY DEF one
<1> HIDE DEF two
<1>5. /\ two \in Seq(S) /\ Len(two) = Len(s) + 2
      /\ \A i \in 1..Len(s) : two[i] = s[i]
      /\ two[Len(s) + 1] = a /\ two[Len(s) + 2] = b
  BY <1>1, <1>2, <1>3, <1>4
<1>6. turn \in Seq(S) /\ Len(turn) = 2 /\ turn[1] = a /\ turn[2] = b
  OBVIOUS
<1> HIDE DEF turn
<1>7. /\ both \in Seq(S) /\ Len(both) = Len(s) + 2
      /\ \A i \in 1..(Len(s) + 2) : both[i] = IF i <= Len(s) THEN s[i] ELSE turn[i - Len(s)]
  <2>1. /\ both \in Seq(S) /\ Len(both) = Len(s) + Len(turn)
        /\ \A i \in 1..(Len(s) + Len(turn)) :
             both[i] = IF i <= Len(s) THEN s[i] ELSE turn[i - Len(s)]
    BY <1>6, ConcatProperties
  <2> HIDE DEF both
  <2> QED
    BY <1>6, <2>1
<1> HIDE DEF both
<1>8. ASSUME NEW i \in 1..(Len(s) + 2)
      PROVE  both[i] = two[i]
  <2>1. i \in 1..Len(s) \/ i = Len(s) + 1 \/ i = Len(s) + 2
    BY <1>1
  <2>2. Len(s) + 1 - Len(s) = 1 /\ Len(s) + 2 - Len(s) = 2
    BY <1>1
  <2> QED
    BY <1>1, <1>5, <1>6, <1>7, <2>1, <2>2
<1>9. both = two
  BY <1>5, <1>7, <1>8, SeqEqual
<1>10. Prefix(s, two)
  BY <1>1, <1>5 DEF Prefix
<1> QED
  BY <1>9, <1>10 DEF both, turn, two

LEMMA AgreedPrefix ==
    ASSUME TypeOK, NEW r \in Runs, Agrees(r), ~At(r, "deleting")
    PROVE  Prefix(conv.rows, file)
<1>1. file \in Seq(Message) /\ conv.rows \in Seq(Message)
  BY ConversationFacts DEF TypeOK
<1>2. CASE run[r].pc \in {"assembling", "answering", "recording"}
  <2>1. conv.rows = file
    BY <1>2 DEF Agrees
  <2> QED
    BY <1>1, <2>1, PrefixSelf
<1>3. CASE run[r].pc \in {"ingesting", "inserting"}
  <2>1. file = Append(Append(conv.rows, UserOf(r)), AssistantOf(r))
    BY <1>3 DEF Agrees
  <2>2. UserOf(r) \in Message /\ AssistantOf(r) \in Message
    BY DEF UserOf, AssistantOf, Message
  <2> QED
    BY <1>1, <2>1, <2>2, TurnAdded
<1>4. CASE run[r].pc \notin {"assembling", "answering", "recording", "ingesting", "inserting"}
  BY <1>4 DEF Agrees, Settled, At
<1> QED
  BY <1>2, <1>3, <1>4

(* The only run at work after its step, or the end of it.                  *)
LEMMA StoreOne ==
    ASSUME LcmAssumption, TypeOK, IdsInv, RangeInv, BusyInv, StoreInv, [Next]_vars, Sequential',
           NEW r \in Runs, Step(r)
    PROVE  IF Busy(r)' THEN Agrees(r)' ELSE Settled'
<1> DEFINE Goal == IF Busy(r)' THEN Agrees(r)' ELSE Settled'
           pc == run'[r].pc
           past == run'[r].past
<1>0. /\ run \in [Runs -> Locals] /\ run[r] \in Locals /\ run[r].past \in Seq(Message)
      /\ session \in Seq(Message) /\ file \in Seq(Message) /\ conv.rows \in Seq(Message)
      /\ UserOf(r) \in Message /\ AssistantOf(r) \in Message
      /\ Len(conv.rows) \in Nat
  BY ConversationFacts DEF TypeOK, Locals, UserOf, AssistantOf, Message
<1>1. /\ Busy(r) => Agrees(r)
      /\ ~Busy(r) => Settled /\ (Begin(r) \/ ClearMessages(r))
      /\ trouble' \subseteq {"crash"}
  BY OneAtWork DEF StoreInv, Sequential
<1>2. ASSUME NEW phase, Goto(r, phase)
      PROVE  pc = phase /\ past = run[r].past
  BY <1>0, <1>2 DEF Goto, Locals
<1>3. ASSUME Finish(r)
      PROVE  pc = "done" /\ ~Busy(r)'
  BY <1>0, <1>3 DEF Finish, Begun, Busy, At
<1>4. ASSUME pc \in {"scanning", "leaf", "condensing", "condensed", "done"}, Settled'
      PROVE  Goal
  BY <1>4 DEF Agrees
<1>5. CASE Begin(r)
  <2>1. ~Busy(r)
    BY <1>5 DEF Begin, Busy
  <2>2. pc = "bootstrapping" /\ past = session
    BY <1>0, <1>5 DEF Begin, Locals
  <2>3. UNCHANGED <<session, file, conv>>
    BY <1>5 DEF Begin
  <2> QED
    BY <1>1, <2>1, <2>2, <2>3 DEF Agrees, Settled, Busy, At
<1>6. CASE Bootstrap(r)
  <2>1. run[r].past = session /\ session = file /\ Prefix(conv.rows, file)
    BY <1>1, <1>6 DEF Bootstrap, At, Busy, Agrees, Settled
  <2>2. conv'.rows = conv.rows /\ session' = session /\ file' = file
    BY <1>6, OpeningStep DEF Bootstrap
  <2> DEFINE next == IF UpToDate(r) THEN "assembling" ELSE "importing"
  <2>3. run' = [run EXCEPT ![r].conv = Opened.id, ![r].seq = MaxSeq, ![r].pc = next]
    BY <1>6 DEF Bootstrap
  <2> HIDE DEF next
  <2>4. pc = next /\ past = run[r].past
    BY <1>0, <2>3 DEF Locals
  <2>5. CASE UpToDate(r)
    <3>1. Len(conv.rows) >= Len(file)
      BY <2>1, <2>5, Opening DEF UpToDate, MaxSeq
    <3>2. conv.rows = file
      BY <1>0, <2>1, <3>1, PrefixWhole
    <3>3. pc = "assembling"
      BY <2>4, <2>5 DEF next
    <3> QED
      BY <2>1, <2>2, <2>4, <3>2, <3>3 DEF Agrees, Busy, At
  <2>6. CASE ~UpToDate(r)
    <3>1. pc = "importing"
      BY <2>4, <2>6 DEF next
    <3> QED
      BY <2>1, <2>2, <2>4, <3>1 DEF Agrees, Settled, Busy, At
  <2> QED
    BY <2>5, <2>6
<1>7. CASE Import(r)
  <2>1. run[r].past = session /\ session = file /\ Prefix(conv.rows, file)
    BY <1>1, <1>7 DEF Import, At, Busy, Agrees, Settled
  <2>2. /\ IngestMessages(r, Missing(r)) /\ session' = session /\ file' = file
        /\ Len(conv.rows) = run[r].seq
    BY <1>7 DEF Import, IngestMessages
  <2>3. Missing(r) = SubSeq(file, Len(conv.rows) + 1, Len(file))
    BY <2>1, <2>2 DEF Missing
  <2>4. Missing(r) \in Seq(Message)
    BY <1>0, <2>3, LastOnes
  <2>5. conv'.rows = file
    BY <1>0, <2>1, <2>2, <2>3, <2>4, Ingesting, PrefixRest
  <2>6. pc = "assembling" /\ past = run[r].past
    BY <1>2, <1>7 DEF Import
  <2> QED
    BY <2>1, <2>2, <2>5, <2>6 DEF Agrees, Busy, At
<1>8. ~ImportFails(r) /\ ~ClearSessionFails(r)
  BY <1>1 DEF ImportFails, ClearSessionFails
<1>9. CASE Assemble(r)
  <2>1. run[r].past = session /\ session = file /\ conv.rows = file
    BY <1>1, <1>9 DEF Assemble, At, Busy, Agrees
  <2>2. conv'.rows = conv.rows /\ session' = session /\ file' = file
    BY <1>9, OpeningStep DEF Assemble
  <2>3. pc = "answering" /\ past = run[r].past
    BY <1>0, <1>9 DEF Assemble, Locals
  <2> QED
    BY <2>1, <2>2, <2>3 DEF Agrees, Busy, At
<1>10. CASE LcmTool(r)
  <2>1. run[r].past = session /\ session = file /\ conv.rows = file
    BY <1>1, <1>10 DEF LcmTool, At, Busy, Agrees
  <2>2. /\ conv'.rows = conv.rows /\ session' = session /\ file' = file
        /\ pc = "answering" /\ past = run[r].past
    BY <1>10, OpeningStep DEF LcmTool, At
  <2> QED
    BY <2>1, <2>2 DEF Agrees, Busy, At
<1>11. CASE TurnFails(r)
  <2>1. session = file /\ conv.rows = file
    BY <1>1, <1>11 DEF TurnFails, At, Busy, Agrees
  <2>2. UNCHANGED <<session, file, conv>> /\ Finish(r)
    BY <1>11 DEF TurnFails
  <2> QED
    BY <1>0, <1>3, <2>1, <2>2, PrefixSelf DEF Settled
<1>12. CASE AddUserMessage(r)
  <2>1. session = file /\ conv.rows = file
    BY <1>1, <1>12 DEF AddUserMessage, At, Busy, Agrees
  <2>2. session' = Append(session, UserOf(r)) /\ file' = file /\ conv' = conv
    BY <1>12 DEF AddUserMessage
  <2>3. pc = "recording"
    BY <1>0, <1>12 DEF AddUserMessage, Begun
  <2> QED
    BY <2>1, <2>2, <2>3 DEF Agrees, Busy, At
<1>13. CASE AddAssistantMessage(r)
  <2>1. session = Append(file, UserOf(r)) /\ conv.rows = file
    BY <1>1, <1>13 DEF AddAssistantMessage, At, Busy, Agrees
  <2>2. session' = Append(session, AssistantOf(r)) /\ file' = session' /\ conv' = conv
    BY <1>13 DEF AddAssistantMessage
  <2>3. pc = "ingesting"
    BY <1>2, <1>13 DEF AddAssistantMessage
  <2> QED
    BY <2>1, <2>2, <2>3 DEF Agrees, Busy, At
<1>14. CASE Ingest(r)
  <2>1. session = file /\ file = Append(Append(conv.rows, UserOf(r)), AssistantOf(r))
    BY <1>1, <1>14 DEF Ingest, At, Busy, Agrees
  <2>2. conv'.rows = conv.rows /\ session' = session /\ file' = file
    BY <1>14, OpeningStep DEF Ingest
  <2>3. pc = "inserting"
    BY <1>0, <1>14 DEF Ingest, Locals
  <2> QED
    BY <2>1, <2>2, <2>3 DEF Agrees, Busy, At
<1>15. CASE InsertTurn(r)
  <2>1. session = file /\ file = Append(Append(conv.rows, UserOf(r)), AssistantOf(r))
    BY <1>1, <1>15 DEF InsertTurn, At, Busy, Agrees
  <2>2. /\ IngestMessages(r, <<UserOf(r), AssistantOf(r)>>) /\ session' = session /\ file' = file
        /\ Goto(r, "scanning")
    BY <1>15 DEF InsertTurn
  <2>3. <<UserOf(r), AssistantOf(r)>> \in Seq(Message)
    BY <1>0
  <2>4. conv'.rows = conv.rows \o <<UserOf(r), AssistantOf(r)>>
    BY <2>2, <2>3, Ingesting
  <2>5. conv'.rows = file
    <3> DEFINE U == UserOf(r)
               A == AssistantOf(r)
    <3>1. U \in Message /\ A \in Message /\ conv.rows \in Seq(Message)
      BY <1>0
    <3> HIDE DEF U, A
    <3>2. conv.rows \o <<U, A>> = Append(Append(conv.rows, U), A)
      BY <3>1, TurnAdded
    <3> QED
      BY <2>1, <2>4, <3>2 DEF U, A
  <2>6. Settled'
    BY <1>0, <2>1, <2>2, <2>5, PrefixSelf DEF Settled
  <2> QED
    BY <1>2, <1>4, <2>2, <2>6
<1>16. CASE IngestFails(r)
  <2>1. session = file /\ Agrees(r) /\ ~At(r, "deleting")
    BY <1>1, <1>16 DEF IngestFails, At, Busy, Agrees
  <2>2. UNCHANGED <<session, file, conv>> /\ Finish(r)
    BY <1>16 DEF IngestFails
  <2> QED
    BY <1>3, <2>1, <2>2, AgreedPrefix DEF Settled
<1>17. CASE NoCompaction(r) \/ RunIncremental(r) \/ RunCondensation(r) \/ CompactionEnds(r)
            \/ ReplaceByLeaf(r) \/ ReplaceByCondensed(r)
  <2>1. Settled /\ pc \in {"leaf", "condensing", "condensed", "done"}
    <3>1. Settled
      BY <1>1, <1>17
         DEF NoCompaction, RunIncremental, RunCondensation, CompactionEnds, ReplaceByLeaf,
             ReplaceByCondensed, At, Busy, Agrees
    <3>2. CASE NoCompaction(r) \/ CompactionEnds(r) \/ ReplaceByCondensed(r)
      BY <1>3, <3>1, <3>2 DEF NoCompaction, CompactionEnds, ReplaceByCondensed
    <3>3. CASE RunIncremental(r) \/ RunCondensation(r)
      BY <3>1, <3>3, RangeRun
    <3>4. CASE ReplaceByLeaf(r)
      <4>1. CASE ~Finish(r)
        <5>1. run' = [run EXCEPT ![r].pc = "condensing", ![r].rows = {}, ![r].end = 0]
          BY <3>4, <4>1 DEF ReplaceByLeaf
        <5> QED
          BY <1>0, <3>1, <5>1 DEF Locals
      <4> QED
        BY <1>3, <3>1, <4>1
    <3> QED
      BY <1>17, <3>2, <3>3, <3>4
  <2>2. conv'.rows = conv.rows /\ session' = session /\ file' = file
    <3>1. UNCHANGED <<session, file>>
      BY <1>17 DEF NoCompaction, RunIncremental, RunCondensation, CompactionEnds, ReplaceByLeaf,
                   ReplaceByCondensed
    <3>2. CASE NoCompaction(r) \/ RunIncremental(r) \/ RunCondensation(r) \/ CompactionEnds(r)
      BY <3>1, <3>2 DEF NoCompaction, RunIncremental, RunCondensation, CompactionEnds
    <3>3. CASE ReplaceByLeaf(r) \/ ReplaceByCondensed(r)
      <4>1. PICK kind \in Kinds : ReplaceContextRange(r, kind) /\ Replaces(r)
        BY <3>3 DEF ReplaceByLeaf, ReplaceByCondensed, Kinds, Replaces, At
      <4>2. run[r].start = 0 /\ run[r].end >= 1
        BY <4>1 DEF RangeInv, Ranged
      <4> QED
        BY <3>1, <4>1, <4>2, Replacing
    <3> QED
      BY <1>17, <3>2, <3>3
  <2> QED
    BY <1>4, <2>1, <2>2 DEF Settled
<1>18. CASE ClearMessages(r)
  <2>1. session' = file' /\ Goto(r, "deleting")
    BY <1>18 DEF ClearMessages
  <2>2. pc = "deleting"
    BY <1>2, <2>1
  <2> QED
    BY <2>1, <2>2 DEF Agrees, Busy, At
<1>19. CASE ClearSession(r)
  <2>1. session = file
    BY <1>1, <1>19 DEF ClearSession, At, Busy, Agrees
  <2>2. conv'.rows = <<>> /\ UNCHANGED <<session, file>> /\ Finish(r)
    BY <1>19, EmptyConversation DEF ClearSession
  <2> QED
    BY <1>0, <1>3, <2>1, <2>2, PrefixSelf DEF Settled
<1> QED
  BY <1>5, <1>6, <1>7, <1>8, <1>9, <1>10, <1>11, <1>12, <1>13, <1>14, <1>15, <1>16, <1>17,
     <1>18, <1>19 DEF Step

LEMMA StoreStep ==
    ASSUME LcmAssumption, TypeOK, IdsInv, RangeInv, BusyInv, StoreInv, [Next]_vars
    PROVE  StoreInv'
<1> SUFFICES ASSUME Sequential'
             PROVE  /\ \A q \in Runs : Busy(q)' => Agrees(q)'
                    /\ (\A q \in Runs : ~Busy(q)') => Settled'
  BY DEF StoreInv
<1>1. CASE UNCHANGED vars
  BY <1>1 DEF vars, StoreInv, Sequential, Agrees, Settled, Busy, At
<1>2. CASE Crash
  <2>1. Sequential /\ "undeleted" \notin trouble'
    BY SessionTypes DEF Sequential
  <2>2. \A q \in Runs : ~At(q, "deleting")
    BY <1>2, <2>1 DEF Crash
  <2>3. PICK r \in Runs : Busy(r)
    BY <1>2 DEF Crash
  <2>4. Prefix(conv.rows, file)
    BY <2>1, <2>2, <2>3, AgreedPrefix DEF StoreInv
  <2>5. session' = file' /\ conv' = conv /\ file' = file /\ \A q \in Runs : ~Busy(q)'
    BY <1>2, CrashStep DEF Busy, At
  <2> QED
    BY <2>4, <2>5 DEF Settled
<1>3. ASSUME NEW r \in Runs, Step(r)
      PROVE  /\ \A q \in Runs : Busy(q)' => Agrees(q)'
             /\ (\A q \in Runs : ~Busy(q)') => Settled'
  <2>1. \A q \in Runs : Busy(q)' => q = r
    BY <1>3, OneAtWork
  <2> QED
    BY <1>3, <2>1, StoreOne
<1> QED
  BY <1>1, <1>2, <1>3 DEF Next

-----------------------------------------------------------------------------
(* What the model is given.                                                *)

(* The rows the end of the context stands for.                             *)
LEMMA EndCovers ==
    ASSUME LcmAssumption, TypeOK, ItemsInv, Exact, NEW k \in Nat,
           k = 0 \/ k + FreshTail <= Len(conv.items)
    PROVE  LET end == SubSeq(conv.items, k + 1, Len(conv.items))
               n == Len(conv.rows)
           IN end # <<>> =>
                /\ InOrder(end)
                /\ \E m \in 0..n : Covered(end) = (m + 1)..n
                /\ Covered(end) = 1..n \/ Len(end) >= FreshTail
<1> DEFINE end == SubSeq(conv.items, k + 1, Len(conv.items))
           L == Len(conv.items)
           R == Len(conv.rows)
           m == IF k = 0 THEN 0 ELSE Behind + k
<1>0. /\ L \in Nat /\ R \in Nat /\ DOMAIN conv.items = 1..L /\ conv.items \in Seq(Item)
      /\ FreshTail \in Nat \ {0}
  BY ConversationFacts DEF LcmAssumption
<1>1. /\ end \in Seq(Item) /\ Len(end) = IF k < L THEN L - k ELSE 0
      /\ \A i \in 1..Len(end) : end[i] = conv.items[k + i]
  BY <1>0, LastOnes
<1>2. /\ Behind = R - L /\ L <= R /\ Behind \in Nat
      /\ \A i \in 1..L : conv.items[i].rows = IF i = 1 THEN 1..(Behind + 1) ELSE {Behind + i}
  <2>1. Behind = R - L /\ L <= R
    BY DEF Exact, Behind
  <2>2. L \in Nat /\ R \in Nat
    BY <1>0
  <2> HIDE DEF L, R
  <2>3. Behind \in Nat
    BY <2>1, <2>2
  <2> QED
    BY <1>0, <2>1, <2>3 DEF Exact
<1> SUFFICES ASSUME end # <<>>
             PROVE  /\ InOrder(end)
                    /\ \E l \in 0..R : Covered(end) = (l + 1)..R
                    /\ Covered(end) = 1..R \/ Len(end) >= FreshTail
  OBVIOUS
<1>3. Len(end) # 0
  BY <1>1, EmptySeq
<1>4. DOMAIN end = 1..Len(end) /\ \A x : x \in Covered(end) <=> \E i \in 1..Len(end) : x \in end[i].rows
  BY <1>1, Elements, CoveredProperties
<1> HIDE DEF end, L, R
<1>5. k < L /\ Len(end) = L - k
  BY <1>0, <1>1, <1>3
<1>6. \A i \in 1..Len(end) : k + i \in 1..L /\ end[i] = conv.items[k + i]
  BY <1>0, <1>1, <1>5
<1>7. InOrder(end)
  <2>1. \A i, j \in 1..Len(end) : i < j => k + i < k + j
    OBVIOUS
  <2> QED
    BY <1>0, <1>4, <1>6, <2>1 DEF InOrder, ItemsInv
<1>8. m \in 0..R
  BY <1>0, <1>2, <1>5
<1>9. ASSUME NEW x \in Covered(end)
      PROVE  x \in (m + 1)..R
  <2>1. PICK i \in 1..Len(end) : x \in end[i].rows
    BY <1>4, <1>9
  <2>2. x \in IF k + i = 1 THEN 1..(Behind + 1) ELSE {Behind + (k + i)}
    BY <1>2, <1>6, <2>1
  <2>3. i \in Int /\ 1 <= i /\ i <= L - k
    BY <1>0, <1>5, <2>1
  <2> QED
    BY <1>0, <1>2, <1>5, <2>2, <2>3
<1>10. ASSUME NEW x \in (m + 1)..R
       PROVE  x \in Covered(end)
  <2>1. CASE k = 0 /\ x <= Behind + 1
    <3>1. 1 \in 1..Len(end) /\ k + 1 = 1 /\ x \in 1..(Behind + 1)
      BY <1>0, <1>2, <1>5, <2>1
    <3> QED
      BY <1>2, <1>4, <1>6, <3>1
  <2>2. CASE ~(k = 0 /\ x <= Behind + 1)
    <3> DEFINE i == x - Behind - k
    <3>1. i \in 1..Len(end) /\ k + i # 1 /\ x = Behind + (k + i)
      BY <1>0, <1>2, <1>5, <2>2
    <3> HIDE DEF i
    <3>2. end[i].rows = {x}
      BY <1>2, <1>6, <3>1
    <3> QED
      BY <1>4, <3>1, <3>2
  <2> QED
    BY <2>1, <2>2
<1>11. Covered(end) = (m + 1)..R
  BY <1>9, <1>10
<1>12. k # 0 => Len(end) >= FreshTail
  BY <1>0, <1>5
<1>13. k = 0 => (m + 1)..R = 1..R
  OBVIOUS
<1> QED
  BY <1>7, <1>8, <1>11, <1>12, <1>13

LEMMA Answering ==
    ASSUME TypeOK, NEW r \in Runs, Step(r), At(r, "answering")'
    PROVE  Assemble(r) \/ LcmTool(r)
<1>0. run \in [Runs -> Locals] /\ run'[r].pc = "answering"
  BY DEF TypeOK, At
<1>1. ASSUME NEW phase, Goto(r, phase)
      PROVE  run'[r].pc = phase
  BY <1>0, <1>1 DEF Goto, Locals
<1>2. ASSUME Finish(r)
      PROVE  run'[r].pc = "done"
  BY <1>0, <1>2 DEF Finish, Begun
<1>3. ~Begin(r) /\ ~Bootstrap(r) /\ ~AddUserMessage(r) /\ ~Ingest(r)
  BY <1>0 DEF Begin, Bootstrap, AddUserMessage, Ingest, Locals, Begun
<1>4. ~Import(r) /\ ~ImportFails(r) /\ ~AddAssistantMessage(r) /\ ~InsertTurn(r) /\ ~ClearMessages(r)
  BY <1>0, <1>1 DEF Import, ImportFails, AddAssistantMessage, InsertTurn, ClearMessages
<1>5. /\ ~TurnFails(r) /\ ~IngestFails(r) /\ ~NoCompaction(r) /\ ~ReplaceByCondensed(r)
      /\ ~CompactionEnds(r) /\ ~ClearSession(r) /\ ~ClearSessionFails(r)
  BY <1>0, <1>2 DEF TurnFails, IngestFails, NoCompaction, ReplaceByCondensed, CompactionEnds,
                    ClearSession, ClearSessionFails
<1>6. ~RunIncremental(r) /\ ~RunCondensation(r)
  BY <1>0, RangeRun
<1>7. ~ReplaceByLeaf(r)
  <2> SUFFICES ASSUME ReplaceByLeaf(r), ~Finish(r)
               PROVE  FALSE
    BY <1>0, <1>2
  <2>1. run' = [run EXCEPT ![r].pc = "condensing", ![r].rows = {}, ![r].end = 0]
    BY DEF ReplaceByLeaf
  <2> QED
    BY <1>0, <2>1 DEF Locals
<1> QED
  BY <1>3, <1>4, <1>5, <1>6, <1>7 DEF Step

LEMMA PromptStep ==
    ASSUME LcmAssumption, TypeOK, IdsInv, ItemsInv, ExactInv, BusyInv, PromptInv, [Next]_vars
    PROVE  PromptInv'
<1> DEFINE Fine(prompt, n) ==
             prompt # <<>> =>
               /\ InOrder(prompt)
               /\ \E k \in 0..n : Covered(prompt) = (k + 1)..n
               /\ Covered(prompt) = 1..n \/ Len(prompt) >= FreshTail
<1> SUFFICES ASSUME Sequential', NEW q \in Runs, At(q, "answering")'
             PROVE  Fine(run'[q].prompt, Len(conv'.rows))
  BY DEF PromptInv
<1>1. Sequential
  BY SessionTypes DEF Sequential
<1>2. At(q, "answering") => Fine(run[q].prompt, Len(conv.rows))
  BY <1>1 DEF PromptInv
<1> HIDE DEF Fine
<1>3. CASE UNCHANGED vars
  BY <1>2, <1>3 DEF vars, At
<1>4. ~Crash
  BY CrashStep DEF At
<1>5. ASSUME NEW r \in Runs, Step(r)
      PROVE  Fine(run'[q].prompt, Len(conv'.rows))
  <2>1. q = r
    BY <1>5, OneAtWork DEF Busy, At
  <2>2. CASE LcmTool(r)
    <3>1. run' = run /\ conv'.rows = conv.rows
      BY <2>2, OpeningStep DEF LcmTool
    <3> QED
      BY <1>2, <3>1 DEF At
  <2>3. CASE Assemble(r)
    <3>1. /\ conv'.rows = conv.rows /\ Opened.items = conv.items
          /\ run \in [Runs -> Locals]
          /\ Len(conv.items) \in Nat /\ FreshTail \in Nat
      BY <2>3, OpeningStep, Opening, ConversationFacts DEF Assemble, TypeOK, LcmAssumption
    <3>2. PICK prompt \in Assembled(conv.items) :
            run' = [run EXCEPT ![r].pc = "answering", ![r].conv = Opened.id, ![r].prompt = prompt]
      BY <2>3, <3>1 DEF Assemble
    <3>3. run'[r].prompt = prompt
      BY <3>1, <3>2 DEF Locals
    <3>4. PICK k \in Nat :
            /\ prompt = SubSeq(conv.items, k + 1, Len(conv.items))
            /\ k = 0 \/ k + FreshTail <= Len(conv.items)
      BY <3>1, <3>2 DEF Assembled
    <3>5. Exact
      BY <1>1 DEF ExactInv, Sequential
    <3>6. Fine(prompt, Len(conv.rows))
      BY <3>4, <3>5, EndCovers DEF Fine
    <3> QED
      BY <2>1, <3>1, <3>3, <3>6
  <2> QED
    BY <1>5, <2>1, <2>2, <2>3, Answering
<1> QED
  BY <1>3, <1>4, <1>5 DEF Next

-----------------------------------------------------------------------------
(* The inductive invariant.                                                *)

LEMMA InitIInv ==
    ASSUME LcmAssumption, Init
    PROVE  IInv
<1>1. session \in Seq(Message)
  <2>1. PICK k \in 0..Len(Past) :
          session = [i \in 1..k |-> [by |-> Past[i],
                                     role |-> IF i % 2 = 1 THEN "user" ELSE "assistant"]]
    BY DEF Init
  <2>2. /\ Len(Past) \in Nat /\ DOMAIN Past = 1..Len(Past)
        /\ \A i \in 1..Len(Past) : Past[i] \in Range(Past)
    BY Elements DEF LcmAssumption
  <2>3. session \in [1..k -> Message] /\ k \in Nat
    BY <2>1, <2>2 DEF Message
  <2> QED
    BY <2>3, FunctionIsSeq
<1>2. /\ file = session /\ conv = NoConversation /\ ids = 0 /\ trouble = {}
      /\ run = [r \in Runs |-> Begun("idle")]
  BY DEF Init
<1>3. Begun("idle") \in Locals /\ Begun("idle").pc = "idle" /\ Begun("idle").conv = 0
  BY EmptySeq DEF Begun, Locals, Phases
<1>4. /\ run \in [Runs -> Locals] /\ \A r \in Runs : run[r].pc = "idle" /\ run[r].conv = 0
  BY <1>2, <1>3
<1>5. TypeOK /\ IdsInv
  BY <1>1, <1>2, <1>4, EmptyConversation DEF TypeOK, IdsInv
<1>6. ItemsInv /\ RangeInv /\ AloneInv
  BY <1>2, <1>4, EmptyConversation DEF ItemsInv, InOrder, RangeInv, Replaces, AloneInv, Compacts
<1>7. ExactInv
  BY <1>2, <1>4, EmptyConversation DEF ExactInv, Exact, Replaces
<1>8. BusyInv /\ PromptInv
  BY <1>4 DEF BusyInv, PromptInv, Busy, At
<1>9. StoreInv
  BY <1>1, <1>2, <1>4, EmptyConversation, PrefixSelf DEF StoreInv, Settled, Busy, At
<1> QED
  BY <1>5, <1>6, <1>7, <1>8, <1>9 DEF IInv

LEMMA NextIInv ==
    ASSUME LcmAssumption, IInv, [Next]_vars
    PROVE  IInv'
<1>1. /\ TypeOK /\ IdsInv /\ ItemsInv /\ RangeInv /\ AloneInv /\ ExactInv
      /\ BusyInv /\ StoreInv /\ PromptInv
  BY DEF IInv
<1>2. TypeOK' /\ IdsInv'
  BY <1>1, TypeStep
<1>3. ItemsInv' /\ RangeInv'
  BY <1>1, ItemsStep, RangeStep
<1>4. AloneInv' /\ ExactInv'
  BY <1>1, AloneStep, ExactStep
<1>5. BusyInv' /\ StoreInv' /\ PromptInv'
  BY <1>1, BusyStep, StoreStep, PromptStep
<1> QED
  BY <1>2, <1>3, <1>4, <1>5 DEF IInv

-----------------------------------------------------------------------------
(* The conversation, its context and the runs keep the inductive invariant. *)
THEOREM Invariance ==
    ASSUME LcmAssumption
    PROVE  Spec => []IInv
<1>1. Init => IInv
  BY InitIInv
<1>2. IInv /\ [Next]_vars => IInv'
  BY NextIInv
<1> QED
  BY <1>1, <1>2, PTL DEF Spec

(* Every variable stays in its domain, and every item of the context       *)
(* stands for rows of the conversation, and for one at least.              *)
THEOREM TypeCorrect ==
    ASSUME LcmAssumption
    PROVE  Spec => []TypeOK
<1>1. IInv => TypeOK
  BY DEF IInv
<1> QED
  BY <1>1, Invariance, PTL

(* ReplaceContextRange by ordinals that another compaction has shifted     *)
(* never turns the order of the context round.                             *)
THEOREM ContextOrdered ==
    ASSUME LcmAssumption
    PROVE  Spec => []ContextInOrder
<1>1. IInv => ContextInOrder
  BY DEF IInv, ItemsInv, ContextInOrder
<1> QED
  BY <1>1, Invariance, PTL

(* RunIncremental and RunCondensation replace what they have summarised    *)
(* and nothing else, whatever is ingested in between, unless two           *)
(* compactions are at work at once.                                        *)
THEOREM NothingIsDropped ==
    ASSUME LcmAssumption
    PROVE  Spec => []NothingDropped
<1>1. IInv => NothingDropped
  <2> SUFFICES ASSUME IInv, "contended" \notin trouble
               PROVE  Covered(conv.items) = DOMAIN conv.rows
    BY DEF NothingDropped
  <2>1. TypeOK /\ Exact
    BY DEF IInv, ExactInv
  <2> DEFINE L == Len(conv.items)
             R == Len(conv.rows)
  <2>2. /\ L \in Nat /\ R \in Nat /\ DOMAIN conv.items = 1..L /\ DOMAIN conv.rows = 1..R
        /\ conv.items \in Seq(Item)
    BY <2>1, ConversationFacts
  <2>3. \A x : x \in Covered(conv.items) <=> \E i \in 1..L : x \in conv.items[i].rows
    BY <2>2, CoveredProperties
  <2>4. /\ Behind = R - L /\ L <= R /\ (L = 0 => R = 0)
        /\ \A i \in 1..L : conv.items[i].rows = IF i = 1 THEN 1..(Behind + 1) ELSE {Behind + i}
    <3>1. Behind = R - L /\ L <= R /\ (L = 0 => R = 0)
      BY <2>1 DEF Exact, Behind
    <3> QED
      BY <2>1, <2>2, <3>1 DEF Exact
  <2> HIDE DEF L, R
  <2>5. \A i \in 1..L : conv.items[i].rows \subseteq 1..R
    BY <2>1, ConversationFacts DEF L, R
  <2>6. ASSUME NEW x \in 1..R
        PROVE  x \in Covered(conv.items)
    <3>1. CASE x <= Behind + 1
      <4>1. 1 \in 1..L /\ x \in 1..(Behind + 1)
        BY <2>2, <2>4, <3>1
      <4> QED
        BY <2>3, <2>4, <4>1
    <3>2. CASE ~(x <= Behind + 1)
      <4>1. x - Behind \in 1..L /\ x - Behind # 1 /\ Behind + (x - Behind) = x
        BY <2>2, <2>4, <3>2
      <4> QED
        BY <2>3, <2>4, <4>1
    <3> QED
      BY <3>1, <3>2
  <2> QED
    BY <2>2, <2>3, <2>5, <2>6
<1> QED
  BY <1>1, Invariance, PTL

(* No compaction takes a message of the fresh tail out of the context,     *)
(* unless two are at work at once: what it read as the front of the        *)
(* context has only come to lie further from its end.                      *)
THEOREM FreshTailSpared ==
    ASSUME LcmAssumption
    PROVE  Spec => FreshTailKept
<1> DEFINE A == (conv'.id = conv.id /\ "contended" \notin trouble) =>
                  \A row \in DOMAIN conv.rows :
                      Raw(conv, row) /\ row > Len(conv.rows) - FreshTail => Raw(conv', row)
<1>1. IInv /\ [Next]_vars => [A]_vars
  <2> SUFFICES ASSUME IInv, [Next]_vars, conv'.id = conv.id, "contended" \notin trouble,
                      NEW row \in DOMAIN conv.rows, Raw(conv, row),
                      row > Len(conv.rows) - FreshTail
               PROVE  Raw(conv', row)
    OBVIOUS
  <2>1. /\ TypeOK /\ IdsInv /\ RangeInv /\ Exact
        /\ \A r \in Runs : Replaces(r) => ExactRange(r)
    BY DEF IInv, ExactInv
  <2> DEFINE L == Len(conv.items)
             R == Len(conv.rows)
             new == conv'.items
             old == conv.items
             message == [kind |-> "message", rows |-> {row}]
  <2>2. /\ L \in Nat /\ R \in Nat /\ DOMAIN old = 1..L /\ DOMAIN conv.rows = 1..R
        /\ FreshTail \in Nat \ {0}
    BY <2>1, ConversationFacts DEF LcmAssumption
  <2>3. PICK i \in 1..L : old[i] = message
    BY <2>2 DEF Raw
  <2>4. /\ DOMAIN new = 1..Len(new) /\ Len(new) \in Nat
    <3>1. conv' \in Conversation
      BY <2>1, ConversationTypes
    <3> QED
      BY <3>1, Elements DEF Conversation
  <2>5. ASSUME NEW j \in 1..Len(new), new[j] = message
        PROVE  Raw(conv', row)
    BY <2>4, <2>5 DEF Raw
  <2>6. CASE new = old
    BY <2>2, <2>3, <2>5, <2>6
  <2>7. ASSUME NEW r \in Runs, NEW msgs \in Seq(Message), IngestMessages(r, msgs)
        PROVE  Raw(conv', row)
    <3>1. new[i] = old[i] /\ Len(new) = L + Len(msgs) /\ Len(msgs) \in Nat
      BY <2>1, <2>3, <2>7, Ingesting, Elements
    <3>2. i \in 1..Len(new)
      BY <2>2, <2>3, <2>4, <3>1
    <3> QED
      BY <2>3, <2>5, <3>1, <3>2
  <2>8. ASSUME NEW r \in Runs, NEW kind \in Kinds, ReplaceContextRange(r, kind), Replaces(r)
        PROVE  Raw(conv', row)
    <3> DEFINE end == run[r].end
    <3>1. run[r].start = 0 /\ end >= 1 /\ end \in Nat /\ end + FreshTail <= L
      BY <2>1, <2>8 DEF RangeInv, Ranged, ExactRange, TypeOK, Locals
    <3>2. /\ Len(new) = IF end < L THEN L - end + 1 ELSE IF old = <<>> THEN 0 ELSE 1
          /\ \A j \in 2..Len(new) : new[j] = old[j + end - 1]
      BY <2>1, <2>8, <3>1, Replacing
    <3>3. row = Behind + i /\ Behind = R - L
      <4>1. Behind = R - L /\ L <= R
        BY <2>1 DEF Exact, Behind
      <4>2. {row} = IF i = 1 THEN 1..(Behind + 1) ELSE {Behind + i}
        <5>1. i \in DOMAIN conv.items /\ conv.items[i].rows = {row}
          BY <2>2, <2>3
        <5> QED
          BY <2>1, <5>1 DEF Exact
      <4>3. Behind + 1 \in 1..(Behind + 1)
        BY <2>2, <4>1
      <4> QED
        BY <4>1, <4>2, <4>3
    <3> HIDE DEF end, L, R, new, old, message
    <3>4. row > R - FreshTail
      BY DEF R
    <3>5. i > L - FreshTail
      BY <2>2, <2>3, <3>3, <3>4
    <3>6. i > end /\ end < L
      BY <2>2, <2>3, <3>1, <3>5
    <3>7. Len(new) = L - end + 1
      BY <3>2, <3>6
    <3>8. i - end + 1 \in 2..Len(new) /\ (i - end + 1) + end - 1 = i
      BY <2>2, <2>3, <3>1, <3>6, <3>7
    <3>9. new[i - end + 1] = message
      BY <2>3, <3>2, <3>8
    <3>10. i - end + 1 \in 1..Len(new)
      BY <2>4, <3>8
    <3> QED
      BY <2>5, <3>9, <3>10
  <2>9. ASSUME conv' = NoConversation
        PROVE  FALSE
    <3>1. conv.id = 0 /\ conv.rows = <<>>
      BY <2>1, <2>9, EmptyConversation DEF IdsInv
    <3> QED
      BY <3>1
  <2>10. CASE UNCHANGED vars \/ Crash
    <3>1. conv' = conv
      BY <2>1, <2>10, CrashStep DEF vars
    <3> QED
      BY <2>6, <3>1
  <2>11. ASSUME NEW r \in Runs, Step(r)
         PROVE  Raw(conv', row)
    BY <2>1, <2>6, <2>7, <2>8, <2>9, <2>11, Conversations, OpeningStep
  <2> QED
    BY <2>10, <2>11 DEF Next
<1> QED
  BY <1>1, Invariance, PTL DEF Spec, FreshTailKept, A

(* What Assemble gives the model is an end of the session's messages, all  *)
(* of them or at least FreshTailCount items, as long as the requests come  *)
(* one after the other and the store does what it is asked to.             *)
THEOREM PromptIsEnd ==
    ASSUME LcmAssumption
    PROVE  Spec => []PromptIsSession
<1>1. IInv => PromptIsSession
  <2> SUFFICES ASSUME IInv, trouble \subseteq {"crash"},
                      NEW r \in Runs, At(r, "answering"), run[r].prompt # <<>>
               PROVE  LET n == Len(run[r].past)
                          rows == Covered(run[r].prompt)
                      IN /\ conv.rows = run[r].past /\ InOrder(run[r].prompt)
                         /\ \E k \in 0..n : rows = (k + 1)..n
                         /\ rows = 1..n \/ Len(run[r].prompt) >= FreshTail
    BY DEF PromptIsSession
  <2>1. Agrees(r)
    BY DEF IInv, StoreInv, Sequential, Busy, At
  <2>2. conv.rows = run[r].past
    BY <2>1 DEF Agrees, At
  <2>3. LET n == Len(conv.rows)
            rows == Covered(run[r].prompt)
        IN /\ InOrder(run[r].prompt)
           /\ \E k \in 0..n : rows = (k + 1)..n
           /\ rows = 1..n \/ Len(run[r].prompt) >= FreshTail
    BY DEF IInv, PromptInv, Sequential
  <2> QED
    BY <2>2, <2>3
<1> QED
  BY <1>1, Invariance, PTL

(* The scan of RunIncremental stops at the first summary, and a leaf takes *)
(* the place of the first items: never is a summary anywhere but first.    *)
OneSummary == \A i \in DOMAIN conv.items : conv.items[i].kind # "message" => i = 1

THEOREM SummaryIsFirst ==
    ASSUME LcmAssumption
    PROVE  Spec => []OneSummary
<1>1. IInv => OneSummary
  <2> SUFFICES ASSUME IInv, NEW i \in DOMAIN conv.items, conv.items[i].kind # "message"
               PROVE  i = 1
    BY DEF OneSummary
  <2>1. TypeOK /\ ItemsInv
    BY DEF IInv
  <2>2. i \in 1..Len(conv.items) /\ Len(conv.items) \in Nat
    BY <2>1, ConversationFacts
  <2> QED
    BY <2>1, <2>2 DEF ItemsInv
<1> QED
  BY <1>1, Invariance, PTL

(* So RunCondensation, which wants CondensedMinFanout leaves in a row, is  *)
(* never at work with the default of the configuration, 4, nor with any    *)
(* other above 1.                                                          *)
NeverCondensing == \A r \in Runs : ~RunCondensation(r)

THEOREM CondensationNeverHappens ==
    ASSUME LcmAssumption, CondensedMinFanout > 1
    PROVE  Spec => [][NeverCondensing]_vars
<1>1. IInv => NeverCondensing
  <2> SUFFICES ASSUME IInv, NEW r \in Runs, RunCondensation(r)
               PROVE  FALSE
    BY DEF NeverCondensing
  <2>1. FirstSegments # {}
    BY DEF RunCondensation
  <2>2. CondensedMinFanout = 1
    BY <2>1, FirstIsOnly DEF IInv
  <2> QED
    BY <2>2
<1>2. IInv => [NeverCondensing]_vars
  BY <1>1
<1> QED
  BY <1>2, Invariance, PTL
=============================================================================
