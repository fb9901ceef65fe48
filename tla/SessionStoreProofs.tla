------------------------- MODULE SessionStoreProofs -------------------------
(***************************************************************************)
(* Safety of SessionStore for every set of runs and every past.            *)
(*                                                                         *)
(* While no two objects are in use at once (OneInv), the file of a run     *)
(* that saves is a prefix of the messages of its object (PrefixInv), so    *)
(* the last of the saves under way leaves all of them there (FileInv), and *)
(* the index too when no metadata was late (IndexInv).  Nobody but the     *)
(* holder of the lock moves an index forward (LockInv), and only over      *)
(* messages it has archived (HiddenInv) for the first time (OnceInv): a    *)
(* message of a turn to come is nowhere yet (UnsaidInv).                   *)
(***************************************************************************)
EXTENDS SessionStore, TLAPS, SequenceTheorems, FiniteSetTheorems

InUse(o) == cache = o \/ \E q \in Runs : run[q].hold = o

(* The locals of a run fit its phase.                                      *)
PhaseInv ==
    /\ \A r \in Runs :
         /\ run[r].hold = None <=> run[r].pc \in {"idle", "loading", "done"}
         /\ run[r].after \in {"done", "estimating", "invalidating"}
         /\ run[r].after # "done" => run[r].pc \in {"saving", "created", "writing", "saved"}
         /\ run[r].pc \in {"idle", "loading"} => ~InUse(r)
         /\ run[r].pc = "storing" => run[r].hold = r
         /\ run[r].after = "invalidating" \/ run[r].pc = "invalidating" => "reset" \in trouble
    /\ "torn" \in trouble => "crash" \in trouble

LockInv ==
    \A r \in Runs :
        run[r].pc \in {"picking", "archiving", "marking"} => Obj(r).index <= run[r].end

OneInv == Without({"split"}) => \A o, p \in Runs : InUse(o) /\ InUse(p) => o = p

Prefix(s, t) == Len(s) <= Len(t) /\ \A i \in 1..Len(s) : s[i] = t[i]

ClearedUnsaved == \E q \in Runs : run[q].pc = "saving" /\ run[q].after = "invalidating"

PrefixInv ==
    /\ Without({"split"})
    /\ Without({"reset"}) \/ (Without({"unsaved"}) /\ ~ClearedUnsaved)
    => \A r \in Runs : run[r].pc \in {"created", "writing"} =>
                          Prefix(file.messages, Obj(r).messages)

(* An empty object there is because the file could not be read.            *)
Unsaved(o) ==
    /\ objs[o] = Empty
    /\ cache = o \/ \E q \in Runs : run[q].pc = "storing" /\ run[q].hold = o
    /\ \A q \in Runs : run[q].pc \notin {"writing", "saved", "invalidating"}

FileInv ==
    /\ Without({"split", "unsaved", "torn"})
    /\ \A q \in Runs : ~Changing(q)
    => \A o \in Runs : InUse(o) =>
            file.messages = objs[o].messages \/ ("unread" \in trouble /\ Unsaved(o))

IndexInv ==
    /\ Without({"split", "unsaved", "torn", "stale"})
    /\ \A q \in Runs : run[q].pc \notin {"adding", "saving", "created"}
    => \A o \in Runs : InUse(o) => file.index = objs[o].index \/ Unsaved(o)

Archived(s) == \A m \in s : history[m] > 0

HiddenInv ==
    Without({"split", "reset", "unarchived"}) =>
        /\ Archived(Hidden(file))
        /\ \A r \in Runs :
             /\ Archived(Hidden(objs[r]))
             /\ run[r].pc \in {"picking", "archiving", "marking"} =>
                  run[r].end <= Len(Obj(r).messages)
             /\ run[r].pc = "archiving" =>
                  \A i \in (Obj(r).index + 1)..run[r].end :
                      Obj(r).messages[i] \in Range(run[r].chunk)
             /\ run[r].pc = "marking" =>
                  \A i \in 1..run[r].end : history[Obj(r).messages[i]] > 0
             /\ run[r].pc \in {"answering", "adding"} => InRange(Obj(r))
             /\ run[r].pc \in {"created", "writing"} => file.index <= Obj(r).index
             /\ run[r].pc = "created" => run[r].meta <= Obj(r).index

BeforeTurn(q) ==
    \/ run[q].pc \in {"idle", "loading", "storing", "consolidating", "estimating",
                      "picking", "archiving", "marking", "reading", "answering"}
    \/ run[q].after = "estimating"

Unsaid(q, m) ==
    \/ BeforeTurn(q) /\ m \in {UserOf(q), AssistantOf(q)}
    \/ run[q].pc = "adding" /\ m = AssistantOf(q)

UnsaidInv ==
    \A q \in Runs, m \in Message : Unsaid(q, m) =>
        /\ history[m] = 0
        /\ m \notin Range(file.messages)
        /\ \A o \in Runs : m \notin Range(objs[o].messages) /\ m \notin Range(run[o].chunk)

Distinct(s) == \A i, k \in DOMAIN s : s[i] = s[k] => i = k

(* An index up to which a consolidation under way has archived.            *)
Marked(i) == \E q \in Runs : run[q].pc = "marking" /\ i <= run[q].end

OnceInv ==
    Without({"split", "crash", "unsaved", "stale"}) =>
        /\ \A m \in Message : history[m] <= 1
        /\ \/ \E o \in Runs : InUse(o)
           \/ /\ Distinct(file.messages)
              /\ \A i \in DOMAIN file.messages :
                   i > file.index => history[file.messages[i]] = 0
        /\ \A o \in Runs : InUse(o) =>
             /\ Distinct(objs[o].messages)
             /\ \A i \in DOMAIN objs[o].messages :
                  i > objs[o].index => history[objs[o].messages[i]] = 0 \/ Marked(i)
        /\ \A r \in Runs : run[r].pc = "archiving" =>
             /\ Distinct(run[r].chunk)
             /\ \A m \in Range(run[r].chunk) : history[m] = 0
             /\ \A i \in DOMAIN Obj(r).messages :
                  i > run[r].end => Obj(r).messages[i] \notin Range(run[r].chunk)

IInv == /\ TypeOK /\ PhaseInv /\ LockInv /\ OneInv /\ PrefixInv /\ FileInv /\ IndexInv
        /\ HiddenInv /\ UnsaidInv /\ OnceInv

-----------------------------------------------------------------------------
(* Sequences of messages.                                                  *)

LEMMA Elements ==
    ASSUME NEW S, NEW s \in Seq(S)
    PROVE  /\ Len(s) \in Nat /\ DOMAIN s = 1..Len(s)
           /\ \A i \in 1..Len(s) : s[i] \in S
           /\ Range(s) = {s[i] : i \in 1..Len(s)}
  BY LenProperties, ElementOfSeq, RangeEquality

(* What two writers leave, each at its own offset.                         *)
LEMMA OverwriteProperties ==
    ASSUME NEW S, NEW new \in Seq(S), NEW old \in Seq(S)
    PROVE  /\ Overwrite(new, old) \in Seq(S)
           /\ Len(Overwrite(new, old)) = IF Len(new) < Len(old) THEN Len(old) ELSE Len(new)
           /\ \A i \in 1..Len(Overwrite(new, old)) :
                Overwrite(new, old)[i] = IF i <= Len(new) THEN new[i] ELSE old[i]
<1> DEFINE rest == SubSeq(old, Len(new) + 1, Len(old))
           both == new \o rest
<1>1. Len(new) \in Nat /\ Len(old) \in Nat /\ \A i \in 1..Len(old) : old[i] \in S
  BY Elements
<1>2. /\ rest \in Seq(S)
      /\ Len(rest) = IF Len(new) + 1 <= Len(old) THEN Len(old) - (Len(new) + 1) + 1 ELSE 0
      /\ \A i \in 1..(Len(old) - (Len(new) + 1) + 1) : rest[i] = old[(Len(new) + 1) + i - 1]
  <2>1. \A i \in (Len(new) + 1)..Len(old) : old[i] \in S
    BY <1>1
  <2>2. Len(new) + 1 \in Int /\ Len(old) \in Int
    BY <1>1
  <2> QED
    BY <2>1, <2>2, SubSeqProperties
<1> HIDE DEF rest
<1>3. /\ both \in Seq(S) /\ Len(both) = Len(new) + Len(rest)
      /\ \A i \in 1..(Len(new) + Len(rest)) :
           both[i] = IF i <= Len(new) THEN new[i] ELSE rest[i - Len(new)]
  BY <1>2, ConcatProperties
<1>4. Overwrite(new, old) = both
  BY DEF Overwrite, rest
<1> HIDE DEF both
<1>5. Len(both) = IF Len(new) < Len(old) THEN Len(old) ELSE Len(new)
  <2>1. CASE Len(new) < Len(old)
    <3>1. Len(rest) = Len(old) - Len(new)
      BY <1>1, <1>2, <2>1
    <3> QED
      BY <1>1, <1>3, <2>1, <3>1
  <2>2. CASE ~(Len(new) < Len(old))
    <3>1. Len(rest) = 0
      BY <1>1, <1>2, <2>2
    <3> QED
      BY <1>1, <1>3, <2>2, <3>1
  <2> QED
    BY <2>1, <2>2
<1>6. ASSUME NEW i \in 1..Len(both)
      PROVE  both[i] = IF i <= Len(new) THEN new[i] ELSE old[i]
  <2>1. i \in 1..(Len(new) + Len(rest)) /\ i \in Nat
    BY <1>1, <1>3
  <2>2. CASE i <= Len(new)
    BY <1>3, <2>1, <2>2
  <2>3. CASE ~(i <= Len(new))
    <3>1. /\ i - Len(new) \in 1..(Len(old) - (Len(new) + 1) + 1)
          /\ (Len(new) + 1) + (i - Len(new)) - 1 = i
      BY <1>1, <1>5, <2>1, <2>3
    <3>2. rest[i - Len(new)] = old[(Len(new) + 1) + (i - Len(new)) - 1]
      BY <1>2, <3>1, Zenon
    <3> QED
      BY <1>3, <2>1, <2>3, <3>1, <3>2
  <2> QED
    BY <2>2, <2>3
<1> QED
  BY <1>3, <1>4, <1>5, <1>6

LEMMA OverwritePrefix ==
    ASSUME NEW S, NEW new \in Seq(S), NEW old \in Seq(S), Prefix(old, new)
    PROVE  Overwrite(new, old) = new
<1>1. Len(new) \in Nat /\ Len(old) \in Nat /\ Len(old) <= Len(new)
  BY Elements DEF Prefix
<1>2. Len(Overwrite(new, old)) = Len(new)
  BY <1>1, OverwriteProperties
<1>3. \A i \in 1..Len(Overwrite(new, old)) : Overwrite(new, old)[i] = new[i]
  BY <1>1, <1>2, OverwriteProperties
<1> QED
  BY <1>2, <1>3, OverwriteProperties, SeqEqual

(* The first n of a sequence.                                              *)
LEMMA FirstOnes ==
    ASSUME NEW S, NEW s \in Seq(S), NEW n \in 0..Len(s)
    PROVE  /\ SubSeq(s, 1, n) \in Seq(S) /\ Len(SubSeq(s, 1, n)) = n
           /\ \A i \in 1..n : SubSeq(s, 1, n)[i] = s[i]
<1>1. Len(s) \in Nat /\ n \in Int /\ 1 \in Int /\ \A i \in 1..n : s[i] \in S
  BY Elements
<1>2. /\ SubSeq(s, 1, n) \in Seq(S)
      /\ Len(SubSeq(s, 1, n)) = IF 1 <= n THEN n - 1 + 1 ELSE 0
      /\ \A i \in 1..(n - 1 + 1) : SubSeq(s, 1, n)[i] = s[1 + i - 1]
  BY <1>1, SubSeqProperties
<1>3. n - 1 + 1 = n /\ \A i \in 1..n : 1 + i - 1 = i
  BY <1>1
<1> QED
  BY <1>1, <1>2, <1>3

(* What a writer makes of the file when it has written its first n.        *)
LEMMA WrittenProperties ==
    ASSUME TypeOK, NEW w \in Runs, run[w].hold \in Runs,
           NEW n \in 0..Len(Obj(w).messages), NEW content,
           content = [file EXCEPT !.messages =
                        Overwrite(SubSeq(Obj(w).messages, 1, n), file.messages)]
    PROVE  /\ content \in Content /\ content.index = file.index
           /\ Range(content.messages) \subseteq Range(file.messages) \cup Range(Obj(w).messages)
           /\ Prefix(file.messages, Obj(w).messages) => Prefix(content.messages, Obj(w).messages)
           /\ n = Len(Obj(w).messages)
                => content.messages = Overwrite(Obj(w).messages, file.messages)
<1> DEFINE all == Obj(w).messages
           front == SubSeq(all, 1, n)
           old == file.messages
           new == Overwrite(front, old)
<1>1. /\ old \in Seq(Message) /\ all \in Seq(Message)
      /\ file = [messages |-> old, index |-> file.index] /\ file.index \in Nat
  BY DEF TypeOK, Content, Obj
<1>2. content = [messages |-> new, index |-> file.index] /\ n \in 0..Len(all)
  BY <1>1
<1> HIDE DEF all, old
<1>3. /\ front \in Seq(Message) /\ Len(front) = n /\ Len(all) \in Nat
      /\ \A i \in 1..n : front[i] = all[i]
  BY <1>1, <1>2, FirstOnes, Elements
<1>4. n = Len(all) => front = all
  BY <1>1, <1>3, SeqEqual
<1> HIDE DEF front
<1>5. /\ new \in Seq(Message) /\ Len(old) \in Nat
      /\ Len(new) = IF n < Len(old) THEN Len(old) ELSE n
      /\ \A i \in 1..Len(new) : new[i] = IF i <= n THEN all[i] ELSE old[i]
  <2>1. /\ new \in Seq(Message)
        /\ Len(new) = IF Len(front) < Len(old) THEN Len(old) ELSE Len(front)
        /\ \A i \in 1..Len(new) : new[i] = IF i <= Len(front) THEN front[i] ELSE old[i]
    BY <1>1, <1>3, OverwriteProperties
  <2>2. n = Len(all) => new = Overwrite(all, old)
    BY <1>4
  <2> HIDE DEF new
  <2>3. Len(old) \in Nat /\ Len(new) \in Nat
    BY <1>1, <2>1, Elements
  <2> QED
    BY <1>2, <1>3, <2>1, <2>3
<1>6. n = Len(all) => new = Overwrite(all, old)
  BY <1>4
<1> HIDE DEF new
<1>7. Range(new) \subseteq Range(old) \cup Range(all)
  <2>1. Range(new) = {new[i] : i \in 1..Len(new)} /\ Range(old) = {old[i] : i \in 1..Len(old)}
        /\ Range(all) = {all[i] : i \in 1..Len(all)} /\ Len(new) \in Nat
    BY <1>1, <1>5, Elements
  <2>2. \A i \in 1..Len(new) : new[i] \in Range(old) \cup Range(all)
    BY <1>2, <1>3, <1>5, <2>1
  <2> QED
    BY <2>1, <2>2
<1>8. Prefix(old, all) => Prefix(new, all)
  <2>1. Len(new) \in Nat
    BY <1>5, Elements
  <2> QED
    BY <1>2, <1>3, <1>5, <2>1 DEF Prefix
<1>9. content \in Content /\ content.index = file.index /\ content.messages = new
  <2>1. content = [messages |-> new, index |-> file.index]
    BY <1>1, <1>2 DEF Content
  <2>2. new \in Seq(Message)
    BY <1>5
  <2>3. file.index \in Nat
    BY <1>1
  <2>4. \A m \in Seq(Message), i \in Nat :
           LET c == [messages |-> m, index |-> i]
           IN  c \in Content /\ c.index = i /\ c.messages = m
    BY DEF Content
  <2> QED
    BY <2>1, <2>2, <2>3, <2>4, Zenon
<1> QED
  BY <1>6, <1>7, <1>8, <1>9 DEF all, old

(* What a reader or a crash may find: the file, or as much of it           *)
(* overwritten as one of the writers has got to.                           *)
LEMMA PartialProperties ==
    ASSUME TypeOK, PhaseInv, NEW content \in Partial
    PROVE  /\ content \in Content /\ content.index = file.index
           /\ \/ content = file
              \/ \E w \in Runs :
                   /\ run[w].pc = "writing" /\ run[w].hold \in Runs
                   /\ Range(content.messages)
                        \subseteq Range(file.messages) \cup Range(Obj(w).messages)
                   /\ Prefix(file.messages, Obj(w).messages)
                        => Prefix(content.messages, Obj(w).messages)
<1>1. CASE content = file
  BY <1>1 DEF TypeOK
<1>2. CASE content # file
  <2>1. PICK w \in Runs :
          /\ run[w].pc = "writing"
          /\ content \in {[file EXCEPT !.messages = Overwrite(SubSeq(Obj(w).messages, 1, n), @)] :
                           n \in 0..Len(Obj(w).messages)}
    BY <1>2 DEF Partial, At
  <2>2. PICK n \in 0..Len(Obj(w).messages) :
          content = [file EXCEPT !.messages =
                       Overwrite(SubSeq(Obj(w).messages, 1, n), file.messages)]
    BY <2>1
  <2>3. run[w].hold \in Runs
    BY <2>1 DEF TypeOK, Locals, PhaseInv
  <2> QED
    BY <2>1, <2>2, <2>3, WrittenProperties
<1> QED
  BY <1>1, <1>2

(* SaveMessages writes all of the messages, or fails with some of them.    *)
LEMMA SavedMessages ==
    ASSUME TypeOK, PhaseInv, NEW r \in Runs, SaveMessages(r)
    PROVE  /\ file' \in Content /\ file'.index = file.index
           /\ Range(file'.messages) \subseteq Range(file.messages) \cup Range(Obj(r).messages)
           /\ Prefix(file.messages, Obj(r).messages) => Prefix(file'.messages, Obj(r).messages)
           /\ \/ /\ trouble' = trouble
                 /\ file'.messages = Overwrite(Obj(r).messages, file.messages)
              \/ trouble' = trouble \cup {"unsaved"}
<1>1. PICK n \in 0..Len(Obj(r).messages) :
        /\ file' = [file EXCEPT !.messages =
                       Overwrite(SubSeq(Obj(r).messages, 1, n), file.messages)]
        /\ trouble' = IF n = Len(Obj(r).messages) THEN trouble ELSE trouble \cup {"unsaved"}
  BY DEF SaveMessages
<1>2. run[r].hold \in Runs
  BY DEF SaveMessages, At, TypeOK, Locals, PhaseInv
<1>3. /\ file' \in Content /\ file'.index = file.index
      /\ Range(file'.messages) \subseteq Range(file.messages) \cup Range(Obj(r).messages)
      /\ Prefix(file.messages, Obj(r).messages) => Prefix(file'.messages, Obj(r).messages)
      /\ n = Len(Obj(r).messages) => file'.messages = Overwrite(Obj(r).messages, file.messages)
  BY <1>1, <1>2, WrittenProperties
<1> QED
  BY <1>1, <1>3

LEMMA NewOnes ==
    /\ Empty \in Content /\ Empty.messages = <<>> /\ Empty.index = 0
    /\ \A phase \in Phases : Begun(phase) \in Locals
<1>1. <<>> \in Seq(Message)
  BY EmptySeq
<1> QED
  BY <1>1 DEF Empty, Content, Begun, Locals, Phases

(* The chunk of a consolidation.                                           *)
LEMMA ChunkProperties ==
    ASSUME TypeOK, NEW r \in Runs, run[r].hold \in Runs
    PROVE  /\ UpTo(r) \in Nat /\ UpTo(r) <= run[r].end
           /\ UpTo(r) <= Len(Obj(r).messages)
           /\ run[r].end <= Len(Obj(r).messages) => UpTo(r) = run[r].end
           /\ ChunkOf(r) \in Seq(Message)
           /\ DOMAIN ChunkOf(r) = 1..Len(ChunkOf(r)) /\ Len(ChunkOf(r)) \in Nat
           /\ \A k \in 1..Len(ChunkOf(r)) :
                /\ k + Obj(r).index \in 1..UpTo(r)
                /\ ChunkOf(r)[k] = Obj(r).messages[k + Obj(r).index]
           /\ \A i \in (Obj(r).index + 1)..UpTo(r) :
                /\ i - Obj(r).index \in 1..Len(ChunkOf(r))
                /\ ChunkOf(r)[i - Obj(r).index] = Obj(r).messages[i]
<1> DEFINE s == Obj(r).messages
           m == Obj(r).index
           n == UpTo(r)
           c == ChunkOf(r)
<1>1. s \in Seq(Message) /\ m \in Nat /\ run[r].end \in Nat
  BY DEF TypeOK, Obj, Content, Locals
<1>2. Len(s) \in Nat /\ \A i \in 1..Len(s) : s[i] \in Message
  BY <1>1, Elements
<1>3. /\ n \in Nat /\ n <= run[r].end /\ n <= Len(s)
      /\ run[r].end <= Len(s) => n = run[r].end
  BY <1>1, <1>2 DEF UpTo
<1>4. c = SubSeq(s, m + 1, n)
  BY DEF ChunkOf
<1> HIDE DEF s, m, n, c
<1>5. /\ c \in Seq(Message)
      /\ Len(c) = IF m + 1 <= n THEN n - (m + 1) + 1 ELSE 0
      /\ \A k \in 1..(n - (m + 1) + 1) : c[k] = s[(m + 1) + k - 1]
  <2>1. m + 1 \in Int /\ n \in Int /\ \A i \in (m + 1)..n : s[i] \in Message
    BY <1>1, <1>2, <1>3
  <2> QED
    BY <1>4, <2>1, SubSeqProperties
<1>6. DOMAIN c = 1..Len(c) /\ Len(c) \in Nat
  BY <1>5, Elements
<1>7. ASSUME NEW k \in 1..Len(c) PROVE k + m \in 1..n /\ c[k] = s[k + m]
  <2>1. m + 1 <= n /\ Len(c) = n - m
    BY <1>1, <1>3, <1>5, <1>6, <1>7
  <2>2. k \in 1..(n - (m + 1) + 1) /\ (m + 1) + k - 1 = k + m /\ k + m \in 1..n
    BY <1>1, <1>3, <2>1
  <2> QED
    BY <1>5, <2>2
<1>8. ASSUME NEW i \in (m + 1)..n PROVE i - m \in 1..Len(c) /\ c[i - m] = s[i]
  <2>1. m + 1 <= n /\ Len(c) = n - m
    BY <1>1, <1>3, <1>5
  <2>2. i - m \in 1..(n - (m + 1) + 1) /\ (m + 1) + (i - m) - 1 = i /\ i - m \in 1..Len(c)
    BY <1>1, <1>3, <2>1
  <2> QED
    BY <1>5, <2>2
<1> QED
  BY <1>3, <1>5, <1>6, <1>7, <1>8 DEF s, m, n, c

(* How often a chunk has a message.                                        *)
LEMMA CountProperties ==
    ASSUME NEW s \in Seq(Message), NEW m
    PROVE  LET times == Cardinality({i \in DOMAIN s : s[i] = m})
           IN  /\ times \in Nat
               /\ m \in Range(s) <=> times > 0
               /\ Distinct(s) => times <= 1
<1> DEFINE I == {i \in DOMAIN s : s[i] = m}
<1>1. DOMAIN s = 1..Len(s) /\ Len(s) \in Nat
  BY Elements
<1>2. IsFiniteSet(I)
  <2>1. IsFiniteSet(1..Len(s)) /\ I \in SUBSET (1..Len(s))
    BY <1>1, FS_Interval
  <2> QED
    BY <2>1, FS_Subset
<1>3. Cardinality(I) \in Nat
  BY <1>2, FS_CardinalityType
<1>4. m \in Range(s) <=> I # {}
  BY DEF Range
<1>5. Cardinality(I) = 0 <=> I = {}
  BY <1>2, FS_EmptySet
<1>6. ASSUME Distinct(s) PROVE Cardinality(I) <= 1
  <2>1. CASE I = {}
    BY <1>5, <2>1
  <2>2. CASE I # {}
    <3>1. PICK i \in I : TRUE
      BY <2>2
    <3>2. I = {i}
      BY <1>6, <3>1 DEF Distinct
    <3>3. Cardinality(I) = 1
      BY <3>2, FS_Singleton
    <3> QED
      BY <3>3
  <2> QED
    BY <2>1, <2>2
<1> QED
  BY <1>3, <1>4, <1>5, <1>6

-----------------------------------------------------------------------------
(* Types.                                                                  *)

Typed ==
    /\ cache \in Runs \cup {None}
    /\ objs \in [Runs -> Content] /\ file \in Content
    /\ history \in [Message -> Nat]
    /\ run \in [Runs -> Locals]
    /\ trouble \subseteq {"split", "unread", "reset", "unsaved", "unarchived",
                           "crash", "torn", "stale"}
    /\ lock \in Runs \cup {None}

(* A run in some phase but the first and the last ones has its object.     *)
LEMMA HasObject ==
    ASSUME TypeOK, PhaseInv, NEW r \in Runs, run[r].pc \notin {"idle", "loading", "done"}
    PROVE  /\ run[r].hold \in Runs /\ Obj(r) \in Content
           /\ Obj(r).messages \in Seq(Message) /\ Obj(r).index \in Nat
<1>1. run[r].hold \in Runs
  BY DEF TypeOK, Locals, PhaseInv
<1> QED
  BY <1>1 DEF TypeOK, Content, Obj

(* What a step makes of the locals of its run.                             *)
Becomes(r, pc, hold, after, meta, end, chunk) ==
    /\ run' \in [Runs -> Locals]
    /\ run'[r] = [pc |-> pc, hold |-> hold, after |-> after, meta |-> meta,
                  end |-> end, chunk |-> chunk]
    /\ \A q \in Runs : q # r => run'[q] = run[q]

Goes(r, pc) ==
    Becomes(r, pc, run[r].hold, run[r].after, run[r].meta, run[r].end, run[r].chunk)
Ends(r) == Becomes(r, "done", None, "done", 0, 0, <<>>)
Uses(r, obj) ==
    \/ Ends(r)
    \/ \E pc \in {"clearing", "consolidating"} :
         Becomes(r, pc, obj, run[r].after, run[r].meta, run[r].end, run[r].chunk)
Returns(r) ==
    \/ run[r].after = "done" /\ Ends(r)
    \/ /\ run[r].after # "done"
       /\ Becomes(r, run[r].after, run[r].hold, "done", 0, run[r].end, run[r].chunk)
Leaves(r) ==
    Becomes(r, "reading", run[r].hold, run[r].after, run[r].meta, 0, <<>>)

LEMMA Updates ==
    ASSUME run \in [Runs -> Locals], NEW r \in Runs,
           NEW pc \in Phases, NEW hold \in Runs \cup {None}, NEW after \in Phases,
           NEW meta \in Nat, NEW end \in Nat, NEW chunk \in Seq(Message)
    PROVE  LET l == run[r] IN
           /\ run' = [run EXCEPT ![r].pc = pc] => Goes(r, pc)
           /\ run' = [run EXCEPT ![r].pc = pc, ![r].hold = hold]
                => Becomes(r, pc, hold, l.after, l.meta, l.end, l.chunk)
           /\ run' = [run EXCEPT ![r].pc = pc, ![r].after = after]
                => Becomes(r, pc, l.hold, after, l.meta, l.end, l.chunk)
           /\ run' = [run EXCEPT ![r].pc = pc, ![r].after = after, ![r].meta = meta]
                => Becomes(r, pc, l.hold, after, meta, l.end, l.chunk)
           /\ run' = [run EXCEPT ![r].pc = pc, ![r].meta = meta]
                => Becomes(r, pc, l.hold, l.after, meta, l.end, l.chunk)
           /\ run' = [run EXCEPT ![r].pc = pc, ![r].end = end]
                => Becomes(r, pc, l.hold, l.after, l.meta, end, l.chunk)
           /\ run' = [run EXCEPT ![r].pc = pc, ![r].chunk = chunk]
                => Becomes(r, pc, l.hold, l.after, l.meta, l.end, chunk)
           /\ run' = [run EXCEPT ![r].pc = pc, ![r].end = end, ![r].chunk = chunk]
                => Becomes(r, pc, l.hold, l.after, l.meta, end, chunk)
           /\ run' = [run EXCEPT ![r].pc = pc, ![r].after = after, ![r].end = end]
                => Becomes(r, pc, l.hold, after, l.meta, end, l.chunk)
<1> DEFINE l == run[r]
<1>1. /\ l \in Locals
      /\ l = [pc |-> l.pc, hold |-> l.hold, after |-> l.after, meta |-> l.meta,
              end |-> l.end, chunk |-> l.chunk]
  BY DEF Locals
<1>2. ASSUME NEW new \in Locals, run' = [run EXCEPT ![r] = new]
      PROVE  /\ run' \in [Runs -> Locals] /\ run'[r] = new
             /\ \A q \in Runs : q # r => run'[q] = run[q]
  BY <1>2
<1>3. ASSUME run' = [run EXCEPT ![r].pc = pc] PROVE Goes(r, pc)
  BY <1>1, <1>2, <1>3 DEF Goes, Becomes, Locals
<1>4. ASSUME run' = [run EXCEPT ![r].pc = pc, ![r].hold = hold]
      PROVE  Becomes(r, pc, hold, l.after, l.meta, l.end, l.chunk)
  BY <1>1, <1>2, <1>4 DEF Becomes, Locals
<1>5. ASSUME run' = [run EXCEPT ![r].pc = pc, ![r].after = after]
      PROVE  Becomes(r, pc, l.hold, after, l.meta, l.end, l.chunk)
  BY <1>1, <1>2, <1>5 DEF Becomes, Locals
<1>6. ASSUME run' = [run EXCEPT ![r].pc = pc, ![r].after = after, ![r].meta = meta]
      PROVE  Becomes(r, pc, l.hold, after, meta, l.end, l.chunk)
  BY <1>1, <1>2, <1>6 DEF Becomes, Locals
<1>7. ASSUME run' = [run EXCEPT ![r].pc = pc, ![r].meta = meta]
      PROVE  Becomes(r, pc, l.hold, l.after, meta, l.end, l.chunk)
  BY <1>1, <1>2, <1>7 DEF Becomes, Locals
<1>8. ASSUME run' = [run EXCEPT ![r].pc = pc, ![r].end = end]
      PROVE  Becomes(r, pc, l.hold, l.after, l.meta, end, l.chunk)
  BY <1>1, <1>2, <1>8 DEF Becomes, Locals
<1>9. ASSUME run' = [run EXCEPT ![r].pc = pc, ![r].chunk = chunk]
      PROVE  Becomes(r, pc, l.hold, l.after, l.meta, l.end, chunk)
  BY <1>1, <1>2, <1>9 DEF Becomes, Locals
<1>10. ASSUME run' = [run EXCEPT ![r].pc = pc, ![r].end = end, ![r].chunk = chunk]
       PROVE  Becomes(r, pc, l.hold, l.after, l.meta, end, chunk)
  BY <1>1, <1>2, <1>10 DEF Becomes, Locals
<1>11. ASSUME run' = [run EXCEPT ![r].pc = pc, ![r].after = after, ![r].end = end]
       PROVE  Becomes(r, pc, l.hold, after, l.meta, end, l.chunk)
  BY <1>1, <1>2, <1>11 DEF Becomes, Locals
<1> QED
  BY <1>3, <1>4, <1>5, <1>6, <1>7, <1>8, <1>9, <1>10, <1>11

LEMMA Moves ==
    ASSUME TypeOK, PhaseInv, NEW r \in Runs
    PROVE  /\ Hit(r) => Uses(r, cache)
           /\ Miss(r) => Goes(r, "loading")
           /\ \A content : Loaded(r, content) =>
                Becomes(r, "storing", r, run[r].after, run[r].meta, run[r].end, run[r].chunk)
           /\ StoreInCache(r) => Uses(r, r)
           /\ SaveFails(r) \/ SaveCache(r) => Returns(r)
           /\ SaveCreate(r) => Becomes(r, "created", run[r].hold, run[r].after,
                                       Obj(r).index, run[r].end, run[r].chunk)
           /\ SaveMeta(r) => Becomes(r, "writing", run[r].hold, run[r].after,
                                     0, run[r].end, run[r].chunk)
           /\ SaveMessages(r) => Goes(r, "saved")
           /\ NothingToConsolidate(r) => Goes(r, "reading")
           /\ TakeLock(r) => Goes(r, "estimating")
           /\ Leave(r) => Leaves(r)
           /\ PickBoundary(r) => \E i \in Boundaries(Obj(r)) :
                Becomes(r, "picking", run[r].hold, run[r].after, run[r].meta, i, run[r].chunk)
           /\ TakeChunk(r) => Becomes(r, "archiving", run[r].hold, run[r].after,
                                      run[r].meta, run[r].end, ChunkOf(r))
           /\ Archive(r) \/ ArchiveLost(r) =>
                Becomes(r, "marking", run[r].hold, run[r].after, run[r].meta, run[r].end, <<>>)
           /\ Mark(r) => Becomes(r, "saving", run[r].hold, "estimating", run[r].meta, 0,
                                 run[r].chunk)
           /\ ReadHistory(r) => Goes(r, "answering")
           /\ AddUserMessage(r) => Goes(r, "adding")
           /\ AddAssistantMessage(r) => Becomes(r, "saving", run[r].hold, "done",
                                                run[r].meta, run[r].end, run[r].chunk)
           /\ Clear(r) => Becomes(r, "saving", run[r].hold, "invalidating",
                                  run[r].meta, run[r].end, run[r].chunk)
           /\ TurnFails(r) \/ Invalidate(r) \/ Finish(r) => Ends(r)
<1> USE DEF At
<1>1. run \in [Runs -> Locals] /\ run[r] \in Locals
  BY DEF TypeOK
<1>2. /\ "idle" \in Phases /\ "loading" \in Phases /\ "storing" \in Phases
      /\ "consolidating" \in Phases /\ "estimating" \in Phases /\ "picking" \in Phases
      /\ "archiving" \in Phases /\ "marking" \in Phases /\ "reading" \in Phases
      /\ "answering" \in Phases /\ "adding" \in Phases /\ "clearing" \in Phases
      /\ "saving" \in Phases /\ "created" \in Phases /\ "writing" \in Phases
      /\ "saved" \in Phases /\ "invalidating" \in Phases /\ "done" \in Phases
  BY DEF Phases
<1>3. /\ run[r].hold \in Runs \cup {None} /\ run[r].after \in Phases
      /\ run[r].meta \in Nat /\ run[r].end \in Nat /\ run[r].chunk \in Seq(Message)
      /\ cache \in Runs \cup {None} /\ <<>> \in Seq(Message) /\ None \in Runs \cup {None}
  BY <1>1, EmptySeq DEF Locals, TypeOK
<1>4. ASSUME Finish(r) PROVE Ends(r)
  <2>1. Begun("done") = [pc |-> "done", hold |-> None, after |-> "done", meta |-> 0,
                         end |-> 0, chunk |-> <<>>]
    BY DEF Begun
  <2>2. Begun("done") \in Locals
    BY <1>2, NewOnes
  <2> QED
    BY <1>1, <1>4, <2>1, <2>2 DEF Finish, Ends, Becomes
<1>5. ASSUME NEW obj \in Runs \cup {None}, Use(r, obj) PROVE Uses(r, obj)
  <2>1. CASE run' = [run EXCEPT ![r].pc = "clearing", ![r].hold = obj]
    BY <1>1, <1>2, <1>3, <2>1, Updates DEF Uses
  <2>2. CASE run' = [run EXCEPT ![r].pc = "consolidating", ![r].hold = obj]
    BY <1>1, <1>2, <1>3, <2>2, Updates DEF Uses
  <2> QED
    BY <1>4, <1>5, <2>1, <2>2 DEF Use, Uses
<1>6. ASSUME NEW pc \in Phases, Goto(r, pc) PROVE Goes(r, pc)
  BY <1>1, <1>3, <1>6, Updates DEF Goto
<1>7. ASSUME NEW content, Loaded(r, content)
      PROVE  Becomes(r, "storing", r, run[r].after, run[r].meta, run[r].end, run[r].chunk)
  <2>1. run' = [run EXCEPT ![r].pc = "storing", ![r].hold = r] /\ r \in Runs \cup {None}
    BY <1>7 DEF Loaded
  <2> QED
    BY <1>1, <1>2, <1>3, <2>1, Updates
<1>8. ASSUME Return(r) PROVE Returns(r)
  <2>1. CASE run[r].after = "done"
    BY <1>4, <1>8, <2>1 DEF Return, Returns
  <2>2. CASE run[r].after # "done"
    <3>1. run' = [run EXCEPT ![r].pc = run[r].after, ![r].after = "done", ![r].meta = 0]
      BY <1>8, <2>2 DEF Return
    <3> QED
      BY <1>1, <1>2, <1>3, <2>2, <3>1, Updates DEF Returns
  <2> QED
    BY <2>1, <2>2
<1>9. SaveFails(r) \/ SaveCache(r) => Returns(r)
  BY <1>8 DEF SaveFails, SaveCache
<1>10. ASSUME SaveCreate(r)
       PROVE  Becomes(r, "created", run[r].hold, run[r].after, Obj(r).index, run[r].end,
                      run[r].chunk)
  <2>1. Obj(r).index \in Nat
    BY <1>10, HasObject DEF SaveCreate
  <2>2. run' = [run EXCEPT ![r].pc = "created", ![r].meta = Obj(r).index]
    BY <1>10 DEF SaveCreate
  <2> QED
    BY <1>1, <1>2, <1>3, <2>1, <2>2, Updates
<1>11. ASSUME SaveMeta(r)
       PROVE  Becomes(r, "writing", run[r].hold, run[r].after, 0, run[r].end, run[r].chunk)
  <2>1. run' = [run EXCEPT ![r].pc = "writing", ![r].meta = 0]
    BY <1>11 DEF SaveMeta
  <2> QED
    BY <1>1, <1>2, <1>3, <2>1, Updates
<1>12. ASSUME Leave(r) PROVE Leaves(r)
  <2>1. run' = [run EXCEPT ![r].pc = "reading", ![r].end = 0, ![r].chunk = <<>>]
    BY <1>12 DEF Leave
  <2> QED
    BY <1>1, <1>2, <1>3, <2>1, Updates DEF Leaves
<1>13. ASSUME PickBoundary(r)
       PROVE  \E i \in Boundaries(Obj(r)) :
                Becomes(r, "picking", run[r].hold, run[r].after, run[r].meta, i, run[r].chunk)
  <2>1. PICK i \in Boundaries(Obj(r)) : run' = [run EXCEPT ![r].pc = "picking", ![r].end = i]
    BY <1>13 DEF PickBoundary
  <2>2. i \in Nat
    BY <1>13, HasObject, Elements DEF PickBoundary, Boundaries
  <2> QED
    BY <1>1, <1>2, <1>3, <2>1, <2>2, Updates
<1>14. ASSUME TakeChunk(r)
       PROVE  Becomes(r, "archiving", run[r].hold, run[r].after, run[r].meta, run[r].end,
                      ChunkOf(r))
  <2>1. ChunkOf(r) \in Seq(Message)
    BY <1>14, HasObject, ChunkProperties DEF TakeChunk
  <2>2. run' = [run EXCEPT ![r].pc = "archiving", ![r].chunk = ChunkOf(r)]
    BY <1>14 DEF TakeChunk
  <2> QED
    BY <1>1, <1>2, <1>3, <2>1, <2>2, Updates, ZenonT(60)
<1>15. ASSUME Archive(r) \/ ArchiveLost(r)
       PROVE  Becomes(r, "marking", run[r].hold, run[r].after, run[r].meta, run[r].end, <<>>)
  <2>1. run' = [run EXCEPT ![r].pc = "marking", ![r].chunk = <<>>]
    BY <1>15 DEF Archive, ArchiveLost
  <2> QED
    BY <1>1, <1>2, <1>3, <2>1, Updates
<1>16. ASSUME Mark(r)
       PROVE  Becomes(r, "saving", run[r].hold, "estimating", run[r].meta, 0, run[r].chunk)
  <2>1. run' = [run EXCEPT ![r].pc = "saving", ![r].after = "estimating", ![r].end = 0]
    BY <1>16 DEF Mark
  <2> QED
    BY <1>1, <1>2, <1>3, <2>1, Updates
<1>17. ASSUME NEW after \in Phases, CallSave(r, after)
       PROVE  Becomes(r, "saving", run[r].hold, after, run[r].meta, run[r].end, run[r].chunk)
  <2>1. run' = [run EXCEPT ![r].pc = "saving", ![r].after = after]
    BY <1>17 DEF CallSave
  <2> QED
    BY <1>1, <1>2, <1>3, <2>1, Updates
<1>18. /\ Hit(r) => Uses(r, cache)
       /\ StoreInCache(r) => Uses(r, r)
  BY <1>3, <1>5 DEF Hit, StoreInCache
<1>19. /\ Miss(r) => Goes(r, "loading")
       /\ SaveMessages(r) => Goes(r, "saved")
       /\ NothingToConsolidate(r) => Goes(r, "reading")
       /\ TakeLock(r) => Goes(r, "estimating")
       /\ ReadHistory(r) => Goes(r, "answering")
       /\ AddUserMessage(r) => Goes(r, "adding")
  BY <1>2, <1>6
     DEF Miss, SaveMessages, NothingToConsolidate, TakeLock, ReadHistory, AddUserMessage
<1>20. /\ AddAssistantMessage(r) => Becomes(r, "saving", run[r].hold, "done",
                                            run[r].meta, run[r].end, run[r].chunk)
       /\ Clear(r) => Becomes(r, "saving", run[r].hold, "invalidating",
                              run[r].meta, run[r].end, run[r].chunk)
  BY <1>2, <1>17 DEF AddAssistantMessage, Clear
<1>21. TurnFails(r) \/ Invalidate(r) \/ Finish(r) => Ends(r)
  BY <1>4 DEF TurnFails, Invalidate
<1> QED
  BY <1>7, <1>9, <1>10, <1>11, <1>12, <1>13, <1>14, <1>15, <1>16, <1>18, <1>19, <1>20, <1>21

(* The end of a process.                                                   *)
LEMMA Deaths ==
    ASSUME TypeOK, Die
    PROVE  /\ cache' = None /\ lock' = None /\ file' \in Partial /\ history' = history
           /\ \A r \in Runs : objs'[r] = Empty
           /\ run' \in [Runs -> Locals]
           /\ \A r \in Runs : IF run[r].pc = "idle" THEN run'[r] = run[r]
                              ELSE run'[r] = [pc |-> "done", hold |-> None, after |-> "done",
                                              meta |-> 0, end |-> 0, chunk |-> <<>>]
           /\ trouble \subseteq trouble' /\ "crash" \in trouble'
           /\ "torn" \in trouble' \/ \A r \in Runs : run[r].pc \notin {"created", "writing"}
           /\ trouble' \subseteq trouble \cup {"crash", "torn"}
<1>1. Begun("done") \in Locals
  <2>1. "done" \in Phases
    BY DEF Phases
  <2> QED
    BY <2>1, NewOnes
<1>2. \A r \in Runs : run'[r] = IF run[r].pc = "idle" THEN run[r] ELSE Begun("done")
  BY DEF Die, At
<1>3. run' \in [Runs -> Locals]
  BY <1>1 DEF Die, TypeOK
<1>4. \A r \in Runs : run[r].pc \in {"created", "writing"} => "torn" \in trouble'
  BY DEF Die, At
<1>5. trouble' \subseteq trouble \cup {"crash", "torn"} /\ trouble \subseteq trouble'
      /\ "crash" \in trouble'
  BY DEF Die
<1>6. \A r \in Runs : objs'[r] = Empty
  BY DEF Die
<1> QED
  BY <1>2, <1>3, <1>4, <1>5, <1>6 DEF Die, Begun

LEMMA TypedStep ==
    ASSUME TypeOK, PhaseInv, [Next]_vars
    PROVE  Typed'
<1>0. Empty \in Content
  BY NewOnes
<1>1. CASE UNCHANGED vars
  BY <1>1 DEF vars, TypeOK, Typed
<1>2. CASE Die
  <2>1. file' \in Content
    BY <1>2, PartialProperties DEF Die
  <2> QED
    BY <1>2, <1>0, <2>1, Deaths DEF Die, TypeOK, Typed
<1>3. ASSUME NEW r \in Runs,
             Hit(r) \/ Miss(r) \/ StoreInCache(r) \/ SaveFails(r) \/ NothingToConsolidate(r)
             \/ TakeLock(r) \/ Leave(r) \/ PickBoundary(r) \/ TakeChunk(r) \/ ReadHistory(r)
             \/ TurnFails(r) \/ Invalidate(r) \/ ArchiveLost(r)
      PROVE  Typed'
  <2>1. run' \in [Runs -> Locals]
    BY <1>3, Moves DEF Uses, Goes, Returns, Leaves, Ends, Becomes
  <2>2. /\ UNCHANGED <<objs, file, history>>
        /\ cache' \in {cache, None, r} /\ lock' \in {lock, None, r}
        /\ trouble' \subseteq trouble \cup {"split", "unsaved", "unarchived"}
    BY <1>3 DEF Hit, Miss, StoreInCache, SaveFails, NothingToConsolidate, TakeLock, Leave,
                PickBoundary, TakeChunk, ReadHistory, TurnFails, Invalidate, ArchiveLost, Split
  <2> QED
    BY <1>3, <2>1, <2>2 DEF TypeOK, Typed
<1>4. ASSUME NEW r \in Runs, NEW content \in Content, Loaded(r, content),
             trouble' \subseteq trouble \cup {"split", "unread"}
      PROVE  Typed'
  <2>1. run' \in [Runs -> Locals]
    BY <1>4, Moves DEF Becomes
  <2>2. objs' \in [Runs -> Content]
    BY <1>4 DEF Loaded, TypeOK
  <2> QED
    BY <1>4, <2>1, <2>2 DEF Loaded, TypeOK, Typed
<1>5. ASSUME NEW r \in Runs, Load(r) PROVE Typed'
  BY <1>4, <1>5, PartialProperties DEF Load, Split
<1>6. ASSUME NEW r \in Runs, LoadFails(r) PROVE Typed'
  BY <1>0, <1>4, <1>6 DEF LoadFails, Split
<1>7. ASSUME NEW r \in Runs, SaveCreate(r) \/ SaveMeta(r) \/ SaveMessages(r) PROVE Typed'
  <2>1. run' \in [Runs -> Locals]
    BY <1>7, Moves DEF Goes, Becomes
  <2>2. /\ file.messages \in Seq(Message) /\ Obj(r).messages \in Seq(Message)
        /\ run[r].meta \in Nat /\ file \in Content
    BY <1>7, HasObject DEF SaveCreate, SaveMeta, SaveMessages, At, TypeOK, Content, Locals
  <2>3. SaveMessages(r) => file' \in Content /\ trouble' \subseteq trouble \cup {"unsaved"}
    BY SavedMessages
  <2>4. file' \in Content
    BY <1>0, <1>7, <2>2, <2>3 DEF SaveCreate, SaveMeta, Content
  <2>5. /\ UNCHANGED <<cache, objs, lock, history>>
        /\ trouble' \subseteq trouble \cup {"stale", "unsaved"}
    BY <1>7, <2>3 DEF SaveCreate, SaveMeta, SaveMessages, Stale
  <2> QED
    BY <2>1, <2>4, <2>5 DEF TypeOK, Typed
<1>8. ASSUME NEW r \in Runs, SaveCache(r) PROVE Typed'
  <2>1. cache' \in Runs
    BY <1>8, HasObject DEF SaveCache, At
  <2>2. run' \in [Runs -> Locals]
    BY <1>8, Moves DEF Returns, Ends, Becomes
  <2> QED
    BY <1>8, <2>1, <2>2 DEF SaveCache, TypeOK, Typed
<1>9. ASSUME NEW r \in Runs, Archive(r) PROVE Typed'
  <2>1. run[r].chunk \in Seq(Message)
    BY DEF Locals, TypeOK
  <2>2. \A m \in Message : Cardinality({i \in DOMAIN run[r].chunk : run[r].chunk[i] = m}) \in Nat
    BY <2>1, CountProperties
  <2>3. history' \in [Message -> Nat]
    BY <1>9, <2>2, SMTT(30) DEF Archive, TypeOK
  <2>4. run' \in [Runs -> Locals]
    BY <1>9, Moves DEF Becomes
  <2> QED
    BY <1>9, <2>3, <2>4 DEF Archive, TypeOK, Typed
<1>10. ASSUME NEW r \in Runs, Mark(r) PROVE Typed'
  <2>1. run[r].hold \in Runs /\ run[r].end \in Nat
    BY <1>10, HasObject DEF Mark, At, Locals, TypeOK
  <2>2. objs' \in [Runs -> Content]
    BY <1>10, <2>1 DEF Mark, Content, TypeOK
  <2>3. run' \in [Runs -> Locals]
    BY <1>10, Moves DEF Becomes
  <2> QED
    BY <1>10, <2>2, <2>3 DEF Mark, TypeOK, Typed
<1>11. ASSUME NEW r \in Runs, AddUserMessage(r) \/ AddAssistantMessage(r) PROVE Typed'
  <2>1. run[r].hold \in Runs /\ Obj(r).messages \in Seq(Message) /\ Obj(r).index \in Nat
    BY <1>11, HasObject DEF AddUserMessage, AddAssistantMessage, At
  <2>2. PICK m \in {UserOf(r), AssistantOf(r)} : Add(r, m)
    BY <1>11 DEF AddUserMessage, AddAssistantMessage
  <2>3. m \in Message
    BY <2>2 DEF UserOf, AssistantOf, Message
  <2>4. Append(Obj(r).messages, m) \in Seq(Message)
    BY <2>1, <2>3, AppendProperties
  <2>5. objs' \in [Runs -> Content]
    BY <2>1, <2>2, <2>4 DEF Add, Obj, Content, TypeOK
  <2>6. run' \in [Runs -> Locals]
    BY <1>11, Moves DEF Goes, Becomes
  <2> QED
    BY <2>2, <2>5, <2>6 DEF Add, TypeOK, Typed
<1>12. ASSUME NEW r \in Runs, Clear(r) PROVE Typed'
  <2>1. run' \in [Runs -> Locals]
    BY <1>12, Moves DEF Becomes
  <2> QED
    BY <1>0, <1>12, <2>1 DEF Clear, TypeOK, Typed
<1>13. ASSUME NEW r \in Runs, Panic(r) PROVE Typed'
  <2>1. CASE Die
    BY <1>2, <2>1
  <2>2. CASE /\ lock' = IF lock = r THEN None ELSE lock
             /\ Finish(r)
             /\ UNCHANGED <<cache, objs, file, history, trouble>>
    <3>1. run' \in [Runs -> Locals]
      BY <2>2, Moves DEF Ends, Becomes
    <3> QED
      BY <2>2, <3>1 DEF TypeOK, Typed
  <2> QED
    BY <1>13, <2>1, <2>2 DEF Panic
<1> QED
  BY <1>1, <1>2, <1>3, <1>5, <1>6, <1>7, <1>8, <1>9, <1>10, <1>11, <1>12, <1>13
     DEF Next, Crash, EndConsolidation, NoChunk, ArchiveFails

(* The way of a run from phase to phase.                                   *)
Path(r, from, to, hold, after) ==
    /\ run[r].pc = from /\ run'[r].pc = to /\ run'[r].hold = hold /\ run'[r].after = after
    /\ \A q \in Runs : q # r => run'[q] = run[q]

LEMMA Paths ==
    ASSUME TypeOK, PhaseInv, NEW r \in Runs
    PROVE  LET hold == run[r].hold
               after == run[r].after
           IN
           /\ Hit(r) => \/ Path(r, "idle", "done", None, "done")
                        \/ Path(r, "idle", "clearing", cache, "done")
                        \/ Path(r, "idle", "consolidating", cache, "done")
           /\ Miss(r) => Path(r, "idle", "loading", None, "done")
           /\ \A content : Loaded(r, content) => Path(r, "loading", "storing", r, "done")
           /\ StoreInCache(r) => /\ hold = r
                                 /\ \/ Path(r, "storing", "done", None, "done")
                                    \/ Path(r, "storing", "clearing", r, "done")
                                    \/ Path(r, "storing", "consolidating", r, "done")
           /\ SaveFails(r) => \E from \in {"saving", "created"} :
                                  \/ after = "done" /\ Path(r, from, "done", None, "done")
                                  \/ after # "done" /\ Path(r, from, after, hold, "done")
           /\ SaveCreate(r) => Path(r, "saving", "created", hold, after)
           /\ SaveMeta(r) => Path(r, "created", "writing", hold, after)
           /\ SaveMessages(r) => Path(r, "writing", "saved", hold, after)
           /\ SaveCache(r) => \/ after = "done" /\ Path(r, "saved", "done", None, "done")
                              \/ after # "done" /\ Path(r, "saved", after, hold, "done")
           /\ NothingToConsolidate(r) => Path(r, "consolidating", "reading", hold, "done")
           /\ TakeLock(r) => Path(r, "consolidating", "estimating", hold, "done")
           /\ EndConsolidation(r) => Path(r, "estimating", "reading", hold, "done")
           /\ PickBoundary(r) => Path(r, "estimating", "picking", hold, "done")
           /\ NoChunk(r) => Path(r, "picking", "reading", hold, "done")
           /\ TakeChunk(r) => Path(r, "picking", "archiving", hold, "done")
           /\ Archive(r) \/ ArchiveLost(r) => Path(r, "archiving", "marking", hold, "done")
           /\ ArchiveFails(r) => Path(r, "archiving", "reading", hold, "done")
           /\ Mark(r) => Path(r, "marking", "saving", hold, "estimating")
           /\ ReadHistory(r) => Path(r, "reading", "answering", hold, "done")
           /\ TurnFails(r) => Path(r, "answering", "done", None, "done")
           /\ AddUserMessage(r) => Path(r, "answering", "adding", hold, "done")
           /\ AddAssistantMessage(r) => Path(r, "adding", "saving", hold, "done")
           /\ Clear(r) => Path(r, "clearing", "saving", hold, "invalidating")
           /\ Invalidate(r) => Path(r, "invalidating", "done", None, "done")
           /\ Panic(r) /\ ~Die => \/ Path(r, "estimating", "done", None, "done")
                                 \/ Path(r, "reading", "done", None, "done")
<1> USE DEF At
<1>1. /\ run[r].pc \notin {"saving", "created", "writing", "saved"} => run[r].after = "done"
      /\ run[r].pc \in {"idle", "loading"} => run[r].hold = None
      /\ run[r].pc = "storing" => run[r].hold = r
  BY DEF PhaseInv
<1>2. ASSUME Hit(r)
      PROVE  \/ Path(r, "idle", "done", None, "done")
             \/ Path(r, "idle", "clearing", cache, "done")
             \/ Path(r, "idle", "consolidating", cache, "done")
  <2>1. Uses(r, cache) /\ run[r].pc = "idle"
    BY <1>2, Moves DEF Hit
  <2> QED
    BY <1>1, <2>1 DEF Uses, Ends, Becomes, Path
<1>3. ASSUME Miss(r)
      PROVE  Path(r, "idle", "loading", None, "done")
  <2>1. Goes(r, "loading") /\ run[r].pc = "idle"
    BY <1>3, Moves DEF Miss
  <2> QED
    BY <1>1, <2>1 DEF Goes, Becomes, Path
<1>4. ASSUME NEW content, Loaded(r, content)
      PROVE  Path(r, "loading", "storing", r, "done")
  <2>1. /\ Becomes(r, "storing", r, run[r].after, run[r].meta, run[r].end, run[r].chunk)
        /\ run[r].pc = "loading"
    BY <1>4, Moves DEF Loaded
  <2> QED
    BY <1>1, <2>1 DEF Becomes, Path
<1>5. ASSUME StoreInCache(r)
      PROVE  /\ run[r].hold = r
             /\ \/ Path(r, "storing", "done", None, "done")
                \/ Path(r, "storing", "clearing", r, "done")
                \/ Path(r, "storing", "consolidating", r, "done")
  <2>1. Uses(r, r) /\ run[r].pc = "storing"
    BY <1>5, Moves DEF StoreInCache
  <2> QED
    BY <1>1, <2>1 DEF Uses, Ends, Becomes, Path
<1>6. ASSUME SaveFails(r)
      PROVE  \E from \in {"saving", "created"} :
                 \/ run[r].after = "done" /\ Path(r, from, "done", None, "done")
                 \/ run[r].after # "done" /\ Path(r, from, run[r].after, run[r].hold, "done")
  <2>1. Returns(r) /\ run[r].pc \in {"saving", "created"}
    BY <1>6, Moves DEF SaveFails
  <2> QED
    BY <1>1, <2>1 DEF Returns, Ends, Becomes, Path
<1>7. ASSUME SaveCreate(r)
      PROVE  Path(r, "saving", "created", run[r].hold, run[r].after)
  <2>1. /\ Becomes(r, "created", run[r].hold, run[r].after, Obj(r).index, run[r].end,
                   run[r].chunk)
        /\ run[r].pc = "saving"
    BY <1>7, Moves DEF SaveCreate
  <2> QED
    BY <1>1, <2>1 DEF Becomes, Path
<1>8. ASSUME SaveMeta(r)
      PROVE  Path(r, "created", "writing", run[r].hold, run[r].after)
  <2>1. /\ Becomes(r, "writing", run[r].hold, run[r].after, 0, run[r].end, run[r].chunk)
        /\ run[r].pc = "created"
    BY <1>8, Moves DEF SaveMeta
  <2> QED
    BY <1>1, <2>1 DEF Becomes, Path
<1>9. ASSUME SaveMessages(r)
      PROVE  Path(r, "writing", "saved", run[r].hold, run[r].after)
  <2>1. Goes(r, "saved") /\ run[r].pc = "writing"
    BY <1>9, Moves DEF SaveMessages
  <2> QED
    BY <1>1, <2>1 DEF Goes, Becomes, Path
<1>10. ASSUME SaveCache(r)
      PROVE  \/ run[r].after = "done" /\ Path(r, "saved", "done", None, "done")
             \/ run[r].after # "done" /\ Path(r, "saved", run[r].after, run[r].hold, "done")
  <2>1. Returns(r) /\ run[r].pc = "saved"
    BY <1>10, Moves DEF SaveCache
  <2> QED
    BY <1>1, <2>1 DEF Returns, Ends, Becomes, Path
<1>11. ASSUME NothingToConsolidate(r)
      PROVE  Path(r, "consolidating", "reading", run[r].hold, "done")
  <2>1. Goes(r, "reading") /\ run[r].pc = "consolidating"
    BY <1>11, Moves DEF NothingToConsolidate
  <2> QED
    BY <1>1, <2>1 DEF Goes, Becomes, Path
<1>12. ASSUME TakeLock(r)
      PROVE  Path(r, "consolidating", "estimating", run[r].hold, "done")
  <2>1. Goes(r, "estimating") /\ run[r].pc = "consolidating"
    BY <1>12, Moves DEF TakeLock
  <2> QED
    BY <1>1, <2>1 DEF Goes, Becomes, Path
<1>13. ASSUME EndConsolidation(r)
      PROVE  Path(r, "estimating", "reading", run[r].hold, "done")
  <2>1. Leaves(r) /\ run[r].pc = "estimating"
    BY <1>13, Moves DEF EndConsolidation
  <2> QED
    BY <1>1, <2>1 DEF Leaves, Becomes, Path
<1>14. ASSUME PickBoundary(r)
      PROVE  Path(r, "estimating", "picking", run[r].hold, "done")
  <2>1. /\ \E i : Becomes(r, "picking", run[r].hold, run[r].after, run[r].meta, i,
                         run[r].chunk)
        /\ run[r].pc = "estimating"
    BY <1>14, Moves DEF PickBoundary
  <2> QED
    BY <1>1, <2>1 DEF Becomes, Path
<1>15. ASSUME NoChunk(r)
      PROVE  Path(r, "picking", "reading", run[r].hold, "done")
  <2>1. Leaves(r) /\ run[r].pc = "picking"
    BY <1>15, Moves DEF NoChunk
  <2> QED
    BY <1>1, <2>1 DEF Leaves, Becomes, Path
<1>16. ASSUME TakeChunk(r)
      PROVE  Path(r, "picking", "archiving", run[r].hold, "done")
  <2>1. /\ Becomes(r, "archiving", run[r].hold, run[r].after, run[r].meta, run[r].end,
                   ChunkOf(r))
        /\ run[r].pc = "picking"
    BY <1>16, Moves DEF TakeChunk
  <2> QED
    BY <1>1, <2>1 DEF Becomes, Path
<1>17. ASSUME Archive(r) \/ ArchiveLost(r)
      PROVE  Path(r, "archiving", "marking", run[r].hold, "done")
  <2>1. /\ Becomes(r, "marking", run[r].hold, run[r].after, run[r].meta, run[r].end, <<>>)
        /\ run[r].pc = "archiving"
    BY <1>17, Moves DEF Archive, ArchiveLost
  <2> QED
    BY <1>1, <2>1 DEF Becomes, Path
<1>18. ASSUME ArchiveFails(r)
      PROVE  Path(r, "archiving", "reading", run[r].hold, "done")
  <2>1. Leaves(r) /\ run[r].pc = "archiving"
    BY <1>18, Moves DEF ArchiveFails
  <2> QED
    BY <1>1, <2>1 DEF Leaves, Becomes, Path
<1>19. ASSUME Mark(r)
      PROVE  Path(r, "marking", "saving", run[r].hold, "estimating")
  <2>1. /\ Becomes(r, "saving", run[r].hold, "estimating", run[r].meta, 0, run[r].chunk)
        /\ run[r].pc = "marking"
    BY <1>19, Moves DEF Mark
  <2> QED
    BY <1>1, <2>1 DEF Becomes, Path
<1>20. ASSUME ReadHistory(r)
      PROVE  Path(r, "reading", "answering", run[r].hold, "done")
  <2>1. Goes(r, "answering") /\ run[r].pc = "reading"
    BY <1>20, Moves DEF ReadHistory
  <2> QED
    BY <1>1, <2>1 DEF Goes, Becomes, Path
<1>21. ASSUME TurnFails(r)
      PROVE  Path(r, "answering", "done", None, "done")
  <2>1. Ends(r) /\ run[r].pc = "answering"
    BY <1>21, Moves DEF TurnFails
  <2> QED
    BY <1>1, <2>1 DEF Ends, Becomes, Path
<1>22. ASSUME AddUserMessage(r)
      PROVE  Path(r, "answering", "adding", run[r].hold, "done")
  <2>1. Goes(r, "adding") /\ run[r].pc = "answering"
    BY <1>22, Moves DEF AddUserMessage
  <2> QED
    BY <1>1, <2>1 DEF Goes, Becomes, Path
<1>23. ASSUME AddAssistantMessage(r)
      PROVE  Path(r, "adding", "saving", run[r].hold, "done")
  <2>1. /\ Becomes(r, "saving", run[r].hold, "done", run[r].meta, run[r].end, run[r].chunk)
        /\ run[r].pc = "adding"
    BY <1>23, Moves DEF AddAssistantMessage
  <2> QED
    BY <1>1, <2>1 DEF Becomes, Path
<1>24. ASSUME Clear(r)
      PROVE  Path(r, "clearing", "saving", run[r].hold, "invalidating")
  <2>1. /\ Becomes(r, "saving", run[r].hold, "invalidating", run[r].meta, run[r].end,
                   run[r].chunk)
        /\ run[r].pc = "clearing"
    BY <1>24, Moves DEF Clear
  <2> QED
    BY <1>1, <2>1 DEF Becomes, Path
<1>25. ASSUME Invalidate(r)
      PROVE  Path(r, "invalidating", "done", None, "done")
  <2>1. Ends(r) /\ run[r].pc = "invalidating"
    BY <1>25, Moves DEF Invalidate
  <2> QED
    BY <1>1, <2>1 DEF Ends, Becomes, Path
<1>26. ASSUME Panic(r) /\ ~Die
      PROVE  \/ Path(r, "estimating", "done", None, "done")
             \/ Path(r, "reading", "done", None, "done")
  <2>1. Ends(r) /\ run[r].pc \in {"estimating", "reading"}
    BY <1>26, Moves DEF Panic
  <2> QED
    BY <1>1, <2>1 DEF Ends, Becomes, Path
<1> QED
  BY <1>2, <1>3, <1>4, <1>5, <1>6, <1>7, <1>8, <1>9, <1>10, <1>11, <1>12, <1>13, <1>14,
     <1>15, <1>16, <1>17, <1>18, <1>19, <1>20, <1>21, <1>22, <1>23, <1>24, <1>25, <1>26

(* A step that leaves the lock with whom it was.                           *)
Same(r) ==
    /\ lock' = lock /\ \A q \in Runs : q # r => run'[q] = run[q]
    /\ Consolidating(r)' <=> Consolidating(r)

(* Who is in a consolidation holds the lock.                               *)
LEMMA LockStep ==
    ASSUME TypeOK, PhaseInv, [Next]_vars
    PROVE  (\A r \in Runs : Consolidating(r) <=> lock = r)'
<1>0. \A q \in Runs : Consolidating(q) <=> lock = q
  BY DEF TypeOK
<1>n. None \notin Runs
  BY SessionAssumption DEF SessionAssumption
<1>k. ASSUME NEW r \in Runs, Same(r) PROVE \A q \in Runs : Consolidating(q)' <=> lock' = q
  BY <1>0, <1>k DEF Same, Consolidating
<1>p. ASSUME NEW r \in Runs, NEW from, NEW to, NEW hold, NEW after,
             Path(r, from, to, hold, after), lock' = lock,
             LET C == {"estimating", "picking", "archiving", "marking"}
             IN  from \in C \/ run[r].after = "estimating" <=> to \in C \/ after = "estimating"
      PROVE  Same(r)
  BY <1>p DEF Same, Path, Consolidating
<1>a. \A r \in Runs : run[r].pc \notin {"saving", "created", "writing", "saved"} =>
        run[r].after = "done"
  BY DEF PhaseInv
<1>1. CASE UNCHANGED vars
  BY <1>0, <1>1 DEF vars, Consolidating
<1>2. CASE Die
  <2>1. ASSUME NEW q \in Runs PROVE ~Consolidating(q)'
    <3>1. CASE run[q].pc = "idle"
      <4>1. run'[q] = run[q] /\ run[q].after = "done"
        BY <1>2, <1>a, <3>1, Deaths
      <4> QED
        BY <3>1, <4>1 DEF Consolidating
    <3>2. CASE run[q].pc # "idle"
      BY <1>2, <3>2, Deaths DEF Consolidating
    <3> QED
      BY <3>1, <3>2
  <2> QED
    BY <1>2, <1>n, <2>1, Deaths
<1>3. ASSUME NEW r \in Runs,
             Hit(r) \/ Miss(r) \/ (\E content : Loaded(r, content)) \/ StoreInCache(r)
      PROVE  Same(r)
  <2>1. lock' = lock
    BY <1>3 DEF Hit, Miss, Loaded, StoreInCache
  <2>2. \E from \in {"idle", "loading", "storing"},
           to \in {"done", "clearing", "consolidating", "loading", "storing"} :
           \E hold : Path(r, from, to, hold, "done")
    BY <1>3, Paths
  <2> QED
    BY <1>a, <1>p, <2>1, <2>2 DEF Path
<1>4. ASSUME NEW r \in Runs,
             NothingToConsolidate(r) \/ ReadHistory(r) \/ TurnFails(r) \/ Invalidate(r)
             \/ AddUserMessage(r) \/ AddAssistantMessage(r) \/ Clear(r)
      PROVE  Same(r)
  <2>1. lock' = lock
    BY <1>4 DEF NothingToConsolidate, ReadHistory, TurnFails, Invalidate, AddUserMessage,
                AddAssistantMessage, Add, Clear
  <2>2. \E from \in {"consolidating", "reading", "answering", "invalidating", "adding", "clearing"},
           to \in {"reading", "answering", "done", "adding", "saving"},
           after \in {"done", "invalidating"} : \E hold : Path(r, from, to, hold, after)
    BY <1>4, Paths
  <2> QED
    BY <1>a, <1>p, <2>1, <2>2 DEF Path
<1>5. ASSUME NEW r \in Runs,
             PickBoundary(r) \/ TakeChunk(r) \/ Archive(r) \/ ArchiveLost(r) \/ Mark(r)
      PROVE  Same(r)
  <2>1. lock' = lock
    BY <1>5 DEF PickBoundary, TakeChunk, Archive, ArchiveLost, Mark
  <2>2. \E from \in {"estimating", "picking", "archiving", "marking"} : \E to, hold, after :
          /\ Path(r, from, to, hold, after)
          /\ to \in {"picking", "archiving", "marking"} \/ after = "estimating"
    BY <1>5, Paths
  <2> QED
    BY <1>p, <2>1, <2>2
<1>6. ASSUME NEW r \in Runs, SaveCreate(r) \/ SaveMeta(r) \/ SaveMessages(r) PROVE Same(r)
  <2>1. lock' = lock
    BY <1>6 DEF SaveCreate, SaveMeta, SaveMessages
  <2>2. \E from \in {"saving", "created", "writing"}, to \in {"created", "writing", "saved"} :
          \E hold : Path(r, from, to, hold, run[r].after)
    BY <1>6, Paths
  <2> QED
    BY <1>p, <2>1, <2>2
<1>7. ASSUME NEW r \in Runs, SaveFails(r) \/ SaveCache(r) PROVE Same(r)
  <2>1. lock' = lock /\ run[r].after \in {"done", "estimating", "invalidating"}
    BY <1>7 DEF SaveFails, SaveCache, PhaseInv
  <2>2. \E from \in {"saving", "created", "saved"} : \E hold : Path(r, from, run[r].after, hold, "done")
    BY <1>7, Paths
  <2> QED
    BY <1>p, <2>1, <2>2
<1>8. ASSUME NEW r \in Runs, TakeLock(r) PROVE \A q \in Runs : Consolidating(q)' <=> lock' = q
  <2>1. lock = None /\ lock' = r
    BY <1>8 DEF TakeLock
  <2>2. Path(r, "consolidating", "estimating", run[r].hold, "done")
    BY <1>8, Paths
  <2> QED
    BY <1>0, <1>n, <2>1, <2>2 DEF Path, Consolidating
<1>9. ASSUME NEW r \in Runs, EndConsolidation(r) \/ NoChunk(r) \/ ArchiveFails(r)
      PROVE  \A q \in Runs : Consolidating(q)' <=> lock' = q
  <2>1. lock' = None
    BY <1>9 DEF EndConsolidation, NoChunk, ArchiveFails, Leave
  <2>2. \E from \in {"estimating", "picking", "archiving"} :
          Path(r, from, "reading", run[r].hold, "done")
    BY <1>9, Paths
  <2>3. Consolidating(r) /\ ~Consolidating(r)' /\ \A q \in Runs : q # r => run'[q] = run[q]
    BY <2>2 DEF Path, Consolidating
  <2> QED
    BY <1>0, <1>n, <2>1, <2>3 DEF Consolidating
<1>10. ASSUME NEW r \in Runs, Panic(r), ~Die
       PROVE  \A q \in Runs : Consolidating(q)' <=> lock' = q
  <2>1. lock' = IF lock = r THEN None ELSE lock
    BY <1>10 DEF Panic
  <2>2. \E from : Path(r, from, "done", None, "done")
    BY <1>10, Paths
  <2>3. ~Consolidating(r)' /\ \A q \in Runs : q # r => run'[q] = run[q]
    BY <2>2 DEF Path, Consolidating
  <2> QED
    BY <1>0, <1>n, <2>1, <2>3 DEF Consolidating
<1> QED
  BY <1>1, <1>2, <1>3, <1>4, <1>5, <1>6, <1>7, <1>8, <1>9, <1>10, <1>k
     DEF Next, Crash, Panic, Load, LoadFails

LEMMA TypeStep ==
    ASSUME TypeOK, PhaseInv, [Next]_vars
    PROVE  TypeOK'
  BY TypedStep, LockStep DEF Typed, TypeOK

-----------------------------------------------------------------------------
(* The phases, the objects in use, and the lock.                           *)

(* An object comes into use when its run loads it.                         *)
LEMMA UseStep ==
    ASSUME TypeOK, PhaseInv, [Next]_vars, NEW o \in Runs, InUse(o)'
    PROVE  InUse(o) \/ Load(o) \/ LoadFails(o)
<1>n. None \notin Runs
  BY SessionAssumption DEF SessionAssumption
<1>p. ASSUME NEW r \in Runs, NEW from, NEW to, NEW hold, NEW after,
             Path(r, from, to, hold, after), hold \in {None, run[r].hold, cache},
             cache' \in {None, cache, run[r].hold}
      PROVE  InUse(o)
  BY <1>n, <1>p DEF Path, InUse
<1>1. CASE UNCHANGED vars
  BY <1>1 DEF vars, InUse
<1>2. CASE Die
  <2>1. cache' = None
    BY <1>2, Deaths
  <2>2. PICK q \in Runs : run'[q].hold = o
    BY <1>n, <2>1 DEF InUse
  <2>3. run'[q] = run[q]
    BY <1>2, <1>n, <2>2, Deaths
  <2> QED
    BY <2>2, <2>3 DEF InUse
<1>3. ASSUME NEW r \in Runs, Load(r) \/ LoadFails(r)
      PROVE  InUse(o) \/ Load(o) \/ LoadFails(o)
  <2>1. PICK content : Loaded(r, content)
    BY <1>3 DEF Load, LoadFails
  <2>2. cache' = cache /\ Path(r, "loading", "storing", r, "done")
    BY <2>1, Paths DEF Loaded
  <2> QED
    BY <1>3, <2>2 DEF Path, InUse
<1>4. ASSUME NEW r \in Runs,
             Hit(r) \/ Miss(r) \/ NothingToConsolidate(r) \/ TakeLock(r) \/ EndConsolidation(r)
             \/ PickBoundary(r) \/ NoChunk(r) \/ TakeChunk(r) \/ Archive(r) \/ ArchiveLost(r)
             \/ ArchiveFails(r) \/ Mark(r)
      PROVE  InUse(o)
  <2>1. cache' = cache
    BY <1>4 DEF Hit, Miss, NothingToConsolidate, TakeLock, EndConsolidation, PickBoundary,
                NoChunk, TakeChunk, Archive, ArchiveLost, ArchiveFails, Leave, Mark
  <2>2. \E hold \in {None, run[r].hold, cache} : \E from, to, after : Path(r, from, to, hold, after)
    BY <1>4, Paths
  <2> QED
    BY <1>p, <2>1, <2>2
<1>5. ASSUME NEW r \in Runs,
             ReadHistory(r) \/ TurnFails(r) \/ AddUserMessage(r) \/ AddAssistantMessage(r)
             \/ Clear(r) \/ SaveFails(r) \/ SaveCreate(r) \/ SaveMeta(r) \/ SaveMessages(r)
      PROVE  InUse(o)
  <2>1. cache' = cache
    BY <1>5 DEF ReadHistory, TurnFails, AddUserMessage, AddAssistantMessage, Add, Clear,
                SaveFails, SaveCreate, SaveMeta, SaveMessages
  <2>2. \E hold \in {None, run[r].hold} : \E from, to, after : Path(r, from, to, hold, after)
    BY <1>5, Paths
  <2> QED
    BY <1>p, <2>1, <2>2
<1>6. ASSUME NEW r \in Runs,
             StoreInCache(r) \/ SaveCache(r) \/ Invalidate(r) \/ (Panic(r) /\ ~Die)
      PROVE  InUse(o)
  <2>1. \E hold \in {None, run[r].hold} : \E from, to, after : Path(r, from, to, hold, after)
    BY <1>6, Paths
  <2>2. cache' \in {None, cache, run[r].hold}
    BY <1>6, Paths DEF StoreInCache, SaveCache, Invalidate, Panic
  <2> QED
    BY <1>p, <2>1, <2>2
<1> QED
  BY <1>1, <1>2, <1>3, <1>4, <1>5, <1>6 DEF Next, Crash, Panic

LEMMA TroubleGrows ==
    ASSUME [Next]_vars
    PROVE  trouble \subseteq trouble'
  BY ZenonT(60) DEF Next, vars, Crash, Die, Hit, Miss, Load, LoadFails, StoreInCache, SaveFails, SaveCreate,
         SaveMeta, SaveMessages, SaveCache, NothingToConsolidate, TakeLock, EndConsolidation,
         PickBoundary, NoChunk, TakeChunk, Archive, ArchiveLost, ArchiveFails, Mark, ReadHistory,
         TurnFails, AddUserMessage, AddAssistantMessage, Add, Clear, Invalidate, Panic, Leave

LEMMA TroubleKinds ==
    ASSUME [Next]_vars
    PROVE  Die \/ trouble' \subseteq trouble \cup {"split", "unread", "unsaved", "unarchived",
                                                "reset", "stale"}
<1>1. ASSUME NEW r \in Runs,
             UNCHANGED vars \/ Hit(r) \/ Miss(r) \/ SaveCreate(r) \/ SaveCache(r)
             \/ NothingToConsolidate(r) \/ TakeLock(r) \/ EndConsolidation(r) \/ PickBoundary(r)
             \/ NoChunk(r) \/ TakeChunk(r) \/ Archive(r) \/ ArchiveFails(r) \/ Mark(r)
             \/ ReadHistory(r) \/ TurnFails(r) \/ AddUserMessage(r) \/ AddAssistantMessage(r)
             \/ Invalidate(r) \/ (Panic(r) /\ ~Die)
      PROVE  trouble' = trouble
  BY <1>1 DEF vars, Hit, Miss, SaveCreate, SaveCache, NothingToConsolidate, TakeLock,
              EndConsolidation, PickBoundary, NoChunk, TakeChunk, Archive, ArchiveFails, Leave, Mark,
              ReadHistory, TurnFails, AddUserMessage, AddAssistantMessage, Add, Invalidate, Panic
<1>2. ASSUME NEW r \in Runs, Load(r) \/ LoadFails(r) \/ StoreInCache(r) \/ SaveMeta(r)
      PROVE  trouble' \subseteq trouble \cup {"split", "unread", "stale"}
  BY <1>2 DEF Load, LoadFails, StoreInCache, SaveMeta, Split, Stale
<1>3. ASSUME NEW r \in Runs, SaveFails(r) \/ SaveMessages(r) \/ ArchiveLost(r) \/ Clear(r)
      PROVE  trouble' \subseteq trouble \cup {"unsaved", "unarchived", "reset"}
  BY <1>3 DEF SaveFails, SaveMessages, ArchiveLost, Clear
<1>4. UNCHANGED vars => trouble' = trouble
  BY DEF vars
<1> QED
  BY <1>1, <1>2, <1>3, <1>4 DEF Next, Crash, Panic

Fits(r) ==
    /\ run[r].hold = None <=> run[r].pc \in {"idle", "loading", "done"}
    /\ run[r].after \in {"done", "estimating", "invalidating"}
    /\ run[r].after # "done" => run[r].pc \in {"saving", "created", "writing", "saved"}
    /\ run[r].pc = "storing" => run[r].hold = r

LEMMA FitsStep ==
    ASSUME TypeOK, PhaseInv, [Next]_vars, NEW q \in Runs
    PROVE  Fits(q)'
<1>n. None \notin Runs
  BY SessionAssumption DEF SessionAssumption
<1>0. \A r \in Runs : Fits(r)
  BY DEF PhaseInv, Fits
<1>o. ASSUME run'[q] = run[q] PROVE Fits(q)'
  BY <1>0, <1>o DEF Fits
<1>p. ASSUME NEW r \in Runs, NEW from, NEW to, NEW hold, NEW after,
             Path(r, from, to, hold, after),
             hold = None <=> to \in {"idle", "loading", "done"},
             after \in {"done", "estimating", "invalidating"},
             after # "done" => to \in {"saving", "created", "writing", "saved"},
             to = "storing" => hold = r
      PROVE  Fits(q)'
  BY <1>o, <1>p DEF Path, Fits
<1>1. CASE UNCHANGED vars
  BY <1>o, <1>1 DEF vars
<1>2. CASE Die
  <2>1. CASE run[q].pc = "idle"
    BY <1>2, <1>o, <2>1, Deaths
  <2>2. CASE run[q].pc # "idle"
    BY <1>2, <2>2, Deaths DEF Fits
  <2> QED
    BY <2>1, <2>2
<1>3. ASSUME NEW r \in Runs, Hit(r) \/ StoreInCache(r) PROVE Fits(q)'
  <2>2. \/ \E from : Path(r, from, "done", None, "done")
        \/ \E from, hold : /\ \/ Path(r, from, "clearing", hold, "done")
                              \/ Path(r, from, "consolidating", hold, "done")
                           /\ hold # None
    BY <1>3, <1>n, Paths DEF Hit
  <2> QED
    BY <1>p, <2>2
<1>4. ASSUME NEW r \in Runs, Miss(r) \/ (\E content : Loaded(r, content)) PROVE Fits(q)'
  <2>1. \/ Path(r, "idle", "loading", None, "done")
        \/ Path(r, "loading", "storing", r, "done")
    BY <1>4, Paths
  <2> QED
    BY <1>n, <1>p, <2>1
<1>5. ASSUME NEW r \in Runs, SaveFails(r) \/ SaveCache(r) PROVE Fits(q)'
  <2>1. \/ \E from : Path(r, from, "done", None, "done")
        \/ \E from \in {"saving", "created", "saved"} :
             run[r].after # "done" /\ Path(r, from, run[r].after, run[r].hold, "done")
    BY <1>5, Paths
  <2>2. CASE \E from : Path(r, from, "done", None, "done")
    BY <1>p, <2>2
  <2>3. CASE \E from \in {"saving", "created", "saved"} :
               run[r].after # "done" /\ Path(r, from, run[r].after, run[r].hold, "done")
    <3>1. PICK from \in {"saving", "created", "saved"} :
            run[r].after # "done" /\ Path(r, from, run[r].after, run[r].hold, "done")
      BY <2>3
    <3>2. run[r].hold # None /\ run[r].after \in {"estimating", "invalidating"}
      BY <1>0, <3>1 DEF Fits, Path
    <3> QED
      BY <1>p, <3>1, <3>2
  <2> QED
    BY <2>1, <2>2, <2>3
<1>6. ASSUME NEW r \in Runs,
             SaveCreate(r) \/ SaveMeta(r) \/ SaveMessages(r) \/ Mark(r) \/ Clear(r)
             \/ AddAssistantMessage(r)
      PROVE  Fits(q)'
  <2>1. \E from \in {"saving", "created", "writing", "marking", "clearing", "adding"},
           to \in {"created", "writing", "saved", "saving"},
           after \in {run[r].after, "done", "estimating", "invalidating"} :
             Path(r, from, to, run[r].hold, after)
    BY <1>6, Paths
  <2>2. run[r].pc \in {"saving", "created", "writing", "marking", "clearing", "adding"}
    BY <2>1 DEF Path
  <2>3. run[r].hold # None /\ run[r].after \in {"done", "estimating", "invalidating"}
    BY <1>0, <2>2 DEF Fits
  <2> QED
    BY <1>p, <2>1, <2>3
<1>7. ASSUME NEW r \in Runs,
             NothingToConsolidate(r) \/ TakeLock(r) \/ EndConsolidation(r)
             \/ PickBoundary(r) \/ NoChunk(r) \/ TakeChunk(r) \/ Archive(r) \/ ArchiveLost(r)
             \/ ArchiveFails(r) \/ ReadHistory(r) \/ AddUserMessage(r)
      PROVE  Fits(q)'
  <2>1. \E from \in {"consolidating", "estimating", "picking", "archiving", "reading", "answering"},
           to \in {"reading", "estimating", "picking", "archiving", "marking", "answering", "adding"} :
             Path(r, from, to, run[r].hold, "done")
    BY <1>7, Paths
  <2>2. run[r].pc \in {"consolidating", "estimating", "picking", "archiving", "reading", "answering"}
    BY <2>1 DEF Path
  <2>3. run[r].hold # None
    BY <1>0, <2>2 DEF Fits
  <2> QED
    BY <1>p, <2>1, <2>3
<1>8. ASSUME NEW r \in Runs, TurnFails(r) \/ Invalidate(r) \/ (Panic(r) /\ ~Die) PROVE Fits(q)'
  <2>1. \E from : Path(r, from, "done", None, "done")
    BY <1>8, Paths
  <2> QED
    BY <1>p, <2>1
<1> QED
  BY <1>1, <1>2, <1>3, <1>4, <1>5, <1>6, <1>7, <1>8 DEF Next, Crash, Panic, Load, LoadFails

Early(q) == run[q].pc \in {"idle", "loading"}
Resets(q) == run[q].after = "invalidating" \/ run[q].pc = "invalidating"
Fine(q) == (Early(q)' => Early(q)) /\ (Resets(q)' => "reset" \in trouble')

LEMMA PhaseStep ==
    ASSUME TypeOK, PhaseInv, [Next]_vars
    PROVE  PhaseInv'
<1>0. \A q \in Runs : Resets(q) => "reset" \in trouble'
  BY TroubleGrows DEF PhaseInv, Resets
<1>o. ASSUME NEW q \in Runs, run'[q] = run[q] PROVE Fine(q)
  BY <1>0, <1>o DEF Fine, Early, Resets
<1>p. ASSUME NEW q \in Runs, NEW r \in Runs, NEW from, NEW to, NEW hold, NEW after,
             Path(r, from, to, hold, after),
             to # "idle", to = "loading" => from = "idle",
             after = "invalidating" \/ to = "invalidating" =>
               run[r].after = "invalidating" \/ "reset" \in trouble'
      PROVE  Fine(q)
  BY <1>0, <1>o, <1>p DEF Path, Fine, Early, Resets
<1>1. ASSUME UNCHANGED vars, NEW q \in Runs PROVE Fine(q)
  BY <1>o, <1>1 DEF vars
<1>2. ASSUME Die, NEW q \in Runs PROVE Fine(q)
  <2>1. CASE run[q].pc # "idle"
    BY <1>2, <2>1, Deaths DEF Fine, Early, Resets
  <2> QED
    BY <1>2, <1>o, <2>1, Deaths
<1>3. ASSUME NEW q \in Runs, NEW r \in Runs,
             Hit(r) \/ Miss(r) \/ StoreInCache(r) \/ (\E content : Loaded(r, content))
      PROVE  Fine(q)
  <2>1. \/ \E from, hold : \E to \in {"done", "clearing", "consolidating", "storing"} :
             Path(r, from, to, hold, "done")
        \/ Path(r, "idle", "loading", None, "done")
    BY <1>3, Paths
  <2> QED
    BY <1>p, <2>1
<1>4. ASSUME NEW q \in Runs, NEW r \in Runs, SaveFails(r) \/ SaveCache(r) PROVE Fine(q)
  <2>1. \/ \E from : Path(r, from, "done", None, "done")
        \/ \E from : run[r].after # "done" /\ Path(r, from, run[r].after, run[r].hold, "done")
    BY <1>4, Paths
  <2>2. run[r].after \in {"done", "estimating", "invalidating"}
    BY DEF PhaseInv
  <2> QED
    BY <1>p, <2>1, <2>2
<1>5. ASSUME NEW q \in Runs, NEW r \in Runs, SaveCreate(r) \/ SaveMeta(r) \/ SaveMessages(r)
      PROVE  Fine(q)
  <2>1. \E from, hold : \E to \in {"created", "writing", "saved"} :
          Path(r, from, to, hold, run[r].after)
    BY <1>5, Paths
  <2> QED
    BY <1>p, <2>1
<1>6. ASSUME NEW q \in Runs, NEW r \in Runs,
             Mark(r) \/ AddAssistantMessage(r) \/ AddUserMessage(r) \/ ReadHistory(r)
             \/ TurnFails(r) \/ Invalidate(r) \/ (Panic(r) /\ ~Die)
      PROVE  Fine(q)
  <2>1. \E from, hold : \E to \in {"saving", "adding", "answering", "done"},
                            after \in {"done", "estimating"} : Path(r, from, to, hold, after)
    BY <1>6, Paths
  <2> QED
    BY <1>p, <2>1
<1>7. ASSUME NEW q \in Runs, NEW r \in Runs, Clear(r) PROVE Fine(q)
  <2>1. Path(r, "clearing", "saving", run[r].hold, "invalidating")
    BY <1>7, Paths
  <2>2. "reset" \in trouble'
    BY <1>7 DEF Clear
  <2> QED
    BY <1>p, <2>1, <2>2
<1>8. ASSUME NEW q \in Runs, NEW r \in Runs,
             NothingToConsolidate(r) \/ TakeLock(r) \/ EndConsolidation(r)
             \/ PickBoundary(r) \/ NoChunk(r) \/ TakeChunk(r) \/ Archive(r) \/ ArchiveLost(r)
             \/ ArchiveFails(r)
      PROVE  Fine(q)
  <2>1. \E from, hold : \E to \in {"reading", "estimating", "picking", "archiving", "marking"} :
          Path(r, from, to, hold, "done")
    BY <1>8, Paths
  <2> QED
    BY <1>p, <2>1
<1>9. \A q \in Runs : Fine(q)
  BY <1>1, <1>2, <1>3, <1>4, <1>5, <1>6, <1>7, <1>8 DEF Next, Crash, Panic, Load, LoadFails
<1>10. ASSUME NEW q \in Runs, Early(q)' PROVE ~InUse(q)'
  <2>1. ~InUse(q)
    BY <1>9, <1>10 DEF PhaseInv, Fine, Early
  <2>2. ASSUME Load(q) \/ LoadFails(q) PROVE FALSE
    <3>1. Path(q, "loading", "storing", q, "done")
      BY <2>2, Paths DEF Load, LoadFails
    <3> QED
      BY <1>10, <3>1 DEF Path, Early
  <2> QED
    BY <2>1, <2>2, UseStep
<1>11. "torn" \in trouble' => "crash" \in trouble'
  <2>1. Die \/ trouble' \subseteq trouble \cup {"split", "unread", "unsaved", "unarchived", "reset", "stale"}
    BY TroubleKinds
  <2> QED
    BY <2>1, TroubleGrows, Deaths DEF PhaseInv
<1>12. \A q \in Runs : Fits(q)'
  BY FitsStep
<1>13. \A q \in Runs : (Early(q)' => ~InUse(q)') /\ (Resets(q)' => "reset" \in trouble')
  BY <1>9, <1>10 DEF Fine
<1> QED
  BY <1>11, <1>12, <1>13 DEF PhaseInv, Fits, Early, Resets

(* Without a split, one object is in use.                                  *)
LEMMA OneStep ==
    ASSUME TypeOK, PhaseInv, OneInv, [Next]_vars
    PROVE  OneInv'
<1>1. CASE \A o \in Runs : ~Load(o) /\ ~LoadFails(o)
  BY <1>1, TroubleGrows, UseStep DEF OneInv, Without
<1>2. ASSUME NEW r \in Runs, Load(r) \/ LoadFails(r), Without({"split"})'
      PROVE  \A o \in Runs : InUse(o)' => o = r
  <2>1. Path(r, "loading", "storing", r, "done") /\ cache' = cache
    BY <1>2, Paths DEF Load, LoadFails, Loaded
  <2>2. ~OtherObject(r)
    BY <1>2 DEF Load, LoadFails, Without, Split
  <2> QED
    BY <2>1, <2>2 DEF Path, InUse, OtherObject
<1> QED
  BY <1>1, <1>2 DEF OneInv

-----------------------------------------------------------------------------
(* Kinds of steps that leave the objects and the file alone.               *)

Gets(r) == Hit(r) \/ Miss(r) \/ StoreInCache(r)
Thinks(r) ==
    \/ NothingToConsolidate(r) \/ TakeLock(r) \/ EndConsolidation(r) \/ PickBoundary(r)
    \/ NoChunk(r) \/ TakeChunk(r) \/ Archive(r) \/ ArchiveLost(r) \/ ArchiveFails(r)
    \/ ReadHistory(r)
GivesUp(r) == TurnFails(r) \/ (Panic(r) /\ ~Die)
Adds(r) == AddUserMessage(r) \/ AddAssistantMessage(r)

LEMMA Kinds ==
    ASSUME [Next]_vars
    PROVE  \/ UNCHANGED vars \/ Die
           \/ \E r \in Runs :
                \/ Gets(r) \/ Load(r) \/ LoadFails(r) \/ Thinks(r) \/ GivesUp(r) \/ Adds(r)
                \/ SaveFails(r) \/ SaveCreate(r) \/ SaveMeta(r) \/ SaveMessages(r)
                \/ SaveCache(r) \/ Mark(r) \/ Clear(r) \/ Invalidate(r)
  BY DEF Next, Crash, Panic, Gets, Thinks, GivesUp, Adds

LEMMA GetsProperties ==
    ASSUME TypeOK, PhaseInv, NEW r \in Runs, Gets(r)
    PROVE  /\ UNCHANGED <<objs, file, history>> /\ trouble \subseteq trouble'
           /\ run[r].pc \in {"idle", "storing"}
           /\ run'[r].pc \in {"done", "loading", "clearing", "consolidating"}
           /\ run'[r].after = "done"
           /\ \A q \in Runs : q # r => run'[q] = run[q]
<1>1. UNCHANGED <<objs, file, history>> /\ trouble \subseteq trouble'
  BY DEF Gets, Hit, Miss, StoreInCache
<1>2. \E from \in {"idle", "storing"}, to \in {"done", "loading", "clearing", "consolidating"} :
        \E hold : Path(r, from, to, hold, "done")
  BY Paths DEF Gets
<1> QED
  BY <1>1, <1>2 DEF Path

LEMMA ThinksProperties ==
    ASSUME TypeOK, PhaseInv, NEW r \in Runs, Thinks(r)
    PROVE  /\ UNCHANGED <<objs, file, cache>> /\ trouble \subseteq trouble'
           /\ run[r].pc \in {"consolidating", "estimating", "picking", "archiving", "reading"}
           /\ run'[r].pc \in {"reading", "estimating", "picking", "archiving", "marking",
                              "answering"}
           /\ run'[r].hold = run[r].hold /\ run[r].hold \in Runs
           /\ run[r].after = "done" /\ run'[r].after = "done"
           /\ \A q \in Runs : q # r => run'[q] = run[q]
<1>1. UNCHANGED <<objs, file, cache>> /\ trouble \subseteq trouble'
  BY DEF Thinks, NothingToConsolidate, TakeLock, EndConsolidation, PickBoundary, NoChunk,
         TakeChunk, Archive, ArchiveLost, ArchiveFails, Leave, ReadHistory
<1>2. \E from \in {"consolidating", "estimating", "picking", "archiving", "reading"},
         to \in {"reading", "estimating", "picking", "archiving", "marking", "answering"} :
           Path(r, from, to, run[r].hold, "done")
  BY Paths DEF Thinks
<1>3. run[r].pc \in {"consolidating", "estimating", "picking", "archiving", "reading"}
  BY <1>2 DEF Path
<1>4. run[r].hold \in Runs /\ run[r].after = "done"
  BY <1>3, HasObject DEF PhaseInv
<1> QED
  BY <1>1, <1>2, <1>4 DEF Path

LEMMA GivesUpProperties ==
    ASSUME TypeOK, PhaseInv, NEW r \in Runs, GivesUp(r)
    PROVE  /\ UNCHANGED <<objs, file, cache, history, trouble>>
           /\ run[r].pc \in {"answering", "estimating", "reading"}
           /\ run'[r].pc = "done" /\ run'[r].hold = None /\ run'[r].after = "done"
           /\ \A q \in Runs : q # r => run'[q] = run[q]
<1>1. UNCHANGED <<objs, file, cache, history, trouble>>
  BY DEF GivesUp, TurnFails, Panic
<1>2. \E from \in {"answering", "estimating", "reading"} : Path(r, from, "done", None, "done")
  BY Paths DEF GivesUp
<1> QED
  BY <1>1, <1>2 DEF Path

LEMMA AddsProperties ==
    ASSUME TypeOK, PhaseInv, NEW r \in Runs, Adds(r)
    PROVE  LET o == run[r].hold
               m == IF run[r].pc = "answering" THEN UserOf(r) ELSE AssistantOf(r)
           IN  /\ UNCHANGED <<file, cache, history, trouble>> /\ o \in Runs
               /\ \/ run[r].pc = "answering" /\ run'[r].pc = "adding"
                  \/ run[r].pc = "adding" /\ run'[r].pc = "saving"
               /\ run'[r].hold = o /\ run'[r].after = "done" /\ run[r].after = "done"
               /\ m \in Message
               /\ objs'[o].index = objs[o].index
               /\ objs'[o].messages = Append(objs[o].messages, m)
               /\ \A p \in Runs : p # o => objs'[p] = objs[p]
               /\ \A q \in Runs : q # r => run'[q] = run[q]
<1>1. UNCHANGED <<file, cache, history, trouble>>
  BY DEF Adds, AddUserMessage, AddAssistantMessage, Add
<1>2. \/ AddUserMessage(r) /\ Path(r, "answering", "adding", run[r].hold, "done")
      \/ AddAssistantMessage(r) /\ Path(r, "adding", "saving", run[r].hold, "done")
  BY Paths DEF Adds
<1>3. run[r].pc \in {"answering", "adding"}
  BY <1>2 DEF Path
<1>4. run[r].hold \in Runs /\ run[r].after = "done"
  BY <1>3, HasObject DEF PhaseInv
<1>5. UserOf(r) \in Message /\ AssistantOf(r) \in Message
  BY DEF UserOf, AssistantOf, Message
<1>6. \/ Add(r, UserOf(r)) /\ run[r].pc = "answering"
      \/ Add(r, AssistantOf(r)) /\ run[r].pc # "answering"
  BY <1>2 DEF AddUserMessage, AddAssistantMessage, Path
<1>7. \A o \in Runs : objs[o] \in Content
  BY DEF TypeOK
<1> DEFINE m == IF run[r].pc = "answering" THEN UserOf(r) ELSE AssistantOf(r)
<1>8. objs' = [objs EXCEPT ![run[r].hold].messages = Append(@, m)]
  BY <1>6 DEF Add
<1>9. /\ objs'[run[r].hold].index = objs[run[r].hold].index
      /\ objs'[run[r].hold].messages = Append(objs[run[r].hold].messages, m)
      /\ \A p \in Runs : p # run[r].hold => objs'[p] = objs[p]
  <2> HIDE DEF m
  <2> QED
    BY <1>4, <1>7, <1>8 DEF TypeOK, Content
<1> QED
  BY <1>1, <1>2, <1>4, <1>5, <1>9 DEF Path

LEMMA MarkProperties ==
    ASSUME TypeOK, PhaseInv, NEW r \in Runs, Mark(r)
    PROVE  LET o == run[r].hold
           IN  /\ UNCHANGED <<file, cache, history, trouble>> /\ o \in Runs
               /\ run[r].pc = "marking" /\ run'[r].pc = "saving"
               /\ run'[r].hold = o /\ run'[r].after = "estimating" /\ run[r].after = "done"
               /\ objs'[o].index = run[r].end /\ objs'[o].messages = objs[o].messages
               /\ \A p \in Runs : p # o => objs'[p] = objs[p]
               /\ \A q \in Runs : q # r => run'[q] = run[q] /\ ~Consolidating(q)
<1>1. UNCHANGED <<file, cache, history, trouble>>
  BY DEF Mark
<1>2. Path(r, "marking", "saving", run[r].hold, "estimating")
  BY Paths
<1>3. run[r].hold \in Runs /\ run[r].after = "done"
  BY <1>2, HasObject DEF PhaseInv, Path
<1>4. \A q \in Runs : q # r => ~Consolidating(q)
  BY <1>2 DEF TypeOK, Path, Consolidating
<1>5. \A o \in Runs : objs[o] \in Content
  BY DEF TypeOK
<1>6. objs' = [objs EXCEPT ![run[r].hold].index = run[r].end]
  BY DEF Mark
<1>7. /\ objs'[run[r].hold].index = run[r].end
      /\ objs'[run[r].hold].messages = objs[run[r].hold].messages
      /\ \A p \in Runs : p # run[r].hold => objs'[p] = objs[p]
  BY <1>3, <1>5, <1>6 DEF TypeOK, Content
<1> QED
  BY <1>1, <1>2, <1>3, <1>4, <1>7 DEF Path

LEMMA ClearProperties ==
    ASSUME TypeOK, PhaseInv, NEW r \in Runs, Clear(r)
    PROVE  LET o == run[r].hold
           IN  /\ UNCHANGED <<file, cache, history>> /\ o \in Runs
               /\ trouble' = trouble \cup {"reset"}
               /\ run[r].pc = "clearing" /\ run'[r].pc = "saving"
               /\ run'[r].hold = o /\ run'[r].after = "invalidating" /\ run[r].after = "done"
               /\ objs'[o] = Empty
               /\ \A p \in Runs : p # o => objs'[p] = objs[p]
               /\ \A q \in Runs : q # r => run'[q] = run[q]
<1>1. UNCHANGED <<file, cache, history>> /\ trouble' = trouble \cup {"reset"}
  BY DEF Clear
<1>2. Path(r, "clearing", "saving", run[r].hold, "invalidating")
  BY Paths
<1>3. run[r].hold \in Runs /\ run[r].after = "done"
  BY <1>2, HasObject DEF PhaseInv, Path
<1>4. objs' = [objs EXCEPT ![run[r].hold] = Empty]
  BY DEF Clear
<1>5. objs'[run[r].hold] = Empty /\ \A p \in Runs : p # run[r].hold => objs'[p] = objs[p]
  BY <1>3, <1>4 DEF TypeOK
<1> QED
  BY <1>1, <1>2, <1>3, <1>5 DEF Path

LEMMA LoadProperties ==
    ASSUME TypeOK, PhaseInv, NEW r \in Runs, Load(r) \/ LoadFails(r)
    PROVE  /\ UNCHANGED <<file, cache, history>> /\ trouble \subseteq trouble'
           /\ run[r].pc = "loading" /\ run'[r].pc = "storing"
           /\ run'[r].hold = r /\ run'[r].after = "done" /\ run[r].after = "done"
           /\ \/ Load(r) /\ objs'[r] \in Partial
              \/ objs'[r] = Empty /\ "unread" \in trouble'
           /\ \A p \in Runs : p # r => objs'[p] = objs[p]
           /\ \A q \in Runs : q # r => run'[q] = run[q]
           /\ ~InUse(r)
           /\ Without({"split"})' => ~OtherObject(r)
<1>1. /\ UNCHANGED <<file, cache, history>> /\ trouble \subseteq trouble'
      /\ Without({"split"})' => ~OtherObject(r)
  BY DEF Load, LoadFails, Loaded, Without, Split
<1>2. Path(r, "loading", "storing", r, "done")
  BY Paths DEF Load, LoadFails
<1>3. run[r].after = "done" /\ ~InUse(r)
  BY <1>2 DEF PhaseInv, Path
<1>4. PICK content : /\ Loaded(r, content)
                     /\ \/ Load(r) /\ content \in Partial
                        \/ content = Empty /\ "unread" \in trouble'
  BY DEF Load, LoadFails
<1>5. objs'[r] = content /\ \A p \in Runs : p # r => objs'[p] = objs[p]
  BY <1>4 DEF Loaded, TypeOK
<1> QED
  BY <1>1, <1>2, <1>3, <1>4, <1>5 DEF Path

LEMMA SaveProperties ==
    ASSUME TypeOK, PhaseInv, NEW r \in Runs,
           SaveFails(r) \/ SaveCreate(r) \/ SaveMeta(r) \/ SaveMessages(r) \/ SaveCache(r)
    PROVE  /\ UNCHANGED <<objs, history>> /\ run[r].hold \in Runs /\ trouble \subseteq trouble'
           /\ run[r].pc \in {"saving", "created", "writing", "saved"}
           /\ run'[r].pc \in {"created", "writing", "saved"} =>
                run'[r].hold = run[r].hold /\ run'[r].after = run[r].after
           /\ run'[r].pc \in {"created", "writing", "saved", "done", "estimating", "invalidating"}
           /\ \A q \in Runs : q # r => run'[q] = run[q]
<1>1. UNCHANGED <<objs, history>> /\ trouble \subseteq trouble'
  BY DEF SaveFails, SaveCreate, SaveMeta, SaveMessages, SaveCache
<1>2. \E from \in {"saving", "created", "writing", "saved"},
         to \in {"created", "writing", "saved", "done", "estimating", "invalidating"} :
         \E hold, after :
           /\ Path(r, from, to, hold, after)
           /\ to \in {"created", "writing", "saved"} => hold = run[r].hold /\ after = run[r].after
  <2>1. run[r].after \in {"done", "estimating", "invalidating"}
    BY DEF PhaseInv
  <2>2. SaveFails(r) \/ SaveCache(r) =>
          \E from \in {"saving", "created", "saved"},
             to \in {"done", "estimating", "invalidating"} :
             \E hold, after : Path(r, from, to, hold, after)
    BY <2>1, Paths
  <2>3. SaveCreate(r) \/ SaveMeta(r) \/ SaveMessages(r) =>
          \E from \in {"saving", "created", "writing"}, to \in {"created", "writing", "saved"} :
             Path(r, from, to, run[r].hold, run[r].after)
    BY Paths
  <2> QED
    BY <2>2, <2>3
<1>3. run[r].pc \in {"saving", "created", "writing", "saved"}
  BY <1>2 DEF Path
<1>4. run[r].hold \in Runs
  BY <1>3, HasObject
<1> QED
  BY <1>1, <1>2, <1>4 DEF Path

LEMMA LockInvStep ==
    ASSUME TypeOK, PhaseInv, LockInv, [Next]_vars
    PROVE  LockInv'
<1> DEFINE C == {"picking", "archiving", "marking"}
<1>k. ASSUME NEW q \in Runs, run'[q] = run[q],
             run[q].pc \in C => objs'[run[q].hold].index <= objs[run[q].hold].index,
             objs' \in [Runs -> Content]
      PROVE  run'[q].pc \in C => Obj(q)'.index <= run'[q].end
  <2> SUFFICES ASSUME run[q].pc \in C PROVE objs'[run[q].hold].index <= run[q].end
    BY <1>k DEF Obj
  <2>1. run[q].hold \in Runs /\ run[q].end \in Nat
    BY HasObject DEF TypeOK, Locals
  <2>2. objs'[run[q].hold].index \in Nat /\ objs[run[q].hold].index \in Nat
    BY <1>k, <2>1 DEF TypeOK, Content
  <2> QED
    BY <1>k, <2>1, <2>2 DEF LockInv, Obj
<1>t. objs' \in [Runs -> Content] /\ objs \in [Runs -> Content]
  BY TypeStep DEF TypeOK
<1>i. \A q \in Runs : run[q].pc \in C => run[q].hold \in Runs
  BY HasObject
<1>s. \A o \in Runs : objs[o].index <= objs[o].index /\ Empty.index <= objs[o].index
  BY <1>t DEF Content, Empty
<1>1. ASSUME UNCHANGED vars PROVE LockInv'
  BY <1>1 DEF vars, LockInv, Obj
<1>2. ASSUME Die PROVE LockInv'
  <2>1. \A q \in Runs : run'[q].pc \notin C
    BY <1>2, Deaths
  <2> QED
    BY <2>1 DEF LockInv
<1>3. ASSUME NEW r \in Runs, run'[r].pc \notin C, \A q \in Runs : q # r => run'[q] = run[q],
             \A q \in Runs : q # r /\ run[q].pc \in C =>
               objs'[run[q].hold].index <= objs[run[q].hold].index
      PROVE  LockInv'
  BY <1>3, <1>k, <1>t DEF LockInv
<1>4. ASSUME NEW r \in Runs, Gets(r) \/ GivesUp(r) \/ Invalidate(r) PROVE LockInv'
  <2>1. /\ objs' = objs /\ run'[r].pc \notin C
        /\ \A q \in Runs : q # r => run'[q] = run[q]
    BY <1>4, GetsProperties, GivesUpProperties, Paths DEF Invalidate, Path
  <2> QED
    BY <1>3, <1>i, <1>s, <2>1
<1>5. ASSUME NEW r \in Runs,
             SaveFails(r) \/ SaveCreate(r) \/ SaveMeta(r) \/ SaveMessages(r) \/ SaveCache(r)
      PROVE LockInv'
  <2>1. /\ objs' = objs /\ run'[r].pc \notin C
        /\ \A q \in Runs : q # r => run'[q] = run[q]
    BY <1>5, SaveProperties
  <2> QED
    BY <1>3, <1>i, <1>s, <2>1
<1>6. ASSUME NEW r \in Runs, Load(r) \/ LoadFails(r) PROVE LockInv'
  <2>1. /\ \A p \in Runs : p # r => objs'[p] = objs[p]
        /\ \A q \in Runs : q # r => run'[q] = run[q]
        /\ ~InUse(r) /\ run'[r].pc \notin C
    BY <1>6, LoadProperties
  <2>2. \A q \in Runs : run[q].hold # r
    BY <2>1 DEF InUse
  <2> QED
    BY <1>3, <1>i, <1>s, <2>1, <2>2
<1>7. ASSUME NEW r \in Runs, Adds(r) PROVE LockInv'
  <2>1. /\ run'[r].pc \notin C /\ \A q \in Runs : q # r => run'[q] = run[q]
        /\ \A p \in Runs : objs'[p].index = objs[p].index
    BY <1>7, AddsProperties
  <2> QED
    BY <1>3, <1>i, <1>s, <2>1
<1>8. ASSUME NEW r \in Runs, Mark(r) PROVE LockInv'
  <2>1. /\ run'[r].pc \notin C
        /\ \A q \in Runs : q # r => run'[q] = run[q] /\ ~Consolidating(q)
    BY <1>8, MarkProperties
  <2>2. \A q \in Runs : q # r => run[q].pc \notin C
    BY <2>1 DEF Consolidating
  <2> QED
    BY <1>3, <2>1, <2>2
<1>9. ASSUME NEW r \in Runs, Clear(r) PROVE LockInv'
  <2>1. /\ run'[r].pc \notin C /\ \A q \in Runs : q # r => run'[q] = run[q]
        /\ \A p \in Runs : objs'[p] = Empty \/ objs'[p] = objs[p]
    BY <1>9, ClearProperties
  <2> QED
    BY <1>3, <1>i, <1>s, <2>1
<1>10. ASSUME NEW r \in Runs, Thinks(r) PROVE LockInv'
  <2>1. /\ objs' = objs /\ \A q \in Runs : q # r => run'[q] = run[q]
        /\ run'[r].hold = run[r].hold /\ run[r].hold \in Runs
    BY <1>10, ThinksProperties
  <2>2. run'[r].pc \in C => objs[run[r].hold].index <= run'[r].end
    <3>1. CASE NothingToConsolidate(r) \/ TakeLock(r) \/ EndConsolidation(r) \/ NoChunk(r)
               \/ ArchiveFails(r) \/ ReadHistory(r)
      <4>1. \E to \in {"reading", "estimating", "answering"} :
              \E from : Path(r, from, to, run[r].hold, "done")
        BY <3>1, Paths
      <4> QED
        BY <4>1 DEF Path
    <3>2. CASE PickBoundary(r)
      <4>1. PICK i \in Boundaries(Obj(r)) :
              Becomes(r, "picking", run[r].hold, run[r].after, run[r].meta, i, run[r].chunk)
        BY <3>2, Moves
      <4>2. i >= Obj(r).index + 1 /\ run'[r].end = i /\ i \in Int
        BY <4>1 DEF Boundaries, Becomes
      <4>3. Obj(r).index \in Nat
        BY <2>1, <1>t DEF Obj, Content
      <4> QED
        BY <4>2, <4>3 DEF Obj
    <3>3. CASE TakeChunk(r) \/ Archive(r) \/ ArchiveLost(r)
      <4>1. \E to : \E chunk : Becomes(r, to, run[r].hold, run[r].after, run[r].meta, run[r].end, chunk)
        BY <3>3, Moves
      <4>2. run'[r].end = run[r].end
        BY <4>1 DEF Becomes
      <4>3. run[r].pc \in C
        BY <3>3 DEF TakeChunk, Archive, ArchiveLost, At
      <4> QED
        BY <4>2, <4>3 DEF LockInv, Obj
    <3> QED
      BY <1>10, <3>1, <3>2, <3>3 DEF Thinks
  <2>3. \A q \in Runs : q # r => (run'[q].pc \in C => Obj(q)'.index <= run'[q].end)
    BY <1>k, <1>t, <1>i, <1>s, <2>1
  <2>4. run'[r].pc \in C => Obj(r)'.index <= run'[r].end
    BY <2>1, <2>2 DEF Obj
  <2> QED
    BY <2>3, <2>4 DEF LockInv
<1> QED
  BY <1>1, <1>2, <1>4, <1>5, <1>6, <1>7, <1>8, <1>9, <1>10, Kinds

-----------------------------------------------------------------------------
(* The file and the object in use.                                         *)

(* Who loads without a split is alone.                                     *)
LEMMA LoadsAlone ==
    ASSUME TypeOK, PhaseInv, NEW r \in Runs, Load(r) \/ LoadFails(r), Without({"split"})'
    PROVE  /\ cache = None /\ \A q \in Runs : run[q].pc \in {"idle", "loading", "done"}
           /\ \A q \in Runs : run[q].hold = None
           /\ objs'[r] = file \/ (objs'[r] = Empty /\ "unread" \in trouble')
           /\ \A o \in Runs : InUse(o)' => o = r
<1>1. ~OtherObject(r) /\ ~InUse(r) /\ run'[r].hold = r /\ cache' = cache
      /\ \A q \in Runs : q # r => run'[q] = run[q]
  BY LoadProperties
<1>2. cache = None /\ \A q \in Runs : run[q].hold = None
  BY <1>1 DEF OtherObject, InUse, TypeOK, Locals
<1>3. \A q \in Runs : run[q].pc \in {"idle", "loading", "done"}
  BY <1>2 DEF PhaseInv
<1>4. \A content \in Partial : content = file
  <2>1. ~\E w \in Runs : run[w].pc = "writing"
    BY <1>3
  <2> QED
    BY <2>1, PartialProperties
<1>5. objs'[r] = file \/ (objs'[r] = Empty /\ "unread" \in trouble')
  <2>1. objs'[r] \in Partial \/ (objs'[r] = Empty /\ "unread" \in trouble')
    BY LoadProperties
  <2> QED
    BY <1>4, <2>1
<1>6. \A o \in Runs : InUse(o)' => o = r
  BY <1>1, <1>2, SessionAssumption DEF InUse, SessionAssumption
<1> QED
  BY <1>2, <1>3, <1>5, <1>6

LEMMA DeadUseNothing ==
    ASSUME TypeOK, PhaseInv, Die, NEW o \in Runs
    PROVE  ~InUse(o)'
<1>1. cache' = None /\ None \notin Runs
  BY Deaths, SessionAssumption DEF SessionAssumption
<1>2. \A q \in Runs : run'[q].hold = None
  <2> SUFFICES ASSUME NEW q \in Runs PROVE run'[q].hold = None
    OBVIOUS
  <2>1. run[q].pc = "idle" => run[q].hold = None
    BY DEF PhaseInv
  <2> QED
    BY <2>1, Deaths
<1> QED
  BY <1>1, <1>2 DEF InUse

LEMMA UnsavedKept ==
    ASSUME TypeOK, PhaseInv, OneInv, NEW r \in Runs, Gets(r) \/ Thinks(r) \/ GivesUp(r),
           Without({"split"}), NEW o \in Runs, Unsaved(o)
    PROVE  Unsaved(o)'
<1>1. objs' = objs /\ \A q \in Runs : q # r => run'[q] = run[q]
  BY GetsProperties, ThinksProperties, GivesUpProperties
<1>2. run'[r].pc \notin {"writing", "saved", "invalidating"}
  BY GetsProperties, ThinksProperties, GivesUpProperties
<1>3. cache' = o \/ \E q \in Runs : run'[q].pc = "storing" /\ run'[q].hold = o
  <2>1. CASE StoreInCache(r)
    <3>1. InUse(o) /\ InUse(r) /\ cache' = r
      BY <2>1, Paths DEF Unsaved, InUse, StoreInCache
    <3> QED
      BY <3>1 DEF OneInv
  <2>2. CASE ~StoreInCache(r)
    <3>1. cache' = cache
      BY <2>2, ThinksProperties, GivesUpProperties DEF Gets, Hit, Miss
    <3>2. run[r].pc # "storing"
      <4>1. Hit(r) \/ Miss(r) => run[r].pc = "idle"
        BY DEF Hit, Miss, At
      <4> QED
        BY <2>2, <4>1, ThinksProperties, GivesUpProperties DEF Gets
    <3> QED
      BY <1>1, <3>1, <3>2 DEF Unsaved
  <2> QED
    BY <2>1, <2>2
<1> QED
  BY <1>1, <1>2, <1>3 DEF Unsaved

LEMMA PrefixStep ==
    ASSUME TypeOK, PhaseInv, OneInv, PrefixInv, [Next]_vars
    PROVE  PrefixInv'
<1> DEFINE W == {"created", "writing"}
           Kept == /\ Without({"split"})
                   /\ Without({"reset"}) \/ (Without({"unsaved"}) /\ ~ClearedUnsaved)
<1>0. Kept => \A q \in Runs : run[q].pc \in W => Prefix(file.messages, Obj(q).messages)
  BY DEF PrefixInv
<1>a. \A kinds : Without(kinds)' => Without(kinds)
  BY TroubleGrows DEF Without
<1>i. \A q \in Runs : run[q].pc \in W =>
        /\ run[q].hold \in Runs /\ Obj(q).messages \in Seq(Message)
        /\ file.messages \in Seq(Message)
  BY HasObject DEF TypeOK, Content
<1>k. ASSUME NEW r \in Runs, \A q \in Runs : q # r => run'[q] = run[q],
             run[r].pc # "saving", Kept'
      PROVE  Kept
  <2>1. ClearedUnsaved => ClearedUnsaved'
    BY <1>k DEF ClearedUnsaved
  <2> QED
    BY <1>a, <1>k, <2>1
<1>p. ASSUME NEW r \in Runs, \A q \in Runs : q # r => run'[q] = run[q],
             run'[r].pc \in W => run[r].pc \in W /\ run'[r].hold = run[r].hold,
             Kept' => Kept,
             file'.messages = file.messages,
             \A q \in Runs : run[q].pc \in W =>
               \/ objs'[run[q].hold].messages = objs[run[q].hold].messages
               \/ \E m \in Message : objs'[run[q].hold].messages = Append(objs[run[q].hold].messages, m)
      PROVE  PrefixInv'
  <2> SUFFICES ASSUME Kept', NEW q \in Runs, run'[q].pc \in W
               PROVE  Prefix(file.messages, objs'[run'[q].hold].messages)
    BY <1>p DEF PrefixInv, Obj, Prefix
  <2>1. run[q].pc \in W /\ run'[q].hold = run[q].hold
    BY <1>p
  <2>2. Prefix(file.messages, objs[run[q].hold].messages)
    BY <1>0, <1>p, <2>1 DEF Obj
  <2> DEFINE s == file.messages
             t == objs[run[q].hold].messages
  <2>3. s \in Seq(Message) /\ t \in Seq(Message)
    BY <1>i, <2>1 DEF Obj
  <2> HIDE DEF s, t
  <2>4. ASSUME NEW m \in Message PROVE Prefix(s, Append(t, m))
    <3>1. Prefix(s, t) /\ Len(s) \in Nat /\ Len(t) \in Nat
      BY <2>2, <2>3, Elements DEF s, t
    <3>2. Len(Append(t, m)) = Len(t) + 1 /\ \A i \in 1..Len(t) : Append(t, m)[i] = t[i]
      BY <2>3, AppendProperties
    <3> QED
      BY <3>1, <3>2 DEF Prefix
  <2>5. objs'[run[q].hold].messages = t
        \/ \E m \in Message : objs'[run[q].hold].messages = Append(t, m)
    BY <1>p, <2>1 DEF t
  <2> QED
    BY <2>1, <2>2, <2>4, <2>5 DEF s, t
<1>1. ASSUME UNCHANGED vars PROVE PrefixInv'
  BY <1>1 DEF vars, PrefixInv, Obj, Without, ClearedUnsaved
<1>2. ASSUME Die PROVE PrefixInv'
  <2>1. \A q \in Runs : run'[q].pc \notin W
    BY <1>2, Deaths
  <2> QED
    BY <2>1 DEF PrefixInv
<1>3. ASSUME NEW r \in Runs, Gets(r) \/ Thinks(r) \/ GivesUp(r) \/ Invalidate(r) PROVE PrefixInv'
  <2>1. /\ objs' = objs /\ file' = file /\ run[r].pc # "saving" /\ run'[r].pc \notin W
        /\ \A q \in Runs : q # r => run'[q] = run[q]
    BY <1>3, GetsProperties, ThinksProperties, GivesUpProperties, Paths DEF Invalidate, Path
  <2> QED
    BY <1>k, <1>p, <2>1
<1>4. ASSUME NEW r \in Runs, Load(r) \/ LoadFails(r) PROVE PrefixInv'
  <2>1. /\ file' = file /\ run[r].pc # "saving" /\ run'[r].pc \notin W
        /\ \A q \in Runs : q # r => run'[q] = run[q]
        /\ \A p \in Runs : p # r => objs'[p] = objs[p]
        /\ \A q \in Runs : run[q].hold # r
    BY <1>4, LoadProperties DEF InUse
  <2> QED
    BY <1>i, <1>k, <1>p, <2>1
<1>5. ASSUME NEW r \in Runs, Adds(r) PROVE PrefixInv'
  <2>1. /\ file' = file /\ run[r].pc # "saving" /\ run'[r].pc \notin W
        /\ \A q \in Runs : q # r => run'[q] = run[q]
        /\ \A p \in Runs : p # run[r].hold => objs'[p] = objs[p]
        /\ \E m \in Message : objs'[run[r].hold].messages = Append(objs[run[r].hold].messages, m)
    BY <1>5, AddsProperties
  <2> QED
    BY <1>i, <1>k, <1>p, <2>1
<1>6. ASSUME NEW r \in Runs, Mark(r) PROVE PrefixInv'
  <2>1. /\ file' = file /\ run[r].pc # "saving" /\ run'[r].pc \notin W
        /\ \A q \in Runs : q # r => run'[q] = run[q]
        /\ \A p \in Runs : objs'[p].messages = objs[p].messages
    BY <1>6, MarkProperties
  <2> QED
    BY <1>i, <1>k, <1>p, <2>1
<1>7. ASSUME NEW r \in Runs, Clear(r) PROVE PrefixInv'
  <2>1. "reset" \in trouble' /\ ClearedUnsaved'
    BY <1>7, ClearProperties DEF ClearedUnsaved
  <2> QED
    BY <2>1 DEF PrefixInv, Without
<1>8. ASSUME NEW r \in Runs, SaveFails(r) PROVE PrefixInv'
  <2>1. /\ objs' = objs /\ file' = file /\ "unsaved" \in trouble' /\ run'[r].pc \notin W
        /\ \A q \in Runs : q # r => run'[q] = run[q]
    <3>1. \E to \in {"done", "estimating", "invalidating"} :
            \E from, hold, after : Path(r, from, to, hold, after)
      <4>1. run[r].after \in {"done", "estimating", "invalidating"}
        BY DEF PhaseInv
      <4> QED
        BY <1>8, <4>1, Paths
    <3> QED
      BY <1>8, <3>1 DEF SaveFails, Path
  <2>2. Kept' => Kept
    BY <1>a, <2>1 DEF Without
  <2> QED
    BY <1>p, <2>1, <2>2
<1>9. ASSUME NEW r \in Runs, SaveCreate(r) PROVE PrefixInv'
  <2>1. file'.messages = <<>>
    BY <1>9, NewOnes DEF SaveCreate
  <2>2. \A q \in Runs : run'[q].pc \in W => Obj(q)'.messages \in Seq(Message)
    <3>1. TypeOK' /\ PhaseInv'
      BY TypeStep, PhaseStep
    <3>2. \A q \in Runs : run'[q].pc \in W => run'[q].hold \in Runs
      BY <3>1, ZenonT(60) DEF TypeOK, PhaseInv, Locals
    <3> QED
      BY <3>1, <3>2 DEF TypeOK, Content, Obj
  <2>3. \A t \in Seq(Message) : Prefix(<<>>, t)
    <3>1. Len(<<>>) = 0 /\ \A t \in Seq(Message) : Len(t) \in Nat
      BY EmptySeq, Elements
    <3> QED
      BY <3>1 DEF Prefix
  <2> QED
    BY <2>1, <2>2, <2>3 DEF PrefixInv
<1>10. ASSUME NEW r \in Runs, SaveMeta(r) PROVE PrefixInv'
  <2>1. /\ objs' = objs /\ file'.messages = file.messages /\ run[r].pc = "created"
        /\ run'[r].hold = run[r].hold /\ \A q \in Runs : q # r => run'[q] = run[q]
    BY <1>10, Paths DEF SaveMeta, Path, TypeOK, Content
  <2> QED
    BY <1>k, <1>p, <2>1
<1>11. ASSUME NEW r \in Runs, SaveMessages(r) PROVE PrefixInv'
  <2>1. /\ objs' = objs /\ run[r].pc = "writing" /\ run'[r].pc = "saved"
        /\ Prefix(file.messages, Obj(r).messages) => Prefix(file'.messages, Obj(r).messages)
        /\ \A q \in Runs : q # r => run'[q] = run[q]
    BY <1>11, Paths, SavedMessages DEF SaveMessages, Path
  <2> SUFFICES ASSUME Kept', NEW q \in Runs, run'[q].pc \in W
               PROVE  Prefix(file'.messages, Obj(q)'.messages)
    BY DEF PrefixInv
  <2>2. Kept
    BY <1>k, <2>1
  <2>3. Prefix(file.messages, Obj(r).messages)
    BY <1>0, <2>1, <2>2
  <2>4. Prefix(file'.messages, Obj(r).messages)
    BY <2>1, <2>3
  <2>5. q # r /\ run'[q] = run[q] /\ run[q].hold \in Runs /\ run[r].hold \in Runs
    BY <1>i, <2>1
  <2>6. run[q].hold = run[r].hold
    BY <2>2, <2>5 DEF OneInv, InUse
  <2>7. Obj(q)'.messages = Obj(r).messages
    BY <2>1, <2>5, <2>6 DEF Obj
  <2> QED
    BY <2>4, <2>7
<1>12. ASSUME NEW r \in Runs, SaveCache(r) PROVE PrefixInv'
  <2>1. /\ objs' = objs /\ file' = file /\ run[r].pc # "saving" /\ run'[r].pc \notin W
        /\ \A q \in Runs : q # r => run'[q] = run[q]
    <3>1. \E to \in {"done", "estimating", "invalidating"} :
            \E hold, after : Path(r, "saved", to, hold, after)
      <4>1. run[r].after \in {"done", "estimating", "invalidating"}
        BY DEF PhaseInv
      <4> QED
        BY <1>12, <4>1, Paths
    <3> QED
      BY <1>12, <3>1 DEF SaveCache, Path
  <2> QED
    BY <1>k, <1>p, <2>1
<1> QED
  BY <1>1, <1>2, <1>3, <1>4, <1>5, <1>6, <1>7, <1>8, <1>9, <1>10, <1>11, <1>12, Kinds

(* Only a load brings an object into use.                                  *)
LEMMA UsedBefore ==
    ASSUME TypeOK, PhaseInv, [Next]_vars, NEW r \in Runs, run[r].pc # "loading",
           \A q \in Runs : q # r => run'[q] = run[q], NEW o \in Runs, InUse(o)'
    PROVE  InUse(o)
<1>1. ~Load(o) /\ ~LoadFails(o)
  <2> SUFFICES ASSUME Load(o) \/ LoadFails(o) PROVE FALSE
    OBVIOUS
  <2>1. run[o].pc = "loading" /\ run'[o].pc = "storing"
    BY LoadProperties
  <2> QED
    BY <2>1
<1> QED
  BY <1>1, UseStep

LEMMA LoadsUnsaved ==
    ASSUME TypeOK, PhaseInv, NEW r \in Runs, Load(r) \/ LoadFails(r), Without({"split"})',
           objs'[r] = Empty
    PROVE  Unsaved(r)'
<1>1. run'[r].pc = "storing" /\ run'[r].hold = r /\ \A q \in Runs : q # r => run'[q] = run[q]
  BY LoadProperties
<1>2. \A q \in Runs : run[q].pc \in {"idle", "loading", "done"}
  BY LoadsAlone
<1>3. \A q \in Runs : run'[q].pc \notin {"writing", "saved", "invalidating"}
  BY <1>1, <1>2
<1> QED
  BY <1>1, <1>3 DEF Unsaved

(* The end of a save, and of a /new.                                       *)
LEMMA EndsOfSaves ==
    ASSUME TypeOK, PhaseInv, NEW r \in Runs, SaveCache(r) \/ Invalidate(r)
    PROVE  /\ UNCHANGED <<objs, file, history, trouble>>
           /\ run[r].pc \in {"saved", "invalidating"}
           /\ run'[r].pc \in {"done", "estimating", "invalidating"}
           /\ run'[r].after = "done"
           /\ \A q \in Runs : q # r => run'[q] = run[q]
<1>1. UNCHANGED <<objs, file, history, trouble>>
  BY DEF SaveCache, Invalidate
<1>2. \E from \in {"saved", "invalidating"}, to \in {"done", "estimating", "invalidating"} :
        \E hold : Path(r, from, to, hold, "done")
  <2>1. run[r].after \in {"done", "estimating", "invalidating"}
    BY DEF PhaseInv
  <2> QED
    BY <2>1, Paths
<1> QED
  BY <1>1, <1>2 DEF Path

LEMMA FileStep ==
    ASSUME TypeOK, PhaseInv, OneInv, PrefixInv, FileInv, [Next]_vars
    PROVE  FileInv'
<1> SUFFICES ASSUME Without({"split", "unsaved", "torn"})', \A q \in Runs : ~Changing(q)',
                    NEW o \in Runs, InUse(o)'
             PROVE  \/ file'.messages = objs'[o].messages
                    \/ "unread" \in trouble' /\ Unsaved(o)'
  BY DEF FileInv
<1>a. /\ trouble \subseteq trouble' /\ Without({"split", "unsaved", "torn"})
      /\ Without({"split"}) /\ Without({"split"})'
  BY TroubleGrows DEF Without
<1>p. ASSUME NEW r \in Runs, \A q \in Runs : q # r => run'[q] = run[q],
             run[r].pc # "loading", ~Changing(r)
      PROVE  /\ InUse(o)
             /\ file.messages = objs[o].messages \/ ("unread" \in trouble /\ Unsaved(o))
  <2>1. \A q \in Runs : ~Changing(q)
    BY <1>p DEF Changing
  <2>2. InUse(o)
    BY <1>p, UsedBefore
  <2> QED
    BY <1>a, <2>1, <2>2 DEF FileInv
<1>1. CASE UNCHANGED vars
  <2>1. InUse(o) /\ \A q \in Runs : ~Changing(q)
    BY <1>1 DEF vars, InUse, Changing
  <2>2. file.messages = objs[o].messages \/ ("unread" \in trouble /\ Unsaved(o))
    BY <1>a, <2>1 DEF FileInv
  <2> QED
    BY <1>1, <2>2 DEF vars, Unsaved
<1>2. CASE Die
  BY <1>2, DeadUseNothing
<1>3. ASSUME NEW r \in Runs, Gets(r) \/ Thinks(r) \/ GivesUp(r)
      PROVE  \/ file'.messages = objs'[o].messages
             \/ "unread" \in trouble' /\ Unsaved(o)'
  <2>1. /\ objs' = objs /\ file' = file /\ \A q \in Runs : q # r => run'[q] = run[q]
        /\ run[r].pc \in {"idle", "storing", "consolidating", "estimating", "picking",
                          "archiving", "reading", "answering"}
    BY <1>3, GetsProperties, ThinksProperties, GivesUpProperties
  <2>2. ~Changing(r) /\ run[r].pc # "loading"
    BY <2>1 DEF Changing
  <2>3. file.messages = objs[o].messages \/ ("unread" \in trouble /\ Unsaved(o))
    BY <1>p, <2>1, <2>2
  <2>4. Unsaved(o) => Unsaved(o)'
    BY <1>3, <1>a, UnsavedKept
  <2> QED
    BY <1>a, <2>1, <2>3, <2>4
<1>4. ASSUME NEW r \in Runs, Load(r) \/ LoadFails(r)
      PROVE  \/ file'.messages = objs'[o].messages
             \/ "unread" \in trouble' /\ Unsaved(o)'
  <2>1. o = r /\ (objs'[r] = file \/ (objs'[r] = Empty /\ "unread" \in trouble'))
    BY <1>4, <1>a, LoadsAlone
  <2>2. file' = file
    BY <1>4, LoadProperties
  <2> QED
    BY <1>4, <1>a, <2>1, <2>2, LoadsUnsaved
<1>5. ASSUME NEW r \in Runs, Adds(r) \/ Mark(r) \/ Clear(r) \/ SaveCreate(r) \/ SaveMeta(r)
      PROVE  FALSE
  <2>1. run'[r].pc \in {"adding", "saving", "created", "writing"}
    BY <1>5, AddsProperties, MarkProperties, ClearProperties, Paths DEF Path
  <2> QED
    BY <2>1 DEF Changing
<1>6. ASSUME NEW r \in Runs, SaveFails(r) PROVE FALSE
  BY <1>6 DEF SaveFails, Without
<1>7. ASSUME NEW r \in Runs, SaveMessages(r) PROVE file'.messages = objs'[o].messages
  <2>1. /\ objs' = objs /\ run[r].pc = "writing"
        /\ file'.messages = Overwrite(Obj(r).messages, file.messages)
        /\ \A q \in Runs : q # r => run'[q] = run[q]
    BY <1>7, Paths, SavedMessages DEF SaveMessages, Path, Without
  <2>2. ~ClearedUnsaved /\ Without({"unsaved"})
    BY <1>a, <2>1 DEF ClearedUnsaved, Changing, Without
  <2>3. Prefix(file.messages, Obj(r).messages)
    BY <1>a, <2>1, <2>2 DEF PrefixInv
  <2>4. /\ run[r].hold \in Runs /\ Obj(r).messages \in Seq(Message)
        /\ file.messages \in Seq(Message)
    BY <2>1, HasObject DEF TypeOK, Content
  <2>5. InUse(o)
    BY <2>1, UsedBefore
  <2>6. o = run[r].hold
    BY <1>a, <2>4, <2>5 DEF OneInv, InUse
  <2> QED
    BY <2>1, <2>3, <2>4, <2>6, OverwritePrefix DEF Obj
<1>8. ASSUME NEW r \in Runs, SaveCache(r) \/ Invalidate(r)
      PROVE  file'.messages = objs'[o].messages
  <2>1. /\ objs' = objs /\ file' = file /\ run[r].pc \in {"saved", "invalidating"}
        /\ \A q \in Runs : q # r => run'[q] = run[q]
    BY <1>8, EndsOfSaves
  <2>2. ~Changing(r) /\ run[r].pc # "loading" /\ ~Unsaved(o)
    BY <2>1 DEF Changing, Unsaved
  <2> QED
    BY <1>p, <2>1, <2>2
<1> QED
  BY <1>1, <1>2, <1>3, <1>4, <1>5, <1>6, <1>7, <1>8, Kinds

LEMMA IndexStep ==
    ASSUME TypeOK, PhaseInv, OneInv, IndexInv, [Next]_vars
    PROVE  IndexInv'
<1> SUFFICES ASSUME Without({"split", "unsaved", "torn", "stale"})',
                    \A q \in Runs : run'[q].pc \notin {"adding", "saving", "created"},
                    NEW o \in Runs, InUse(o)'
             PROVE  file'.index = objs'[o].index \/ Unsaved(o)'
  BY DEF IndexInv
<1>a. /\ trouble \subseteq trouble' /\ Without({"split", "unsaved", "torn", "stale"})
      /\ Without({"split"}) /\ Without({"split"})'
  BY TroubleGrows DEF Without
<1>p. ASSUME NEW r \in Runs, \A q \in Runs : q # r => run'[q] = run[q],
             run[r].pc \notin {"loading", "adding", "saving", "created"}
      PROVE  file.index = objs[o].index \/ Unsaved(o)
  <2>1. \A q \in Runs : run[q].pc \notin {"adding", "saving", "created"}
    BY <1>p
  <2>2. InUse(o)
    BY <1>p, UsedBefore
  <2> QED
    BY <1>a, <2>1, <2>2 DEF IndexInv
<1>1. CASE UNCHANGED vars
  <2>1. InUse(o) /\ \A q \in Runs : run[q].pc \notin {"adding", "saving", "created"}
    BY <1>1 DEF vars, InUse
  <2>2. file.index = objs[o].index \/ Unsaved(o)
    BY <1>a, <2>1 DEF IndexInv
  <2> QED
    BY <1>1, <2>2 DEF vars, Unsaved
<1>2. CASE Die
  BY <1>2, DeadUseNothing
<1>3. ASSUME NEW r \in Runs, Gets(r) \/ Thinks(r) \/ GivesUp(r)
      PROVE  file'.index = objs'[o].index \/ Unsaved(o)'
  <2>1. /\ objs' = objs /\ file' = file /\ \A q \in Runs : q # r => run'[q] = run[q]
        /\ run[r].pc \in {"idle", "storing", "consolidating", "estimating", "picking",
                          "archiving", "reading", "answering"}
    BY <1>3, GetsProperties, ThinksProperties, GivesUpProperties
  <2>2. file.index = objs[o].index \/ Unsaved(o)
    BY <1>p, <2>1
  <2>3. Unsaved(o) => Unsaved(o)'
    BY <1>3, <1>a, UnsavedKept
  <2> QED
    BY <2>1, <2>2, <2>3
<1>4. ASSUME NEW r \in Runs, Load(r) \/ LoadFails(r)
      PROVE  file'.index = objs'[o].index \/ Unsaved(o)'
  <2>1. o = r /\ (objs'[r] = file \/ objs'[r] = Empty)
    BY <1>4, <1>a, LoadsAlone
  <2>2. file' = file
    BY <1>4, LoadProperties
  <2> QED
    BY <1>4, <1>a, <2>1, <2>2, LoadsUnsaved
<1>5. ASSUME NEW r \in Runs, Adds(r) \/ Mark(r) \/ Clear(r) \/ SaveCreate(r)
      PROVE  FALSE
  <2>1. run'[r].pc \in {"adding", "saving", "created"}
    BY <1>5, AddsProperties, MarkProperties, ClearProperties, Paths DEF Path
  <2> QED
    BY <2>1
<1>6. ASSUME NEW r \in Runs, SaveFails(r) PROVE FALSE
  BY <1>6 DEF SaveFails, Without
<1>7. ASSUME NEW r \in Runs, SaveMeta(r) PROVE file'.index = objs'[o].index
  <2>1. /\ objs' = objs /\ run[r].pc = "created" /\ file'.index = run[r].meta
        /\ \A q \in Runs : q # r => run'[q] = run[q]
    BY <1>7, Paths DEF SaveMeta, Path, TypeOK, Content
  <2>2. run[r].meta = Obj(r).index
    BY <1>7 DEF SaveMeta, Stale, Without
  <2>3. run[r].hold \in Runs /\ InUse(o)
    BY <2>1, HasObject, UsedBefore
  <2>4. o = run[r].hold
    BY <1>a, <2>3 DEF OneInv, InUse
  <2> QED
    BY <2>1, <2>2, <2>4 DEF Obj
<1>8. ASSUME NEW r \in Runs, SaveMessages(r) PROVE file'.index = objs'[o].index
  <2>1. /\ objs' = objs /\ run[r].pc = "writing" /\ file'.index = file.index
        /\ \A q \in Runs : q # r => run'[q] = run[q]
    BY <1>8, Paths, SavedMessages DEF SaveMessages, Path
  <2>2. ~Unsaved(o)
    BY <2>1 DEF Unsaved
  <2> QED
    BY <1>p, <2>1, <2>2
<1>9. ASSUME NEW r \in Runs, SaveCache(r) \/ Invalidate(r)
      PROVE  file'.index = objs'[o].index
  <2>1. /\ objs' = objs /\ file' = file /\ run[r].pc \in {"saved", "invalidating"}
        /\ \A q \in Runs : q # r => run'[q] = run[q]
    BY <1>9, EndsOfSaves
  <2>2. ~Unsaved(o)
    BY <2>1 DEF Unsaved
  <2> QED
    BY <1>p, <2>1, <2>2
<1> QED
  BY <1>1, <1>2, <1>3, <1>4, <1>5, <1>6, <1>7, <1>8, <1>9, Kinds

-----------------------------------------------------------------------------
(* What the prompt leaves out.                                             *)

LEMMA HistorySame ==
    ASSUME TypeOK, PhaseInv, [Next]_vars, ~\E r \in Runs : Archive(r)
    PROVE  history' = history
<1>1. ASSUME NEW r \in Runs, Thinks(r) PROVE history' = history
  BY <1>1 DEF Thinks, NothingToConsolidate, TakeLock, EndConsolidation, PickBoundary,
              NoChunk, TakeChunk, ArchiveLost, ArchiveFails, Leave, ReadHistory
<1>2. ASSUME NEW r \in Runs,
             SaveFails(r) \/ SaveCreate(r) \/ SaveMeta(r) \/ SaveMessages(r) \/ SaveCache(r)
             \/ Mark(r) \/ Clear(r) \/ Invalidate(r)
      PROVE  history' = history
  BY <1>2 DEF SaveFails, SaveCreate, SaveMeta, SaveMessages, SaveCache, Mark, Clear, Invalidate
<1>3. ASSUME NEW r \in Runs, Gets(r) \/ Load(r) \/ LoadFails(r) \/ GivesUp(r) \/ Adds(r)
      PROVE  history' = history
  BY <1>3, GetsProperties, LoadProperties, GivesUpProperties, AddsProperties
<1>4. UNCHANGED vars \/ Die => history' = history
  BY DEF vars, Die
<1> QED
  BY <1>1, <1>2, <1>3, <1>4, Kinds

LEMMA HistoryGrows ==
    ASSUME TypeOK, PhaseInv, [Next]_vars
    PROVE  \A m \in Message : history[m] \in Nat /\ history'[m] \in Nat /\ history'[m] >= history[m]
<1>1. \A m \in Message : history[m] \in Nat
  BY DEF TypeOK
<1>2. ASSUME NEW r \in Runs, Archive(r)
      PROVE  \A m \in Message : history'[m] \in Nat /\ history'[m] >= history[m]
  <2>1. run[r].chunk \in Seq(Message)
    BY DEF TypeOK, Locals
  <2>2. \A m \in Message : Cardinality({i \in DOMAIN run[r].chunk : run[r].chunk[i] = m}) \in Nat
    BY <2>1, CountProperties
  <2> QED
    BY <1>1, <1>2, <2>2 DEF Archive
<1> QED
  BY <1>1, <1>2, HistorySame

(* Archived(Hidden(content)), by the places of the messages.               *)
Remembered(content) ==
    \A i \in 1..Len(content.messages) :
        i <= content.index => history[content.messages[i]] > 0

LEMMA RememberedIsArchived ==
    ASSUME NEW content \in Content
    PROVE  Archived(Hidden(content)) <=> Remembered(content)
<1>1. DOMAIN content.messages = 1..Len(content.messages)
  BY Elements DEF Content
<1> QED
  BY <1>1 DEF Archived, Hidden, Remembered

(* Whoever has less of the same hides nothing else.                        *)
LEMMA LessIsRemembered ==
    ASSUME NEW c \in Content, NEW d \in Content, Remembered(d),
           Prefix(c.messages, d.messages), c.index <= d.index
    PROVE  Remembered(c)
<1>1. /\ Len(c.messages) \in Nat /\ Len(d.messages) \in Nat
      /\ c.index \in Nat /\ d.index \in Nat
  BY Elements DEF Content
<1> QED
  BY <1>1 DEF Remembered, Prefix

(* The clauses of HiddenInv about one run.                                 *)
Sound(r) ==
    /\ run[r].pc \in {"picking", "archiving", "marking"} =>
         run[r].end <= Len(Obj(r).messages)
    /\ run[r].pc = "archiving" =>
         \A i \in (Obj(r).index + 1)..run[r].end :
             Obj(r).messages[i] \in Range(run[r].chunk)
    /\ run[r].pc = "marking" =>
         \A i \in 1..run[r].end : history[Obj(r).messages[i]] > 0
    /\ run[r].pc \in {"answering", "adding"} => InRange(Obj(r))
    /\ run[r].pc \in {"created", "writing"} => file.index <= Obj(r).index
    /\ run[r].pc = "created" => run[r].meta <= Obj(r).index

LEMMA HiddenMeaning ==
    ASSUME TypeOK
    PROVE  HiddenInv <=> (Without({"split", "reset", "unarchived"}) =>
                             /\ Remembered(file)
                             /\ \A r \in Runs : Remembered(objs[r]) /\ Sound(r))
<1>1. file \in Content /\ \A r \in Runs : objs[r] \in Content
  BY DEF TypeOK
<1>2. /\ Archived(Hidden(file)) <=> Remembered(file)
      /\ \A r \in Runs : Archived(Hidden(objs[r])) <=> Remembered(objs[r])
  BY <1>1, RememberedIsArchived
<1> QED
  BY <1>2 DEF HiddenInv, Sound

(* An object to which a message was added, or whose index went on.         *)
Grown(old, new) ==
    /\ Prefix(old.messages, new.messages) /\ old.index <= new.index
    /\ InRange(old) => InRange(new)

LEMMA GrownFromItself ==
    ASSUME NEW c \in Content
    PROVE  Grown(c, c)
<1>1. Len(c.messages) \in Nat /\ c.index \in Nat
  BY Elements DEF Content
<1> QED
  BY <1>1 DEF Grown, Prefix

LEMMA GrownByOne ==
    ASSUME NEW old \in Content, NEW new \in Content, InRange(old), new.index = old.index,
           \E m \in Message : new.messages = Append(old.messages, m)
    PROVE  Grown(old, new) /\ InRange(new)
<1>1. /\ Len(new.messages) = Len(old.messages) + 1
      /\ \A i \in 1..Len(old.messages) : new.messages[i] = old.messages[i]
  BY AppendProperties DEF Content
<1>2. Len(old.messages) \in Nat /\ old.index \in Nat /\ old.index <= Len(old.messages)
  BY Elements DEF Content, InRange
<1>3. Prefix(old.messages, new.messages) /\ old.index <= new.index
  BY <1>1, <1>2 DEF Prefix
<1>4. InRange(new)
  BY <1>1, <1>2 DEF InRange
<1> QED
  BY <1>3, <1>4 DEF Grown

(* A run is not disturbed by what others do to its object and the file.    *)
LEMMA SoundKept ==
    ASSUME TypeOK, PhaseInv, TypeOK', PhaseInv', [Next]_vars, NEW q \in Runs, Sound(q),
           run'[q] = run[q],
           run[q].hold \in Runs => Grown(objs[run[q].hold], objs'[run[q].hold]),
           run[q].pc \in {"created", "writing"} =>
             file'.index <= file.index \/ file'.index <= Obj(q).index
    PROVE  Sound(q)'
<1> DEFINE h == run[q].hold
           old == objs[h]
           new == objs'[h]
<1>0. CASE run[q].pc \notin {"picking", "archiving", "marking", "answering", "adding", "created",
                            "writing"}
  BY <1>0 DEF Sound
<1>1. CASE run[q].pc \in {"picking", "archiving", "marking", "answering", "adding", "created",
                          "writing"}
  <2>1. h \in Runs
    BY <1>1, HasObject
  <2>2. /\ old.messages \in Seq(Message) /\ old.index \in Nat
        /\ new.messages \in Seq(Message) /\ new.index \in Nat
        /\ run[q].end \in Nat /\ run[q].meta \in Nat
        /\ file.index \in Nat /\ file'.index \in Nat
    BY <2>1 DEF TypeOK, Content, Locals
  <2>3. Len(old.messages) \in Nat /\ Len(new.messages) \in Nat
    BY <2>2, Elements
  <2>4. Obj(q) = old /\ Obj(q)' = new /\ Grown(old, new)
    BY <2>1 DEF Obj
  <2>5. \A i \in 1..Len(old.messages) : old.messages[i] \in Message
    BY <2>2, Elements
  <2> HIDE DEF old, new
  <2>6. \A i \in 1..Len(old.messages) : new.messages[i] = old.messages[i]
    BY <2>3, <2>4 DEF Grown, Prefix
  <2>7. old.index <= new.index /\ Len(old.messages) <= Len(new.messages)
    BY <2>4 DEF Grown, Prefix
  <2>8. run[q].pc \in {"picking", "archiving", "marking"} =>
          run[q].end <= Len(old.messages) /\ run[q].end <= Len(new.messages)
    BY <2>2, <2>3, <2>4, <2>7 DEF Sound
  <2>9. run[q].pc = "archiving" =>
          \A i \in (new.index + 1)..run[q].end : new.messages[i] \in Range(run[q].chunk)
    <3> SUFFICES ASSUME run[q].pc = "archiving", NEW i \in (new.index + 1)..run[q].end
                 PROVE  new.messages[i] \in Range(run[q].chunk)
      OBVIOUS
    <3>1. i \in (old.index + 1)..run[q].end /\ i \in 1..Len(old.messages)
      BY <2>2, <2>3, <2>7, <2>8
    <3> QED
      BY <2>4, <2>6, <3>1 DEF Sound
  <2>10. run[q].pc = "marking" => \A i \in 1..run[q].end : history'[new.messages[i]] > 0
    <3> SUFFICES ASSUME run[q].pc = "marking", NEW i \in 1..run[q].end
                 PROVE  history'[new.messages[i]] > 0
      OBVIOUS
    <3>1. i \in 1..Len(old.messages)
      BY <2>2, <2>3, <2>8
    <3>2. new.messages[i] = old.messages[i] /\ old.messages[i] \in Message
      BY <2>5, <2>6, <3>1
    <3>3. history[old.messages[i]] > 0
      BY <2>4 DEF Sound
    <3> QED
      BY <3>2, <3>3, HistoryGrows
  <2>11. run[q].pc \in {"answering", "adding"} => InRange(new)
    BY <2>4 DEF Sound, Grown
  <2>12. run[q].pc \in {"created", "writing"} => file'.index <= new.index
    BY <2>2, <2>4, <2>7 DEF Sound
  <2>13. run[q].pc = "created" => run[q].meta <= new.index
    BY <2>2, <2>4, <2>7 DEF Sound
  <2>14. /\ run'[q] = run[q] /\ Obj(q)' = new
    BY <2>4
  <2> QED
    BY <2>8, <2>9, <2>10, <2>11, <2>12, <2>13, <2>14 DEF Sound
<1> QED
  BY <1>0, <1>1

LEMMA RememberedKept ==
    ASSUME TypeOK, PhaseInv, [Next]_vars, NEW content \in Content, Remembered(content)
    PROVE  \A i \in 1..Len(content.messages) :
             i <= content.index => history'[content.messages[i]] > 0
<1>1. \A i \in 1..Len(content.messages) : content.messages[i] \in Message
  BY Elements DEF Content
<1> QED
  BY <1>1, HistoryGrows DEF Remembered

(* What a reader or a crash finds of the file hides nothing else either.   *)
LEMMA PartialIsRemembered ==
    ASSUME TypeOK, PhaseInv, PrefixInv, HiddenInv, Without({"split", "reset", "unarchived"}),
           NEW content \in Partial
    PROVE  content \in Content /\ Remembered(content)
<1>1. content \in Content
  BY PartialProperties
<1>2. Remembered(file) /\ \A r \in Runs : Remembered(objs[r]) /\ Sound(r)
  BY HiddenMeaning
<1>3. CASE content = file
  BY <1>1, <1>2, <1>3
<1>4. CASE content # file
  <2>1. PICK w \in Runs :
          /\ run[w].pc = "writing" /\ run[w].hold \in Runs
          /\ Prefix(file.messages, Obj(w).messages) => Prefix(content.messages, Obj(w).messages)
    BY <1>4, PartialProperties
  <2>2. Without({"split"}) /\ Without({"reset"})
    BY DEF Without
  <2>3. Prefix(file.messages, Obj(w).messages)
    BY <2>1, <2>2 DEF PrefixInv
  <2>4. content.index = file.index /\ file.index <= Obj(w).index
    BY <1>2, <2>1, PartialProperties DEF Sound
  <2>5. Obj(w) \in Content /\ Remembered(Obj(w))
    BY <1>2, <2>1 DEF Obj, TypeOK
  <2> QED
    BY <1>1, <2>1, <2>3, <2>4, <2>5, LessIsRemembered
<1> QED
  BY <1>3, <1>4

LEMMA HiddenStep ==
    ASSUME TypeOK, PhaseInv, LockInv, OneInv, PrefixInv, HiddenInv, [Next]_vars
    PROVE  HiddenInv'
<1> DEFINE Used == {"picking", "archiving", "marking", "answering", "adding", "created",
                    "writing"}
<1>t. TypeOK' /\ PhaseInv'
  BY TypeStep, PhaseStep
<1> SUFFICES ASSUME Without({"split", "reset", "unarchived"})'
             PROVE  /\ Remembered(file)'
                    /\ \A q \in Runs : Remembered(objs[q])' /\ Sound(q)'
  <2>1. /\ DOMAIN file'.messages = 1..Len(file'.messages)
        /\ \A q \in Runs : DOMAIN objs'[q].messages = 1..Len(objs'[q].messages)
    BY <1>t, Elements DEF TypeOK, Content
  <2>2. ASSUME Remembered(file)' PROVE Archived(Hidden(file))'
    BY <2>1, <2>2 DEF Remembered, Archived, Hidden
  <2>3. ASSUME NEW q \in Runs, Remembered(objs[q])' PROVE Archived(Hidden(objs[q]))'
    BY <2>1, <2>3 DEF Remembered, Archived, Hidden
  <2> QED
    BY <2>2, <2>3 DEF HiddenInv, Sound
<1>a. Without({"split", "reset", "unarchived"}) /\ Without({"split"}) /\ Without({"reset"})
  BY TroubleGrows DEF Without
<1>b. Remembered(file) /\ \A q \in Runs : Remembered(objs[q]) /\ Sound(q)
  BY <1>a, HiddenMeaning
<1>c. file \in Content /\ file' \in Content /\ \A o \in Runs : objs[o] \in Content /\ objs'[o] \in Content
  BY <1>t DEF TypeOK
<1>l. /\ file.index \in Nat /\ \A q \in Runs : objs[q].index \in Nat
      /\ \A q \in Runs : Len(objs[q].messages) \in Nat
      /\ Empty.index = 0 /\ Len(Empty.messages) = 0 /\ Empty.messages = <<>>
  BY <1>c, Elements, NewOnes, EmptySeq DEF Content
<1>e. ASSUME NEW o \in Runs, objs'[o] = Empty PROVE Remembered(objs[o])'
  BY <1>e, <1>l DEF Remembered
<1>o. ASSUME NEW o \in Runs, objs'[o] = objs[o] PROVE Remembered(objs[o])'
  <2>1. \A i \in 1..Len(objs[o].messages) :
          i <= objs[o].index => history'[objs[o].messages[i]] > 0
    BY <1>b, <1>c, RememberedKept
  <2> QED
    BY <1>o, <2>1 DEF Remembered
<1>f. ASSUME NEW content \in Content, Remembered(content), file' = content PROVE Remembered(file)'
  <2>1. \A i \in 1..Len(content.messages) :
          i <= content.index => history'[content.messages[i]] > 0
    BY <1>f, RememberedKept
  <2> QED
    BY <1>f, <2>1 DEF Remembered
<1>g. \A o \in Runs : objs'[o] = objs[o] => Grown(objs[o], objs'[o])
  BY <1>c, GrownFromItself
<1>s. ASSUME NEW q \in Runs, run'[q] = run[q],
             run[q].hold \in Runs => Grown(objs[run[q].hold], objs'[run[q].hold]),
             file'.index = file.index \/ (run[q].hold \in Runs => file'.index <= Obj(q).index)
      PROVE  Sound(q)'
  <2>1. run[q].pc \in {"created", "writing"} => run[q].hold \in Runs
    BY HasObject
  <2>2. run[q].pc \in {"created", "writing"} =>
             file'.index <= file.index \/ file'.index <= Obj(q).index
    BY <1>s, <1>l, <2>1
  <2> QED
    BY <1>b, <1>s, <1>t, <2>2, SoundKept
<1>v. ASSUME NEW q \in Runs, run'[q].pc \notin Used PROVE Sound(q)'
  BY <1>v DEF Sound
<1>1. CASE UNCHANGED vars
  <2>1. file' = file /\ \A o \in Runs : objs'[o] = objs[o] /\ run'[o] = run[o]
    BY <1>1 DEF vars
  <2> QED
    BY <1>b, <1>c, <1>f, <1>g, <1>o, <1>s, <2>1
<1>2. CASE Die
  <2>1. file' \in Partial /\ \A o \in Runs : objs'[o] = Empty /\ run'[o].pc \notin Used
    BY <1>2, Deaths
  <2>2. file' \in Content /\ Remembered(file)'
    BY <1>a, <1>f, <2>1, PartialIsRemembered
  <2> QED
    BY <1>e, <1>v, <2>1, <2>2
<1>3. ASSUME NEW r \in Runs,
             Gets(r) \/ GivesUp(r) \/ SaveFails(r) \/ SaveCache(r) \/ Invalidate(r)
      PROVE  /\ Remembered(file)'
             /\ \A q \in Runs : Remembered(objs[q])' /\ Sound(q)'
  <2>1. /\ objs' = objs /\ file' = file /\ \A q \in Runs : q # r => run'[q] = run[q]
        /\ run'[r].pc \notin Used
    <3>1. CASE Gets(r) \/ GivesUp(r)
      BY <3>1, GetsProperties, GivesUpProperties
    <3>2. CASE SaveCache(r) \/ Invalidate(r)
      BY <3>2, EndsOfSaves
    <3>3. CASE SaveFails(r)
      <4>1. \E to \in {"done", "estimating", "invalidating"} :
              \E from, hold, after : Path(r, from, to, hold, after)
        <5>1. run[r].after \in {"done", "estimating", "invalidating"}
          BY DEF PhaseInv
        <5> QED
          BY <3>3, <5>1, Paths
      <4> QED
        BY <3>3, <4>1 DEF SaveFails, Path
    <3> QED
      BY <1>3, <3>1, <3>2, <3>3
  <2>2. \A q \in Runs : Sound(q)'
    BY <1>g, <1>s, <1>v, <2>1
  <2> QED
    BY <1>b, <1>c, <1>f, <1>o, <2>1, <2>2
<1>4. ASSUME NEW r \in Runs, Load(r) \/ LoadFails(r)
      PROVE  /\ Remembered(file)'
             /\ \A q \in Runs : Remembered(objs[q])' /\ Sound(q)'
  <2>1. /\ file' = file /\ \A q \in Runs : q # r => run'[q] = run[q]
        /\ \A p \in Runs : p # r => objs'[p] = objs[p]
        /\ \A q \in Runs : run[q].hold # r
        /\ run'[r].pc \notin Used /\ history' = history
        /\ objs'[r] \in Partial \/ objs'[r] = Empty
    BY <1>4, LoadProperties DEF InUse
  <2>2. Remembered(objs[r])'
    <3>1. ASSUME objs'[r] \in Partial PROVE Remembered(objs[r])'
      <4>1. Remembered(objs'[r])
        BY <1>a, <3>1, PartialIsRemembered
      <4> QED
        BY <2>1, <4>1 DEF Remembered
    <3> QED
      BY <1>e, <2>1, <3>1
  <2>3. \A q \in Runs : Sound(q)'
    BY <1>g, <1>s, <1>v, <2>1
  <2> QED
    BY <1>b, <1>c, <1>f, <1>o, <2>1, <2>2, <2>3
<1>5. ASSUME NEW r \in Runs, Clear(r) PROVE FALSE
  BY <1>5, ClearProperties DEF Without
<1>6. ASSUME NEW r \in Runs, Adds(r)
      PROVE  /\ Remembered(file)'
             /\ \A q \in Runs : Remembered(objs[q])' /\ Sound(q)'
  <2>0. PICK o \in Runs : o = run[r].hold
    BY <1>6, AddsProperties
  <2>1. /\ file' = file /\ \A q \in Runs : q # r => run'[q] = run[q]
        /\ o \in Runs /\ \A p \in Runs : p # o => objs'[p] = objs[p]
        /\ run[r].pc \in {"answering", "adding"} /\ run'[r].pc \in {"adding", "saving"}
        /\ run'[r].hold = o /\ objs'[o].index = objs[o].index /\ history' = history
    BY <1>6, <2>0, AddsProperties
  <2>2. \E m \in Message : objs'[o].messages = Append(objs[o].messages, m)
    BY <1>6, <2>0, AddsProperties
  <2>3. objs[o].index <= Len(objs[o].messages)
    BY <1>b, <2>0, <2>1 DEF Sound, InRange, Obj
  <2>4. /\ Len(objs'[o].messages) = Len(objs[o].messages) + 1
        /\ \A i \in 1..Len(objs[o].messages) : objs'[o].messages[i] = objs[o].messages[i]
    BY <1>c, <2>1, <2>2, AppendProperties DEF Content
  <2>5. Grown(objs[o], objs'[o]) /\ InRange(objs'[o])
    <3>1. objs[o] \in Content /\ objs'[o] \in Content /\ InRange(objs[o])
      BY <1>c, <2>1, <2>3 DEF InRange
    <3> QED
      BY <2>1, <2>2, <3>1, GrownByOne
  <2>6. Remembered(objs[o])'
    BY <1>b, <1>l, <2>1, <2>3, <2>4, SMTT(30) DEF Remembered
  <2>7. \A q \in Runs : q # r => Sound(q)'
    BY <1>g, <1>s, <2>0, <2>1, <2>5
  <2>8. Sound(r)'
    BY <2>1, <2>5 DEF Sound, Obj
  <2> QED
    BY <1>b, <1>c, <1>f, <1>o, <2>1, <2>6, <2>7, <2>8
<1>7. ASSUME NEW r \in Runs, Mark(r)
      PROVE  /\ Remembered(file)'
             /\ \A q \in Runs : Remembered(objs[q])' /\ Sound(q)'
  <2>0. PICK o \in Runs : o = run[r].hold
    BY <1>7, MarkProperties
  <2>1. /\ file' = file /\ \A q \in Runs : q # r => run'[q] = run[q]
        /\ o \in Runs /\ \A p \in Runs : p # o => objs'[p] = objs[p]
        /\ run[r].pc = "marking" /\ run'[r].pc = "saving" /\ history' = history
        /\ objs'[o].index = run[r].end /\ objs'[o].messages = objs[o].messages
    BY <1>7, <2>0, MarkProperties
  <2>2. /\ run[r].end <= Len(objs[o].messages) /\ objs[o].index <= run[r].end
        /\ \A i \in 1..run[r].end : history[objs[o].messages[i]] > 0
        /\ run[r].end \in Nat
    BY <1>b, <2>0, <2>1 DEF Sound, Obj, LockInv, TypeOK, Locals
  <2>3. Grown(objs[o], objs'[o])
    BY <1>l, <2>1, <2>2 DEF Grown, Prefix, InRange
  <2>4. Remembered(objs[o])'
    BY <1>l, <2>1, <2>2 DEF Remembered
  <2>5. \A q \in Runs : Sound(q)'
    <3>1. \A q \in Runs : q # r => Sound(q)'
      BY <1>g, <1>s, <2>1, <2>3
    <3> QED
      BY <1>v, <2>1, <3>1
  <2> QED
    BY <1>b, <1>c, <1>f, <1>o, <2>1, <2>4, <2>5
<1>8. ASSUME NEW r \in Runs, SaveCreate(r) \/ SaveMeta(r) \/ SaveMessages(r)
      PROVE  /\ Remembered(file)'
             /\ \A q \in Runs : Remembered(objs[q])' /\ Sound(q)'
  <2> DEFINE o == run[r].hold
  <2>1. /\ objs' = objs /\ \A q \in Runs : q # r => run'[q] = run[q]
        /\ o \in Runs /\ history' = history
    BY <1>8, SaveProperties
  <2>2. \A q \in Runs : run[q].hold \in Runs => run[q].hold = o
    BY <1>a, <2>1 DEF OneInv, InUse
  <2>3. /\ run'[r].hold = o
        /\ run'[r].pc \in {"created", "writing", "saved"}
        /\ run'[r].pc \in {"created", "writing"} => file'.index <= objs[o].index
        /\ run'[r].pc = "created" => run'[r].meta <= objs[o].index
        /\ Prefix(file'.messages, objs[o].messages) /\ file'.index <= objs[o].index
    <3>1. CASE SaveCreate(r)
      <4>1. Becomes(r, "created", o, run[r].after, Obj(r).index, run[r].end, run[r].chunk)
        BY <3>1, Moves
      <4>2. file' = Empty /\ run'[r].pc = "created" /\ run'[r].meta = objs[o].index
            /\ run'[r].hold = o
        BY <3>1, <4>1 DEF SaveCreate, Becomes, Obj
      <4> QED
        BY <1>l, <2>1, <4>2 DEF Prefix
    <3>2. CASE SaveMeta(r)
      <4>1. run'[r].pc = "writing" /\ run[r].pc = "created" /\ run'[r].hold = o
        BY <3>2, Paths DEF Path
      <4>2. file'.messages = file.messages /\ file'.index = run[r].meta
        BY <1>c, <3>2 DEF SaveMeta, Content
      <4>3. run[r].meta <= objs[o].index /\ Prefix(file.messages, objs[o].messages)
        BY <1>a, <1>b, <2>1, <4>1 DEF Sound, PrefixInv, Obj
      <4> QED
        BY <4>1, <4>2, <4>3
    <3>3. CASE SaveMessages(r)
      <4>1. run'[r].pc = "saved" /\ run[r].pc = "writing" /\ run'[r].hold = o
        BY <3>3, Paths DEF Path
      <4>2. /\ Prefix(file.messages, objs[o].messages) => Prefix(file'.messages, objs[o].messages)
            /\ file'.index = file.index
        BY <3>3, SavedMessages DEF Obj
      <4>3. file.index <= objs[o].index /\ Prefix(file.messages, objs[o].messages)
        BY <1>a, <1>b, <2>1, <4>1 DEF Sound, PrefixInv, Obj
      <4> QED
        BY <4>1, <4>2, <4>3
    <3> QED
      BY <1>8, <3>1, <3>2, <3>3
  <2>4. Remembered(file')
    BY <1>b, <1>c, <2>1, <2>3, LessIsRemembered
  <2>5. Remembered(file)'
    BY <2>1, <2>4 DEF Remembered
  <2>6. \A q \in Runs : q # r => Sound(q)'
    BY <1>g, <1>s, <2>1, <2>2, <2>3 DEF Obj
  <2>7. Sound(r)'
    BY <2>1, <2>3 DEF Sound, Obj
  <2> QED
    BY <1>o, <2>1, <2>5, <2>6, <2>7
<1>9. ASSUME NEW r \in Runs, Thinks(r)
      PROVE  /\ Remembered(file)'
             /\ \A q \in Runs : Remembered(objs[q])' /\ Sound(q)'
  <2> DEFINE o == run[r].hold
  <2>1. /\ objs' = objs /\ file' = file /\ \A q \in Runs : q # r => run'[q] = run[q]
        /\ run'[r].hold = o /\ o \in Runs
    BY <1>9, ThinksProperties
  <2>2. Sound(r)'
    <3>1. CASE NothingToConsolidate(r) \/ TakeLock(r) \/ EndConsolidation(r) \/ NoChunk(r)
               \/ ArchiveFails(r)
      <4>1. \E to \in {"reading", "estimating"} : \E from : Path(r, from, to, o, "done")
        BY <3>1, Paths
      <4> QED
        BY <1>v, <4>1 DEF Path
    <3>2. CASE ReadHistory(r)
      <4>1. run'[r].pc = "answering" /\ InRange(Obj(r))
        BY <3>2, Paths DEF Path, ReadHistory
      <4> QED
        BY <2>1, <4>1 DEF Sound, Obj
    <3>3. CASE PickBoundary(r)
      <4>1. PICK i \in Boundaries(Obj(r)) :
              Becomes(r, "picking", o, run[r].after, run[r].meta, i, run[r].chunk)
        BY <3>3, Moves
      <4>2. run'[r].pc = "picking" /\ run'[r].end = i
        BY <4>1 DEF Becomes
      <4>3. i \in (objs[o].index + 1)..(Len(objs[o].messages) - 1)
        BY <4>1 DEF Boundaries, Obj
      <4>4. i <= Len(objs[o].messages)
        BY <1>l, <2>1, <4>3
      <4> QED
        BY <2>1, <4>2, <4>4 DEF Sound, Obj
    <3>4. CASE TakeChunk(r)
      <4>1. Becomes(r, "archiving", o, run[r].after, run[r].meta, run[r].end, ChunkOf(r))
        BY <3>4, Moves
      <4>2. run'[r].pc = "archiving" /\ run'[r].end = run[r].end /\ run'[r].chunk = ChunkOf(r)
            /\ run[r].pc = "picking"
        BY <3>4, <4>1 DEF Becomes, TakeChunk, At
      <4>3. run[r].end <= Len(Obj(r).messages)
        BY <1>b, <4>2 DEF Sound
      <4>4. UpTo(r) = run[r].end
        BY <2>1, <4>3, ChunkProperties
      <4>5. \A i \in (Obj(r).index + 1)..run[r].end :
              Obj(r).messages[i] \in Range(ChunkOf(r))
        <5>1. \A i \in (Obj(r).index + 1)..run[r].end :
                /\ i - Obj(r).index \in DOMAIN ChunkOf(r)
                /\ ChunkOf(r)[i - Obj(r).index] = Obj(r).messages[i]
          BY <2>1, <4>4, ChunkProperties
        <5> QED
          BY <5>1 DEF Range
      <4> QED
        BY <2>1, <4>2, <4>3, <4>5 DEF Sound, Obj
    <3>5. CASE Archive(r)
      <4>1. Becomes(r, "marking", o, run[r].after, run[r].meta, run[r].end, <<>>)
        BY <3>5, Moves
      <4>2. run'[r].pc = "marking" /\ run'[r].end = run[r].end /\ run[r].pc = "archiving"
        BY <3>5, <4>1 DEF Becomes, Archive, At
      <4>3. run[r].end <= Len(Obj(r).messages) /\ run[r].end \in Nat
        BY <1>b, <4>2 DEF Sound, TypeOK, Locals
      <4>4. ASSUME NEW i \in 1..run[r].end PROVE history'[objs[o].messages[i]] > 0
        <5> DEFINE m == objs[o].messages[i]
        <5>1. m \in Message /\ i \in 1..Len(objs[o].messages)
          BY <1>c, <1>l, <2>1, <4>3, Elements DEF Content, Obj
        <5>2. CASE i <= objs[o].index
          <6>1. history[m] > 0
            BY <1>b, <2>1, <5>1, <5>2 DEF Remembered
          <6> QED
            BY <5>1, <6>1, HistoryGrows
        <5>3. CASE ~(i <= objs[o].index)
          <6>1. i \in (objs[o].index + 1)..run[r].end
            BY <1>l, <2>1, <4>3, <5>3
          <6>2. m \in Range(run[r].chunk) /\ run[r].chunk \in Seq(Message)
            BY <1>b, <4>2, <6>1 DEF Sound, Obj, TypeOK, Locals
          <6> HIDE DEF m
          <6> DEFINE times == Cardinality({k \in DOMAIN run[r].chunk : run[r].chunk[k] = m})
          <6>3. times \in Nat /\ times > 0
            BY <6>2, CountProperties
          <6>4. history'[m] = history[m] + times
            BY <3>5, <5>1 DEF Archive
          <6>5. history[m] \in Nat
            BY <5>1 DEF TypeOK
          <6> HIDE DEF times
          <6>6. history'[m] > 0
            BY <6>3, <6>4, <6>5
          <6> QED
            BY <6>6 DEF m
        <5> QED
          BY <5>2, <5>3
      <4> QED
        BY <2>1, <4>2, <4>3, <4>4 DEF Sound, Obj
    <3>6. CASE ArchiveLost(r)
      BY <3>6 DEF ArchiveLost, Without
    <3> QED
      BY <1>9, <3>1, <3>2, <3>3, <3>4, <3>5, <3>6 DEF Thinks
  <2>3. \A q \in Runs : q # r => Sound(q)'
    BY <1>g, <1>s, <2>1
  <2> QED
    BY <1>b, <1>c, <1>f, <1>o, <2>1, <2>2, <2>3
<1> QED
  BY <1>1, <1>2, <1>3, <1>4, <1>5, <1>6, <1>7, <1>8, <1>9, Kinds

-----------------------------------------------------------------------------
(* A message of a turn to come is nowhere yet.                             *)

Said(m) ==
    \/ history[m] > 0
    \/ m \in Range(file.messages)
    \/ \E o \in Runs : m \in Range(objs[o].messages) \/ m \in Range(run[o].chunk)

LEMMA UnsaidMeaning ==
    ASSUME TypeOK
    PROVE  UnsaidInv <=> \A q \in Runs, m \in Message : Unsaid(q, m) => ~Said(m)
<1>1. \A m \in Message : history[m] \in Nat
  BY DEF TypeOK
<1>2. \A m \in Message : history[m] = 0 <=> ~(history[m] > 0)
  BY <1>1
<1> QED
  BY <1>2 DEF UnsaidInv, Said

(* The turn of a run that has still to speak had so before.                *)
LEMMA UnsaidBefore ==
    ASSUME TypeOK, PhaseInv, [Next]_vars, NEW q \in Runs, NEW m \in Message, Unsaid(q, m)'
    PROVE  Unsaid(q, m)
<1>o. ASSUME run'[q] = run[q] PROVE Unsaid(q, m)
  BY <1>o DEF Unsaid, BeforeTurn, UserOf, AssistantOf
<1>1. CASE UNCHANGED vars
  BY <1>1, <1>o DEF vars
<1>2. CASE Die
  <2>1. CASE run[q].pc = "idle"
    BY <1>2, <1>o, <2>1, Deaths
  <2>2. CASE run[q].pc # "idle"
    BY <1>2, <2>2, Deaths DEF Unsaid, BeforeTurn
  <2> QED
    BY <2>1, <2>2
<1>3. ASSUME Gets(q) \/ Thinks(q) \/ GivesUp(q) PROVE Unsaid(q, m)
  <2>1. /\ run[q].pc \in {"idle", "storing", "consolidating", "estimating", "picking",
                          "archiving", "reading", "answering"}
        /\ run'[q].pc # "adding"
    BY <1>3, GetsProperties, ThinksProperties, GivesUpProperties
  <2> QED
    BY <2>1 DEF Unsaid, BeforeTurn, UserOf, AssistantOf
<1>4. ASSUME Load(q) \/ LoadFails(q) PROVE Unsaid(q, m)
  <2>1. run[q].pc = "loading" /\ run'[q].pc = "storing"
    BY <1>4, LoadProperties
  <2> QED
    BY <2>1 DEF Unsaid, BeforeTurn, UserOf, AssistantOf
<1>5. ASSUME Adds(q) PROVE Unsaid(q, m)
  <2>1. /\ \/ run[q].pc = "answering" /\ run'[q].pc = "adding"
           \/ run[q].pc = "adding" /\ run'[q].pc = "saving"
        /\ run'[q].after = "done"
    BY <1>5, AddsProperties
  <2> QED
    BY <2>1 DEF Unsaid, BeforeTurn, UserOf, AssistantOf
<1>6. ASSUME Mark(q) PROVE Unsaid(q, m)
  <2>1. run[q].pc = "marking" /\ run'[q].pc = "saving"
    BY <1>6, MarkProperties
  <2> QED
    BY <2>1 DEF Unsaid, BeforeTurn, UserOf, AssistantOf
<1>7. ASSUME Clear(q) \/ Invalidate(q) PROVE FALSE
  <2>1. run'[q].pc \in {"saving", "done"} /\ run'[q].after \in {"invalidating", "done"}
    BY <1>7, Paths DEF Path
  <2> QED
    BY <2>1 DEF Unsaid, BeforeTurn
<1>8. ASSUME SaveFails(q) \/ SaveCache(q) PROVE Unsaid(q, m)
  <2>1. /\ run'[q].pc \in {"done", "invalidating"} \/ run[q].after = "estimating"
        /\ run'[q].pc \in {"done", "invalidating", "estimating"} /\ run'[q].after = "done"
    <3>1. run[q].after \in {"done", "estimating", "invalidating"}
      BY DEF PhaseInv
    <3>2. \E to \in {"done", "estimating", "invalidating"} : \E from, hold :
            /\ Path(q, from, to, hold, "done")
            /\ to = "estimating" => run[q].after = "estimating"
      BY <1>8, <3>1, Paths
    <3> QED
      BY <3>2 DEF Path
  <2> QED
    BY <2>1 DEF Unsaid, BeforeTurn, UserOf, AssistantOf
<1>9. ASSUME SaveCreate(q) \/ SaveMeta(q) \/ SaveMessages(q) PROVE Unsaid(q, m)
  <2>1. run'[q].pc \in {"created", "writing", "saved"} /\ run'[q].after = run[q].after
    BY <1>9, Paths DEF Path
  <2> QED
    BY <2>1 DEF Unsaid, BeforeTurn, UserOf, AssistantOf
<1>10. ASSUME NEW r \in Runs, r # q,
              \/ Gets(r) \/ Load(r) \/ LoadFails(r) \/ Thinks(r) \/ GivesUp(r) \/ Adds(r)
              \/ SaveFails(r) \/ SaveCreate(r) \/ SaveMeta(r) \/ SaveMessages(r)
              \/ SaveCache(r) \/ Mark(r) \/ Clear(r) \/ Invalidate(r)
       PROVE  run'[q] = run[q]
  <2>1. CASE Gets(r) \/ Load(r) \/ LoadFails(r) \/ Thinks(r) \/ GivesUp(r) \/ Adds(r)
    BY <1>10, <2>1, GetsProperties, LoadProperties, ThinksProperties, GivesUpProperties,
       AddsProperties
  <2>2. CASE SaveFails(r) \/ SaveCreate(r) \/ SaveMeta(r) \/ SaveMessages(r) \/ SaveCache(r)
    BY <1>10, <2>2, SaveProperties
  <2>3. CASE Mark(r) \/ Clear(r) \/ Invalidate(r)
    BY <1>10, <2>3, MarkProperties, ClearProperties, EndsOfSaves
  <2> QED
    BY <1>10, <2>1, <2>2, <2>3
<1> QED
  BY <1>1, <1>2, <1>3, <1>4, <1>5, <1>6, <1>7, <1>8, <1>9, <1>10, <1>o, Kinds

(* The chunks: a step makes none but by TakeChunk, of the object.          *)
LEMMA Chunks ==
    ASSUME TypeOK, PhaseInv, [Next]_vars, NEW q \in Runs
    PROVE  \/ Range(run'[q].chunk) \subseteq Range(run[q].chunk)
           \/ /\ run[q].hold \in Runs
              /\ Range(run'[q].chunk) \subseteq Range(objs[run[q].hold].messages)
<1>e. Range(<<>>) = {}
  BY DEF Range
<1>b. ASSUME NEW r \in Runs, NEW pc, NEW hold, NEW after, NEW meta, NEW end, NEW chunk,
             Becomes(r, pc, hold, after, meta, end, chunk), chunk \in {run[r].chunk, <<>>}
      PROVE  Range(run'[q].chunk) \subseteq Range(run[q].chunk)
  BY <1>b, <1>e DEF Becomes
<1>1. CASE UNCHANGED vars
  BY <1>1 DEF vars
<1>2. CASE Die
  BY <1>2, <1>e, Deaths
<1>3. ASSUME NEW r \in Runs,
             Hit(r) \/ Miss(r) \/ StoreInCache(r) \/ SaveFails(r) \/ SaveCache(r)
             \/ (\E content : Loaded(r, content)) \/ SaveCreate(r) \/ SaveMeta(r) \/ SaveMessages(r)
      PROVE  Range(run'[q].chunk) \subseteq Range(run[q].chunk)
  <2>1. \E pc, hold, after, meta, end : \E chunk \in {run[r].chunk, <<>>} :
          Becomes(r, pc, hold, after, meta, end, chunk)
    BY <1>3, Moves DEF Uses, Ends, Goes, Returns
  <2> QED
    BY <1>b, <2>1
<1>4. ASSUME NEW r \in Runs,
             NothingToConsolidate(r) \/ TakeLock(r) \/ Leave(r) \/ PickBoundary(r)
             \/ Archive(r) \/ ArchiveLost(r) \/ Mark(r) \/ ReadHistory(r)
      PROVE  Range(run'[q].chunk) \subseteq Range(run[q].chunk)
  <2>1. \E pc, hold, after, meta, end : \E chunk \in {run[r].chunk, <<>>} :
          Becomes(r, pc, hold, after, meta, end, chunk)
    BY <1>4, Moves DEF Goes, Leaves
  <2> QED
    BY <1>b, <2>1
<1>5. ASSUME NEW r \in Runs,
             AddUserMessage(r) \/ AddAssistantMessage(r) \/ Clear(r) \/ TurnFails(r)
             \/ Invalidate(r) \/ Finish(r)
      PROVE  Range(run'[q].chunk) \subseteq Range(run[q].chunk)
  <2>1. \E pc, hold, after, meta, end : \E chunk \in {run[r].chunk, <<>>} :
          Becomes(r, pc, hold, after, meta, end, chunk)
    BY <1>5, Moves DEF Goes, Ends
  <2> QED
    BY <1>b, <2>1
<1>6. ASSUME NEW r \in Runs, TakeChunk(r)
      PROVE  \/ Range(run'[q].chunk) \subseteq Range(run[q].chunk)
             \/ /\ run[q].hold \in Runs
                /\ Range(run'[q].chunk) \subseteq Range(objs[run[q].hold].messages)
  <2>1. /\ run'[r].chunk = ChunkOf(r)
        /\ \A p \in Runs : p # r => run'[p] = run[p]
    <3>1. Becomes(r, "archiving", run[r].hold, run[r].after, run[r].meta, run[r].end, ChunkOf(r))
      BY <1>6, Moves
    <3> QED
      BY <3>1 DEF Becomes
  <2>2. run[r].hold \in Runs
    BY <1>6, HasObject DEF TakeChunk, At
  <2>3. /\ DOMAIN Obj(r).messages = 1..Len(Obj(r).messages) /\ Len(Obj(r).messages) \in Nat
        /\ Obj(r).index \in Nat
    BY <2>2, Elements DEF Obj, TypeOK, Content
  <2>4. \A k \in DOMAIN ChunkOf(r) :
          /\ k + Obj(r).index \in DOMAIN Obj(r).messages
          /\ ChunkOf(r)[k] = Obj(r).messages[k + Obj(r).index]
    <3>1. /\ DOMAIN ChunkOf(r) = 1..Len(ChunkOf(r))
          /\ \A k \in 1..Len(ChunkOf(r)) :
                /\ k + Obj(r).index \in 1..UpTo(r)
                /\ ChunkOf(r)[k] = Obj(r).messages[k + Obj(r).index]
          /\ UpTo(r) \in Nat /\ UpTo(r) <= Len(Obj(r).messages)
      BY <2>2, ChunkProperties
    <3> QED
      BY <2>3, <3>1
  <2>5. Range(ChunkOf(r)) \subseteq Range(Obj(r).messages)
    BY <2>4 DEF Range
  <2> QED
    BY <2>1, <2>2, <2>5 DEF Obj
<1> QED
  BY <1>1, <1>2, <1>3, <1>4, <1>5, <1>6
     DEF Next, Crash, Panic, Load, LoadFails, EndConsolidation, NoChunk, ArchiveFails

(* What an Add adds.                                                       *)
Spoken(r) == IF run[r].pc = "answering" THEN UserOf(r) ELSE AssistantOf(r)

LEMMA SaidStep ==
    ASSUME TypeOK, PhaseInv, [Next]_vars, NEW m \in Message, Said(m)'
    PROVE  Said(m) \/ \E r \in Runs : Adds(r) /\ m = Spoken(r)
<1>e. Range(<<>>) = {} /\ Range(Empty.messages) = {}
  BY NewOnes DEF Range
<1>1. ASSUME history'[m] > 0 PROVE Said(m)
  <2>1. CASE \E r \in Runs : Archive(r)
    <3>1. PICK r \in Runs : Archive(r)
      BY <2>1
    <3>2. run[r].chunk \in Seq(Message) /\ history[m] \in Nat
      BY DEF TypeOK, Locals
    <3> DEFINE times == Cardinality({i \in DOMAIN run[r].chunk : run[r].chunk[i] = m})
    <3>3. times \in Nat /\ (m \in Range(run[r].chunk) <=> times > 0)
      BY <3>2, CountProperties
    <3>4. history'[m] = history[m] + times
      BY <3>1 DEF Archive
    <3> HIDE DEF times
    <3>5. m \in Range(run[r].chunk) \/ history[m] > 0
      BY <1>1, <3>2, <3>3, <3>4
    <3> QED
      BY <3>5 DEF Said
  <2>2. CASE ~\E r \in Runs : Archive(r)
    <3>1. history' = history
      BY <2>2, HistorySame
    <3> QED
      BY <1>1, <3>1 DEF Said
  <2> QED
    BY <2>1, <2>2
<1>p. ASSUME NEW content \in Partial, m \in Range(content.messages) PROVE Said(m)
  <2>1. \/ content = file
        \/ \E w \in Runs : /\ run[w].hold \in Runs
                           /\ Range(content.messages)
                                \subseteq Range(file.messages) \cup Range(Obj(w).messages)
    BY PartialProperties
  <2> QED
    BY <1>p, <2>1 DEF Said, Obj
<1>2. ASSUME m \in Range(file'.messages) PROVE Said(m)
  <2>1. CASE Die
    BY <1>2, <1>p, <2>1, Deaths
  <2>2. CASE \E r \in Runs : SaveMessages(r)
    <3>1. PICK r \in Runs : SaveMessages(r)
      BY <2>2
    <3>2. run[r].hold \in Runs
      BY <3>1, HasObject DEF SaveMessages, At
    <3>3. Range(file'.messages) \subseteq Range(file.messages) \cup Range(Obj(r).messages)
      BY <3>1, SavedMessages
    <3> QED
      BY <1>2, <3>2, <3>3 DEF Said, Obj
  <2>3. CASE ~Die /\ ~\E r \in Runs : SaveMessages(r)
    <3>1. file'.messages = file.messages \/ file' = Empty
      <4>1. ASSUME NEW r \in Runs,
                   Gets(r) \/ Load(r) \/ LoadFails(r) \/ Thinks(r) \/ GivesUp(r) \/ Adds(r)
            PROVE  file' = file
        BY <4>1, GetsProperties, LoadProperties, ThinksProperties, GivesUpProperties,
           AddsProperties
      <4>2. ASSUME NEW r \in Runs,
                   SaveFails(r) \/ SaveCache(r) \/ Mark(r) \/ Clear(r) \/ Invalidate(r)
            PROVE  file' = file
        BY <4>2 DEF SaveFails, SaveCache, Mark, Clear, Invalidate
      <4>3. ASSUME NEW r \in Runs, SaveCreate(r) \/ SaveMeta(r)
            PROVE  file'.messages = file.messages \/ file' = Empty
        BY <4>3 DEF SaveCreate, SaveMeta, TypeOK, Content
      <4>4. UNCHANGED vars => file' = file
        BY DEF vars
      <4> QED
        BY <2>3, <4>1, <4>2, <4>3, <4>4, Kinds
    <3> QED
      BY <1>2, <1>e, <3>1 DEF Said
  <2> QED
    BY <2>1, <2>2, <2>3
<1>3. ASSUME NEW o \in Runs, m \in Range(objs'[o].messages)
      PROVE  Said(m) \/ \E r \in Runs : Adds(r) /\ m = Spoken(r)
  <2>0. ASSUME objs'[o].messages = objs[o].messages \/ objs'[o] = Empty PROVE Said(m)
    BY <1>3, <1>e, <2>0 DEF Said
  <2>1. CASE UNCHANGED vars
    BY <2>0, <2>1 DEF vars
  <2>2. CASE Die
    BY <2>0, <2>2, Deaths
  <2>3. ASSUME NEW r \in Runs, Load(r) \/ LoadFails(r) PROVE Said(m)
    <3>1. \/ objs'[o] \in Partial
          \/ objs'[o] = Empty
          \/ objs'[o] = objs[o]
      BY <2>3, LoadProperties
    <3> QED
      BY <1>3, <1>p, <2>0, <3>1
  <2>4. ASSUME NEW r \in Runs, Adds(r) PROVE Said(m) \/ m = Spoken(r)
    <3>1. CASE o # run[r].hold
      BY <2>0, <2>4, <3>1, AddsProperties
    <3>2. CASE o = run[r].hold
      <4>1. objs'[o].messages = Append(objs[o].messages, Spoken(r)) /\ Spoken(r) \in Message
        BY <2>4, <3>2, AddsProperties DEF Spoken
      <4>2. objs[o].messages \in Seq(Message)
        BY DEF TypeOK, Content
      <4> DEFINE s == objs[o].messages
                 a == Spoken(r)
      <4> HIDE DEF s, a
      <4>3. /\ Append(s, a) \in Seq(Message) /\ Len(Append(s, a)) = Len(s) + 1
            /\ \A i \in 1..Len(s) : Append(s, a)[i] = s[i]
            /\ Append(s, a)[Len(s) + 1] = a
        BY <4>1, <4>2, AppendProperties DEF s, a
      <4>4. /\ Range(Append(s, a)) = {Append(s, a)[i] : i \in 1..Len(Append(s, a))}
            /\ Range(s) = {s[i] : i \in 1..Len(s)} /\ Len(s) \in Nat
        BY <4>2, <4>3, Elements DEF s
      <4>5. PICK i \in 1..(Len(s) + 1) : m = Append(s, a)[i]
        BY <1>3, <4>1, <4>3, <4>4 DEF s, a
      <4>6. i \in 1..Len(s) \/ i = Len(s) + 1
        BY <4>4, <4>5
      <4>7. m \in Range(s) \/ m = a
        BY <4>3, <4>4, <4>5, <4>6
      <4> QED
        BY <4>7 DEF Said, s, a
    <3> QED
      BY <3>1, <3>2
  <2>5. ASSUME NEW r \in Runs, Gets(r) \/ Thinks(r) \/ GivesUp(r) \/ Mark(r) \/ Clear(r)
        PROVE  Said(m)
    <3>1. objs'[o].messages = objs[o].messages \/ objs'[o] = Empty
      BY <2>5, GetsProperties, ThinksProperties, GivesUpProperties, MarkProperties,
         ClearProperties
    <3> QED
      BY <2>0, <3>1
  <2>6. ASSUME NEW r \in Runs,
               SaveFails(r) \/ SaveCreate(r) \/ SaveMeta(r) \/ SaveMessages(r) \/ SaveCache(r)
               \/ Invalidate(r)
        PROVE  Said(m)
    <3>1. objs' = objs
      BY <2>6 DEF SaveFails, SaveCreate, SaveMeta, SaveMessages, SaveCache, Invalidate
    <3> QED
      BY <2>0, <3>1
  <2> QED
    BY <2>1, <2>2, <2>3, <2>4, <2>5, <2>6, Kinds
<1>4. ASSUME NEW o \in Runs, m \in Range(run'[o].chunk) PROVE Said(m)
  BY <1>4, Chunks DEF Said
<1> QED
  BY <1>1, <1>2, <1>3, <1>4 DEF Said

LEMMA UnsaidStep ==
    ASSUME TypeOK, PhaseInv, UnsaidInv, [Next]_vars
    PROVE  UnsaidInv'
<1> SUFFICES ASSUME NEW q \in Runs, NEW m \in Message, Unsaid(q, m)', Said(m)' PROVE FALSE
  <2>1. \A m \in Message : history'[m] = 0 <=> ~(history'[m] > 0)
    BY HistoryGrows
  <2>2. Message' = Message
    BY DEF Message
  <2> QED
    BY <2>1, <2>2 DEF UnsaidInv, Said
<1>1. Unsaid(q, m)
  BY UnsaidBefore
<1>2. ~Said(m)
  BY <1>1, UnsaidMeaning
<1>3. PICK r \in Runs : Adds(r) /\ m = Spoken(r)
  BY <1>2, SaidStep
<1>4. m.by = q /\ m.by = r
  BY <1>1, <1>3 DEF Unsaid, Spoken, UserOf, AssistantOf
<1>5. /\ \/ run[r].pc = "answering" /\ run'[r].pc = "adding"
         \/ run[r].pc = "adding" /\ run'[r].pc = "saving"
      /\ run'[r].after = "done"
  BY <1>3, AddsProperties
<1>6. UserOf(r) # AssistantOf(r)
  BY DEF UserOf, AssistantOf
<1> QED
  BY <1>3, <1>4, <1>5, <1>6 DEF Unsaid, BeforeTurn, Spoken, UserOf, AssistantOf

-----------------------------------------------------------------------------
(* Nothing is archived twice.                                              *)

(* The clauses of OnceInv.                                                 *)
FileOnce ==
    /\ Distinct(file.messages)
    /\ \A i \in DOMAIN file.messages : i > file.index => history[file.messages[i]] = 0

ObjOnce(o) ==
    /\ Distinct(objs[o].messages)
    /\ \A i \in DOMAIN objs[o].messages :
         i > objs[o].index => history[objs[o].messages[i]] = 0 \/ Marked(i)

ChunkOnce(r) ==
    /\ Distinct(run[r].chunk)
    /\ \A m \in Range(run[r].chunk) : history[m] = 0
    /\ \A i \in DOMAIN Obj(r).messages :
         i > run[r].end => Obj(r).messages[i] \notin Range(run[r].chunk)

Once ==
    /\ \A m \in Message : history[m] <= 1
    /\ (\E o \in Runs : InUse(o)) \/ FileOnce
    /\ \A o \in Runs : InUse(o) => ObjOnce(o)
    /\ \A r \in Runs : run[r].pc = "archiving" => ChunkOnce(r)

(* One consolidation at a time.                                            *)
LEMMA Alone ==
    ASSUME TypeOK, NEW r \in Runs, run[r].pc \in {"picking", "archiving", "marking"},
           NEW q \in Runs, run[q].pc \in {"picking", "archiving", "marking"}
    PROVE  q = r
  BY DEF TypeOK, Consolidating

(* A step that leaves the objects and HISTORY.md alone.                    *)
LEMMA OnceKept ==
    ASSUME TypeOK, PhaseInv, [Next]_vars, Once, NEW r \in Runs,
           \A q \in Runs : q # r => run'[q] = run[q],
           run[r].pc \notin {"loading", "marking"},
           objs' = objs, history' = history
    PROVE  /\ \A m \in Message : history'[m] <= 1
           /\ \A o \in Runs : InUse(o)' => ObjOnce(o)'
           /\ \A q \in Runs : q # r /\ run'[q].pc = "archiving" => ChunkOnce(q)'
<1>1. \A m \in Message : history'[m] <= 1
  BY DEF Once
<1>2. \A i \in Nat : Marked(i) => Marked(i)'
  BY DEF Marked
<1>3. ASSUME NEW o \in Runs, InUse(o)' PROVE ObjOnce(o)'
  <2>1. ObjOnce(o)
    BY <1>3, UsedBefore DEF Once
  <2>2. DOMAIN objs[o].messages \subseteq Nat
    BY Elements DEF TypeOK, Content
  <2> QED
    BY <1>2, <2>1, <2>2 DEF ObjOnce
<1>4. ASSUME NEW q \in Runs, q # r, run'[q].pc = "archiving" PROVE ChunkOnce(q)'
  <2>1. ChunkOnce(q)
    BY <1>4 DEF Once
  <2> QED
    BY <1>4, <2>1 DEF ChunkOnce, Obj
<1> QED
  BY <1>1, <1>3, <1>4

(* The last one to let go of the object leaves the file in its place.      *)
LEMMA LastRelease ==
    ASSUME TypeOK, PhaseInv, OneInv, FileInv, IndexInv, Once, [Next]_vars,
           Without({"split", "unsaved", "torn", "stale"}),
           NEW r \in Runs, GivesUp(r) \/ Invalidate(r),
           \A o \in Runs : ~InUse(o)'
    PROVE  FileOnce'
<1> DEFINE h == run[r].hold
<1>1. /\ UNCHANGED <<objs, file, history>> /\ \A q \in Runs : q # r => run'[q] = run[q]
      /\ run[r].pc \in {"answering", "estimating", "reading", "invalidating"}
      /\ run[r].pc = "invalidating" \/ cache' = cache
  <2>1. CASE GivesUp(r)
    BY <2>1, GivesUpProperties
  <2>2. CASE Invalidate(r)
    BY <2>2, EndsOfSaves DEF Invalidate, At
  <2> QED
    BY <2>1, <2>2
<1>2. h \in Runs
  BY <1>1, HasObject
<1>3. \A q \in Runs : q # r => run[q].pc \in {"idle", "loading", "done"}
  <2> SUFFICES ASSUME NEW q \in Runs, q # r PROVE run[q].hold = None
    BY DEF PhaseInv
  <2>1. ASSUME NEW o \in Runs, run[q].hold = o PROVE FALSE
    BY <1>1, <2>1 DEF InUse
  <2> QED
    BY <2>1 DEF TypeOK, Locals
<1>4. /\ \A q \in Runs : ~Changing(q)
      /\ \A q \in Runs : run[q].pc \notin {"adding", "saving", "created"}
  BY <1>1, <1>3 DEF Changing
<1>5. ~Unsaved(h)
  <2>1. cache = h => run[r].pc = "invalidating"
    BY <1>1, <1>2 DEF InUse
  <2> QED
    BY <1>1, <1>3, <2>1 DEF Unsaved
<1>6. InUse(h)
  BY <1>2 DEF InUse
<1>7. file.messages = objs[h].messages /\ file.index = objs[h].index
  <2>1. Without({"split", "unsaved", "torn"})
    BY DEF Without
  <2> QED
    BY <1>2, <1>4, <1>5, <1>6, <2>1 DEF FileInv, IndexInv
<1>8. \A i : ~Marked(i)
  BY <1>1, <1>3 DEF Marked
<1>9. FileOnce
  BY <1>2, <1>6, <1>7, <1>8 DEF Once, ObjOnce, FileOnce
<1> QED
  BY <1>1, <1>9 DEF FileOnce

(* The chunk of a consolidation was never archived.                        *)
LEMMA NewChunk ==
    ASSUME TypeOK, PhaseInv, Once, NEW r \in Runs, run[r].pc = "picking"
    PROVE  /\ Distinct(ChunkOf(r))
           /\ \A m \in Range(ChunkOf(r)) : history[m] = 0
           /\ \A i \in DOMAIN Obj(r).messages :
                i > run[r].end => Obj(r).messages[i] \notin Range(ChunkOf(r))
<1> DEFINE s == Obj(r).messages
           n == Obj(r).index
           c == ChunkOf(r)
<1>1. run[r].hold \in Runs /\ s \in Seq(Message) /\ n \in Nat /\ run[r].end \in Nat
  BY HasObject DEF TypeOK, Locals
<1>2. DOMAIN s = 1..Len(s) /\ Len(s) \in Nat
  BY <1>1, Elements
<1>3. /\ DOMAIN c = 1..Len(c) /\ Len(c) \in Nat
      /\ \A k \in 1..Len(c) : k + n \in 1..UpTo(r) /\ c[k] = s[k + n]
      /\ UpTo(r) \in Nat /\ UpTo(r) <= run[r].end /\ UpTo(r) <= Len(s)
  BY <1>1, ChunkProperties
<1>4. \A i : ~Marked(i)
  <2>1. \A q \in Runs : run[q].pc # "marking"
    BY Alone
  <2> QED
    BY <2>1 DEF Marked
<1>5. /\ Distinct(s)
      /\ \A i \in DOMAIN s : i > n => history[s[i]] = 0
  <2>1. ObjOnce(run[r].hold)
    BY <1>1 DEF Once, InUse
  <2> QED
    BY <1>4, <2>1 DEF ObjOnce, Obj
<1> HIDE DEF s, n, c
<1>6. \A k \in DOMAIN c : k \in Nat /\ k + n \in DOMAIN s /\ k + n > n /\ c[k] = s[k + n]
                          /\ k + n <= run[r].end
  BY <1>1, <1>2, <1>3
<1>7. Distinct(c)
  <2> SUFFICES ASSUME NEW i \in DOMAIN c, NEW k \in DOMAIN c, c[i] = c[k] PROVE i = k
    BY DEF Distinct
  <2>1. i + n = k + n
    BY <1>5, <1>6 DEF Distinct
  <2> QED
    BY <1>1, <1>6, <2>1
<1>8. \A m \in Range(c) : history[m] = 0
  BY <1>5, <1>6 DEF Range
<1>9. ASSUME NEW i \in DOMAIN s, i > run[r].end PROVE s[i] \notin Range(c)
  <2> SUFFICES ASSUME NEW k \in DOMAIN c, s[i] = c[k] PROVE FALSE
    BY DEF Range
  <2>1. i = k + n
    BY <1>5, <1>6 DEF Distinct
  <2> QED
    BY <1>1, <1>2, <1>6, <1>9, <2>1
<1> QED
  BY <1>7, <1>8, <1>9 DEF s, c

LEMMA OnceStep ==
    ASSUME TypeOK, PhaseInv, LockInv, OneInv, FileInv, IndexInv, UnsaidInv, OnceInv, [Next]_vars
    PROVE  OnceInv'
<1>t. TypeOK' /\ PhaseInv'
  BY TypeStep, PhaseStep
<1> SUFFICES ASSUME Without({"split", "crash", "unsaved", "stale"})'
             PROVE  Once'
  BY DEF OnceInv, Once, FileOnce, ObjOnce, ChunkOnce
<1>a. /\ Without({"split", "crash", "unsaved", "stale"}) /\ Without({"split"})
      /\ Without({"split"})' /\ Without({"split", "unsaved", "torn", "stale"})
  BY TroubleGrows DEF Without, PhaseInv
<1>b. Once
  BY <1>a DEF OnceInv, Once, FileOnce, ObjOnce, ChunkOnce
<1>n. None \notin Runs
  BY SessionAssumption DEF SessionAssumption
<1>u. (\E o \in Runs : InUse(o)') => ((\E o \in Runs : InUse(o)) \/ FileOnce)'
  OBVIOUS
<1>s. ASSUME NEW r \in Runs, \A q \in Runs : q # r => run'[q] = run[q],
             run[r].pc \notin {"loading", "marking"}, objs' = objs, history' = history,
             run'[r].pc # "archiving", (\E o \in Runs : InUse(o)') \/ FileOnce'
      PROVE  Once'
  <2>1. /\ \A m \in Message : history'[m] <= 1
        /\ \A o \in Runs : InUse(o)' => ObjOnce(o)'
        /\ \A q \in Runs : q # r /\ run'[q].pc = "archiving" => ChunkOnce(q)'
    BY <1>b, <1>s, OnceKept
  <2>2. Message' = Message
    BY DEF Message
  <2> QED
    BY <1>s, <2>1, <2>2 DEF Once
<1>h. ASSUME NEW r \in Runs, run'[r].hold \in Runs PROVE \E o \in Runs : InUse(o)'
  <2>1. PICK o \in Runs : o = run'[r].hold
    BY <1>h
  <2> QED
    BY <2>1 DEF InUse
<1>1. CASE UNCHANGED vars
  BY <1>1, <1>b DEF vars, Once, FileOnce, ObjOnce, ChunkOnce, Obj, InUse, Marked, Message
<1>2. CASE Die
  BY <1>2, Deaths DEF Without
<1>3. ASSUME NEW r \in Runs, Gets(r) PROVE Once'
  <2>1. /\ UNCHANGED <<objs, file, history>> /\ \A q \in Runs : q # r => run'[q] = run[q]
        /\ run[r].pc \in {"idle", "storing"} /\ run'[r].pc # "archiving"
    BY <1>3, GetsProperties
  <2>2. cache' = cache \/ cache' = r
    BY <1>3 DEF Gets, Hit, Miss, StoreInCache
  <2>3. run[r].hold = None \/ cache' = r
    <3>1. CASE StoreInCache(r)
      BY <3>1 DEF StoreInCache
    <3>2. CASE ~StoreInCache(r)
      <4>1. run[r].pc = "idle"
        BY <1>3, <3>2 DEF Gets, Hit, Miss, At
      <4> QED
        BY <4>1 DEF PhaseInv
    <3> QED
      BY <3>1, <3>2
  <2>4. (\E o \in Runs : InUse(o)) => \E o \in Runs : InUse(o)'
    <3> SUFFICES ASSUME NEW o \in Runs, InUse(o) PROVE InUse(o)' \/ InUse(r)'
      OBVIOUS
    <3> QED
      BY <1>n, <2>1, <2>2, <2>3 DEF InUse
  <2>5. (\E o \in Runs : InUse(o)') \/ FileOnce'
    BY <1>b, <2>1, <2>4 DEF Once, FileOnce
  <2> QED
    BY <1>s, <2>1, <2>5
<1>4. ASSUME NEW r \in Runs, Load(r) \/ LoadFails(r) PROVE Once'
  <2>1. /\ cache = None /\ \A q \in Runs : run[q].hold = None
        /\ \A q \in Runs : run[q].pc \in {"idle", "loading", "done"}
        /\ objs'[r] = file \/ objs'[r] = Empty
        /\ \A o \in Runs : InUse(o)' => o = r
    BY <1>4, <1>a, LoadsAlone
  <2>2. /\ UNCHANGED <<file, history>> /\ run'[r].hold = r /\ run'[r].pc = "storing"
        /\ \A q \in Runs : q # r => run'[q] = run[q]
    BY <1>4, LoadProperties
  <2>3. FileOnce
    BY <1>b, <1>n, <2>1 DEF Once, InUse
  <2>4. ObjOnce(r)'
    <3>1. CASE objs'[r] = file
      BY <2>2, <2>3, <3>1 DEF FileOnce, ObjOnce
    <3>2. CASE objs'[r] = Empty
      <4>1. DOMAIN objs'[r].messages = {}
        <5>1. Empty.messages = <<>> /\ DOMAIN <<>> = {}
          BY NewOnes
        <5> QED
          BY <3>2, <5>1
      <4> QED
        BY <4>1 DEF ObjOnce, Distinct
    <3> QED
      BY <2>1, <3>1, <3>2
  <2>5. \A q \in Runs : run'[q].pc # "archiving"
    BY <2>1, <2>2
  <2>6. \E o \in Runs : InUse(o)'
    BY <1>h, <2>2
  <2>7. \A o \in Runs : InUse(o)' => ObjOnce(o)'
    BY <2>1, <2>4
  <2> QED
    BY <1>b, <2>2, <2>5, <2>6, <2>7 DEF Once, Message
<1>5. ASSUME NEW r \in Runs, GivesUp(r) \/ Invalidate(r) PROVE Once'
  <2>1. /\ UNCHANGED <<objs, history>> /\ \A q \in Runs : q # r => run'[q] = run[q]
        /\ run[r].pc \notin {"loading", "marking"} /\ run'[r].pc # "archiving"
    BY <1>5, GivesUpProperties, EndsOfSaves
  <2>2. (\E o \in Runs : InUse(o)') \/ FileOnce'
    BY <1>5, <1>a, <1>b, LastRelease
  <2> QED
    BY <1>s, <2>1, <2>2
<1>6. ASSUME NEW r \in Runs, SaveFails(r) PROVE FALSE
  BY <1>6 DEF SaveFails, Without
<1>7. ASSUME NEW r \in Runs,
             SaveCreate(r) \/ SaveMeta(r) \/ SaveMessages(r) \/ SaveCache(r)
      PROVE  Once'
  <2>1. /\ UNCHANGED <<objs, history>> /\ \A q \in Runs : q # r => run'[q] = run[q]
        /\ run[r].pc \in {"saving", "created", "writing", "saved"} /\ run'[r].pc # "archiving"
        /\ run[r].hold \in Runs
    BY <1>7, SaveProperties
  <2>2. \E o \in Runs : InUse(o)'
    <3>1. CASE SaveCache(r)
      BY <2>1, <3>1 DEF SaveCache, InUse
    <3>2. CASE ~SaveCache(r)
      <4>1. run'[r].hold \in Runs
        BY <1>7, <2>1, <3>2, Paths DEF Path
      <4> QED
        BY <1>h, <4>1
    <3> QED
      BY <3>1, <3>2
  <2> QED
    BY <1>s, <2>1, <2>2
<1>8. ASSUME NEW r \in Runs, Clear(r) PROVE Once'
  <2>1. PICK h \in Runs : h = run[r].hold
    BY <1>8, ClearProperties
  <2>2. /\ UNCHANGED history /\ \A q \in Runs : q # r => run'[q] = run[q]
        /\ run[r].pc = "clearing" /\ run'[r].pc = "saving" /\ run'[r].hold = h
        /\ objs'[h] = Empty
    BY <1>8, <2>1, ClearProperties
  <2>3. DOMAIN objs'[h].messages = {}
    <3>1. Empty.messages = <<>> /\ DOMAIN <<>> = {}
      BY NewOnes
    <3> QED
      BY <2>2, <3>1
  <2>4. \A o \in Runs : InUse(o) => o = h
    BY <1>a, <2>1 DEF OneInv, InUse
  <2>5. ASSUME NEW o \in Runs, InUse(o)' PROVE ObjOnce(o)'
    <3>1. o = h
      BY <2>2, <2>4, <2>5, UsedBefore
    <3> QED
      BY <2>3, <3>1 DEF ObjOnce, Distinct
  <2>6. ASSUME NEW q \in Runs, run'[q].pc = "archiving" PROVE ChunkOnce(q)'
    <3>1. run'[q] = run[q] /\ ChunkOnce(q)
      BY <1>b, <2>2, <2>6 DEF Once
    <3>2. run[q].hold = h
      <4>1. run[q].hold \in Runs
        BY <2>6, <3>1, HasObject
      <4> QED
        BY <2>4, <4>1 DEF InUse
    <3> QED
      BY <2>2, <2>3, <3>1, <3>2 DEF ChunkOnce, Obj
  <2>7. \E o \in Runs : InUse(o)'
    BY <1>h, <2>2
  <2> QED
    BY <1>b, <2>2, <2>5, <2>6, <2>7 DEF Once, Message
<1>9. ASSUME NEW r \in Runs, Mark(r) PROVE Once'
  <2>1. PICK h \in Runs : h = run[r].hold
    BY <1>9, MarkProperties
  <2>2. /\ UNCHANGED history /\ \A q \in Runs : q # r => run'[q] = run[q]
        /\ run[r].pc = "marking" /\ run'[r].pc = "saving" /\ run'[r].hold = h
        /\ objs'[h].index = run[r].end /\ objs'[h].messages = objs[h].messages
    BY <1>9, <2>1, MarkProperties
  <2>3. \A o \in Runs : InUse(o) => o = h
    BY <1>a, <2>1 DEF OneInv, InUse
  <2>4. ASSUME NEW o \in Runs, InUse(o)' PROVE ObjOnce(o)'
    <3>1. o = h /\ InUse(h)
      BY <2>1, <2>2, <2>3, <2>4, UsedBefore DEF InUse
    <3>2. ObjOnce(h)
      BY <1>b, <3>1 DEF Once
    <3>3. ASSUME NEW i \in DOMAIN objs[h].messages, i > run[r].end
          PROVE  history[objs[h].messages[i]] = 0
      <4>1. /\ i \in Nat /\ run[r].end \in Nat /\ objs[h].index \in Nat
        BY Elements, SMTT(30) DEF TypeOK, Locals, Content
      <4>2. objs[h].index <= run[r].end
        BY <2>1, <2>2 DEF LockInv, Obj
      <4>3. i > objs[h].index
        BY <3>3, <4>1, <4>2
      <4>4. ~Marked(i)
        <5> SUFFICES ASSUME NEW q \in Runs, run[q].pc = "marking", i <= run[q].end PROVE FALSE
          BY DEF Marked
        <5>1. q = r
          BY <2>2, Alone
        <5> QED
          BY <3>3, <4>1, <5>1
      <4> QED
        BY <3>2, <4>3, <4>4 DEF ObjOnce
    <3> QED
      BY <2>2, <3>1, <3>2, <3>3 DEF ObjOnce
  <2>5. ASSUME NEW q \in Runs, run'[q].pc = "archiving" PROVE FALSE
    <3>1. q # r /\ run[q].pc = "archiving"
      BY <2>2, <2>5
    <3> QED
      BY <2>2, <3>1, Alone
  <2>6. \E o \in Runs : InUse(o)'
    BY <1>h, <2>2
  <2> QED
    BY <1>b, <2>2, <2>4, <2>5, <2>6 DEF Once, Message
<1>10. ASSUME NEW r \in Runs, Adds(r) PROVE Once'
  <2>1. PICK h \in Runs : h = run[r].hold
    BY <1>10, AddsProperties
  <2>2. /\ UNCHANGED history /\ \A q \in Runs : q # r => run'[q] = run[q]
        /\ run[r].pc \in {"answering", "adding"} /\ run'[r].pc \in {"adding", "saving"}
        /\ run'[r].hold = h /\ objs'[h].index = objs[h].index
    BY <1>10, <2>1, AddsProperties
  <2>3. PICK m \in Message : m = Spoken(r) /\ objs'[h].messages = Append(objs[h].messages, m)
    BY <1>10, <2>1, AddsProperties DEF Spoken
  <2>4. /\ history[m] = 0 /\ m \notin Range(objs[h].messages)
        /\ \A q \in Runs : m \notin Range(run[q].chunk)
    <3>1. Unsaid(r, m)
      BY <2>2, <2>3 DEF Unsaid, BeforeTurn, Spoken
    <3> QED
      BY <3>1 DEF UnsaidInv
  <2>5. \A o \in Runs : InUse(o) => o = h
    BY <1>a, <2>1 DEF OneInv, InUse
  <2> DEFINE s == objs[h].messages
  <2>6. /\ DOMAIN s = 1..Len(s) /\ Len(s) \in Nat
        /\ DOMAIN objs'[h].messages = 1..(Len(s) + 1)
        /\ \A i \in 1..Len(s) : objs'[h].messages[i] = s[i]
        /\ objs'[h].messages[Len(s) + 1] = m
    <3>1. s \in Seq(Message)
      BY DEF TypeOK, Content
    <3> HIDE DEF s
    <3>2. /\ Append(s, m) \in Seq(Message) /\ Len(Append(s, m)) = Len(s) + 1
          /\ \A i \in 1..Len(s) : Append(s, m)[i] = s[i]
          /\ Append(s, m)[Len(s) + 1] = m
      BY <3>1, AppendProperties
    <3>3. DOMAIN Append(s, m) = 1..(Len(s) + 1) /\ DOMAIN s = 1..Len(s) /\ Len(s) \in Nat
      BY <3>1, <3>2, Elements
    <3> QED
      BY <2>3, <3>2, <3>3 DEF s
  <2>7. \A i \in DOMAIN objs'[h].messages :
           \/ i \in DOMAIN s /\ objs'[h].messages[i] = s[i]
           \/ i = Len(s) + 1 /\ objs'[h].messages[i] = m
    BY <2>6, SMTT(30)
  <2>8. \A i \in DOMAIN s : s[i] # m
    BY <2>4 DEF Range
  <2> HIDE DEF s
  <2>9. ASSUME NEW o \in Runs, InUse(o)' PROVE ObjOnce(o)'
    <3>1. o = h /\ InUse(h)
      BY <2>1, <2>2, <2>5, <2>9, UsedBefore DEF InUse
    <3>2. /\ Distinct(s)
          /\ \A i \in DOMAIN s : i > objs[h].index => history[s[i]] = 0 \/ Marked(i)
      BY <1>b, <3>1 DEF Once, ObjOnce, s
    <3>3. \A i : Marked(i) => Marked(i)'
      BY <2>2 DEF Marked
    <3>4. Distinct(objs'[h].messages)
      BY <2>7, <2>8, <3>2 DEF Distinct
    <3>5. \A i \in DOMAIN objs'[h].messages :
            i > objs'[h].index => history'[objs'[h].messages[i]] = 0 \/ Marked(i)'
      BY <2>2, <2>4, <2>7, <3>2, <3>3
    <3> QED
      BY <3>1, <3>4, <3>5 DEF ObjOnce
  <2>10. ASSUME NEW q \in Runs, run'[q].pc = "archiving" PROVE ChunkOnce(q)'
    <3>1. run'[q] = run[q] /\ ChunkOnce(q)
      BY <1>b, <2>2, <2>10 DEF Once
    <3>2. run[q].hold = h
      <4>1. run[q].hold \in Runs
        BY <2>10, <3>1, HasObject
      <4> QED
        BY <2>5, <4>1 DEF InUse
    <3>3. \A i \in DOMAIN objs'[h].messages :
            i > run[q].end => objs'[h].messages[i] \notin Range(run[q].chunk)
      BY <2>4, <2>7, <3>1, <3>2 DEF ChunkOnce, Obj, s
    <3> QED
      BY <2>2, <3>1, <3>2, <3>3 DEF ChunkOnce, Obj
  <2>11. \E o \in Runs : InUse(o)'
    BY <1>h, <2>2
  <2> QED
    BY <1>b, <2>2, <2>9, <2>10, <2>11 DEF Once, Message
<1>11. ASSUME NEW r \in Runs, Thinks(r) PROVE Once'
  <2>1. /\ objs' = objs /\ \A q \in Runs : q # r => run'[q] = run[q]
        /\ run[r].pc \in {"consolidating", "estimating", "picking", "archiving", "reading"}
        /\ run'[r].hold = run[r].hold /\ run[r].hold \in Runs
    BY <1>11, ThinksProperties
  <2>2. \E o \in Runs : InUse(o)'
    BY <1>h, <2>1
  <2>3. CASE TakeChunk(r)
    <3>1. Becomes(r, "archiving", run[r].hold, run[r].after, run[r].meta, run[r].end, ChunkOf(r))
      BY <2>3, Moves
    <3>2. /\ run'[r].end = run[r].end /\ run'[r].chunk = ChunkOf(r) /\ run[r].pc = "picking"
          /\ history' = history
      BY <2>3, <3>1 DEF Becomes, TakeChunk, At
    <3>3. ChunkOnce(r)'
      <4>1. /\ Distinct(ChunkOf(r))
            /\ \A m \in Range(ChunkOf(r)) : history[m] = 0
            /\ \A i \in DOMAIN Obj(r).messages :
                 i > run[r].end => Obj(r).messages[i] \notin Range(ChunkOf(r))
        BY <1>b, <3>2, NewChunk
      <4>2. Obj(r)' = Obj(r)
        BY <2>1 DEF Obj
      <4> QED
        BY <3>2, <4>1, <4>2 DEF ChunkOnce
    <3>4. /\ \A m \in Message : history'[m] <= 1
          /\ \A o \in Runs : InUse(o)' => ObjOnce(o)'
          /\ \A q \in Runs : q # r /\ run'[q].pc = "archiving" => ChunkOnce(q)'
      BY <1>b, <2>1, <3>2, OnceKept
    <3> QED
      BY <2>2, <3>3, <3>4 DEF Once, Message
  <2>4. CASE Archive(r)
    <3> DEFINE c == run[r].chunk
               times(m) == Cardinality({i \in DOMAIN c : c[i] = m})
    <3>0. PICK h \in Runs : h = run[r].hold
      BY <2>1
    <3>1. Becomes(r, "marking", run[r].hold, run[r].after, run[r].meta, run[r].end, <<>>)
      BY <2>4, Moves
    <3>2. run'[r].pc = "marking" /\ run'[r].end = run[r].end /\ run[r].pc = "archiving"
      BY <2>4, <3>1 DEF Becomes, Archive, At
    <3>3. /\ Distinct(c) /\ \A m \in Range(c) : history[m] = 0
          /\ \A i \in DOMAIN objs[h].messages :
               i > run[r].end => objs[h].messages[i] \notin Range(c)
      BY <1>b, <3>0, <3>2 DEF Once, ChunkOnce, Obj
    <3>4. c \in Seq(Message) /\ run[r].end \in Nat /\ \A m \in Message : history[m] \in Nat
      BY DEF TypeOK, Locals
    <3>5. \A m \in Message : history'[m] = history[m] + times(m)
      BY <2>4 DEF Archive
    <3> HIDE DEF c
    <3>6. \A m \in Message : /\ times(m) \in Nat /\ times(m) <= 1
                             /\ m \in Range(c) <=> times(m) > 0
      BY <3>3, <3>4, CountProperties
    <3> HIDE DEF times
    <3>7. \A m \in Message : m \notin Range(c) => history'[m] = history[m]
      BY <3>4, <3>5, <3>6
    <3>8. \A m \in Message : history'[m] <= 1
      <4> SUFFICES ASSUME NEW m \in Message PROVE history'[m] <= 1
        OBVIOUS
      <4>1. CASE m \in Range(c)
        BY <3>3, <3>5, <3>6, <4>1
      <4>2. CASE m \notin Range(c)
        BY <1>b, <3>7, <4>2 DEF Once
      <4> QED
        BY <4>1, <4>2
    <3>9. \A q \in Runs : run[q].pc \in {"picking", "archiving", "marking"} => q = r
      BY <3>2, Alone
    <3>10. ASSUME NEW o \in Runs, InUse(o)' PROVE ObjOnce(o)'
      <4>1. InUse(o)
        BY <2>1, <3>2, <3>10, UsedBefore
      <4>2. o = h
        BY <1>a, <3>0, <4>1 DEF OneInv, InUse
      <4>3. ObjOnce(h) /\ \A i : ~Marked(i)
        BY <1>b, <3>2, <3>9, <4>1, <4>2 DEF Once, Marked
      <4>4. ASSUME NEW i \in DOMAIN objs[h].messages, i > objs[h].index
            PROVE  history'[objs[h].messages[i]] = 0 \/ Marked(i)'
        <5>1. i \in Nat /\ objs[h].messages[i] \in Message
          BY Elements DEF TypeOK, Content
        <5>2. history[objs[h].messages[i]] = 0
          BY <4>3, <4>4 DEF ObjOnce
        <5>3. CASE i <= run[r].end
          BY <3>2, <5>3 DEF Marked
        <5>4. CASE i > run[r].end
          BY <3>3, <3>7, <5>1, <5>2, <5>4
        <5> QED
          BY <3>4, <5>1, <5>3, <5>4
      <4> QED
        BY <2>1, <4>2, <4>3, <4>4 DEF ObjOnce
    <3>11. \A q \in Runs : run'[q].pc # "archiving"
      BY <2>1, <3>2, <3>9
    <3> QED
      BY <2>2, <3>8, <3>10, <3>11 DEF Once, Message
  <2>5. CASE ~TakeChunk(r) /\ ~Archive(r)
    <3>1. history' = history
      BY <1>11, <2>5 DEF Thinks, NothingToConsolidate, TakeLock, EndConsolidation, PickBoundary,
                         NoChunk, ArchiveLost, ArchiveFails, Leave, ReadHistory
    <3>2. run'[r].pc # "archiving"
      <4>1. \E to \in {"reading", "estimating", "picking", "marking", "answering"} :
              \E from : Path(r, from, to, run[r].hold, "done")
        BY <1>11, <2>5, Paths DEF Thinks
      <4> QED
        BY <4>1 DEF Path
    <3> QED
      BY <1>s, <2>1, <2>2, <3>1, <3>2
  <2> QED
    BY <2>3, <2>4, <2>5
<1> QED
  BY <1>1, <1>2, <1>3, <1>4, <1>5, <1>6, <1>7, <1>8, <1>9, <1>10, <1>11, Kinds

-----------------------------------------------------------------------------
(* The theorems.                                                           *)

LEMMA PastProperties ==
    ASSUME NEW k \in 0..Len(Past)
    PROVE  /\ PastTurns(k) \in Seq(Message) /\ DOMAIN PastTurns(k) = 1..(2 * k)
           /\ Distinct(PastTurns(k))
           /\ \A i \in DOMAIN PastTurns(k) : PastTurns(k)[i].by \notin Runs
<1>1. /\ Past \in Seq(Range(Past)) /\ IsInjective(Past) /\ Range(Past) \cap Runs = {}
      /\ DOMAIN Past = 1..Len(Past) /\ Len(Past) \in Nat /\ k \in Nat /\ k <= Len(Past)
  <2>1. Past \in Seq(Range(Past)) /\ IsInjective(Past) /\ Range(Past) \cap Runs = {}
    BY SessionAssumption DEF SessionAssumption
  <2>2. DOMAIN Past = 1..Len(Past) /\ Len(Past) \in Nat
    BY <2>1, Elements
  <2> QED
    BY <2>1, <2>2
<1> DEFINE t == PastTurns(k)
<1>2. /\ DOMAIN t = 1..(2 * k)
      /\ \A i \in 1..(2 * k) :
           t[i] = IF i % 2 = 1 THEN UserOf(Past[(i + 1) \div 2]) ELSE AssistantOf(Past[i \div 2])
  BY DEF PastTurns
<1>e. \A i \in 1..(2 * k) :
        /\ i % 2 = 1 => t[i] = UserOf(Past[(i + 1) \div 2])
        /\ i % 2 # 1 => t[i] = AssistantOf(Past[i \div 2])
  BY <1>2, Zenon
<1>3. ASSUME NEW i \in 1..(2 * k)
      PROVE  /\ i % 2 = 1 => (i + 1) \div 2 \in DOMAIN Past /\ i = 2 * ((i + 1) \div 2) - 1
             /\ i % 2 # 1 => i \div 2 \in DOMAIN Past /\ i = 2 * (i \div 2)
  BY <1>1
<1> HIDE DEF t
<1>4. ASSUME NEW i \in 1..(2 * k)
      PROVE  t[i] \in Message /\ t[i].by \notin Runs
  <2>1. PICK p \in DOMAIN Past : t[i] = UserOf(Past[p]) \/ t[i] = AssistantOf(Past[p])
    BY <1>2, <1>3
  <2>2. Past[p] \in Range(Past)
    BY DEF Range
  <2> QED
    BY <1>1, <2>1, <2>2 DEF UserOf, AssistantOf, Message
<1>5. t \in Seq(Message)
  <2>1. t \in [1..(2 * k) -> Message] /\ 2 * k \in Nat
    <3>1. t = [i \in 1..(2 * k) |-> t[i]]
      BY DEF t, PastTurns
    <3> QED
      BY <1>1, <1>4, <3>1
  <2> QED
    BY <2>1, SeqDef
<1>r. \A x : /\ UserOf(x).by = x /\ UserOf(x).role = "user"
            /\ AssistantOf(x).by = x /\ AssistantOf(x).role = "assistant"
  BY DEF UserOf, AssistantOf
<1>6. ASSUME NEW i \in 1..(2 * k), NEW j \in 1..(2 * k), t[i] = t[j] PROVE i = j
  <2>1. CASE i % 2 = 1
    <3>1. t[i] = UserOf(Past[(i + 1) \div 2])
      BY <1>e, <2>1, Zenon
    <3>2. j % 2 = 1
      <4> SUFFICES ASSUME j % 2 # 1 PROVE FALSE
        OBVIOUS
      <4>1. t[j] = AssistantOf(Past[j \div 2])
        BY <1>e, Zenon
      <4>2. t[i].role # t[j].role
        BY <1>r, <3>1, <4>1
      <4> QED
        BY <1>6, <4>2
    <3>3. t[j] = UserOf(Past[(j + 1) \div 2])
      BY <1>e, <3>2, Zenon
    <3>4. Past[(i + 1) \div 2] = Past[(j + 1) \div 2]
      BY <1>r, <1>6, <3>1, <3>3, ZenonT(60)
    <3>5. (i + 1) \div 2 = (j + 1) \div 2
      BY <1>1, <1>3, <2>1, <3>2, <3>4 DEF IsInjective
    <3> QED
      BY <1>3, <2>1, <3>2, <3>5
  <2>2. CASE i % 2 # 1
    <3>1. t[i] = AssistantOf(Past[i \div 2])
      BY <1>e, <2>2, Zenon
    <3>2. j % 2 # 1
      <4> SUFFICES ASSUME j % 2 = 1 PROVE FALSE
        OBVIOUS
      <4>1. t[j] = UserOf(Past[(j + 1) \div 2])
        BY <1>e, Zenon
      <4>2. t[i].role # t[j].role
        BY <1>r, <3>1, <4>1
      <4> QED
        BY <1>6, <4>2
    <3>3. t[j] = AssistantOf(Past[j \div 2])
      BY <1>e, <3>2, Zenon
    <3>4. Past[i \div 2] = Past[j \div 2]
      BY <1>r, <1>6, <3>1, <3>3, ZenonT(60)
    <3>5. i \div 2 = j \div 2
      BY <1>1, <1>3, <2>2, <3>2, <3>4 DEF IsInjective
    <3> QED
      BY <1>3, <2>2, <3>2, <3>5
  <2> QED
    BY <2>1, <2>2
<1> QED
  BY <1>2, <1>4, <1>5, <1>6 DEF t, Distinct

LEMMA InitIInv == Init => IInv
<1> SUFFICES ASSUME Init PROVE IInv
  OBVIOUS
<1>0. None \notin Runs
  BY SessionAssumption DEF SessionAssumption
<1>1. /\ cache = None /\ lock = None /\ trouble = {} /\ \A o \in Runs : objs[o] = Empty
      /\ objs \in [Runs -> Content] /\ history \in [Message -> Nat]
      /\ \A m \in Message : history[m] = 0
  BY NewOnes DEF Init
<1>2. /\ run \in [Runs -> Locals]
      /\ \A r \in Runs : run[r] = [pc |-> "idle", hold |-> None, after |-> "done", meta |-> 0,
                                   end |-> 0, chunk |-> <<>>]
  <2>1. "idle" \in Phases
    BY DEF Phases
  <2> QED
    BY <2>1, NewOnes DEF Init, Begun
<1>3. PICK k \in 0..Len(Past) : file = [messages |-> PastTurns(k), index |-> 0]
  BY DEF Init
<1>4. /\ file \in Content /\ file.messages = PastTurns(k) /\ file.index = 0
      /\ Distinct(file.messages) /\ DOMAIN file.messages \subseteq Nat \ {0}
      /\ \A i \in DOMAIN file.messages : file.messages[i].by \notin Runs
                                         /\ file.messages[i] \in Message
  <2>1. PastTurns(k) \in Seq(Message)
    BY PastProperties
  <2>2. DOMAIN PastTurns(k) = 1..Len(PastTurns(k)) /\ Len(PastTurns(k)) \in Nat
    BY <2>1, Elements
  <2>3. \A i \in DOMAIN PastTurns(k) : PastTurns(k)[i] \in Message
    BY <2>1, <2>2, Elements
  <2> QED
    BY <1>3, <2>1, <2>2, <2>3, PastProperties DEF Content
<1>5. \A o \in Runs : ~InUse(o)
  BY <1>0, <1>1, <1>2 DEF InUse
<1>6. /\ Empty.messages = <<>> /\ Empty.index = 0 /\ DOMAIN <<>> = {} /\ Range(<<>>) = {}
  BY NewOnes DEF Range
<1>7. TypeOK
  <2>1. \A r \in Runs : ~Consolidating(r)
    BY <1>2 DEF Consolidating
  <2> QED
    BY <1>0, <1>1, <1>2, <1>4, <2>1 DEF TypeOK
<1>8. PhaseInv /\ LockInv /\ OneInv /\ PrefixInv /\ FileInv /\ IndexInv
  BY <1>1, <1>2, <1>5 DEF PhaseInv, LockInv, OneInv, PrefixInv, FileInv, IndexInv
<1>9. HiddenInv
  <2>1. Hidden(file) = {}
    BY <1>4 DEF Hidden
  <2>2. \A r \in Runs : Hidden(objs[r]) = {}
    BY <1>1, <1>6 DEF Hidden
  <2>3. \A r \in Runs : run[r].pc = "idle"
    BY <1>2
  <2> QED
    BY <2>1, <2>2, <2>3 DEF HiddenInv, Archived
<1>10. UnsaidInv
  <2> SUFFICES ASSUME NEW q \in Runs, NEW m \in Message, Unsaid(q, m)
               PROVE  /\ history[m] = 0 /\ m \notin Range(file.messages)
                      /\ \A o \in Runs : m \notin Range(objs[o].messages)
                                         /\ m \notin Range(run[o].chunk)
    BY DEF UnsaidInv
  <2>1. m.by = q
    BY DEF Unsaid, UserOf, AssistantOf
  <2>2. m \notin Range(file.messages)
    BY <1>4, <2>1 DEF Range
  <2> QED
    BY <1>1, <1>2, <1>6, <2>2
<1>11. OnceInv
  BY <1>1, <1>2, <1>4, <1>5 DEF OnceInv
<1> QED
  BY <1>7, <1>8, <1>9, <1>10, <1>11 DEF IInv

LEMMA IInvStep == IInv /\ [Next]_vars => IInv'
  BY TypeStep, PhaseStep, LockInvStep, OneStep, PrefixStep, FileStep, IndexStep, HiddenStep,
     UnsaidStep, OnceStep DEF IInv

(* The invariant that carries the others, inductive for every set of runs  *)
(* and every past.                                                         *)
THEOREM Invariance == Spec => []IInv
  BY InitIInv, IInvStep, PTL DEF Spec

(* Every variable of the session, its file and its runs stays in its       *)
(* domain, and the consolidation lock of the session is held exactly by the*)
(* run that is in MaybeConsolidateByTokens.                                *)
THEOREM TypeCorrect == Spec => []TypeOK
<1>1. IInv => TypeOK
  BY DEF IInv
<1> QED
  BY <1>1, Invariance, PTL

(* With one object, no failed read or save and no torn file, Save leaves   *)
(* the messages of the cached object in the file, in whatever order the    *)
(* saves of runs, of the consolidator and of /new truncate and write it.   *)
THEOREM FileIsSession == Spec => []FileHoldsSession
<1>1. IInv => FileHoldsSession
  <2> SUFFICES ASSUME IInv, Without({"split", "unread", "unsaved", "torn"}), cache # None,
                      \A r \in Runs : ~Changing(r)
               PROVE  file.messages = objs[cache].messages
    BY DEF FileHoldsSession
  <2>1. cache \in Runs /\ InUse(cache)
    BY DEF IInv, TypeOK, InUse
  <2>2. Without({"split", "unsaved", "torn"}) /\ "unread" \notin trouble
    BY DEF Without
  <2> QED
    BY <2>1, <2>2 DEF IInv, FileInv
<1> QED
  BY <1>1, Invariance, PTL

(* What GetHistory leaves out of a session, in memory or in the file, is in*)
(* HISTORY.md, also after crashes and failed saves: the consolidator sets  *)
(* the index after it has archived the chunk.                              *)
THEOREM HiddenArchived == Spec => []HiddenIsArchived
<1>1. IInv => HiddenIsArchived
  BY DEF IInv, HiddenInv, HiddenIsArchived, Archived
<1> QED
  BY <1>1, Invariance, PTL

(* No message is archived twice in one life of the process, with one object*)
(* and metadata that is saved and never late: the lock covers a            *)
(* consolidation from its chunk to its index.                              *)
THEOREM ArchivedAtMostOnce == Spec => []ArchivedOnce
<1>1. IInv => ArchivedOnce
  BY DEF IInv, OnceInv, ArchivedOnce
<1> QED
  BY <1>1, Invariance, PTL
=============================================================================
