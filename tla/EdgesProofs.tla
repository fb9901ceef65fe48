----------------------------- MODULE EdgesProofs -----------------------------
(***************************************************************************)
(* Safety of three modules at the edges of the gateway, for all chats,     *)
(* mails and calls and every bound: the WeCom channel, the email channel   *)
(* and the calls of an MCP tool.  A step of MCEdges is a step of one of    *)
(* them and leaves the others alone (lemma Parts), so that each has an     *)
(* invariant of its own.                                                   *)
(***************************************************************************)
EXTENDS MCEdges, SequenceTheorems, TLAPS

LEMMA Parts ==
    ASSUME [Next]_vars
    PROVE  /\ [Wecom!Next]_wecomVars
           /\ [Mail!Next]_mailVars
           /\ [Tool!Next]_callVars
  BY DEF Next, vars

(* A queue that loses its head.                                            *)
LEMMA TailEntries ==
    ASSUME NEW S, NEW q \in Seq(S), q # <<>>
    PROVE  /\ Tail(q) \in Seq(S) /\ Head(q) \in S
           /\ 1 \in DOMAIN q /\ Head(q) = q[1]
           /\ \A i \in DOMAIN Tail(q) :
                i \in Nat /\ i + 1 \in DOMAIN q /\ i + 1 > 1 /\ Tail(q)[i] = q[i + 1]
           /\ \A i \in DOMAIN q : i = 1 \/ (i - 1 \in DOMAIN Tail(q) /\ Tail(q)[i - 1] = q[i])
<1>1. Len(q) \in Nat \ {0} /\ DOMAIN q = 1 .. Len(q)
  BY EmptySeq, LenProperties
<1>2. Len(Tail(q)) = Len(q) - 1 /\ Tail(q) \in Seq(S)
  BY HeadTailProperties
<1>3. DOMAIN Tail(q) = 1 .. Len(q) - 1
  BY <1>1, <1>2, LenProperties
<1>4. \A i \in 1 .. Len(q) - 1 : Tail(q)[i] = q[i + 1]
  BY HeadTailProperties
<1>5. Head(q) = q[1] /\ Head(q) \in S
  BY HeadTailProperties
<1> QED
  BY <1>1, <1>2, <1>3, <1>4, <1>5

(* A queue with one more entry.                                            *)
LEMMA AppendEntries ==
    ASSUME NEW S, NEW q \in Seq(S), NEW e \in S
    PROVE  /\ Append(q, e) \in Seq(S)
           /\ \A i \in DOMAIN Append(q, e) :
                \/ i \in DOMAIN q /\ Append(q, e)[i] = q[i]
                \/ Append(q, e)[i] = e /\ i \in Nat /\ \A j \in DOMAIN q : j < i
           /\ \A i \in DOMAIN q : i \in DOMAIN Append(q, e) /\ Append(q, e)[i] = q[i]
           /\ \E i \in DOMAIN Append(q, e) : Append(q, e)[i] = e
<1>1. Len(q) \in Nat /\ DOMAIN q = 1 .. Len(q)
  BY LenProperties
<1>2. /\ Append(q, e) \in Seq(S) /\ Len(Append(q, e)) = Len(q) + 1
      /\ \A i \in 1 .. Len(q) : Append(q, e)[i] = q[i]
      /\ Append(q, e)[Len(q) + 1] = e
  BY AppendProperties
<1>3. DOMAIN Append(q, e) = 1 .. Len(q) + 1
  BY <1>2, LenProperties
<1> HIDE DEF Append
<1> QED
  BY <1>1, <1>2, <1>3

-----------------------------------------------------------------------------
(* WeCom: replies.  Deliveries are numbered as they are sent, so those on  *)
(* the wire are newer than what is kept for their chats (FramesInv), and   *)
(* what is kept for a chat only grows.  A delivery the agent has been      *)
(* given was kept first, so whatever is kept later is as new (RepliesInv). *)

Delivery == [msg : Wecom!Callbacks, req : Nat]
Kept(d) == d.req <= chatFrames[Wecom!ChatOf(d)]

FramesTypes ==
    /\ reqs \in Nat /\ chatFrames \in [Chats -> Nat]
    /\ wire \in Seq(Delivery) /\ outbound \in Seq(Delivery)
    /\ pending \subseteq Delivery
    /\ run = "publishing" => hand \in Delivery

FramesInv ==
    /\ \A c \in Chats : chatFrames[c] <= reqs
    /\ \A i \in DOMAIN wire :
         wire[i].req <= reqs /\ chatFrames[Wecom!ChatOf(wire[i])] < wire[i].req
    /\ \A i, j \in DOMAIN wire : i < j => wire[i].req < wire[j].req

RepliesInv ==
    /\ run = "publishing" => Kept(hand)
    /\ \A d \in pending : Kept(d)
    /\ \A i \in DOMAIN outbound : Kept(outbound[i])
    /\ sending.req >= sending.of.req
    /\ ReplyNotStale

WecomInv == FramesTypes /\ FramesInv /\ RepliesInv

LEMMA ChatOfDelivery ==
    ASSUME NEW d \in Delivery
    PROVE  d.msg \in Wecom!Callbacks /\ d.req \in Nat /\ Wecom!ChatOf(d) \in Chats
  BY DEF Delivery, Wecom!Callbacks, Wecom!ChatOf

(* The invariant holds at the start.                                       *)
LEMMA WecomInit == Wecom!Init => WecomInv
<1> SUFFICES ASSUME Wecom!Init PROVE WecomInv
  OBVIOUS
<1>1. FramesTypes
  BY DEF Wecom!Init, FramesTypes
<1>2. FramesInv
  BY DEF Wecom!Init, FramesInv
<1>3. RepliesInv
  BY DEF Wecom!Init, RepliesInv, Wecom!None, ReplyNotStale, Wecom!ReplyNotStale
<1> QED
  BY <1>1, <1>2, <1>3 DEF WecomInv

(* A step that leaves the deliveries and the answers as they are, or drops *)
(* what is on the wire.                                                    *)
LEMMA Elsewhere ==
    ASSUME WecomInv,
           UNCHANGED <<reqs, chatFrames, pending, outbound, sending, written>>,
           wire' \in {wire, <<>>},
           run' = "publishing" => run = "publishing" /\ hand' = hand
    PROVE  WecomInv'
<1> USE DEF WecomInv
<1>1. FramesTypes'
  <2>1. wire' \in Seq(Delivery)
    <3>1. CASE wire' = wire
      BY <3>1 DEF FramesTypes
    <3>2. CASE wire' = <<>>
      BY <3>2
    <3> QED
      BY <3>1, <3>2
  <2> QED
    BY <2>1 DEF FramesTypes
<1>2. FramesInv'
  <2>1. CASE wire' = wire
    BY <2>1 DEF FramesInv, Wecom!ChatOf
  <2>2. CASE wire' = <<>>
    BY <2>2 DEF FramesInv, Wecom!ChatOf
  <2> QED
    BY <2>1, <2>2
<1>3. RepliesInv'
  BY DEF RepliesInv, Kept, Wecom!ChatOf, ReplyNotStale, Wecom!ReplyNotStale
<1> QED
  BY <1>1, <1>2, <1>3

(* A delivery is numbered above all before.                                *)
LEMMA DeliverStep ==
    ASSUME WecomInv, NEW m \in Wecom!Callbacks, Wecom!Deliver(m)
    PROVE  WecomInv'
<1> DEFINE d == [msg |-> m, req |-> reqs + 1]
<1>0. FramesTypes /\ FramesInv /\ RepliesInv
  BY DEF WecomInv
<1>1. /\ reqs' = reqs + 1 /\ wire' = Append(wire, d)
      /\ UNCHANGED <<run, chatFrames, hand, pending, outbound, sending, written>>
  BY DEF Wecom!Deliver
<1>2. d \in Delivery /\ reqs \in Nat /\ d.req = reqs + 1
  BY <1>0 DEF FramesTypes, Delivery
<1>3. wire \in Seq(Delivery) /\ chatFrames \in [Chats -> Nat]
  BY <1>0 DEF FramesTypes
<1>4. chatFrames[Wecom!ChatOf(d)] <= reqs /\ Wecom!ChatOf(d) \in Chats
  BY <1>0, <1>2, ChatOfDelivery DEF FramesInv
<1> HIDE DEF d
<1>5. FramesTypes'
  BY <1>0, <1>1, <1>2, <1>3, AppendEntries DEF FramesTypes
<1>6. FramesInv'
  <2>1. \A c \in Chats : chatFrames'[c] <= reqs'
    <3> SUFFICES ASSUME NEW c \in Chats PROVE chatFrames'[c] <= reqs'
      OBVIOUS
    <3>1. chatFrames[c] <= reqs /\ chatFrames[c] \in Nat
      BY <1>0, <1>3 DEF FramesInv
    <3> QED
      BY <3>1, <1>1, <1>2
  <2>2. \A i \in DOMAIN wire :
          /\ wire[i] \in Delivery /\ wire[i].req \in Nat /\ wire[i].req <= reqs
          /\ chatFrames[Wecom!ChatOf(wire[i])] < wire[i].req
    BY <1>0, <1>3, ElementOfSeq, ChatOfDelivery, LenProperties DEF FramesInv
  <2>3. ASSUME NEW i \in DOMAIN wire'
        PROVE  wire'[i].req <= reqs' /\ chatFrames'[Wecom!ChatOf(wire'[i])] < wire'[i].req
    <3>0. wire' \in Seq(Delivery) /\ DOMAIN wire' = DOMAIN Append(wire, d)
      BY <1>1, <1>2, <1>3, AppendEntries
    <3>1. \/ i \in DOMAIN wire /\ wire'[i] = wire[i]
          \/ wire'[i] = d
      BY <1>1, <1>2, <1>3, <2>3, AppendEntries
    <3>2. CASE i \in DOMAIN wire /\ wire'[i] = wire[i]
      BY <3>2, <2>2, <1>1, <1>2
    <3>3. CASE wire'[i] = d
      <4>1. chatFrames[Wecom!ChatOf(d)] \in Nat
        BY <1>3, <1>4
      <4> QED
        BY <3>3, <4>1, <1>1, <1>2, <1>4
    <3> QED
      BY <3>1, <3>2, <3>3
  <2>4. ASSUME NEW i \in DOMAIN wire', NEW j \in DOMAIN wire', i < j
        PROVE  wire'[i].req < wire'[j].req
    <3>0. DOMAIN wire' = DOMAIN Append(wire, d) /\ i \in Nat /\ j \in Nat
      BY <1>1, <1>2, <1>3, AppendEntries, LenProperties
    <3>1. \/ j \in DOMAIN wire /\ wire'[j] = wire[j]
          \/ wire'[j] = d
      BY <1>1, <1>2, <1>3, AppendEntries
    <3>2. \/ i \in DOMAIN wire /\ wire'[i] = wire[i]
          \/ wire'[i] = d /\ \A k \in DOMAIN wire : k < i
      BY <1>1, <1>2, <1>3, AppendEntries
    <3>3. i \in DOMAIN wire /\ wire'[i] = wire[i]
      <4>1. CASE j \in DOMAIN wire
        BY <4>1, <3>0, <3>2, <2>4
      <4>2. CASE j \notin DOMAIN wire
        <5>1. Len(wire) \in Nat /\ DOMAIN wire = 1 .. Len(wire)
          BY <1>3, LenProperties
        <5>2. Append(wire, d) \in Seq(Delivery) /\ Len(Append(wire, d)) = Len(wire) + 1
          BY <1>2, <1>3, AppendProperties
        <5>3. DOMAIN Append(wire, d) = 1 .. Len(wire) + 1
          BY <5>2, LenProperties
        <5>4. i \in DOMAIN wire
          BY <5>1, <5>3, <3>0, <4>2, <2>4
        <5> QED
          BY <5>4, <1>1, <1>2, <1>3, AppendEntries
      <4> QED
        BY <4>1, <4>2
    <3>4. CASE j \in DOMAIN wire /\ wire'[j] = wire[j]
      BY <3>3, <3>4, <2>4, <1>0 DEF FramesInv
    <3>5. CASE wire'[j] = d
      BY <3>3, <3>5, <2>2, <1>2
    <3> QED
      BY <3>1, <3>4, <3>5
  <2> QED
    BY <2>1, <2>3, <2>4 DEF FramesInv
<1>7. RepliesInv'
  BY <1>0, <1>1 DEF RepliesInv, Kept, Wecom!ChatOf, ReplyNotStale, Wecom!ReplyNotStale
<1> QED
  BY <1>5, <1>6, <1>7 DEF WecomInv

(* A callback is taken off the wire; what it keeps is newer than what was  *)
(* kept before, and older than the rest of the wire.                       *)
LEMMA CallbackStep ==
    ASSUME WecomInv, Wecom!HandleCallback
    PROVE  WecomInv'
<1> DEFINE d == Head(wire)
           c == Wecom!ChatOf(d)
           rest == Tail(wire)
<1>0. FramesTypes /\ FramesInv /\ RepliesInv
  BY DEF WecomInv
<1>1. /\ wire # <<>> /\ wire' = rest /\ run = "reading"
      /\ \/ UNCHANGED chatFrames
         \/ chatFrames' = [chatFrames EXCEPT ![c] = d.req]
      /\ \/ run' = run /\ hand' = hand
         \/ /\ run' = "publishing" /\ hand' = d
            /\ chatFrames' = [chatFrames EXCEPT ![c] = d.req]
      /\ UNCHANGED <<reqs, pending, outbound, sending, written>>
  BY DEF Wecom!HandleCallback, Wecom!KeepFrame
<1>2. /\ wire \in Seq(Delivery) /\ chatFrames \in [Chats -> Nat] /\ reqs \in Nat
      /\ pending \subseteq Delivery /\ outbound \in Seq(Delivery)
  BY <1>0 DEF FramesTypes
<1>3. /\ d \in Delivery /\ rest \in Seq(Delivery) /\ 1 \in DOMAIN wire /\ d = wire[1]
      /\ \A i \in DOMAIN rest :
           i \in Nat /\ i + 1 \in DOMAIN wire /\ i + 1 > 1 /\ rest[i] = wire[i + 1]
  BY <1>1, <1>2, TailEntries
<1>4. c \in Chats /\ d.req \in Nat
  BY <1>3, ChatOfDelivery
<1>5. chatFrames[c] < d.req /\ d.req <= reqs
  BY <1>0, <1>3 DEF FramesInv
<1> HIDE DEF c, d, rest
<1>6. /\ chatFrames' \in [Chats -> Nat]
      /\ \A e \in Chats : chatFrames'[e] = chatFrames[e] \/ (e = c /\ chatFrames'[e] = d.req)
      /\ \A e \in Chats : chatFrames[e] <= chatFrames'[e]
  BY <1>1, <1>2, <1>4, <1>5
<1>7. FramesTypes'
  BY <1>0, <1>1, <1>2, <1>3, <1>6 DEF FramesTypes
<1>8. FramesInv'
  <2>1. \A e \in Chats : chatFrames'[e] <= reqs'
    BY <1>0, <1>1, <1>5, <1>6 DEF FramesInv
  <2>2. ASSUME NEW i \in DOMAIN rest
        PROVE  /\ rest[i].req <= reqs
               /\ chatFrames'[Wecom!ChatOf(rest[i])] < rest[i].req
    <3>1. i + 1 \in DOMAIN wire /\ i + 1 > 1 /\ rest[i] = wire[i + 1] /\ i \in Nat
      BY <1>3, <2>2
    <3>2. /\ wire[i + 1].req <= reqs
          /\ chatFrames[Wecom!ChatOf(wire[i + 1])] < wire[i + 1].req
          /\ wire[1].req < wire[i + 1].req
      BY <1>0, <1>3, <3>1 DEF FramesInv
    <3>3. wire[i + 1] \in Delivery
      BY <1>2, <3>1, ElementOfSeq, LenProperties
    <3>4. Wecom!ChatOf(wire[i + 1]) \in Chats
      BY <3>3, ChatOfDelivery
    <3> QED
      BY <3>1, <3>2, <3>4, <1>3, <1>6
  <2>3. ASSUME NEW i \in DOMAIN rest, NEW j \in DOMAIN rest, i < j
        PROVE  rest[i].req < rest[j].req
    <3>1. /\ i + 1 \in DOMAIN wire /\ rest[i] = wire[i + 1] /\ i \in Nat
          /\ j + 1 \in DOMAIN wire /\ rest[j] = wire[j + 1] /\ j \in Nat
      BY <1>3, <2>3
    <3>2. i + 1 < j + 1
      BY <3>1, <2>3
    <3> QED
      BY <1>0, <3>1, <3>2 DEF FramesInv
  <2> QED
    BY <2>1, <2>2, <2>3, <1>1 DEF FramesInv
<1>9. RepliesInv'
  <2>1. ASSUME NEW e \in Delivery, Kept(e) PROVE Kept(e)'
    <3>1. Wecom!ChatOf(e) \in Chats /\ e.req \in Nat
      BY ChatOfDelivery
    <3>2. /\ chatFrames[Wecom!ChatOf(e)] \in Nat /\ chatFrames'[Wecom!ChatOf(e)] \in Nat
          /\ chatFrames[Wecom!ChatOf(e)] <= chatFrames'[Wecom!ChatOf(e)]
      BY <3>1, <1>2, <1>6
    <3>3. e.req <= chatFrames'[Wecom!ChatOf(e)]
      BY <3>1, <3>2, <2>1 DEF Kept
    <3> QED
      BY <3>3 DEF Kept, Wecom!ChatOf
  <2>2. run' = "publishing" => Kept(hand)'
    <3>1. CASE run' = run
      BY <3>1, <1>1
    <3>2. CASE hand' = d /\ chatFrames' = [chatFrames EXCEPT ![c] = d.req]
      <4>1. chatFrames'[Wecom!ChatOf(d)] = d.req
        BY <3>2, <1>2, <1>4 DEF c
      <4> QED
        BY <3>2, <4>1, <1>4 DEF Kept, Wecom!ChatOf
    <3> QED
      BY <3>1, <3>2, <1>1
  <2>3. \A e \in pending' : Kept(e)'
    BY <1>0, <1>1, <1>2, <2>1 DEF RepliesInv
  <2>4. \A i \in DOMAIN outbound' : Kept(outbound[i])'
    <3> SUFFICES ASSUME NEW i \in DOMAIN outbound PROVE Kept(outbound[i])'
      BY <1>1
    <3>1. outbound[i] \in Delivery /\ Kept(outbound[i])
      BY <1>0, <1>2, ElementOfSeq, LenProperties DEF RepliesInv
    <3>2. outbound'[i] = outbound[i]
      BY <1>1
    <3>3. outbound[i].req <= chatFrames'[Wecom!ChatOf(outbound[i])]
      BY <3>1, <2>1, <1>1 DEF Kept, Wecom!ChatOf
    <3> QED
      BY <3>2, <3>3 DEF Kept, Wecom!ChatOf
  <2>5. sending'.req >= sending'.of.req /\ ReplyNotStale'
    BY <1>0, <1>1 DEF RepliesInv, ReplyNotStale, Wecom!ReplyNotStale
  <2> QED
    BY <2>2, <2>3, <2>4, <2>5 DEF RepliesInv
<1> QED
  BY <1>7, <1>8, <1>9 DEF WecomInv

(* Every step keeps the invariant: the agent hands deliveries on, and Send *)
(* takes up what is kept for the chat of one.                              *)
LEMMA WecomStep == WecomInv /\ [Wecom!Next]_wecomVars => WecomInv'
<1> SUFFICES ASSUME WecomInv, [Wecom!Next]_wecomVars PROVE WecomInv'
  OBVIOUS
<1>0. FramesTypes /\ FramesInv /\ RepliesInv
  BY DEF WecomInv
<1>1. CASE UNCHANGED wecomVars
  <2>1. UNCHANGED <<run, hand, wire, reqs, chatFrames, pending, outbound, sending, written>>
    BY <1>1 DEF wecomVars
  <2> QED
    BY <2>1, Elsewhere
<1>2. CASE Wecom!Connect
  BY <1>2, Elsewhere DEF Wecom!Connect
<1>3. CASE Wecom!Subscribed
  BY <1>3, Elsewhere DEF Wecom!Subscribed
<1>4. CASE Wecom!Leave
  BY <1>4, Elsewhere DEF Wecom!Leave
<1>5. CASE Wecom!Break
  BY <1>5, Elsewhere DEF Wecom!Break
<1>6. CASE Wecom!Stop
  BY <1>6, Elsewhere DEF Wecom!Stop
<1>7. ASSUME NEW m \in Wecom!Callbacks, Wecom!Deliver(m) PROVE WecomInv'
  BY <1>7, DeliverStep
<1>8. CASE Wecom!HandleCallback
  BY <1>8, CallbackStep
<1>9. CASE Wecom!Publish
  <2>1. /\ run = "publishing" /\ run' = "reading"
        /\ pending' = pending \cup {hand} \/ pending' = pending
        /\ UNCHANGED <<wire, reqs, chatFrames, outbound, sending, written>>
    BY <1>9 DEF Wecom!Publish
  <2>2. FramesTypes'
    BY <1>0, <2>1 DEF FramesTypes
  <2>3. FramesInv'
    BY <1>0, <2>1 DEF FramesInv, Wecom!ChatOf
  <2>4. RepliesInv'
    BY <1>0, <2>1 DEF RepliesInv, Kept, Wecom!ChatOf, ReplyNotStale, Wecom!ReplyNotStale
  <2> QED
    BY <2>2, <2>3, <2>4 DEF WecomInv
<1>10. ASSUME NEW d \in pending, Wecom!Answer(d) PROVE WecomInv'
  <2>1. /\ pending' = pending \ {d} /\ outbound' = Append(outbound, d)
        /\ UNCHANGED <<run, hand, wire, reqs, chatFrames, sending, written>>
    BY <1>10 DEF Wecom!Answer
  <2>2. d \in Delivery /\ outbound \in Seq(Delivery) /\ Kept(d)
    BY <1>0, <1>10 DEF FramesTypes, RepliesInv
  <2>3. FramesTypes'
    BY <1>0, <2>1, <2>2, AppendEntries DEF FramesTypes
  <2>4. FramesInv'
    BY <1>0, <2>1 DEF FramesInv, Wecom!ChatOf
  <2>5. \A i \in DOMAIN outbound' : outbound'[i] = d \/ (i \in DOMAIN outbound /\ outbound'[i] = outbound[i])
    BY <2>1, <2>2, AppendEntries
  <2>6. RepliesInv'
    BY <1>0, <2>1, <2>2, <2>5
    DEF RepliesInv, Kept, Wecom!ChatOf, ReplyNotStale, Wecom!ReplyNotStale
  <2> QED
    BY <2>3, <2>4, <2>6 DEF WecomInv
<1>11. CASE Wecom!SendReads
  <2> DEFINE d == Head(outbound)
             rest == Tail(outbound)
  <2>1. /\ outbound # <<>> /\ outbound' = rest
        /\ \/ UNCHANGED sending
           \/ sending'.of = d /\ sending'.req = chatFrames[Wecom!ChatOf(d)]
        /\ UNCHANGED <<run, hand, wire, reqs, chatFrames, pending, written>>
    BY <1>11 DEF Wecom!SendReads
  <2>2. outbound \in Seq(Delivery)
    BY <1>0 DEF FramesTypes
  <2>3. /\ d \in Delivery /\ rest \in Seq(Delivery) /\ 1 \in DOMAIN outbound /\ d = outbound[1]
        /\ \A i \in DOMAIN rest : i + 1 \in DOMAIN outbound /\ rest[i] = outbound[i + 1]
    BY <2>1, <2>2, TailEntries
  <2> HIDE DEF d, rest
  <2>4. FramesTypes'
    BY <1>0, <2>1, <2>3 DEF FramesTypes
  <2>5. FramesInv'
    BY <1>0, <2>1 DEF FramesInv, Wecom!ChatOf
  <2>6. /\ \A i \in DOMAIN rest : Kept(rest[i])
        /\ Kept(d)
    BY <1>0, <2>3 DEF RepliesInv
  <2>7. sending'.req >= sending'.of.req
    <3>1. CASE UNCHANGED sending
      BY <3>1, <1>0 DEF RepliesInv
    <3>2. CASE sending'.of = d /\ sending'.req = chatFrames[Wecom!ChatOf(d)]
      BY <3>2, <2>6 DEF Kept
    <3> QED
      BY <2>1, <3>1, <3>2
  <2>8. RepliesInv'
    BY <1>0, <2>1, <2>6, <2>7
    DEF RepliesInv, Kept, Wecom!ChatOf, ReplyNotStale, Wecom!ReplyNotStale
  <2> QED
    BY <2>4, <2>5, <2>8 DEF WecomInv
<1>12. CASE Wecom!SendWrites
  <2>1. /\ sending' = [of |-> Wecom!None, req |-> 0, conn |-> 0]
        /\ \/ written' = written
           \/ written' = written \cup {[of |-> sending.of, req |-> sending.req]}
        /\ UNCHANGED <<run, hand, wire, reqs, chatFrames, pending, outbound>>
    BY <1>12 DEF Wecom!SendWrites
  <2>2. FramesTypes'
    BY <1>0, <2>1 DEF FramesTypes
  <2>3. FramesInv'
    BY <1>0, <2>1 DEF FramesInv, Wecom!ChatOf
  <2>4. sending'.req >= sending'.of.req
    BY <2>1 DEF Wecom!None
  <2>5. ReplyNotStale'
    BY <1>0, <2>1 DEF RepliesInv, ReplyNotStale, Wecom!ReplyNotStale
  <2>6. RepliesInv'
    BY <1>0, <2>1, <2>4, <2>5 DEF RepliesInv, Kept, Wecom!ChatOf
  <2> QED
    BY <2>2, <2>3, <2>6 DEF WecomInv
<1> QED
  BY <1>1, <1>2, <1>3, <1>4, <1>5, <1>6, <1>7, <1>8, <1>9, <1>10, <1>11, <1>12
  DEF Wecom!Next

(* A reply never goes out under a request id older than the one of the     *)
(* callback it answers (KeepFrame, Send).                                  *)
THEOREM RepliesNotStale == Spec => []ReplyNotStale
<1>1. Init => WecomInv
  BY WecomInit DEF Init
<1>2. WecomInv /\ [Next]_vars => WecomInv'
  BY WecomStep, Parts
<1>3. WecomInv => ReplyNotStale
  BY DEF WecomInv, RepliesInv
<1> QED
  BY <1>1, <1>2, <1>3, PTL DEF Spec

-----------------------------------------------------------------------------
(* Email: a mail is handed over once for each time the channel has         *)
(* forgotten it, and once more.  What the table, the batch and the agent   *)
(* have of a mail is accounted for in CountInv.  A poll looks at each mail *)
(* once, so that none is twice in the batch (BatchInv).                    *)

MailTypes ==
    /\ flag \in [Inbox -> {"absent", "unseen", "seen"}]
    /\ found \subseteq Inbox /\ processedUIDs \subseteq Inbox
    /\ result \in Seq(Inbox)
    /\ published \in [Inbox -> Nat] /\ forgotten \in [Inbox -> Nat]

InBatch(m) == \E i \in DOMAIN result : result[i] = m

BatchInv ==
    /\ poll \in {"idle", "ended"} => result = <<>>
    /\ poll = "publishing" => found = {}
    /\ \A m \in found : ~InBatch(m)
    /\ \A i, j \in DOMAIN result : result[i] = result[j] => i = j

SeenInv ==
    \A m \in Inbox :
      flag[m] = "seen" => published[m] > 0 \/ InBatch(m) \/ m \in Unwelcome \cup lost

One(condition) == IF condition THEN 1 ELSE 0

CountInv ==
    \A m \in Inbox :
      published[m] + One(InBatch(m)) <= forgotten[m] + One(m \in processedUIDs)

MailInv == MailTypes /\ BatchInv /\ SeenInv /\ CountInv

LEMMA InBatchToSet ==
    ASSUME NEW m
    PROVE  m \in Mail!ToSet(result) <=> InBatch(m)
  BY DEF Mail!ToSet, InBatch

(* The invariant holds at the start.                                       *)
LEMMA MailInit == Mail!Init => MailInv
<1> SUFFICES ASSUME Mail!Init PROVE MailInv
  OBVIOUS
<1>1. MailTypes
  BY DEF Mail!Init, MailTypes
<1>2. BatchInv
  BY DEF Mail!Init, BatchInv, InBatch
<1>3. SeenInv
  BY DEF Mail!Init, SeenInv
<1>4. CountInv
  BY DEF Mail!Init, CountInv, One, InBatch
<1> QED
  BY <1>1, <1>2, <1>3, <1>4 DEF MailInv

(* Flags that are set to unseen, and steps of the poll between mails.      *)
LEMMA PollStep ==
    ASSUME MailInv,
           UNCHANGED <<processedUIDs, result, published, forgotten, lost>>,
           flag' \in [Inbox -> {"absent", "unseen", "seen"}],
           \A m \in Inbox : flag'[m] = "seen" => flag[m] = "seen",
           poll' \in {"idle", "ended"} => result = <<>>,
           poll' = "publishing" => found' = {},
           found' \subseteq found \/ (result = <<>> /\ found' \subseteq Inbox)
    PROVE  MailInv'
<1>0. MailTypes /\ BatchInv /\ SeenInv /\ CountInv
  BY DEF MailInv
<1>1. MailTypes'
  BY <1>0 DEF MailTypes
<1>2. BatchInv'
  BY <1>0 DEF BatchInv, InBatch
<1>3. SeenInv'
  BY <1>0 DEF SeenInv, InBatch
<1>4. CountInv'
  BY <1>0 DEF CountInv, One, InBatch
<1> QED
  BY <1>1, <1>2, <1>3, <1>4 DEF MailInv

(* What stays in the table are ids that were in it.                        *)
LEMMA EvictionsKeep ==
    ASSUME NEW ids, NEW kept \in Mail!Evictions(ids)
    PROVE  kept \subseteq ids
  BY DEF Mail!Evictions

(* A fetched mail enters the table and the batch, and some ids may leave   *)
(* the table.                                                              *)
LEMMA FetchStep ==
    ASSUME MailInv, NEW m \in Inbox, Mail!Fetch(m)
    PROVE  MailInv'
<1>0. MailTypes /\ BatchInv /\ SeenInv /\ CountInv
  BY DEF MailInv
<1>1. CASE m \in processedUIDs \cup Unsigned
  <2>1. /\ poll = "fetching" /\ poll' = poll /\ found' = found \ {m}
        /\ UNCHANGED <<flag, processedUIDs, result, published, forgotten, lost>>
    BY <1>1 DEF Mail!Fetch
  <2> QED
    BY <2>1, <1>0, PollStep DEF MailTypes
<1>2. CASE m \notin processedUIDs \cup Unsigned
  <2> DEFINE ids == processedUIDs \cup {m}
  <2>1. PICK kept \in Mail!Evictions(ids) :
          /\ processedUIDs' = kept
          /\ forgotten' = [n \in Inbox |-> forgotten[n] + IF n \in ids \ kept THEN 1 ELSE 0]
    BY <1>2 DEF Mail!Fetch, Mail!Remembered
  <2>2. /\ poll = "fetching" /\ poll' = poll /\ m \in found /\ found' = found \ {m}
        /\ result' = Append(result, m)
        /\ flag' = [flag EXCEPT ![m] = "seen"] \/ flag' = flag
        /\ UNCHANGED <<published, lost>>
    BY <1>2 DEF Mail!Fetch
  <2>3. kept \subseteq ids /\ kept \subseteq Inbox
    BY <2>1, <1>0, EvictionsKeep DEF MailTypes
  <2>4. /\ flag \in [Inbox -> {"absent", "unseen", "seen"}] /\ result \in Seq(Inbox)
        /\ published \in [Inbox -> Nat] /\ forgotten \in [Inbox -> Nat]
        /\ processedUIDs \subseteq Inbox /\ found \subseteq Inbox
    BY <1>0 DEF MailTypes
  <2>5. /\ result' \in Seq(Inbox)
        /\ \A i \in DOMAIN result' :
             \/ i \in DOMAIN result /\ result'[i] = result[i]
             \/ result'[i] = m /\ i \in Nat /\ \A j \in DOMAIN result : j < i
        /\ \A i \in DOMAIN result : i \in DOMAIN result' /\ result'[i] = result[i]
        /\ \E i \in DOMAIN result' : result'[i] = m
    <3>1. /\ Append(result, m) \in Seq(Inbox)
          /\ \A i \in DOMAIN Append(result, m) :
               \/ i \in DOMAIN result /\ Append(result, m)[i] = result[i]
               \/ Append(result, m)[i] = m /\ i \in Nat /\ \A j \in DOMAIN result : j < i
          /\ \A i \in DOMAIN result :
               i \in DOMAIN Append(result, m) /\ Append(result, m)[i] = result[i]
          /\ \E i \in DOMAIN Append(result, m) : Append(result, m)[i] = m
      BY <2>4, AppendEntries, Zenon
    <3> QED
      BY <3>1, <2>2, Zenon
  <2>6. \A n : InBatch(n)' <=> (InBatch(n) \/ n = m)
    BY <2>5 DEF InBatch
  <2>7. ~InBatch(m) /\ m \notin processedUIDs
    BY <1>0, <1>2, <2>2 DEF BatchInv
  <2> HIDE DEF ids
  <2>8. MailTypes'
    <3>1. forgotten' \in [Inbox -> Nat]
      BY <2>1, <2>4
    <3> QED
      BY <3>1, <2>1, <2>2, <2>3, <2>4, <2>5 DEF MailTypes
  <2>9. BatchInv'
    <3>1. \A n \in found' : ~InBatch(n)'
      BY <2>2, <2>6, <1>0 DEF BatchInv
    <3>2. ASSUME NEW i \in DOMAIN result', NEW j \in DOMAIN result', result'[i] = result'[j]
          PROVE  i = j
      <4>1. CASE i \in DOMAIN result /\ j \in DOMAIN result
        BY <4>1, <3>2, <2>5, <1>0 DEF BatchInv
      <4>2. CASE i \notin DOMAIN result /\ j \in DOMAIN result
        BY <4>2, <3>2, <2>5, <2>7 DEF InBatch
      <4>3. CASE i \in DOMAIN result /\ j \notin DOMAIN result
        BY <4>3, <3>2, <2>5, <2>7 DEF InBatch
      <4>4. CASE i \notin DOMAIN result /\ j \notin DOMAIN result
        <5>1. Len(result) \in Nat /\ DOMAIN result = 1 .. Len(result)
          BY <2>4, LenProperties
        <5>2. Len(result') = Len(result) + 1 /\ DOMAIN result' = 1 .. Len(result')
          BY <2>2, <2>4, <2>5, AppendProperties, LenProperties
        <5> QED
          BY <4>4, <5>1, <5>2, <3>2
      <4> QED
        BY <4>1, <4>2, <4>3, <4>4
    <3> QED
      BY <3>1, <3>2, <2>2 DEF BatchInv
  <2>10. SeenInv'
    <3> SUFFICES ASSUME NEW n \in Inbox, flag'[n] = "seen"
                 PROVE  published'[n] > 0 \/ InBatch(n)' \/ n \in Unwelcome \cup lost'
      BY DEF SeenInv
    <3>1. CASE n = m
      BY <3>1, <2>6
    <3>2. CASE n # m
      <4>1. flag[n] = "seen"
        BY <3>2, <2>2, <2>4
      <4> QED
        BY <4>1, <2>2, <2>6, <1>0 DEF SeenInv
    <3> QED
      BY <3>1, <3>2
  <2>11. CountInv'
    <3> SUFFICES ASSUME NEW n \in Inbox
                 PROVE  published'[n] + One(InBatch(n)')
                          <= forgotten'[n] + One(n \in processedUIDs')
      BY DEF CountInv, One
    <3>1. published[n] \in Nat /\ forgotten[n] \in Nat /\ published'[n] = published[n]
      BY <2>2, <2>4
    <3>2. forgotten'[n] = forgotten[n] + IF n \in ids \ kept THEN 1 ELSE 0
      BY <2>1
    <3>3. published[n] + One(InBatch(n)) <= forgotten[n] + One(n \in processedUIDs)
      BY <1>0 DEF CountInv
    <3>4. InBatch(n)' <=> (InBatch(n) \/ n = m)
      BY <2>6
    <3>5. CASE n = m
      <4>1. n \in ids
        BY <3>5 DEF ids
      <4>2. CASE n \in kept
        BY <3>1, <3>2, <3>3, <3>4, <3>5, <4>1, <4>2, <2>1, <2>7 DEF One
      <4>3. CASE n \notin kept
        BY <3>1, <3>2, <3>3, <3>4, <3>5, <4>1, <4>3, <2>1, <2>7 DEF One
      <4> QED
        BY <4>2, <4>3
    <3>6. CASE n # m
      <4>1. n \in ids <=> n \in processedUIDs
        BY <3>6 DEF ids
      <4>2. One(InBatch(n)') = One(InBatch(n))
        BY <3>4, <3>6 DEF One
      <4>3. CASE n \in kept
        <5>1. n \in processedUIDs /\ n \in processedUIDs'
          BY <4>1, <4>3, <2>1, <2>3
        <5> QED
          BY <3>1, <3>2, <3>3, <4>2, <4>3, <5>1 DEF One
      <4>4. CASE n \notin kept
        <5>1. n \notin processedUIDs'
          BY <4>4, <2>1
        <5>2. forgotten'[n] = forgotten[n] + One(n \in processedUIDs)
          BY <3>1, <3>2, <4>1, <4>4 DEF One
        <5> QED
          BY <3>1, <3>3, <4>2, <5>1, <5>2 DEF One
      <4> QED
        BY <4>3, <4>4
    <3> QED
      BY <3>5, <3>6
  <2> QED
    BY <2>8, <2>9, <2>10, <2>11 DEF MailInv
<1> QED
  BY <1>1, <1>2

(* The head of the batch is published, refused or lost.                    *)
LEMMA PublishStep == MailInv /\ Mail!Publish => MailInv'
<1> SUFFICES ASSUME MailInv, Mail!Publish PROVE MailInv'
  OBVIOUS
<1> DEFINE m == Head(result)
           rest == Tail(result)
<1>0. MailTypes /\ BatchInv /\ SeenInv /\ CountInv
  BY DEF MailInv
<1>1. /\ poll = "publishing" /\ result # <<>> /\ result' = rest
      /\ \/ m \in Unwelcome /\ published' = published /\ lost' = lost
         \/ published' = [published EXCEPT ![m] = @ + 1] /\ lost' = lost
         \/ lost' = lost \cup {m} /\ published' = published
      /\ UNCHANGED <<flag, poll, found, processedUIDs, forgotten>>
  BY DEF Mail!Publish
<1>2. /\ flag \in [Inbox -> {"absent", "unseen", "seen"}] /\ result \in Seq(Inbox)
      /\ published \in [Inbox -> Nat] /\ forgotten \in [Inbox -> Nat]
  BY <1>0 DEF MailTypes
<1>3. /\ m \in Inbox /\ rest \in Seq(Inbox) /\ 1 \in DOMAIN result /\ m = result[1]
      /\ \A i \in DOMAIN rest :
           i \in Nat /\ i + 1 \in DOMAIN result /\ i + 1 > 1 /\ rest[i] = result[i + 1]
      /\ \A i \in DOMAIN result : i = 1 \/ (i - 1 \in DOMAIN rest /\ rest[i - 1] = result[i])
  BY <1>1, <1>2, TailEntries
<1> HIDE DEF m, rest
<1>4. \A i, j \in DOMAIN result : result[i] = result[j] => i = j
  BY <1>0 DEF BatchInv
<1>5. ASSUME NEW n PROVE InBatch(n)' <=> (InBatch(n) /\ n # m)
  <2>1. ASSUME InBatch(n)' PROVE InBatch(n) /\ n # m
    <3>1. PICK i \in DOMAIN rest : rest[i] = n
      BY <2>1, <1>1 DEF InBatch
    <3>2. i \in Nat /\ i + 1 \in DOMAIN result /\ i + 1 > 1 /\ result[i + 1] = n
      BY <3>1, <1>3
    <3> QED
      BY <3>2, <1>3, <1>4 DEF InBatch
  <2>2. ASSUME InBatch(n), n # m PROVE InBatch(n)'
    <3>1. PICK i \in DOMAIN result : result[i] = n
      BY <2>2 DEF InBatch
    <3>2. i - 1 \in DOMAIN rest /\ rest[i - 1] = n
      BY <3>1, <2>2, <1>3
    <3> QED
      BY <3>2, <1>1 DEF InBatch
  <2> QED
    BY <2>1, <2>2
<1>6. InBatch(m)
  BY <1>3 DEF InBatch
<1>7. /\ published' \in [Inbox -> Nat]
      /\ \A n \in Inbox : published'[n] = published[n] \/ (n = m /\ published'[n] = published[n] + 1)
  BY <1>1, <1>2, <1>3
<1>8. MailTypes'
  BY <1>0, <1>1, <1>3, <1>7 DEF MailTypes
<1>9. BatchInv'
  <2>1. found' = {} /\ poll' = "publishing"
    BY <1>0, <1>1 DEF BatchInv
  <2>2. ASSUME NEW i \in DOMAIN rest, NEW j \in DOMAIN rest, rest[i] = rest[j] PROVE i = j
    <3>1. /\ i \in Nat /\ i + 1 \in DOMAIN result /\ rest[i] = result[i + 1]
          /\ j \in Nat /\ j + 1 \in DOMAIN result /\ rest[j] = result[j + 1]
      BY <1>3
    <3>2. i + 1 = j + 1
      BY <3>1, <2>2, <1>4
    <3> QED
      BY <3>1, <3>2
  <2> QED
    BY <2>1, <2>2, <1>1 DEF BatchInv
<1>10. SeenInv'
  <2> SUFFICES ASSUME NEW n \in Inbox, flag'[n] = "seen"
               PROVE  published'[n] > 0 \/ InBatch(n)' \/ n \in Unwelcome \cup lost'
    BY DEF SeenInv
  <2>1. published[n] > 0 \/ InBatch(n) \/ n \in Unwelcome \cup lost
    BY <1>0, <1>1 DEF SeenInv
  <2>2. CASE n # m \/ ~InBatch(n)
    <3>1. InBatch(n) => InBatch(n)'
      BY <2>2, <1>5, <1>6
    <3>2. published[n] > 0 => published'[n] > 0
      <4>1. published[n] \in Nat /\ (published'[n] = published[n] \/ published'[n] = published[n] + 1)
        BY <1>2, <1>7
      <4> QED
        BY <4>1
    <3> QED
      BY <2>1, <3>1, <3>2, <1>1
  <2>3. CASE n = m
    <3>1. CASE m \in Unwelcome \/ m \in lost'
      BY <2>3, <3>1
    <3>2. CASE published' = [published EXCEPT ![m] = @ + 1]
      BY <2>3, <3>2, <1>2, <1>3
    <3> QED
      BY <3>1, <3>2, <1>1
  <2> QED
    BY <2>2, <2>3
<1>11. CountInv'
  <2> SUFFICES ASSUME NEW n \in Inbox
               PROVE  published'[n] + One(InBatch(n)')
                        <= forgotten'[n] + One(n \in processedUIDs')
    BY DEF CountInv, One
  <2>1. /\ published[n] \in Nat /\ forgotten[n] \in Nat
        /\ published[n] + One(InBatch(n)) <= forgotten[n] + One(n \in processedUIDs)
        /\ published'[n] = published[n] \/ (n = m /\ published'[n] = published[n] + 1)
    BY <1>0, <1>2, <1>7 DEF CountInv
  <2>2. forgotten'[n] + One(n \in processedUIDs') = forgotten[n] + One(n \in processedUIDs)
    BY <1>1
  <2>3. CASE n = m
    <3>1. One(InBatch(n)) = 1 /\ One(InBatch(n)') = 0
      BY <2>3, <1>5, <1>6 DEF One
    <3>2. One(n \in processedUIDs) \in Nat
      BY DEF One
    <3> QED
      BY <2>1, <2>2, <3>1, <3>2
  <2>4. CASE n # m
    <3>1. One(InBatch(n)') = One(InBatch(n))
      BY <2>4, <1>5 DEF One
    <3> QED
      BY <2>1, <2>2, <2>4, <3>1
  <2> QED
    BY <2>3, <2>4
<1> QED
  BY <1>8, <1>9, <1>10, <1>11 DEF MailInv

(* A restart forgets the table and loses the batch.                        *)
LEMMA RestartStep == MailInv /\ Mail!Restart => MailInv'
<1> SUFFICES ASSUME MailInv, Mail!Restart PROVE MailInv'
  OBVIOUS
<1>0. MailTypes /\ BatchInv /\ SeenInv /\ CountInv
  BY DEF MailInv
<1>1. /\ poll' = "idle" /\ found' = {} /\ result' = <<>>
      /\ lost' = lost \cup Mail!ToSet(result) /\ processedUIDs' = {}
      /\ forgotten' = [n \in Inbox |-> forgotten[n] + IF n \in processedUIDs THEN 1 ELSE 0]
      /\ UNCHANGED <<flag, published>>
  BY DEF Mail!Restart
<1>2. published \in [Inbox -> Nat] /\ forgotten \in [Inbox -> Nat]
  BY <1>0 DEF MailTypes
<1>3. \A n : ~InBatch(n)'
  BY <1>1 DEF InBatch
<1>4. MailTypes'
  <2>1. forgotten' \in [Inbox -> Nat]
    BY <1>1, <1>2
  <2> QED
    BY <2>1, <1>0, <1>1 DEF MailTypes
<1>5. BatchInv'
  BY <1>1 DEF BatchInv
<1>6. SeenInv'
  BY <1>0, <1>1, InBatchToSet DEF SeenInv
<1>7. CountInv'
  <2> SUFFICES ASSUME NEW n \in Inbox
               PROVE  published'[n] + One(InBatch(n)')
                        <= forgotten'[n] + One(n \in processedUIDs')
    BY DEF CountInv, One
  <2>1. /\ published[n] \in Nat /\ forgotten[n] \in Nat /\ published'[n] = published[n]
        /\ published[n] + One(InBatch(n)) <= forgotten[n] + One(n \in processedUIDs)
    BY <1>0, <1>1, <1>2 DEF CountInv
  <2>2. forgotten'[n] = forgotten[n] + One(n \in processedUIDs)
    BY <1>1 DEF One
  <2>3. One(InBatch(n)') = 0 /\ One(n \in processedUIDs') = 0
    BY <1>1, <1>3 DEF One
  <2>4. One(InBatch(n)) \in Nat /\ One(n \in processedUIDs) \in Nat
    BY DEF One
  <2> QED
    BY <2>1, <2>2, <2>3, <2>4
<1> QED
  BY <1>4, <1>5, <1>6, <1>7 DEF MailInv

(* Every step keeps the invariant.                                         *)
LEMMA MailStep == MailInv /\ [Mail!Next]_mailVars => MailInv'
<1> SUFFICES ASSUME MailInv, [Mail!Next]_mailVars PROVE MailInv'
  OBVIOUS
<1>0. MailTypes /\ BatchInv
  BY DEF MailInv
<1> USE <1>0
<1>1. CASE UNCHANGED mailVars
  <2>1. UNCHANGED <<flag, poll, found, processedUIDs, result, published, forgotten, lost>>
    BY <1>1 DEF mailVars
  <2> QED
    BY <2>1, PollStep DEF MailTypes, BatchInv
<1>2. ASSUME NEW m \in Inbox, Mail!Arrive(m) PROVE MailInv'
  BY <1>2, PollStep DEF Mail!Arrive, MailTypes, BatchInv
<1>3. ASSUME NEW m \in Inbox, Mail!MarkUnread(m) PROVE MailInv'
  BY <1>3, PollStep DEF Mail!MarkUnread, MailTypes, BatchInv
<1>4. ASSUME NEW m \in Inbox, Mail!Fetch(m) PROVE MailInv'
  BY <1>4, FetchStep
<1>5. ASSUME NEW m \in Inbox, Mail!FetchNothing(m) PROVE MailInv'
  BY <1>5, PollStep DEF Mail!FetchNothing, MailTypes, BatchInv
<1>6. CASE Mail!Search
  BY <1>6, PollStep DEF Mail!Search, MailTypes, BatchInv
<1>7. CASE Mail!Fetched
  BY <1>7, PollStep DEF Mail!Fetched, MailTypes, BatchInv
<1>8. CASE Mail!Publish
  BY <1>8, PublishStep
<1>9. CASE Mail!Published
  BY <1>9, PollStep DEF Mail!Published, MailTypes, BatchInv
<1>10. CASE Mail!Cancel
  BY <1>10, PollStep DEF Mail!Cancel, MailTypes, BatchInv
<1>11. CASE Mail!End
  BY <1>11, PollStep DEF Mail!End, MailTypes, BatchInv
<1>12. CASE Mail!Restart
  BY <1>12, RestartStep
<1> QED
  BY <1>1, <1>2, <1>3, <1>4, <1>5, <1>6, <1>7, <1>8, <1>9, <1>10, <1>11, <1>12
  DEF Mail!Next

(* A mail marked as seen was handed over, is in hand, was refused or went  *)
(* with a process, and is handed over again only after it was forgotten    *)
(* (fetchNewMessages, Start).                                              *)
THEOREM MailsHandedOver == Spec => []HandedOver
<1>1. Init => MailInv
  BY MailInit DEF Init
<1>2. MailInv /\ [Next]_vars => MailInv'
  BY MailStep, Parts
<1>3. MailInv => HandedOver
  <2> SUFFICES ASSUME MailInv, NEW m \in Inbox
               PROVE  /\ flag[m] = "seen" =>
                           published[m] > 0 \/ m \in Mail!ToSet(result) \cup Unwelcome \cup lost
                      /\ published[m] <= 1 + forgotten[m]
    BY DEF HandedOver, Mail!HandedOver
  <2>1. published[m] \in Nat /\ forgotten[m] \in Nat
    BY DEF MailInv, MailTypes
  <2>2. published[m] + One(InBatch(m)) <= forgotten[m] + One(m \in processedUIDs)
    BY DEF MailInv, CountInv
  <2>3. published[m] <= 1 + forgotten[m]
    BY <2>1, <2>2 DEF One
  <2> QED
    BY <2>3, InBatchToSet DEF MailInv, SeenInv
<1> QED
  BY <1>1, <1>2, <1>3, PTL DEF Spec

-----------------------------------------------------------------------------
(* MCP: calls.  As long as a call is at its first try it has run on the    *)
(* session it took and no other; when it goes on to the second it has      *)
(* failed, and the session it takes was opened since the failure, for      *)
(* sessions are numbered as they open.                                     *)

Steps == {"idle", "calling", "running", "failed", "connecting", "reconnected", "done"}

CallTypes ==
    /\ session \in 1 .. opened /\ opened \in 1 .. MaxSessions
    /\ callAt \in [ToolCalls -> Steps]
    /\ uses \in [ToolCalls -> 0 .. MaxSessions]
    /\ tries \in [ToolCalls -> Nat]
    /\ failedAt \in [ToolCalls -> 0 .. MaxSessions]
    /\ ran \in [ToolCalls -> [1 .. MaxSessions -> Nat]]

(* A call has run at most once on each session, and on no session but the  *)
(* one it uses and one that was open when its first try failed.            *)
RunsOf(c) ==
    \A s \in 1 .. MaxSessions :
      /\ ran[c][s] <= 1
      /\ ran[c][s] = 1 => s <= uses[c]
      /\ ran[c][s] = 1 /\ s # uses[c] =>
           s <= failedAt[c] /\ failedAt[c] < uses[c] /\ tries[c] = 2
      /\ ran[c][s] = 1 /\ s = uses[c] => callAt[c] # "calling"
      /\ \A t \in 1 .. MaxSessions :
           ran[c][s] = 1 /\ ran[c][t] = 1 /\ s # t => uses[c] \in {s, t}

CallInv(c) ==
    /\ callAt[c] = "idle" => tries[c] = 0 /\ uses[c] = 0
    /\ callAt[c] # "idle" => tries[c] \in {1, 2} /\ uses[c] \in 1 .. opened
    /\ callAt[c] \in {"failed", "connecting", "reconnected"} =>
         tries[c] = 1 /\ uses[c] <= failedAt[c] /\ failedAt[c] <= opened
    /\ callAt[c] = "reconnected" => failedAt[c] < session
    /\ RunsOf(c)

ServerInv == CallTypes /\ \A c \in ToolCalls : CallInv(c)

(* The invariant holds at the start.                                       *)
LEMMA ServerInit == Tool!Init => ServerInv
  BY EdgesAssumption DEF EdgesAssumption, Tool!Init, ServerInv, CallTypes, CallInv, RunsOf, Steps

(* Every step keeps the types.                                             *)
LEMMA CallTypesStep == ServerInv /\ [Tool!Next]_callVars => CallTypes'
<1> SUFFICES ASSUME ServerInv, [Tool!Next]_callVars PROVE CallTypes'
  OBVIOUS
<1> USE EdgesAssumption DEF EdgesAssumption, ServerInv, CallTypes, Steps, Tool!Goes
<1>1. CASE UNCHANGED callVars
  BY <1>1 DEF callVars
<1>2. ASSUME NEW c \in ToolCalls, Tool!Take(c) PROVE CallTypes'
  <2>1. session \in 0 .. MaxSessions /\ tries[c] + 1 \in Nat
    OBVIOUS
  <2> QED
    BY <1>2, <2>1 DEF Tool!Take
<1>3. ASSUME NEW c \in ToolCalls, Tool!Run(c) PROVE CallTypes'
  <2>1. uses[c] \in 1 .. MaxSessions
    BY <1>3 DEF Tool!Run, CallInv
  <2>2. [ran[c] EXCEPT ![uses[c]] = @ + 1] \in [1 .. MaxSessions -> Nat]
    BY <2>1
  <2>3. ran' \in [ToolCalls -> [1 .. MaxSessions -> Nat]]
    BY <1>3, <2>2 DEF Tool!Run
  <2> QED
    BY <1>3, <2>3 DEF Tool!Run
<1>4. ASSUME NEW c \in ToolCalls, Tool!Answered(c) PROVE CallTypes'
  BY <1>4 DEF Tool!Answered
<1>5. ASSUME NEW c \in ToolCalls, Tool!Lock(c) PROVE CallTypes'
  BY <1>5 DEF Tool!Lock
<1>6. ASSUME NEW c \in ToolCalls, Tool!Reconnected(c) PROVE CallTypes'
  <2>1. callAt' \in [ToolCalls -> Steps]
    <3>1. CASE callAt' = [callAt EXCEPT ![c] = "reconnected"]
      BY <3>1
    <3>2. CASE callAt' = [callAt EXCEPT ![c] = "done"]
      BY <3>2
    <3> QED
      BY <1>6, <3>1, <3>2 DEF Tool!Reconnected
  <2>2. session' \in 1 .. opened' /\ opened' \in 1 .. MaxSessions
    BY <1>6 DEF Tool!Reconnected
  <2> QED
    BY <1>6, <2>1, <2>2 DEF Tool!Reconnected
<1>7. ASSUME NEW c \in ToolCalls, Tool!ReconnectFails(c) PROVE CallTypes'
  BY <1>7 DEF Tool!ReconnectFails
<1>8. ASSUME NEW c \in ToolCalls, NEW error \in {"closed", "other"}, Tool!Fails(c, error) PROVE CallTypes'
  <2>1. callAt' \in [ToolCalls -> Steps]
    <3>1. CASE callAt' = [callAt EXCEPT ![c] = "failed"]
      BY <3>1
    <3>2. CASE callAt' = [callAt EXCEPT ![c] = "done"]
      BY <3>2
    <3>3. callAt' = [callAt EXCEPT ![c] = "failed"] \/ callAt' = [callAt EXCEPT ![c] = "done"]
      <4>1. CASE tries[c] = 1 /\ Tool!Reconnects(error)
        BY <1>8, <4>1 DEF Tool!Fails
      <4>2. CASE ~(tries[c] = 1 /\ Tool!Reconnects(error))
        BY <1>8, <4>2 DEF Tool!Fails
      <4> QED
        BY <4>1, <4>2
    <3> QED
      BY <3>1, <3>2, <3>3
  <2> QED
    BY <1>8, <2>1 DEF Tool!Fails
<1>9. ASSUME NEW s \in 1 .. MaxSessions, Tool!Break(s) PROVE CallTypes'
  BY <1>9 DEF Tool!Break
<1> QED
  BY <1>1, <1>2, <1>3, <1>4, <1>5, <1>6, <1>7, <1>8, <1>9 DEF Tool!Next

(* Every step keeps what is said of a call: its own steps, those of other  *)
(* calls, and breaking connections.                                        *)
(* What is before an open session is before the next to open.              *)
LEMMA LaterSession ==
    ASSUME NEW o \in Int, NEW s \in 1 .. o, NEW f \in Int, f < s
    PROVE  f < o + 1
OBVIOUS

LEMMA CallStep ==
    ASSUME ServerInv, [Tool!Next]_callVars, NEW c \in ToolCalls
    PROVE  CallInv(c)'
<1>0. CallTypes /\ CallInv(c)
  BY DEF ServerInv
<1> USE <1>0, EdgesAssumption DEF EdgesAssumption, CallTypes, Steps, Tool!Goes, CallInv, RunsOf
<1>1. CASE UNCHANGED callVars
  BY <1>1 DEF callVars
<1>2. ASSUME NEW d \in ToolCalls, Tool!Take(d) PROVE CallInv(c)'
  <2>1. CASE d = c
    <3>1. CASE callAt[c] = "idle"
      <4>1. \A s \in 1 .. MaxSessions : ran[c][s] = 0
        BY <3>1
      <4> QED
        BY <1>2, <2>1, <3>1, <4>1 DEF Tool!Take
    <3>2. CASE callAt[c] = "reconnected"
      <4>1. /\ uses'[c] = session /\ tries'[c] = 2 /\ callAt'[c] = "calling"
            /\ UNCHANGED <<session, opened, broken, failedAt, ran>>
        BY <1>2, <2>1, <3>2 DEF Tool!Take
      <4>3. /\ uses[c] \in Int /\ failedAt[c] \in Int /\ session \in Int
            /\ uses[c] <= failedAt[c] /\ failedAt[c] < session
        BY <3>2
      <4>2. \A s \in 1 .. MaxSessions :
              ran[c][s] <= 1 /\ (ran[c][s] = 1 => s = uses[c])
        <5> SUFFICES ASSUME NEW s \in 1 .. MaxSessions
                     PROVE  ran[c][s] <= 1 /\ (ran[c][s] = 1 => s = uses[c])
          OBVIOUS
        <5>1. ran[c][s] = 1 /\ s # uses[c] => failedAt[c] < uses[c]
          OBVIOUS
        <5> QED
          BY <4>3, <5>1
      <4>4. RunsOf(c)'
        <5> SUFFICES ASSUME NEW s \in 1 .. MaxSessions
                     PROVE  /\ ran[c][s] <= 1
                            /\ ran[c][s] = 1 => s <= session
                            /\ ran[c][s] = 1 /\ s # session =>
                                 s <= failedAt[c] /\ failedAt[c] < session
                            /\ ~(ran[c][s] = 1 /\ s = session)
                            /\ \A t \in 1 .. MaxSessions :
                                 ran[c][s] = 1 /\ ran[c][t] = 1 /\ s # t => session \in {s, t}
          BY <4>1
        <5>1. ran[c][s] <= 1 /\ (ran[c][s] = 1 => s = uses[c])
          BY <4>2
        <5>2. \A t \in 1 .. MaxSessions : ran[c][s] = 1 /\ ran[c][t] = 1 => s = t
          BY <4>2
        <5> QED
          BY <4>3, <5>1, <5>2
      <4> QED
        BY <4>1, <4>4
    <3> QED
      BY <1>2, <2>1, <3>1, <3>2 DEF Tool!Take
  <2>2. CASE d # c
    <3>1. uses'[c] = uses[c] /\ tries'[c] = tries[c] /\ callAt'[c] = callAt[c]
      BY <1>2, <2>2 DEF Tool!Take
    <3> QED
      BY <1>2, <3>1 DEF Tool!Take
  <2> QED
    BY <2>1, <2>2
<1>3. ASSUME NEW d \in ToolCalls, Tool!Run(d) PROVE CallInv(c)'
  <2>1. CASE d = c
    <3>1. /\ callAt[c] = "calling" /\ ran' = [ran EXCEPT ![c][uses[c]] = @ + 1]
          /\ ran[c][uses[c]] = 0 /\ uses[c] \in 1 .. MaxSessions
      BY <1>3, <2>1 DEF Tool!Run
    <3>2. \A s \in 1 .. MaxSessions : ran'[c][s] = IF s = uses[c] THEN 1 ELSE ran[c][s]
      <4>1. ran'[c] = [ran[c] EXCEPT ![uses[c]] = @ + 1]
        BY <3>1
      <4>2. ran[c] \in [1 .. MaxSessions -> Nat]
        OBVIOUS
      <4> HIDE <1>0 DEF CallTypes, CallInv, RunsOf
      <4>3. ran[c][uses[c]] + 1 = 1
        BY <3>1
      <4> QED
        BY <3>1, <4>1, <4>2, <4>3
    <3> QED
      BY <1>3, <2>1, <3>2 DEF Tool!Run
  <2>2. CASE d # c
    <3>1. ran'[c] = ran[c] /\ callAt'[c] = callAt[c]
      BY <1>3, <2>2 DEF Tool!Run
    <3> QED
      BY <1>3, <3>1 DEF Tool!Run
  <2> QED
    BY <2>1, <2>2
<1>4. ASSUME NEW d \in ToolCalls, Tool!Answered(d) PROVE CallInv(c)'
  BY <1>4 DEF Tool!Answered
<1>5. ASSUME NEW d \in ToolCalls, Tool!Lock(d) PROVE CallInv(c)'
  BY <1>5 DEF Tool!Lock
<1>6. ASSUME NEW d \in ToolCalls, Tool!Reconnected(d) PROVE CallInv(c)'
  <2>1. /\ opened' = opened + 1 /\ UNCHANGED <<broken, uses, tries, failedAt, ran>>
        /\ session' \in {session, opened + 1}
    BY <1>6 DEF Tool!Reconnected
  <2>2. CASE d = c
    <3>1. /\ callAt[c] = "connecting" /\ callAt'[c] \in {"reconnected", "done"}
          /\ callAt'[c] = "reconnected" => session' = opened + 1
      BY <1>6, <2>2 DEF Tool!Reconnected
    <3>2. RunsOf(c)'
      BY <2>1, <3>1
    <3>3. /\ tries[c] = 1 /\ uses[c] \in 1 .. opened /\ uses[c] <= failedAt[c]
          /\ failedAt[c] <= opened /\ opened \in Int /\ failedAt[c] \in Int
      BY <3>1
    <3>4. failedAt[c] < opened + 1 /\ uses[c] \in 1 .. (opened + 1) /\ failedAt[c] <= opened + 1
      BY <3>3
    <3> HIDE DEF RunsOf
    <3> QED
      BY <2>1, <3>1, <3>2, <3>3, <3>4
  <2>3. CASE d # c
    <3>1. callAt'[c] = callAt[c]
      BY <1>6, <2>3 DEF Tool!Reconnected
    <3>2. RunsOf(c)'
      BY <2>1, <3>1
    <3>3. opened \in Int /\ failedAt[c] \in Int /\ session \in 1 .. opened
      OBVIOUS
    <3>4. /\ uses[c] \in 1 .. opened => uses[c] \in 1 .. (opened + 1)
          /\ failedAt[c] <= opened => failedAt[c] <= opened + 1
      BY <3>3
    <3>5. callAt[c] = "reconnected" => failedAt[c] < session'
      <4> SUFFICES ASSUME callAt[c] = "reconnected" PROVE failedAt[c] < session'
        OBVIOUS
      <4>1. failedAt[c] < session
        OBVIOUS
      <4>2. CASE session' = session
        BY <4>1, <4>2
      <4>3. CASE session' = opened + 1
        BY <3>3, <4>1, <4>3, LaterSession
      <4> QED
        BY <2>1, <4>2, <4>3
    <3> HIDE DEF RunsOf
    <3> QED
      BY <2>1, <3>1, <3>2, <3>4, <3>5
  <2> QED
    BY <2>2, <2>3
<1>7. ASSUME NEW d \in ToolCalls, Tool!ReconnectFails(d) PROVE CallInv(c)'
  BY <1>7 DEF Tool!ReconnectFails
<1>8. ASSUME NEW d \in ToolCalls, NEW error \in {"closed", "other"}, Tool!Fails(d, error)
      PROVE  CallInv(c)'
  <2>1. CASE d = c
    <3>1. CASE tries[c] = 1 /\ error = "closed"
      <4>1. callAt'[c] = "failed" /\ failedAt'[c] = opened
        BY <1>8, <2>1, <3>1 DEF Tool!Fails, Tool!Reconnects
      <4> QED
        BY <1>8, <2>1, <3>1, <4>1 DEF Tool!Fails
    <3>2. CASE ~(tries[c] = 1 /\ error = "closed")
      <4>1. callAt'[c] = "done" /\ callAt[c] # "idle"
        BY <1>8, <2>1, <3>2 DEF Tool!Fails, Tool!Reconnects
      <4> QED
        BY <1>8, <2>1, <4>1 DEF Tool!Fails
    <3> QED
      BY <3>1, <3>2
  <2>2. CASE d # c
    <3>1. callAt'[c] = callAt[c]
      BY <1>8, <2>2 DEF Tool!Fails
    <3> QED
      BY <1>8, <3>1 DEF Tool!Fails
  <2> QED
    BY <2>1, <2>2
<1>9. ASSUME NEW s \in 1 .. MaxSessions, Tool!Break(s) PROVE CallInv(c)'
  BY <1>9 DEF Tool!Break
<1> QED
  BY <1>1, <1>2, <1>3, <1>4, <1>5, <1>6, <1>7, <1>8, <1>9 DEF Tool!Next

(* The server runs a call again only after its first try has failed with   *)
(* an error that reads as closed, on a session opened since, and never     *)
(* twice on one (Execute, shouldReconnectMCP).                             *)
THEOREM CallsNotRepeated == Spec => []RunAgainOnlyIfClosed
<1>1. Init => ServerInv
  BY ServerInit DEF Init
<1>2. ServerInv /\ [Next]_vars => ServerInv'
  BY CallTypesStep, CallStep, Parts DEF ServerInv
<1>3. ServerInv => RunAgainOnlyIfClosed
  <2> SUFFICES ASSUME ServerInv, NEW c \in ToolCalls, NEW s \in 1 .. MaxSessions,
                      NEW t \in 1 .. MaxSessions
               PROVE  /\ ran[c][s] <= 1
                      /\ s < t /\ ran[c][s] = 1 /\ ran[c][t] = 1
                           => s <= failedAt[c] /\ failedAt[c] < t /\ t = uses[c]
    BY DEF RunAgainOnlyIfClosed, Tool!RunAgainOnlyIfClosed
  <2>1. CallInv(c) /\ uses[c] \in Nat
    BY EdgesAssumption DEF EdgesAssumption, ServerInv, CallTypes
  <2> QED
    BY <2>1, EdgesAssumption DEF EdgesAssumption, CallInv, RunsOf
<1> QED
  BY <1>1, <1>2, <1>3, PTL DEF Spec
=============================================================================
