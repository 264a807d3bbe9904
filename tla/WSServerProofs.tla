---------------------------- MODULE WSServerProofs ----------------------------
(***************************************************************************)
(* Proofs about WSServer: under the discipline its comments ask of the     *)
(* callers, the ring of any size, with any number of senders, hands over   *)
(* what was sent, once and in order.                                       *)
(***************************************************************************)
EXTENDS WSServer, SequenceTheorems, TLAPS

(* Stepping an index modulo Size is one step forward around the ring; it is *)
(* the only place where division enters.                                    *)
LEMMA NextSlotForward ==
  ASSUME NEW p \in Slot \cup {-1}
  PROVE  /\ NextSlot(p) = Forward(p, 1)
         /\ NextSlot(p) \in Slot
<1>. Size \in Nat \ {0}
  BY WSServerAssumption
<1>1. CASE p + 1 = Size
  BY <1>1 DEF NextSlot, Forward, Slot
<1>2. CASE p + 1 # Size
  <2>1. p + 1 \in 0 .. Size - 1
    BY <1>2 DEF Slot
  <2>2. (p + 1) % Size = p + 1
    BY <2>1
  <2>3. QED
    BY <1>2, <2>1, <2>2 DEF NextSlot, Forward, Slot
<1>3. QED
  BY <1>1, <1>2

(* Where the ring's variables live, for every value of the constants.       *)
THEOREM TypeCorrect == Spec => []TypeOK
<1>. Size \in Nat \ {0} /\ MaxSends \in Nat
  BY WSServerAssumption
<1>1. Init => TypeOK
  <2>. SUFFICES ASSUME Init
                PROVE  TypeOK
    OBVIOUS
  <2>1. /\ outputs \in [Slot -> Output \cup {Unwritten}]
        /\ sendPtr \in [Sender -> Slot]
    BY DEF Init, Slot
  <2>2. published = <<>> /\ handed = <<>>
    BY DEF Init
  <2>3. published \in Seq(Output) /\ handed \in Seq(Output \cup {Unwritten})
    BY <2>2
  <2>4. /\ outputs_writePtr \in Slot \cup {-1}
        /\ outputs_readPtr \in Slot \cup {-1}
        /\ clientTarget \in Slot \cup {-1}
    BY DEF Init
  <2>5. /\ sendPc \in [Sender -> {"idle", "store", "publish"}]
        /\ serial \in [Sender -> 0 .. MaxSends]
        /\ \A s \in Sender : sendPc[s] # "idle" => serial[s] # 0
    BY DEF Init
  <2>6. shouldStop \in BOOLEAN /\ clientPc \in {"check", "drain", "exited"}
    BY DEF Init
  <2>7. QED
    BY <2>1, <2>3, <2>4, <2>5, <2>6 DEF TypeOK
<1>2. TypeOK /\ [Next]_vars => TypeOK'
  <2>. SUFFICES ASSUME TypeOK, [Next]_vars
               PROVE  TypeOK'
    OBVIOUS
  <2>1. ASSUME NEW s \in Sender, SendLoad(s)
        PROVE  TypeOK'
    <3>1. NextSlot(outputs_writePtr) \in Slot
      BY NextSlotForward DEF TypeOK
    <3>2. QED
      BY <2>1, <3>1 DEF TypeOK, SendLoad, ring, client
  <2>2. ASSUME NEW s \in Sender, SendStore(s)
        PROVE  TypeOK'
    BY <2>2 DEF TypeOK, SendStore, client, Output
  <2>3. ASSUME NEW s \in Sender, SendPublish(s)
        PROVE  TypeOK'
    BY <2>3 DEF TypeOK, SendPublish, client, Output
  <2>4. CASE ClientLoad
    BY <2>4 DEF TypeOK, ClientLoad, ring, sending
  <2>5. CASE ClientTake
    <3>1. NextSlot(outputs_readPtr) \in Slot
      BY NextSlotForward DEF TypeOK
    <3>2. QED
      BY <2>5, <3>1 DEF TypeOK, ClientTake, sending, client
  <2>6. CASE ClientDrained
    BY <2>6 DEF TypeOK, ClientDrained, ring, sending
  <2>7. CASE ClientExit
    BY <2>7 DEF TypeOK, ClientExit, ring, sending
  <2>8. CASE Cleanup
    BY <2>8 DEF TypeOK, Cleanup, ring, sending, client
  <2>9. CASE UNCHANGED vars
    BY <2>9 DEF TypeOK, vars, ring, sending, client
  <2>10. QED
    BY <2>1, <2>2, <2>3, <2>4, <2>5, <2>6, <2>7, <2>8, <2>9
       DEF Next, Send, Client
<1>3. QED
  BY <1>1, <1>2, PTL DEF Spec
-----------------------------------------------------------------------------
(* The inductive invariant, one step per action.                            *)

(* WSServer::setup leaves an empty ring.                                    *)
LEMMA RingInvInit ==
  ASSUME Disciplined, Init
  PROVE  RingInv
<1>. MaxAhead \in Nat /\ Size \in Nat \ {0}
  BY WSServerAssumption
<1>1. Len(published) = 0 /\ Len(handed) = 0 /\ Ahead = 0
  BY DEF Init, Ahead
<1>2. outputs_writePtr = Forward(outputs_readPtr, Ahead)
  BY <1>1 DEF Init, Forward
<1>3. \A s \in Sender : sendPc[s] = "idle"
  BY DEF Init
<1>4. QED
  BY <1>1, <1>2, <1>3 DEF RingInv, Init

(* The load of send() keeps RingInv: the slot after the index is free.      *)
LEMMA RingInvSendLoad ==
  ASSUME Disciplined, TypeOK, RingInv, NEW s \in Sender, SendLoad(s)
  PROVE  RingInv'
<1>1. NextSlot(outputs_writePtr) = Forward(outputs_writePtr, 1)
  BY NextSlotForward DEF TypeOK
<1>2. UNCHANGED <<outputs, outputs_writePtr, outputs_readPtr, clientPc,
                  clientTarget, published, handed>> /\ Ahead' = Ahead
  BY DEF SendLoad, ring, client, Ahead
<1>3. /\ sendPtr'[s] = Forward(outputs_writePtr, 1)
      /\ sendPc'[s] = "store"
      /\ \A t \in Sender \ {s} : sendPc'[t] = "idle"
      /\ Ahead < MaxAhead
  BY <1>1 DEF SendLoad, TypeOK, Disciplined
<1>4. QED
  BY <1>2, <1>3 DEF RingInv, Forward

(* The store of send() keeps RingInv: no waiting output is in that slot.    *)
LEMMA RingInvSendStore ==
  ASSUME Disciplined, TypeOK, RingInv, NEW s \in Sender, SendStore(s)
  PROVE  RingInv'
<1>. /\ Size \in Nat \ {0} /\ MaxAhead \in Nat /\ MaxAhead < Size
     /\ Len(handed) \in Nat /\ Len(published) \in Nat
  BY WSServerAssumption DEF Disciplined, TypeOK
<1>1. /\ UNCHANGED <<outputs_writePtr, outputs_readPtr, clientPc, clientTarget,
                     published, handed, sendPtr, serial>>
      /\ Ahead' = Ahead
  BY DEF SendStore, client, Ahead
<1>2. /\ Ahead \in 0 .. MaxAhead /\ Ahead < MaxAhead
      /\ sendPtr[s] = Forward(outputs_writePtr, 1)
      /\ outputs_writePtr = Forward(outputs_readPtr, Ahead)
  BY DEF RingInv, SendStore
<1>3. ASSUME NEW k \in 1 .. Ahead
      PROVE  outputs'[Forward(outputs_readPtr, k)] = outputs[Forward(outputs_readPtr, k)]
  <2>1. Forward(outputs_readPtr, k) # sendPtr[s]
    BY <1>2 DEF Forward, TypeOK, Slot
  <2>2. Forward(outputs_readPtr, k) \in Slot
    BY <1>2 DEF Forward, TypeOK, Slot
  <2>3. QED
    BY <2>1, <2>2 DEF SendStore, TypeOK
<1>4. outputs'[sendPtr[s]] = <<s, serial[s]>>
  BY DEF SendStore, TypeOK
<1>5. sendPc'[s] = "publish" /\ \A t \in Sender \ {s} : sendPc'[t] = "idle"
  BY DEF SendStore, TypeOK, RingInv
<1>6. QED
  BY <1>1, <1>2, <1>3, <1>4, <1>5 DEF RingInv

(* The index store of send() keeps RingInv: one more output waits.          *)
LEMMA RingInvSendPublish ==
  ASSUME Disciplined, TypeOK, RingInv, NEW s \in Sender, SendPublish(s)
  PROVE  RingInv'
<1>. /\ Size \in Nat \ {0} /\ MaxAhead \in Nat /\ MaxAhead < Size
     /\ Len(handed) \in Nat /\ Len(published) \in Nat
  BY WSServerAssumption DEF Disciplined, TypeOK
<1>1. UNCHANGED <<outputs, outputs_readPtr, clientPc, clientTarget, handed>>
  BY DEF SendPublish, client
<1>2. /\ Ahead \in 0 .. MaxAhead /\ Ahead < MaxAhead
      /\ sendPtr[s] = Forward(outputs_writePtr, 1)
      /\ outputs_writePtr = Forward(outputs_readPtr, Ahead)
      /\ outputs[sendPtr[s]] = <<s, serial[s]>>
      /\ Len(handed) <= Len(published)
  BY DEF RingInv, SendPublish, Ahead
<1>3. /\ Len(published') = Len(published) + 1
      /\ Ahead' = Ahead + 1
      /\ published'[Len(published) + 1] = <<s, serial[s]>>
      /\ \A i \in 1 .. Len(published) : published'[i] = published[i]
  BY <1>1 DEF SendPublish, TypeOK, Ahead
<1>4. /\ Ahead' \in 0 .. MaxAhead
      /\ outputs_writePtr' = Forward(outputs_readPtr, Ahead')
  BY <1>2, <1>3 DEF SendPublish, Forward, TypeOK, Slot
<1>5. ASSUME NEW k \in 1 .. Ahead'
      PROVE  outputs[Forward(outputs_readPtr, k)] = published'[Len(handed) + k]
  <2>1. CASE k = Ahead + 1
    <3>1. Len(handed) + k = Len(published) + 1
      BY <2>1 DEF Ahead
    <3>2. Forward(outputs_readPtr, k) = sendPtr[s]
      BY <2>1, <1>3, <1>4 DEF SendPublish
    <3>3. QED
      BY <3>1, <3>2, <1>2, <1>3
  <2>2. CASE k \in 1 .. Ahead
    <3>1. Len(handed) + k \in 1 .. Len(published)
      BY <2>2, <1>2 DEF Ahead
    <3>2. QED
      BY <3>1, <2>2, <1>3 DEF RingInv
  <2>3. QED
    BY <2>1, <2>2, <1>2, <1>3
<1>6. \A i \in 1 .. Len(handed) : handed[i] = published'[i]
  BY <1>2, <1>3 DEF RingInv
<1>7. \A t \in Sender : sendPc'[t] = "idle"
  BY DEF SendPublish, TypeOK, RingInv
<1>8. clientPc = "drain" =>
        \E k \in 0 .. Ahead' : clientTarget = Forward(outputs_readPtr, k)
  BY <1>2, <1>3 DEF RingInv
<1>9. QED
  BY <1>1, <1>4, <1>5, <1>6, <1>7, <1>8 DEF RingInv

(* One turn of client_func keeps RingInv: it takes the oldest output.       *)
LEMMA RingInvClientTake ==
  ASSUME Disciplined, TypeOK, RingInv, ClientTake
  PROVE  RingInv'
<1>. /\ Size \in Nat \ {0} /\ MaxAhead \in Nat /\ MaxAhead < Size
     /\ Len(handed) \in Nat /\ Len(published) \in Nat
  BY WSServerAssumption DEF Disciplined, TypeOK
<1>1. UNCHANGED <<outputs, outputs_writePtr, clientPc, clientTarget, published,
                  sendPc, sendPtr, serial>>
  BY DEF ClientTake, sending, client
<1>2. PICK k \in 0 .. Ahead : clientTarget = Forward(outputs_readPtr, k)
  BY DEF RingInv, ClientTake
<1>3. /\ Ahead \in 0 .. MaxAhead
      /\ outputs_writePtr = Forward(outputs_readPtr, Ahead)
      /\ outputs_readPtr \in -1 .. Size - 1
  BY DEF RingInv, TypeOK, Slot
<1>4. k \in 1 .. Ahead
  BY <1>2, <1>3 DEF ClientTake, Forward
<1>5. outputs_readPtr' = Forward(outputs_readPtr, 1)
  BY NextSlotForward DEF ClientTake, TypeOK
<1>6. ASSUME NEW j \in 1 .. Ahead
      PROVE  Forward(outputs_readPtr', j - 1) = Forward(outputs_readPtr, j)
  BY <1>3, <1>5 DEF Forward
<1>7. outputs[Forward(outputs_readPtr, 1)] = published[Len(handed) + 1]
  BY <1>4 DEF RingInv
<1>8. /\ Len(handed') = Len(handed) + 1
      /\ handed'[Len(handed) + 1] = published[Len(handed) + 1]
      /\ \A i \in 1 .. Len(handed) : handed'[i] = handed[i]
      /\ Ahead' = Ahead - 1
  BY <1>1, <1>5, <1>7 DEF ClientTake, TypeOK, Ahead
<1>9. /\ Ahead' \in 0 .. MaxAhead
      /\ outputs_writePtr = Forward(outputs_readPtr', Ahead')
      /\ clientTarget = Forward(outputs_readPtr', k - 1)
      /\ k - 1 \in 0 .. Ahead'
  BY <1>2, <1>3, <1>4, <1>6, <1>8
<1>10. ASSUME NEW j \in 1 .. Ahead'
       PROVE  outputs[Forward(outputs_readPtr', j)] = published[Len(handed') + j]
  <2>1. j + 1 \in 1 .. Ahead /\ (j + 1) - 1 = j
    BY <1>3, <1>8
  <2>2. Forward(outputs_readPtr', j) = Forward(outputs_readPtr, j + 1)
    BY <2>1, <1>6
  <2>3. outputs[Forward(outputs_readPtr, j + 1)] = published[Len(handed) + (j + 1)]
    BY <2>1 DEF RingInv
  <2>4. Len(handed) + (j + 1) = Len(handed') + j
    BY <1>8
  <2>5. QED
    BY <2>2, <2>3, <2>4
<1>11. \A i \in 1 .. Len(handed') : handed'[i] = published[i]
  BY <1>8 DEF RingInv
<1>12. /\ \A s, t \in Sender : sendPc[s] # "idle" /\ sendPc[t] # "idle" => s = t
       /\ \A s \in Sender :
            /\ sendPc[s] # "idle" =>
                 Ahead' < MaxAhead /\ sendPtr[s] = Forward(outputs_writePtr, 1)
            /\ sendPc[s] = "publish" => outputs[sendPtr[s]] = <<s, serial[s]>>
  <2>1. Ahead' < MaxAhead
    BY <1>3, <1>8
  <2>2. QED
    BY <2>1 DEF RingInv
<1>13. QED
  BY <1>1, <1>9, <1>10, <1>11, <1>12 DEF RingInv

(* Under the discipline, RingInv holds of every reachable state.            *)
THEOREM RingCorrect ==
  ASSUME Disciplined
  PROVE  Spec => []RingInv
<1>1. Init => RingInv
  BY RingInvInit
<1>2. TypeOK /\ RingInv /\ [Next]_vars => RingInv'
  <2>. SUFFICES ASSUME TypeOK, RingInv, [Next]_vars
                PROVE  RingInv'
    OBVIOUS
  <2>1. ASSUME NEW s \in Sender, Send(s)
        PROVE  RingInv'
    BY <2>1, RingInvSendLoad, RingInvSendStore, RingInvSendPublish DEF Send
  <2>2. CASE ClientLoad
    <3>1. Ahead' = Ahead /\ clientTarget' = Forward(outputs_readPtr, Ahead)
      BY <2>2 DEF ClientLoad, RingInv, ring, Ahead
    <3>2. QED
      BY <2>2, <3>1 DEF ClientLoad, RingInv, ring, sending
  <2>3. CASE ClientTake
    BY <2>3, RingInvClientTake
  <2>4. CASE ClientDrained \/ ClientExit
    <3>1. Ahead' = Ahead /\ clientPc' # "drain"
      BY <2>4 DEF ClientDrained, ClientExit, Ahead
    <3>2. QED
      BY <2>4, <3>1 DEF ClientDrained, ClientExit, RingInv, ring, sending
  <2>5. CASE Cleanup
    BY <2>5 DEF Cleanup, RingInv, Ahead, ring, sending, client
  <2>6. CASE UNCHANGED vars
    BY <2>6 DEF vars, RingInv, Ahead, ring, sending, client
  <2>7. QED
    BY <2>1, <2>2, <2>3, <2>4, <2>5, <2>6 DEF Next, Client
<1>3. QED
  BY <1>1, <1>2, TypeCorrect, PTL DEF Spec

-----------------------------------------------------------------------------
(* What each thread has sent, with or without the discipline.               *)

\* The number of its sends that have returned.
Returned(s) == IF sendPc[s] = "idle" THEN serial[s] ELSE serial[s] - 1

SentInv ==
  /\ \A s \in Sender, i \in 1 .. Len(published) :
       published[i][1] = s => published[i][2] <= Returned(s)
  /\ \A i, j \in 1 .. Len(published) :
       i < j /\ published[i][1] = published[j][1] => published[i][2] < published[j][2]
  /\ \A s \in Sender : \A n \in 1 .. Returned(s) :
       \E i \in 1 .. Len(published) : published[i] = <<s, n>>

LEMMA SentInvSendPublish ==
  ASSUME TypeOK, SentInv, NEW s \in Sender, SendPublish(s)
  PROVE  SentInv'
<1>. DEFINE m == <<s, serial[s]>>
            n == Len(published)
<1>1. /\ sendPc[s] = "publish" /\ sendPc' = [sendPc EXCEPT ![s] = "idle"]
      /\ published' = Append(published, m) /\ serial' = serial
  BY DEF SendPublish
<1>2. /\ serial[s] \in 1 .. MaxSends /\ MaxSends \in Nat /\ n \in Nat
      /\ \A t \in Sender : serial[t] \in 0 .. MaxSends
  BY <1>1, WSServerAssumption DEF TypeOK
<1>3. m \in Output
  BY <1>2 DEF Output
<1>4. /\ Len(published') = n + 1 /\ published'[n + 1] = m
      /\ \A i \in 1 .. n : published'[i] = published[i]
  BY <1>1, <1>3, AppendProperties DEF TypeOK
<1>5. \A i \in 1 .. n : published[i][1] \in Sender /\ published[i][2] \in 1 .. MaxSends
  BY ElementOfSeq DEF TypeOK, Output
<1>6. /\ Returned(s) = serial[s] - 1 /\ Returned(s)' = serial[s]
      /\ \A t \in Sender : t # s => Returned(t)' = Returned(t)
  BY <1>1 DEF Returned, TypeOK
<1>7. m[1] = s /\ m[2] = serial[s]
  OBVIOUS
<1>. HIDE DEF m
<1>8. ASSUME NEW t \in Sender, NEW i \in 1 .. n + 1, published'[i][1] = t
      PROVE  published'[i][2] <= Returned(t)'
  <2>1. CASE i = n + 1
    <3>1. published'[i] = m /\ t = s
      BY <1>4, <1>7, <1>8, <2>1
    <3>. QED
      BY <1>2, <1>6, <1>7, <3>1
  <2>2. CASE i \in 1 .. n
    <3>1. published'[i] = published[i] /\ published[i][2] <= Returned(t)
      BY <1>4, <1>8, <2>2 DEF SentInv
    <3>2. Returned(t) \in Int /\ Returned(t)' \in Int /\ Returned(t) <= Returned(t)'
      <4>1. CASE t = s
        BY <1>2, <1>6, <4>1
      <4>2. CASE t # s
        <5>1. Returned(t) \in Int
          BY <1>2, <4>2 DEF Returned
        <5>. QED
          BY <1>6, <4>2, <5>1
      <4>. QED
        BY <4>1, <4>2
    <3>3. published[i][2] \in Int
      BY <1>5, <2>2
    <3>. QED
      BY <3>1, <3>2, <3>3
  <2>. QED
    BY <1>2, <2>1, <2>2
<1>9. ASSUME NEW i \in 1 .. n + 1, NEW j \in 1 .. n + 1, i < j,
             published'[i][1] = published'[j][1]
      PROVE  published'[i][2] < published'[j][2]
  <2>0. i \in 1 .. n
    BY <1>2, <1>9
  <2>1. CASE j = n + 1
    <3>1. published[i][1] = s /\ published'[i] = published[i] /\ published'[j] = m
      BY <1>4, <1>7, <1>9, <2>0, <2>1
    <3>2. published[i][2] <= serial[s] - 1
      BY <1>6, <2>0, <3>1 DEF SentInv
    <3>3. published[i][2] \in Int
      BY <1>5, <2>0
    <3>. QED
      BY <1>2, <1>7, <3>1, <3>2, <3>3
  <2>2. CASE j \in 1 .. n
    BY <1>4, <1>9, <2>0, <2>2 DEF SentInv
  <2>. QED
    BY <1>2, <2>1, <2>2
<1>10. ASSUME NEW t \in Sender, NEW k \in 1 .. Returned(t)'
       PROVE  \E i \in 1 .. n + 1 : published'[i] = <<t, k>>
  <2>1. CASE t = s /\ k = serial[s]
    BY <1>2, <1>4, <2>1 DEF m
  <2>2. CASE ~(t = s /\ k = serial[s])
    <3>1. k \in 1 .. Returned(t)
      BY <1>2, <1>6, <2>2
    <3>2. PICK i \in 1 .. n : published[i] = <<t, k>>
      BY <3>1 DEF SentInv
    <3>3. i \in 1 .. n + 1 /\ published'[i] = published[i]
      BY <1>2, <1>4
    <3>. QED
      BY <3>2, <3>3
  <2>. QED
    BY <2>1, <2>2
<1>. QED
  BY <1>4, <1>8, <1>9, <1>10 DEF SentInv

LEMMA SentCorrect == Spec => []SentInv
<1>1. Init => SentInv
  <2>. SUFFICES ASSUME Init
                PROVE  SentInv
    OBVIOUS
  <2>1. Len(published) = 0 /\ \A s \in Sender : Returned(s) = 0
    BY DEF Init, Returned
  <2>. QED
    BY <2>1 DEF SentInv
<1>2. TypeOK /\ SentInv /\ [Next]_vars => SentInv'
  <2>. SUFFICES ASSUME TypeOK, SentInv, [Next]_vars
                PROVE  SentInv'
    OBVIOUS
  <2>1. ASSUME published' = published,
               \A t \in Sender : Returned(t)' = Returned(t)
        PROVE  SentInv'
    BY <2>1 DEF SentInv
  <2>2. ASSUME NEW s \in Sender, SendLoad(s)
        PROVE  SentInv'
    <3>1. published' = published
      BY <2>2 DEF SendLoad
    <3>2. \A t \in Sender : Returned(t)' = Returned(t)
      BY <2>2, WSServerAssumption DEF SendLoad, Returned, TypeOK
    <3>. QED
      BY <2>1, <3>1, <3>2
  <2>3. ASSUME NEW s \in Sender, SendStore(s)
        PROVE  SentInv'
    <3>1. published' = published
      BY <2>3 DEF SendStore
    <3>2. \A t \in Sender : Returned(t)' = Returned(t)
      BY <2>3 DEF SendStore, Returned, TypeOK
    <3>. QED
      BY <2>1, <3>1, <3>2
  <2>4. ASSUME NEW s \in Sender, SendPublish(s)
        PROVE  SentInv'
    BY <2>4, SentInvSendPublish
  <2>5. CASE Client \/ Cleanup \/ UNCHANGED vars
    <3>1. UNCHANGED <<published, sendPc, serial>>
      BY <2>5 DEF Client, ClientLoad, ClientTake, ClientDrained, ClientExit, Cleanup,
                  sending, vars
    <3>2. \A t \in Sender : Returned(t)' = Returned(t)
      BY <3>1 DEF Returned
    <3>. QED
      BY <2>1, <3>1, <3>2
  <2>. QED
    BY <2>2, <2>3, <2>4, <2>5 DEF Next, Send
<1>. QED
  BY <1>1, <1>2, TypeCorrect, PTL DEF Spec

(* The client hands over a prefix of what was published, and of each thread *)
(* every output once, in the order of its calls.                            *)
THEOREM OrderCorrect ==
  ASSUME Disciplined
  PROVE  Spec => []InOrderOnce
<1>1. TypeOK /\ RingInv /\ SentInv => InOrderOnce
  <2>. SUFFICES ASSUME TypeOK, RingInv, SentInv
                PROVE  InOrderOnce
    OBVIOUS
  <2>1. /\ Len(handed) \in Nat /\ Len(published) \in Nat
        /\ Len(handed) <= Len(published)
    BY WSServerAssumption DEF TypeOK, RingInv, Ahead
  <2>2. \A i \in 1 .. Len(handed) : handed[i] = published[i]
    BY DEF RingInv
  <2>3. \A i \in 1 .. Len(handed) : i \in 1 .. Len(published)
    BY <2>1
  <2>. QED
    BY <2>1, <2>2, <2>3 DEF InOrderOnce, SentInv
<1>2. QED
  BY <1>1, TypeCorrect, RingCorrect, SentCorrect, PTL

(* Where the indices meet the ring is empty: whatever a thread has sent by  *)
(* then was handed over.                                                    *)
THEOREM NothingLeftCorrect ==
  ASSUME Disciplined
  PROVE  Spec => []NothingLeftBehind
<1>1. TypeOK /\ RingInv /\ SentInv => NothingLeftBehind
  <2>. SUFFICES ASSUME TypeOK, RingInv, SentInv, outputs_readPtr = outputs_writePtr,
                       NEW s \in Sender, sendPc[s] = "idle", NEW n \in 1 .. serial[s]
                PROVE  \E i \in DOMAIN handed : handed[i] = <<s, n>>
    BY DEF NothingLeftBehind
  <2>1. /\ Len(handed) \in Nat /\ Len(published) \in Nat
        /\ DOMAIN handed = 1 .. Len(handed) /\ Ahead \in 0 .. MaxAhead
    BY DEF TypeOK, RingInv
  <2>2. Ahead = 0
    <3>1. outputs_readPtr = Forward(outputs_readPtr, Ahead) /\ MaxAhead < Size
          /\ Size \in Nat /\ MaxAhead \in Nat
      BY WSServerAssumption DEF RingInv, Disciplined
    <3>2. outputs_readPtr \in Int
      BY <3>1 DEF TypeOK, Slot
    <3>. QED
      BY <2>1, <3>1, <3>2 DEF Forward
  <2>3. Len(handed) = Len(published)
    BY <2>1, <2>2 DEF Ahead
  <2>4. PICK i \in 1 .. Len(published) : published[i] = <<s, n>>
    BY DEF SentInv, Returned
  <2>. QED
    BY <2>1, <2>3, <2>4 DEF RingInv
<1>. QED
  BY <1>1, TypeCorrect, RingCorrect, SentCorrect, PTL

-----------------------------------------------------------------------------
(* Refinement                                                               *)

(* Appending to a sequence appends to each of its suffixes.                 *)
LEMMA SuffixOfAppend ==
  ASSUME NEW S, NEW seq \in Seq(S), NEW e \in S, NEW n \in 0 .. Len(seq)
  PROVE  SubSeq(Append(seq, e), n + 1, Len(seq) + 1)
           = Append(SubSeq(seq, n + 1, Len(seq)), e)
<1>. Len(seq) \in Nat
  OBVIOUS
<1>. DEFINE long == Append(seq, e)
            tail == SubSeq(seq, n + 1, Len(seq))
            left == SubSeq(long, n + 1, Len(seq) + 1)
<1>1. /\ long \in Seq(S)
      /\ Len(long) = Len(seq) + 1
      /\ \A i \in 1 .. Len(seq) : long[i] = seq[i]
      /\ long[Len(seq) + 1] = e
  BY AppendProperties
<1>2. /\ tail \in Seq(S)
      /\ Len(tail) = Len(seq) - n
      /\ \A i \in 1 .. Len(seq) - n : tail[i] = seq[n + i]
  <2>1. \A i \in n + 1 .. Len(seq) : seq[i] \in S
    BY ElementOfSeq
  <2>2. /\ tail \in Seq(S)
        /\ Len(tail) = IF n + 1 <= Len(seq) THEN Len(seq) - (n + 1) + 1 ELSE 0
        /\ \A i \in 1 .. Len(seq) - (n + 1) + 1 : tail[i] = seq[n + 1 + i - 1]
    BY <2>1, SubSeqProperties
  <2>3. QED
    BY <2>2
<1>3. /\ left \in Seq(S)
      /\ Len(left) = Len(seq) - n + 1
      /\ \A i \in 1 .. Len(seq) - n + 1 : left[i] = long[n + i]
  <2>1. \A i \in n + 1 .. Len(seq) + 1 : long[i] \in S
    BY <1>1, ElementOfSeq
  <2>2. /\ left \in Seq(S)
        /\ Len(left) = IF n + 1 <= Len(seq) + 1
                       THEN Len(seq) + 1 - (n + 1) + 1 ELSE 0
        /\ \A i \in 1 .. Len(seq) + 1 - (n + 1) + 1 : left[i] = long[n + 1 + i - 1]
    BY <2>1, SubSeqProperties
  <2>3. QED
    BY <2>2
<1>. HIDE DEF long, tail, left
<1>4. /\ Append(tail, e) \in Seq(S)
      /\ Len(Append(tail, e)) = Len(seq) - n + 1
      /\ \A i \in 1 .. Len(seq) - n : Append(tail, e)[i] = tail[i]
      /\ Append(tail, e)[Len(seq) - n + 1] = e
  BY <1>2, AppendProperties
<1>5. ASSUME NEW i \in 1 .. Len(left)
      PROVE  left[i] = Append(tail, e)[i]
  <2>0. left[i] = long[n + i]
    BY <1>3
  <2>1. CASE i = Len(seq) - n + 1
    <3>1. n + i = Len(seq) + 1
      BY <2>1
    <3>2. QED
      BY <2>0, <2>1, <3>1, <1>1, <1>4
  <2>2. CASE i \in 1 .. Len(seq) - n
    <3>1. n + i \in 1 .. Len(seq)
      BY <2>2
    <3>2. long[n + i] = seq[n + i]
      BY <3>1, <1>1
    <3>3. QED
      BY <2>0, <2>2, <3>2, <1>2, <1>4
  <2>3. i = Len(seq) - n + 1 \/ i \in 1 .. Len(seq) - n
    <3>1. i \in 1 .. Len(seq) - n + 1
      BY <1>3
    <3>2. QED
      BY <3>1
  <2>4. QED
    BY <2>1, <2>2, <2>3
<1>6. left = Append(tail, e)
  BY <1>3, <1>4, <1>5, SeqEqual
<1>7. QED
  BY <1>6 DEF long, tail, left

(* Under the discipline, every step of the ring is a step of the queue: an  *)
(* output is accepted when its index is stored and handed over when its     *)
(* slot is taken; all other steps leave the queue as it is.                 *)
THEOREM QueueRefinement ==
  ASSUME Disciplined
  PROVE  Spec => ImplementsQueue
<1>. DEFINE waiting == SubSeq(published, Len(handed) + 1, Len(published))
<1>1. Init => OQ!Init
  BY DEF Init, OQ!Init
<1>2. TypeOK /\ RingInv /\ [Next]_vars => [OQ!Next]_(OQ!vars)
  <2>. SUFFICES ASSUME TypeOK, RingInv, [Next]_vars
                PROVE  [OQ!Next]_(OQ!vars)
    OBVIOUS
  <2>. /\ Len(handed) \in Nat /\ Len(published) \in Nat
       /\ Len(handed) <= Len(published)
    BY WSServerAssumption DEF TypeOK, RingInv, Ahead
  <2>1. ASSUME NEW s \in Sender, SendPublish(s)
        PROVE  OQ!Next
    <3>1. <<s, serial[s]>> \in Output /\ UNCHANGED handed
      BY <2>1 DEF SendPublish, TypeOK, Output
    <3>2. published' = Append(published, <<s, serial[s]>>)
      BY <2>1 DEF SendPublish
    <3>3. Len(published') = Len(published) + 1
      BY <3>1, <3>2, AppendProperties DEF TypeOK
    <3>4. waiting' = Append(waiting, <<s, serial[s]>>)
      <4>1. waiting' = SubSeq(Append(published, <<s, serial[s]>>),
                              Len(handed) + 1, Len(published) + 1)
        BY <3>1, <3>2, <3>3
      <4>2. published \in Seq(Output) /\ Len(handed) \in 0 .. Len(published)
        BY DEF TypeOK
      <4>3. QED
        BY <3>1, <4>1, <4>2, SuffixOfAppend
    <3>5. QED
      BY <3>1, <3>4 DEF OQ!Next, OQ!Accept
  <2>2. CASE ClientTake
    <3>1. /\ UNCHANGED published
          /\ handed' = Append(handed, outputs[outputs_readPtr'])
          /\ outputs_readPtr' = Forward(outputs_readPtr, 1)
      BY <2>2, NextSlotForward DEF ClientTake, TypeOK
    <3>2. Ahead >= 1
      BY <2>2, WSServerAssumption DEF ClientTake, RingInv, Forward, TypeOK, Slot
    <3>3. outputs[outputs_readPtr'] = published[Len(handed) + 1]
      BY <3>1, <3>2 DEF RingInv
    <3>4. Len(handed') = Len(handed) + 1
      BY <3>1, <3>3 DEF TypeOK
    <3>5. /\ Len(handed) + 1 \in 1 .. Len(published)
          /\ Len(published) \in Len(handed) + 1 .. Len(published)
      BY <3>2 DEF Ahead
    <3>6. /\ Head(waiting) = published[Len(handed) + 1]
          /\ Tail(waiting) = SubSeq(published, Len(handed) + 1 + 1, Len(published))
      BY <3>5, HeadTailOfSubSeq DEF TypeOK
    <3>7. waiting # <<>>
      <4>1. \A i \in Len(handed) + 1 .. Len(published) : published[i] \in Output
        BY ElementOfSeq DEF TypeOK
      <4>2. Len(waiting) = Len(published) - (Len(handed) + 1) + 1
        BY <3>5, <4>1, SubSeqProperties
      <4>3. QED
        BY <3>5, <4>2
    <3>8. waiting' = Tail(waiting)
      BY <3>1, <3>4, <3>6
    <3>9. QED
      BY <3>1, <3>3, <3>6, <3>7, <3>8 DEF OQ!Next, OQ!HandOver
  <2>3. ASSUME UNCHANGED <<published, handed>>
        PROVE  UNCHANGED OQ!vars
    BY <2>3 DEF OQ!vars
  <2>4. ASSUME NEW s \in Sender, SendLoad(s) \/ SendStore(s)
        PROVE  UNCHANGED <<published, handed>>
    BY <2>4 DEF SendLoad, SendStore
  <2>5. CASE ClientLoad \/ ClientDrained \/ ClientExit \/ Cleanup \/ UNCHANGED vars
    BY <2>3, <2>5 DEF ClientLoad, ClientDrained, ClientExit, Cleanup, vars
  <2>6. QED
    BY <2>1, <2>2, <2>3, <2>4, <2>5 DEF Next, Send, Client
<1>3. QED
  BY <1>1, <1>2, TypeCorrect, RingCorrect, PTL DEF Spec, ImplementsQueue, OQ!Spec
=============================================================================
