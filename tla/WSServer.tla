------------------------------- MODULE WSServer -------------------------------
(***************************************************************************)
(* The output side of libraries/WSServer: a ring of output_queue_size      *)
(* slots, an atomic write index, a read index of its own for the client    *)
(* thread, and no lock.  send() runs on whatever thread calls it (the      *)
(* audio thread from render(), seasocks' serve thread from an on_connect   *)
(* callback, the scope's trigger thread) and touches the shared state      *)
(* three times: it loads the write index, stores the slot after it, stores *)
(* the new index.  client_func() loads the write index once per turn and   *)
(* then takes slots until its read index equals that value.                *)
(*                                                                         *)
(* Both indices start at -1.  The bytes of an output and the address it    *)
(* goes to are abstracted to its identity, <<sender, serial number>>.      *)
(* Overlap and MaxAhead are not in the code: they say how callers use it.  *)
(***************************************************************************)
EXTENDS Integers, Sequences

CONSTANTS
  Sender,      \* threads that call send()
  Size,        \* output_queue_size
  MaxSends,    \* bound: outputs each sender sends
  Overlap,     \* may two threads be inside send() at once?
  MaxAhead,    \* send() is called only while fewer outputs than this wait
  Unwritten    \* what a slot holds before the first store into it

Output == Sender \X (1 .. MaxSends)

ASSUME WSServerAssumption ==
  /\ Size \in Nat \ {0}
  /\ MaxSends \in Nat
  /\ Overlap \in BOOLEAN
  /\ MaxAhead \in Nat
  /\ Unwritten \notin Output

Slot == 0 .. Size - 1

VARIABLES
  outputs,            \* the ring
  outputs_writePtr,   \* index of the last output written, -1 before the first
  outputs_readPtr,    \* index of the last output taken, -1 before the first
  shouldStop,
  sendPc,             \* where each sender is inside send()
  sendPtr,            \* its local writePtr
  serial,             \* how many sends it has begun
  clientPc,           \* where client_func() is
  clientTarget,       \* its local writePtr
  published,          \* history: outputs in the order their index was stored
  handed              \* history: outputs passed to Server::execute

ring == <<outputs, outputs_writePtr, outputs_readPtr>>
sending == <<sendPc, sendPtr, serial>>
client == <<clientPc, clientTarget>>
vars == <<ring, shouldStop, sending, client, published, handed>>

TypeOK ==
  /\ outputs \in [Slot -> Output \cup {Unwritten}]
  /\ outputs_writePtr \in Slot \cup {-1}
  /\ outputs_readPtr \in Slot \cup {-1}
  /\ shouldStop \in BOOLEAN
  /\ sendPc \in [Sender -> {"idle", "store", "publish"}]
  /\ sendPtr \in [Sender -> Slot]
  /\ serial \in [Sender -> 0 .. MaxSends]
  /\ \A s \in Sender : sendPc[s] # "idle" => serial[s] # 0
  /\ clientPc \in {"check", "drain", "exited"}
  /\ clientTarget \in Slot \cup {-1}
  /\ published \in Seq(Output)
  /\ handed \in Seq(Output \cup {Unwritten})

\* WSServer::setup: both indices -1, the client thread created.
Init ==
  /\ outputs = [i \in Slot |-> Unwritten]
  /\ outputs_writePtr = -1
  /\ outputs_readPtr = -1
  /\ shouldStop = FALSE
  /\ sendPc = [s \in Sender |-> "idle"]
  /\ sendPtr = [s \in Sender |-> 0]
  /\ serial = [s \in Sender |-> 0]
  /\ clientPc = "check"
  /\ clientTarget = -1
  /\ published = <<>>
  /\ handed = <<>>

\* Mutated form: the index never wraps.
NextSlotUnwrapped(p) == p + 1

\* The slot after p; p = -1 gives slot 0.
NextSlot(p) == (p + 1) % Size

\* Outputs whose index was stored and which the client has not taken.
Ahead == Len(published) - Len(handed)

-----------------------------------------------------------------------------
(* send(), on thread s                                                      *)

\* Mutated form: the shared index itself is incremented, before the store.
SendLoadReserve(s) ==
  /\ sendPc[s] = "idle"
  /\ serial[s] < MaxSends
  /\ Overlap \/ \A t \in Sender : sendPc[t] = "idle"
  /\ Ahead < MaxAhead
  /\ outputs_writePtr' = NextSlot(outputs_writePtr)
  /\ sendPtr' = [sendPtr EXCEPT ![s] = NextSlot(outputs_writePtr)]
  /\ serial' = [serial EXCEPT ![s] = @ + 1]
  /\ sendPc' = [sendPc EXCEPT ![s] = "store"]
  /\ UNCHANGED <<outputs, outputs_readPtr, shouldStop, client, published, handed>>

\* The call, up to outputs_writePtr.load() and the increment of the copy.
SendLoad(s) ==
  /\ sendPc[s] = "idle"
  /\ serial[s] < MaxSends
  /\ Overlap \/ \A t \in Sender : sendPc[t] = "idle"
  /\ Ahead < MaxAhead
  /\ sendPtr' = [sendPtr EXCEPT ![s] = NextSlot(outputs_writePtr)]
  /\ serial' = [serial EXCEPT ![s] = @ + 1]
  /\ sendPc' = [sendPc EXCEPT ![s] = "store"]
  /\ UNCHANGED <<ring, shouldStop, client, published, handed>>

\* outputs[writePtr].store(out)
SendStore(s) ==
  /\ sendPc[s] = "store"
  /\ outputs' = [outputs EXCEPT ![sendPtr[s]] = <<s, serial[s]>>]
  /\ sendPc' = [sendPc EXCEPT ![s] = "publish"]
  /\ UNCHANGED <<outputs_writePtr, outputs_readPtr, shouldStop, sendPtr, serial,
                 client, published, handed>>

\* outputs_writePtr.store(writePtr)
SendPublish(s) ==
  /\ sendPc[s] = "publish"
  /\ outputs_writePtr' = sendPtr[s]
  /\ published' = Append(published, <<s, serial[s]>>)
  /\ sendPc' = [sendPc EXCEPT ![s] = "idle"]
  /\ UNCHANGED <<outputs, outputs_readPtr, shouldStop, sendPtr, serial, client,
                 handed>>

-----------------------------------------------------------------------------
(* client_func()                                                            *)

\* Mutated form: the target is the slot the next output will go to.
ClientLoadNext ==
  /\ clientPc = "check"
  /\ ~shouldStop
  /\ clientTarget' = NextSlot(outputs_writePtr)
  /\ clientPc' = "drain"
  /\ UNCHANGED <<ring, shouldStop, sending, published, handed>>

\* while(!shouldStop), then outputs_writePtr.load()
ClientLoad ==
  /\ clientPc = "check"
  /\ ~shouldStop
  /\ clientTarget' = outputs_writePtr
  /\ clientPc' = "drain"
  /\ UNCHANGED <<ring, shouldStop, sending, published, handed>>

\* Mutated form: the slot is loaded before the read index is stepped.
ClientTakeBeforeStep ==
  /\ clientPc = "drain"
  /\ outputs_readPtr # clientTarget
  /\ outputs_readPtr' = NextSlot(outputs_readPtr)
  /\ handed' = Append(handed, IF outputs_readPtr = -1 THEN Unwritten
                              ELSE outputs[outputs_readPtr])
  /\ UNCHANGED <<outputs, outputs_writePtr, shouldStop, sending, client, published>>

\* One turn of the inner loop: step the read index, load the slot, execute().
ClientTake ==
  /\ clientPc = "drain"
  /\ outputs_readPtr # clientTarget
  /\ outputs_readPtr' = NextSlot(outputs_readPtr)
  /\ handed' = Append(handed, outputs[outputs_readPtr'])
  /\ UNCHANGED <<outputs, outputs_writePtr, shouldStop, sending, client, published>>

\* Mutated form: the client thread ends with its inner loop.
ClientDrainedForGood ==
  /\ clientPc = "drain"
  /\ outputs_readPtr = clientTarget
  /\ clientPc' = "exited"
  /\ UNCHANGED <<ring, shouldStop, sending, clientTarget, published, handed>>

\* The inner loop's exit and the sleep.
ClientDrained ==
  /\ clientPc = "drain"
  /\ outputs_readPtr = clientTarget
  /\ clientPc' = "check"
  /\ UNCHANGED <<ring, shouldStop, sending, clientTarget, published, handed>>

ClientExit ==
  /\ clientPc = "check"
  /\ shouldStop
  /\ clientPc' = "exited"
  /\ UNCHANGED <<ring, shouldStop, sending, clientTarget, published, handed>>

\* cleanup(), up to the join: which ClientExit releases.
Cleanup ==
  /\ ~shouldStop
  /\ shouldStop' = TRUE
  /\ UNCHANGED <<ring, sending, client, published, handed>>

-----------------------------------------------------------------------------
Send(s) == SendLoad(s) \/ SendStore(s) \/ SendPublish(s)
Client == ClientLoad \/ ClientTake \/ ClientDrained \/ ClientExit

Next ==
  \/ \E s \in Sender : Send(s)
  \/ Client
  \/ Cleanup

Spec == Init /\ [][Next]_vars

(* The client thread loops on its own; a thread inside send() runs on to    *)
(* the end of it.  Nobody has to call send() or cleanup().                  *)
Fairness ==
  /\ WF_vars(Client)
  /\ \A s \in Sender : WF_vars(SendStore(s) \/ SendPublish(s))

FairSpec == Spec /\ Fairness

-----------------------------------------------------------------------------
(* Properties                                                               *)

\* The slot k after p around the ring, without division.
Forward(p, k) == IF p + k < Size THEN p + k ELSE p + k - Size

(* How callers must use the ring: one thread inside send() at a time, and   *)
(* room for one output fewer than there are slots.                          *)
Disciplined == ~Overlap /\ MaxAhead < Size

(* What ties the ring to the history while callers are disciplined: the     *)
(* distance between the indices is the number of waiting outputs, those     *)
(* outputs are in the slots between them, the client's copy of the write    *)
(* index lies between the two, and a thread inside send() owns a slot that  *)
(* holds no waiting output.                                                 *)
RingInv ==
  /\ Ahead \in 0 .. MaxAhead
  /\ outputs_writePtr = Forward(outputs_readPtr, Ahead)
  /\ \A k \in 1 .. Ahead :
        outputs[Forward(outputs_readPtr, k)] = published[Len(handed) + k]
  /\ \A i \in 1 .. Len(handed) : handed[i] = published[i]
  /\ clientPc = "drain" =>
        \E k \in 0 .. Ahead : clientTarget = Forward(outputs_readPtr, k)
  /\ \A s, t \in Sender : sendPc[s] # "idle" /\ sendPc[t] # "idle" => s = t
  /\ \A s \in Sender :
        /\ sendPc[s] # "idle" =>
             /\ Ahead < MaxAhead
             /\ sendPtr[s] = Forward(outputs_writePtr, 1)
        /\ sendPc[s] = "publish" => outputs[sendPtr[s]] = <<s, serial[s]>>

(* The client thread hands over the outputs that were sent, none skipped,   *)
(* none out of order, whatever the interleaving of the three accesses of    *)
(* send() with the client's two; of each thread, none twice and each after  *)
(* the ones it sent before.                                                 *)
InOrderOnce ==
  /\ Len(handed) <= Len(published)
  /\ \A i \in 1 .. Len(handed) : handed[i] = published[i]
  /\ \A i, j \in 1 .. Len(handed) :
       i < j /\ handed[i][1] = handed[j][1] => handed[i][2] < handed[j][2]

(* When the client's index has reached the senders', every output whose     *)
(* send() has returned was handed over: equal indices mean an empty ring,   *)
(* never a full one, and no store into a slot was lost.                     *)
NothingLeftBehind ==
  outputs_readPtr = outputs_writePtr =>
    \A s \in Sender : sendPc[s] = "idle" =>
      \A n \in 1 .. serial[s] : \E i \in DOMAIN handed : handed[i] = <<s, n>>

(* The ring, with its histories, implements one queue of outputs.           *)
OQ == INSTANCE OutputQueue WITH
        queue <- SubSeq(published, Len(handed) + 1, Len(published))

ImplementsQueue == OQ!Spec

(* Every output that send() took is handed over, unless the server is       *)
(* stopped first: WSServer.cpp:163 says the ring makes sure of it, and      *)
(* WSServer.h:65 that output_queue_size outputs may be written in a row.    *)
EveryOutputHandedOver ==
  \A m \in Output :
    (\E i \in DOMAIN published : published[i] = m)
      ~> (shouldStop \/ \E i \in DOMAIN handed : handed[i] = m)
=============================================================================
