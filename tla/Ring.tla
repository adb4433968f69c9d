-------------------------------- MODULE Ring --------------------------------
(***************************************************************************)
(* One IPC channel of src/kern/arch/x86_64/ipc.rs with one sender and one  *)
(* receiver that run concurrently: send and push, recv and pop, peek and   *)
(* pending, destroy_channel.  Every load and store of head, tail and of a  *)
(* buffer slot is a step of its own; the Acquire and Release orderings     *)
(* make the slot accesses visible in that order.                           *)
(***************************************************************************)
EXTENDS Naturals, Sequences

CONSTANTS RING_SIZE, Messages, NoMessage

ASSUME RingConstants == RING_SIZE \in Nat \ {0} /\ NoMessage \notin Messages

Slots == 0 .. RING_SIZE - 1

VARIABLES buf, head, tail,  \* RingBuffer
          active,           \* Channel.active
          snd,              \* the sender: [pc, head, msg]
          rcv,              \* the receiver: [pc, tail, msg]
          sendRes, got      \* results of the last send and recv

ring == <<buf, head, tail>>
ringVars == <<buf, head, tail, active, snd, rcv, sendRes, got>>

(* create_channel activated the channel; its ring is empty. *)
RingInit ==
    /\ buf = [i \in Slots |-> NoMessage]
    /\ head = 0
    /\ tail = 0
    /\ active = TRUE
    /\ snd = [pc |-> "idle", head |-> 0, msg |-> NoMessage]
    /\ rcv = [pc |-> "idle", tail |-> 0, msg |-> NoMessage]
    /\ sendRes = "none"
    /\ got = NoMessage

(* The ring is full when head would catch up with tail. *)
Full(h) == (h + 1) % RING_SIZE = tail

-----------------------------------------------------------------------------
(* send(): an inactive channel refuses; push() loads head. *)
SendStart(m) ==
    /\ snd.pc = "idle"
    /\ IF active
       THEN /\ snd' = [pc |-> "check", head |-> head, msg |-> m]
            /\ UNCHANGED sendRes
       ELSE sendRes' = "refused" /\ UNCHANGED snd
    /\ UNCHANGED <<ring, active, rcv, got>>

(* push() loads tail and returns false when the ring is full. *)
PushCheck ==
    /\ snd.pc = "check"
    /\ IF Full(snd.head)
       THEN snd' = [snd EXCEPT !.pc = "idle"] /\ sendRes' = "refused"
       ELSE snd' = [snd EXCEPT !.pc = "write"] /\ UNCHANGED sendRes
    /\ UNCHANGED <<ring, active, rcv, got>>

(* Mutant: the store of head overtakes the write of the slot. *)
PushWrite_PublishFirst ==
    /\ snd.pc = "write"
    /\ head' = (snd.head + 1) % RING_SIZE
    /\ snd' = [snd EXCEPT !.pc = "publish"]
    /\ UNCHANGED <<buf, tail, active, rcv, sendRes, got>>

PushWrite ==
    /\ snd.pc = "write"
    /\ buf' = [buf EXCEPT ![snd.head] = snd.msg]
    /\ snd' = [snd EXCEPT !.pc = "publish"]
    /\ UNCHANGED <<head, tail, active, rcv, sendRes, got>>

PushPublish ==
    /\ snd.pc = "publish"
    /\ head' = (snd.head + 1) % RING_SIZE
    /\ snd' = [snd EXCEPT !.pc = "idle"]
    /\ sendRes' = "ok"
    /\ UNCHANGED <<buf, tail, active, rcv, got>>

(* recv(): an inactive channel has nothing; pop() loads tail. *)
RecvStart ==
    /\ rcv.pc = "idle"
    /\ IF active
       THEN rcv' = [rcv EXCEPT !.pc = "check", !.tail = tail] /\ UNCHANGED got
       ELSE got' = NoMessage /\ UNCHANGED rcv
    /\ UNCHANGED <<ring, active, snd, sendRes>>

(* pop() loads head and returns None when it equals tail. *)
PopCheck ==
    /\ rcv.pc = "check"
    /\ IF rcv.tail = head
       THEN rcv' = [rcv EXCEPT !.pc = "idle"] /\ got' = NoMessage
       ELSE rcv' = [rcv EXCEPT !.pc = "read"] /\ UNCHANGED got
    /\ UNCHANGED <<ring, active, snd, sendRes>>

(* Mutant: tail is stored before the slot is read. *)
PopRead_ReleaseFirst ==
    /\ rcv.pc = "read"
    /\ rcv' = [rcv EXCEPT !.pc = "release"]
    /\ tail' = (rcv.tail + 1) % RING_SIZE
    /\ UNCHANGED <<buf, head, active, snd, sendRes, got>>

PopRead ==
    /\ rcv.pc = "read"
    /\ rcv' = [rcv EXCEPT !.pc = "release", !.msg = buf[rcv.tail]]
    /\ UNCHANGED <<ring, active, snd, sendRes, got>>

PopRelease ==
    /\ rcv.pc = "release"
    /\ tail' = (rcv.tail + 1) % RING_SIZE
    /\ rcv' = [rcv EXCEPT !.pc = "idle", !.msg = NoMessage]
    /\ got' = rcv.msg
    /\ UNCHANGED <<buf, head, active, snd, sendRes>>

(* destroy_channel() does not wait for calls in progress. *)
Destroy ==
    /\ active
    /\ active' = FALSE
    /\ UNCHANGED <<ring, snd, rcv, sendRes, got>>

Sender == (\E m \in Messages : SendStart(m)) \/ PushCheck \/ PushWrite \/ PushPublish

Receiver == RecvStart \/ PopCheck \/ PopRead \/ PopRelease

RingNext == Sender \/ Receiver \/ Destroy

RingSpec == RingInit /\ [][RingNext]_ringVars

-----------------------------------------------------------------------------
(* len(), which pending() returns; peek() tests it against zero. *)
pending == (head + RING_SIZE - tail) % RING_SIZE

(* The messages between tail and head. *)
Contents == [i \in 1 .. pending |-> buf[(tail + i - 1) % RING_SIZE]]

(* Types: head and tail, also as the callers loaded them, index the ring. *)
TypeOK ==
    /\ buf \in [Slots -> Messages \cup {NoMessage}]
    /\ head \in Slots
    /\ tail \in Slots
    /\ active \in BOOLEAN
    /\ snd \in [pc : {"idle", "check", "write", "publish"}, head : Slots,
                msg : Messages \cup {NoMessage}]
    /\ rcv \in [pc : {"idle", "check", "read", "release"}, tail : Slots,
                msg : Messages \cup {NoMessage}]
    /\ sendRes \in {"none", "ok", "refused"}
    /\ got \in Messages \cup {NoMessage}

(* The sender and the receiver never access the same slot at the same time, *)
(* although neither takes a lock: a message is never read half written.     *)
NoTornMessage ==
    snd.pc \in {"write", "publish"} /\ rcv.pc \in {"read", "release"}
        => snd.head # rcv.tail

(* The message of the send in progress: from the test of active to the      *)
(* return of push.                                                          *)
Sending == IF snd.pc = "idle" THEN NoMessage ELSE snd.msg

(* The channel is a bounded FIFO of RING_SIZE - 1 messages: no message is   *)
(* lost, duplicated or reordered, send refuses only a full or a destroyed   *)
(* channel, recv returns nothing only for an empty or a destroyed one, and  *)
(* after destroy_channel only the send and the recv that had passed their   *)
(* test of active can still take effect.                                    *)
ChannelFifo == INSTANCE Fifo WITH
    q <- Contents, open <- active, Capacity <- RING_SIZE - 1,
    sending <- Sending, receiving <- rcv.pc # "idle"

IsFifo == ChannelFifo!Spec

-----------------------------------------------------------------------------
(* Inductive: the caller that is past its check still sees room, or a       *)
(* message, because the other side only makes more of it.                   *)
RingInv ==
    /\ TypeOK
    /\ snd.pc # "idle" => snd.head = head
    /\ rcv.pc # "idle" => rcv.tail = tail
    /\ snd.pc \in {"write", "publish"} => pending < RING_SIZE - 1
    /\ rcv.pc \in {"read", "release"} => pending > 0
    /\ snd.pc = "publish" => buf[head] = snd.msg
    /\ rcv.pc = "release" => rcv.msg = buf[tail]
=============================================================================
