-------------------------------- MODULE Fifo --------------------------------
(***************************************************************************)
(* What one IPC channel promises its one sender and one receiver: a        *)
(* bounded first-in first-out queue whose operations take effect at one    *)
(* instant between their call and their return.  Closing refuses the calls *)
(* that start afterwards; the one call of each side that has started may   *)
(* still take effect.                                                      *)
(***************************************************************************)
EXTENDS Naturals, Sequences

CONSTANTS Messages, Capacity, NoMessage

VARIABLES q,          \* the messages sent and not yet received
          open,
          sending,    \* the message of the send in progress, or NoMessage
          receiving,  \* whether a recv is in progress
          sendRes,    \* result of the last send: "none", "ok" or "refused"
          got         \* result of the last recv

vars == <<q, open, sending, receiving, sendRes, got>>

Init ==
    /\ q = <<>>
    /\ open = TRUE
    /\ sending = NoMessage
    /\ receiving = FALSE
    /\ sendRes = "none"
    /\ got = NoMessage

(* Only an open channel accepts a call. *)
BeginSend(m) ==
    /\ open
    /\ sending = NoMessage
    /\ sending' = m
    /\ UNCHANGED <<q, open, receiving, sendRes, got>>

Send ==
    /\ sending # NoMessage
    /\ Len(q) < Capacity
    /\ q' = Append(q, sending)
    /\ sending' = NoMessage
    /\ sendRes' = "ok"
    /\ UNCHANGED <<open, receiving, got>>

SendRefused ==
    /\ IF sending # NoMessage THEN Len(q) = Capacity ELSE ~open
    /\ sending' = NoMessage
    /\ sendRes' = "refused"
    /\ UNCHANGED <<q, open, receiving, got>>

BeginRecv ==
    /\ open
    /\ ~receiving
    /\ receiving' = TRUE
    /\ UNCHANGED <<q, open, sending, sendRes, got>>

Recv ==
    /\ receiving
    /\ q # <<>>
    /\ q' = Tail(q)
    /\ got' = Head(q)
    /\ receiving' = FALSE
    /\ UNCHANGED <<open, sending, sendRes>>

RecvNothing ==
    /\ IF receiving THEN q = <<>> ELSE ~open
    /\ got' = NoMessage
    /\ receiving' = FALSE
    /\ UNCHANGED <<q, open, sending, sendRes>>

Close == open' = FALSE /\ UNCHANGED <<q, sending, receiving, sendRes, got>>

Next ==
    \/ (\E m \in Messages : BeginSend(m)) \/ Send \/ SendRefused
    \/ BeginRecv \/ Recv \/ RecvNothing
    \/ Close

Spec == Init /\ [][Next]_vars
=============================================================================
