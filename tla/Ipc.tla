-------------------------------- MODULE Ipc --------------------------------
(***************************************************************************)
(* create_channel, destroy_channel and the SpinLock of                     *)
(* src/kern/arch/x86_64/ipc.rs, called by several threads at once, with    *)
(* and without the lock held.  Channel ids come from one atomic u32 that a *)
(* refused call first raises and then lowers again.                        *)
(***************************************************************************)
EXTENDS Naturals, FiniteSets

CONSTANTS MAX_CHANNELS, Threads, NoId,
          U32           \* how many values a u32 has

ASSUME IpcConstants ==
    /\ MAX_CHANNELS \in Nat
    /\ IsFiniteSet(Threads)
    /\ NoId \notin Nat
    /\ U32 \in Nat /\ MAX_CHANNELS + Cardinality(Threads) < U32

Ids == 0 .. MAX_CHANNELS - 1

VARIABLES NEXT_CHANNEL,
          activeIds,    \* the channels that accept send and recv
          locked,       \* the lock word
          pc, id,       \* per thread: where it is, the id it drew
          holders,      \* ghost: threads between lock and unlock
          granted       \* ghost: <<thread, id>> for each id returned to a caller

channels == <<NEXT_CHANNEL, activeIds, id, granted>>
lock == <<locked, holders>>
vars == <<channels, lock, pc>>

Init ==
    /\ NEXT_CHANNEL = 0
    /\ activeIds = {}
    /\ locked = 0
    /\ pc = [t \in Threads |-> "idle"]
    /\ id = [t \in Threads |-> NoId]
    /\ holders = {}
    /\ granted = {}

Goto(t, l) == pc' = [pc EXCEPT ![t] = l]

-----------------------------------------------------------------------------
(* fetch_add(1) *)
Draw(t) ==
    /\ pc[t] = "idle"
    /\ id' = [id EXCEPT ![t] = NEXT_CHANNEL]
    /\ NEXT_CHANNEL' = (NEXT_CHANNEL + 1) % U32
    /\ Goto(t, IF NEXT_CHANNEL >= MAX_CHANNELS THEN "undo" ELSE "set")
    /\ UNCHANGED <<activeIds, granted, lock>>

(* Mutant: the counter is not lowered after a refused call. *)
Undo_Missing(t) ==
    /\ pc[t] = "undo"
    /\ Goto(t, "idle")
    /\ id' = [id EXCEPT ![t] = NoId]
    /\ UNCHANGED <<activeIds, granted, NEXT_CHANNEL, lock>>

(* fetch_sub(1) and None. *)
Undo(t) ==
    /\ pc[t] = "undo"
    /\ NEXT_CHANNEL' = (NEXT_CHANNEL + U32 - 1) % U32
    /\ Goto(t, "idle")
    /\ id' = [id EXCEPT ![t] = NoId]
    /\ UNCHANGED <<activeIds, granted, lock>>

(* The channel is activated and its id returned. *)
Activate(t) ==
    /\ pc[t] = "set"
    /\ activeIds' = activeIds \cup {id[t]}
    /\ granted' = granted \cup {<<t, id[t]>>}
    /\ Goto(t, "idle")
    /\ id' = [id EXCEPT ![t] = NoId]
    /\ UNCHANGED <<NEXT_CHANNEL, lock>>

(* destroy_channel() of a channel some caller created. *)
DestroyChannel(c) ==
    /\ c \in activeIds
    /\ activeIds' = activeIds \ {c}
    /\ UNCHANGED <<NEXT_CHANNEL, pc, id, granted, lock>>

-----------------------------------------------------------------------------
(* lock() or try_lock() is called. *)
CallLock(t) ==
    /\ pc[t] = "idle" /\ t \notin holders
    /\ Goto(t, "cas") \/ Goto(t, "try")
    /\ UNCHANGED <<channels, lock>>

Acquired(t) == locked' = 1 /\ holders' = holders \cup {t} /\ Goto(t, "idle")

(* Mutant: a load and a store in place of compare_exchange. *)
CasSucceeds_Stale(t) == pc[t] = "cas" /\ Acquired(t) /\ UNCHANGED channels

(* compare_exchange_weak(0, 1) succeeds. *)
CasSucceeds(t) ==
    /\ pc[t] = "cas"
    /\ locked = 0
    /\ Acquired(t)
    /\ UNCHANGED channels

(* It fails because the lock is taken, or spuriously. *)
CasFails(t) ==
    /\ pc[t] = "cas"
    /\ Goto(t, "spin")
    /\ UNCHANGED <<channels, lock>>

(* Mutant: the inner loop spins while the lock is free. *)
SpinEnds_Inverted(t) ==
    /\ pc[t] = "spin"
    /\ IF locked = 0 THEN UNCHANGED pc ELSE Goto(t, "cas")
    /\ UNCHANGED <<channels, lock>>

(* The inner loop ends when a load sees the lock free. *)
SpinEnds(t) ==
    /\ pc[t] = "spin"
    /\ locked = 0
    /\ Goto(t, "cas")
    /\ UNCHANGED <<channels, lock>>

(* try_lock(): compare_exchange fails only when the lock is taken. *)
TryLock(t) ==
    /\ pc[t] = "try"
    /\ IF locked = 0 THEN Acquired(t) ELSE Goto(t, "idle") /\ UNCHANGED lock
    /\ UNCHANGED channels

Unlock(t) ==
    /\ pc[t] = "idle" /\ t \in holders
    /\ locked' = 0 /\ holders' = holders \ {t}
    /\ UNCHANGED <<channels, pc>>

-----------------------------------------------------------------------------
(* A step of a call that has begun. *)
Step(t) ==
    Undo(t) \/ Activate(t) \/ CasSucceeds(t) \/ CasFails(t) \/ SpinEnds(t) \/ TryLock(t)

Next ==
    \/ \E t \in Threads : Draw(t) \/ CallLock(t) \/ Unlock(t) \/ Step(t)
    \/ \E c \in Ids : DestroyChannel(c)

(* A thread inside a call keeps executing, and a compare_exchange_weak that *)
(* is tried again and again on a free lock does not fail spuriously for     *)
(* ever.  Nobody has to unlock.                                             *)
Fairness == \A t \in Threads : WF_vars(Step(t)) /\ SF_vars(CasSucceeds(t))

Spec == Init /\ [][Next]_vars

FairSpec == Spec /\ Fairness

-----------------------------------------------------------------------------
At(l) == {t \in Threads : pc[t] = l}

(* Every channel id is given to at most one caller, also when calls that    *)
(* are refused at the limit race with each other and with others, however   *)
(* many are refused, and after a channel was destroyed.                     *)
IdsUnique ==
    /\ \A g, h \in granted : g[2] = h[2] => g = h
    /\ \A t \in At("set") : \A g \in granted : g[2] # id[t]
    /\ \A t, u \in At("set") : t # u => id[t] # id[u]

(* Two threads are never inside the lock together, and the lock word says   *)
(* whether one is.                                                          *)
MutualExclusion ==
    /\ \A t, u \in holders : t = u
    /\ locked = 1 <=> holders # {}

(* While some thread is inside lock(), the lock is eventually held:         *)
(* spinning threads never wait for each other for ever.  (A particular      *)
(* thread may starve.)                                                      *)
LockProgress == At("cas") \cup At("spin") # {} ~> holders # {}
=============================================================================
