---------------------------- MODULE SchedProofs ----------------------------
(***************************************************************************)
(* Proofs about Sched for every number of slots, every set of stacks and   *)
(* every sequence of spawned threads.                                      *)
(***************************************************************************)
EXTENDS Sched, NumberProofs, TLAPS

(* Index arithmetic of the scan: from any slot it reaches every slot. *)
LEMMA ScanReaches ==
  ASSUME NEW M \in Nat \ {0}, NEW c \in 0 .. M - 1
  PROVE  /\ \A k \in 1 .. M : (c + k) % M \in 0 .. M - 1
         /\ (c + (M - c)) % M = 0
         /\ (c + M) % M = c
<1>1. \A k \in 1 .. M : (c + k) % M \in 0 .. M - 1
  OBVIOUS
<1>2. (c + (M - c)) % M = 0
  OBVIOUS
<1>3. (c + M) % M = c
  OBVIOUS
<1> QED
  BY <1>1, <1>2, <1>3

(* When some slot is Ready, the scan of timer_tick ends on a Ready slot. *)
LEMMA PickNextReady ==
  ASSUME NEW cur \in Slots, NEW st \in [Slots -> TaskState],
         st[0] = "Ready" \/ st[cur] = "Ready"
  PROVE  /\ ReadyAfter(cur, st) # {}
         /\ PickNext(cur, st) \in Slots
         /\ st[PickNext(cur, st)] = "Ready"
<1> DEFINE R == ReadyAfter(cur, st)
<1>1. /\ MAX_TASKS \in Nat \ {0}
      /\ cur \in 0 .. MAX_TASKS - 1
  BY SchedConstants DEF Slots
<1>2. R # {}
  <2>1. CASE st[0] = "Ready"
    <3>1. MAX_TASKS - cur \in 1 .. MAX_TASKS
      BY <1>1
    <3>2. (cur + (MAX_TASKS - cur)) % MAX_TASKS = 0
      BY <1>1, ScanReaches
    <3> QED
      BY <2>1, <3>1, <3>2 DEF ReadyAfter
  <2>2. CASE st[cur] = "Ready"
    <3>1. MAX_TASKS \in 1 .. MAX_TASKS
      BY <1>1
    <3>2. (cur + MAX_TASKS) % MAX_TASKS = cur
      BY <1>1, ScanReaches
    <3> QED
      BY <2>2, <3>1, <3>2 DEF ReadyAfter
  <2> QED
    BY <2>1, <2>2
<1>3. R \in SUBSET Nat
  BY <1>1 DEF ReadyAfter
<1> DEFINE k0 == CHOOSE k \in R : \A j \in R : k <= j
<1>4. k0 \in R
  <2>1. \E k \in R : \A j \in R : k <= j
    BY <1>2, <1>3, Least
  <2> HIDE DEF R
  <2> QED
    BY <2>1
<1>5. PickNext(cur, st) = (cur + k0) % MAX_TASKS
  BY <1>2 DEF PickNext
<1>6. k0 \in 1 .. MAX_TASKS /\ st[(cur + k0) % MAX_TASKS] = "Ready"
  BY <1>4 DEF ReadyAfter
<1>7. (cur + k0) % MAX_TASKS \in Slots
  <2> HIDE DEF k0
  <2> QED
    BY <1>1, <1>6, ScanReaches DEF Slots
<1> QED
  BY <1>2, <1>5, <1>6, <1>7

-----------------------------------------------------------------------------
(* The contexts that spawn() and _start build are contexts. *)
LEMMA ContextTypes ==
  /\ EmptyCtx \in Context
  /\ BootCtx \in Context
  /\ \A s \in Stacks, k \in Kinds : EntryCtx(s, k) \in Context
<1>1. <<>> \in Seq(Kinds)
  OBVIOUS
<1>2. /\ {"null", "init", "own"} \subseteq Labels
      /\ BootSpawns \in Seq(Kinds)
      /\ LateSpawns \in Seq(Kinds)
      /\ MaxWork \in Nat
  BY SchedConstants DEF Labels
<1> QED
  BY <1>1, <1>2 DEF EmptyCtx, BootCtx, EntryCtx, Context

(* Slot numbers are naturals. *)
LEMMA SlotsAreNat == \A i \in Slots : i \in Nat
BY SchedConstants DEF Slots

(* What is left to spawn is a sequence of kinds. *)
LEMMA TailType == \A q \in Seq(Kinds) : q # <<>> => Tail(q) \in Seq(Kinds)
OBVIOUS

(* The scheduler starts in IInv. *)
LEMMA InitIInv == Init => IInv
<1> SUFFICES ASSUME Init PROVE IInv
  OBVIOUS
<1> USE SchedConstants DEF Init
<1>0. 0 \in Slots
  BY DEF Slots
<1>1. TypeOK
  BY <1>0, ContextTypes DEF TypeOK, TaskState
<1>2. BootPhase
  BY DEF BootPhase, BootCtx
<1>3. CpuOK
  BY DEF CpuOK, BootCtx, ThreadOf
<1>4. CountOK
  BY DEF CountOK, BootCtx
<1>5. SlotsOK
  BY DEF SlotsOK, Parked
<1> QED
  BY <1>1, <1>2, <1>3, <1>4, <1>5 DEF IInv
(* One lemma per action that is not a task switch: it preserves every part of IInv. *)

(* sched::init() puts the boot thread in slot 0. *)
LEMMA SchedInitStep == IInv /\ SchedInit => IInv'
<1> SUFFICES ASSUME IInv, SchedInit PROVE IInv'
  OBVIOUS
<1> USE DEF IInv, SchedInit, At, Goto
<1>1. TypeOK'
  BY DEF TypeOK, Context, Labels, TaskState
<1>2. BootPhase'
  BY DEF BootPhase, TypeOK, Context
<1>3. CpuOK'
  BY DEF CpuOK, ThreadOf, TypeOK, Context, InAllocator
<1>4. CountOK'
  BY DEF CountOK, CpuOK, TypeOK, Context
<1>5. SlotsOK'
  BY DEF SlotsOK, CpuOK, CountOK, BootPhase, Parked, Resumable, ThreadOf, TypeOK, Context
<1> QED
  BY <1>1, <1>2, <1>3, <1>4, <1>5

(* spawn() closes the window for ticks. *)
LEMMA SpawnCliStep == IInv /\ SpawnCli => IInv'
<1> SUFFICES ASSUME IInv, SpawnCli PROVE IInv'
  OBVIOUS
<1> USE DEF IInv, SpawnCli, At, tasks
<1>1. TypeOK'
  BY DEF TypeOK, Context, Labels, TaskState
<1>2. BootPhase'
  BY DEF BootPhase, TypeOK, Context
<1>3. CpuOK'
  BY DEF CpuOK, ThreadOf, TypeOK, Context, InAllocator
<1>4. CountOK'
  BY DEF CountOK, CpuOK, TypeOK, Context
<1>5. SlotsOK'
  BY DEF SlotsOK, CpuOK, CountOK, BootPhase, Parked, Resumable, ThreadOf, TypeOK, Context
<1> QED
  BY <1>1, <1>2, <1>3, <1>4, <1>5

(* The slot that the scan chooses is vacant and is not the current one. *)
LEMMA SpawnScanStep == IInv /\ SpawnScan => IInv'
<1> SUFFICES ASSUME IInv, SpawnScan PROVE IInv'
  OBVIOUS
<1>0. /\ cpu.pc = "sp_scan" /\ isr = "none"
      /\ UNCHANGED <<state, stack, ctx, CURRENT, ACTIVE, PREEMPT_COUNT, rsp0,
                     timerOn, isr, inService, used>>
  BY DEF SpawnScan, At, tasks
<1>1. Tail(cpu.spawns) \in Seq(Kinds)
  BY <1>0, TailType DEF IInv, TypeOK, Context, CpuOK
<1>2. timerOn /\ state[CURRENT] = "Running"
  BY <1>0 DEF IInv, BootPhase, SlotsOK
<1>3. ASSUME cpu'.pc # "sp_ctx"
      PROVE  SlotsOK'
  <2>1. \A i \in Slots : Parked(i)' => Parked(i) /\ Resumable(i)
    BY <1>0 DEF IInv, SlotsOK, Parked
  <2>2. \A i \in Slots : Resumable(i) => Resumable(i)'
    BY <1>0 DEF Resumable, ThreadOf
  <2> QED
    BY <1>0, <1>2, <1>3, <2>1, <2>2 DEF IInv, SlotsOK
<1>4. ASSUME NEW i \in Slots, IsFirst(i, FreeSlots),
             cpu' = [cpu EXCEPT !.pc = "sp_alloc", !.reg = i]
      PROVE  IInv'
  <2>1. i \in Slots \ {0, CURRENT} /\ state[i] \in {"Empty", "Exited"} /\ i \in Nat
    BY <1>2, <1>4, SlotsAreNat DEF IsFirst, FreeSlots
  <2> USE <1>0, <1>2, <1>4, <2>1
  <2>2. /\ cpu \in Context /\ cpu'.pc = "sp_alloc" /\ cpu'.reg = i
        /\ cpu'.th = cpu.th /\ cpu'.iflag = cpu.iflag /\ cpu'.depth = cpu.depth
        /\ cpu'.kind = cpu.kind /\ cpu'.spawns = cpu.spawns
    BY DEF IInv, TypeOK, Context
  <2>3. TypeOK'
    BY DEF IInv, TypeOK, Context, Labels
  <2>4. BootPhase'
    BY <2>2 DEF IInv, BootPhase
  <2>5. CpuOK'
    BY <2>2 DEF IInv, CpuOK, ThreadOf
  <2>6. CountOK'
    BY <2>2 DEF IInv, CountOK
  <2>7. SlotsOK'
    BY <1>3, <2>2
  <2> QED
    BY <2>3, <2>4, <2>5, <2>6, <2>7 DEF IInv
<1>5. ASSUME SpawnReturn
      PROVE  IInv'
  <2> USE <1>0, <1>1, <1>2, <1>5 DEF SpawnReturn
  <2>1. /\ cpu \in Context /\ cpu'.pc = "own" /\ cpu'.iflag = TRUE
        /\ cpu'.th = cpu.th /\ cpu'.reg = cpu.reg /\ cpu'.depth = cpu.depth
        /\ cpu'.kind = cpu.kind /\ cpu'.spawns = Tail(cpu.spawns)
    BY DEF IInv, TypeOK, Context
  <2>2. TypeOK'
    BY DEF IInv, TypeOK, Context, Labels
  <2>3. BootPhase'
    BY <2>1 DEF IInv, BootPhase
  <2>4. CpuOK'
    BY <2>1 DEF IInv, CpuOK, ThreadOf
  <2>5. CountOK'
    BY <2>1 DEF IInv, CountOK, CpuOK
  <2>6. SlotsOK'
    BY <1>3, <2>1
  <2> QED
    BY <2>2, <2>3, <2>4, <2>5, <2>6 DEF IInv
<1> QED
  BY <1>4, <1>5 DEF SpawnScan

(* A slot may be Ready without a context, for ticks are masked. *)
LEMMA SpawnAllocStep == IInv /\ SpawnAlloc => IInv'
<1> SUFFICES ASSUME IInv, SpawnAlloc PROVE IInv'
  OBVIOUS
<1> USE DEF IInv, At
<1>0. /\ Tail(cpu.spawns) \in Seq(Kinds)
      /\ cpu.reg \in Slots \ {0, CURRENT}
      /\ state[cpu.reg] \in {"Empty", "Exited"}
      /\ timerOn
      /\ isr = "none"
  BY DEF SpawnAlloc, TypeOK, Context, CpuOK, BootPhase
<1>1. CASE SpawnReturn /\ UNCHANGED <<tasks, used>>
  <2> USE <1>0, <1>1 DEF SpawnAlloc, SpawnReturn, tasks
  <2>1. TypeOK'
    BY DEF TypeOK, Context, Labels
  <2>2. BootPhase'
    BY DEF BootPhase, TypeOK, Context
  <2>3. CpuOK'
    BY DEF CpuOK, ThreadOf, TypeOK, Context
  <2>4. CountOK'
    BY DEF CountOK, TypeOK, Context
  <2>5. SlotsOK'
    BY DEF SlotsOK, CpuOK, Parked, Resumable, ThreadOf, TypeOK, Context
  <2> QED
    BY <2>1, <2>2, <2>3, <2>4, <2>5
<1>2. ASSUME NEW s \in Stacks \ used,
             used' = used \cup {s},
             state' = [state EXCEPT ![cpu.reg] = "Ready"],
             stack' = [stack EXCEPT ![cpu.reg] = s],
             ctx' = [ctx EXCEPT ![cpu.reg] = EmptyCtx],
             Goto("sp_ctx")
      PROVE  IInv'
  <2>0. /\ EmptyCtx \in Context
        /\ EmptyCtx.depth = 0
        /\ EmptyCtx.pc = "null"
    BY ContextTypes DEF EmptyCtx
  <2> USE <1>0, <1>2 DEF SpawnAlloc, Goto
  <2>1. TypeOK'
    <3>1. cpu' \in Context
      BY DEF TypeOK, Context, Labels
    <3> QED
      BY <2>0, <3>1 DEF TypeOK, TaskState
  <2>2. BootPhase'
    BY DEF BootPhase, TypeOK, Context
  <2>3. CpuOK'
    BY <2>0 DEF CpuOK, ThreadOf, TypeOK, Context, InAllocator
  <2>4. CountOK'
    BY DEF CountOK, TypeOK, Context
  <2>5. SlotsOK'
    <3>1. cpu'.pc = "sp_ctx" /\ cpu'.reg = cpu.reg /\ CURRENT' = CURRENT
      BY DEF TypeOK, Context
    <3>2. \A i \in Slots : i # cpu.reg =>
             /\ state'[i] = state[i]
             /\ stack'[i] = stack[i]
             /\ ctx'[i] = ctx[i]
      BY DEF TypeOK
    <3>3. state'[cpu.reg] = "Ready"
      BY DEF TypeOK
    <3>4. 0 \in Slots /\ CURRENT \in Slots
      BY SchedConstants DEF TypeOK, Slots
    <3>5. \A i \in Slots : Parked(i)' /\ i # cpu.reg => Resumable(i)'
      BY <3>1, <3>2 DEF SlotsOK, Parked, Resumable, ThreadOf
    <3>6. \A i \in Slots \ {CURRENT'} : state'[i] # "Running"
      BY <3>1, <3>2, <3>3 DEF SlotsOK
    <3>7. timerOn' => /\ state'[0] \in {"Ready", "Running"}
                      /\ state'[CURRENT'] \in {"Running", "Exited"}
                      /\ state'[CURRENT'] = "Exited" => cpu'.pc = "halt"
      BY <3>1, <3>2, <3>4 DEF SlotsOK
    <3> QED
      BY <3>1, <3>5, <3>6, <3>7 DEF SlotsOK
  <2> QED
    BY <2>1, <2>2, <2>3, <2>4, <2>5
<1> QED
  BY <1>1, <1>2 DEF SpawnAlloc

(* When ticks are unmasked, the new context is complete. *)
LEMMA SpawnSetCtxStep == IInv /\ SpawnSetCtx => IInv'
<1> SUFFICES ASSUME IInv, SpawnSetCtx PROVE IInv'
  OBVIOUS
<1> USE DEF IInv, SpawnSetCtx, At, SpawnReturn
<1>0. /\ Tail(cpu.spawns) \in Seq(Kinds)
      /\ Head(cpu.spawns) \in Kinds
  BY DEF TypeOK, Context, CpuOK
<1>00. EntryCtx(stack[cpu.reg], Head(cpu.spawns)) \in Context
  BY <1>0, ContextTypes DEF CpuOK
<1>1. TypeOK'
  BY <1>00, <1>0 DEF TypeOK, Context, Labels, TaskState
<1>2. BootPhase'
  BY DEF BootPhase, TypeOK, Context
<1>3. CpuOK'
  BY <1>00, <1>0 DEF CpuOK, ThreadOf, TypeOK, Context, InAllocator
<1>4. CountOK'
  BY DEF CountOK, CpuOK, TypeOK, Context
<1>5. SlotsOK'
  <2>1. /\ cpu'.pc = "own"
        /\ cpu.reg \in Slots \ {0, CURRENT}
        /\ stack[cpu.reg] \in Stacks
        /\ \A i \in Slots : i # cpu.reg => ctx'[i] = ctx[i]
        /\ ctx'[cpu.reg] = EntryCtx(stack[cpu.reg], Head(cpu.spawns))
    BY DEF TypeOK, Context, CpuOK
  <2>2. Resumable(cpu.reg)'
    BY <1>0, <2>1 DEF Resumable, ThreadOf, EntryCtx, Kinds
  <2>3. \A i \in Slots : Parked(i)' => Resumable(i)'
    BY <2>1, <2>2 DEF SlotsOK, Parked, Resumable, ThreadOf
  <2> QED
    BY <2>1, <2>3 DEF SlotsOK
<1> QED
  BY <1>1, <1>2, <1>3, <1>4, <1>5

(* start() only lets ticks switch. *)
LEMMA StartStep == IInv /\ Start => IInv'
<1> SUFFICES ASSUME IInv, Start PROVE IInv'
  OBVIOUS
<1> USE DEF IInv, Start, At, tasks, Goto
<1>1. TypeOK'
  BY DEF TypeOK, Context, Labels, TaskState
<1>2. BootPhase'
  BY DEF BootPhase, TypeOK, Context
<1>3. CpuOK'
  BY DEF CpuOK, ThreadOf, TypeOK, Context, InAllocator
<1>4. CountOK'
  BY DEF CountOK, CpuOK, TypeOK, Context
<1>5. SlotsOK'
  BY DEF SlotsOK, CpuOK, CountOK, BootPhase, Parked, Resumable, ThreadOf, TypeOK, Context
<1> QED
  BY <1>1, <1>2, <1>3, <1>4, <1>5

(* The value loaded is the depth of the running thread, hence zero if it    *)
(* can be parked.                                                           *)
LEMMA PreemptDisableLoadStep == IInv /\ PreemptDisableLoad => IInv'
<1> SUFFICES ASSUME IInv, PreemptDisableLoad PROVE IInv'
  OBVIOUS
<1> USE DEF IInv, PreemptDisableLoad, At, tasks, InModule
<1>0. cpu.work - 1 \in Nat
  BY DEF TypeOK, Context
<1>1. TypeOK'
  BY <1>0 DEF TypeOK, Context, Labels, TaskState
<1>2. BootPhase'
  BY DEF BootPhase, TypeOK, Context
<1>3. CpuOK'
  BY <1>0 DEF CpuOK, ThreadOf, TypeOK, Context, InAllocator
<1>4. CountOK'
  BY DEF CountOK, CpuOK, TypeOK, Context
<1>5. SlotsOK'
  BY DEF SlotsOK, CpuOK, CountOK, BootPhase, Parked, Resumable, ThreadOf, TypeOK, Context
<1> QED
  BY <1>1, <1>2, <1>3, <1>4, <1>5

(* The store raises count and depth together. *)
LEMMA PreemptDisableStoreStep == IInv /\ PreemptDisableStore => IInv'
<1> SUFFICES ASSUME IInv, PreemptDisableStore PROVE IInv'
  OBVIOUS
<1> USE DEF IInv, PreemptDisableStore, At, tasks
<1>0. cpu.depth + 1 \in Nat /\ cpu.reg + 1 \in Nat
  BY DEF TypeOK, Context
<1>1. TypeOK'
  BY <1>0 DEF TypeOK, Context, Labels, TaskState
<1>2. BootPhase'
  BY DEF BootPhase, TypeOK, Context
<1>3. CpuOK'
  BY <1>0 DEF CpuOK, ThreadOf, TypeOK, Context, InAllocator
<1>4. CountOK'
  BY DEF CountOK, CpuOK, TypeOK, Context
<1>5. SlotsOK'
  BY DEF SlotsOK, CpuOK, CountOK, BootPhase, Parked, Resumable, ThreadOf, TypeOK, Context
<1> QED
  BY <1>1, <1>2, <1>3, <1>4, <1>5

(* The value loaded is positive. *)
LEMMA PreemptEnableLoadStep == IInv /\ PreemptEnableLoad => IInv'
<1> SUFFICES ASSUME IInv, PreemptEnableLoad PROVE IInv'
  OBVIOUS
<1> USE DEF IInv, PreemptEnableLoad, At, tasks, InModule
<1>1. TypeOK'
  BY DEF TypeOK, Context, Labels, TaskState
<1>2. BootPhase'
  BY DEF BootPhase, TypeOK, Context
<1>3. CpuOK'
  BY DEF CpuOK, ThreadOf, TypeOK, Context, InAllocator
<1>4. CountOK'
  BY DEF CountOK, CpuOK, TypeOK, Context
<1>5. SlotsOK'
  BY DEF SlotsOK, CpuOK, CountOK, BootPhase, Parked, Resumable, ThreadOf, TypeOK, Context
<1> QED
  BY <1>1, <1>2, <1>3, <1>4, <1>5

(* The store lowers count and depth together. *)
LEMMA PreemptEnableStoreStep == IInv /\ PreemptEnableStore => IInv'
<1> SUFFICES ASSUME IInv, PreemptEnableStore PROVE IInv'
  OBVIOUS
<1> USE DEF IInv, PreemptEnableStore, At, tasks
<1>0. /\ cpu.depth - 1 \in Nat
      /\ (IF cpu.reg > 0 THEN cpu.reg - 1 ELSE PREEMPT_COUNT) \in Nat
  BY DEF TypeOK, Context, CountOK
<1>1. TypeOK'
  BY <1>0 DEF TypeOK, Context, Labels, TaskState
<1>2. BootPhase'
  BY DEF BootPhase, TypeOK, Context
<1>3. CpuOK'
  BY <1>0 DEF CpuOK, ThreadOf, TypeOK, Context, InAllocator
<1>4. CountOK'
  BY DEF CountOK, CpuOK, TypeOK, Context
<1>5. SlotsOK'
  BY DEF SlotsOK, CpuOK, CountOK, BootPhase, Parked, Resumable, ThreadOf, TypeOK, Context
<1> QED
  BY <1>1, <1>2, <1>3, <1>4, <1>5

(* The allocator is entered with preemption disabled. *)
LEMMA KmemEnterStep == IInv /\ KmemEnter => IInv'
<1> SUFFICES ASSUME IInv, KmemEnter PROVE IInv'
  OBVIOUS
<1> USE DEF IInv, KmemEnter, At, tasks, InModule
<1>0. cpu.work - 1 \in Nat
  BY DEF TypeOK, Context
<1>1. TypeOK'
  BY <1>0 DEF TypeOK, Context, Labels, TaskState
<1>2. BootPhase'
  BY DEF BootPhase, TypeOK, Context
<1>3. CpuOK'
  BY <1>0 DEF CpuOK, ThreadOf, TypeOK, Context, InAllocator
<1>4. CountOK'
  BY DEF CountOK, CpuOK, TypeOK, Context
<1>5. SlotsOK'
  BY DEF SlotsOK, CpuOK, CountOK, BootPhase, Parked, Resumable, ThreadOf, TypeOK, Context
<1> QED
  BY <1>1, <1>2, <1>3, <1>4, <1>5

(* The allocator is left with preemption disabled. *)
LEMMA KmemLeaveStep == IInv /\ KmemLeave => IInv'
<1> SUFFICES ASSUME IInv, KmemLeave PROVE IInv'
  OBVIOUS
<1> USE DEF IInv, KmemLeave, At, tasks, Goto
<1>1. TypeOK'
  BY DEF TypeOK, Context, Labels, TaskState
<1>2. BootPhase'
  BY DEF BootPhase, TypeOK, Context
<1>3. CpuOK'
  BY DEF CpuOK, ThreadOf, TypeOK, Context, InAllocator
<1>4. CountOK'
  BY DEF CountOK, CpuOK, TypeOK, Context
<1>5. SlotsOK'
  BY DEF SlotsOK, CpuOK, CountOK, BootPhase, Parked, Resumable, ThreadOf, TypeOK, Context
<1> QED
  BY <1>1, <1>2, <1>3, <1>4, <1>5

(* task_exit() masks ticks before it touches the slot. *)
LEMMA TaskReturnStep == IInv /\ TaskReturn => IInv'
<1> SUFFICES ASSUME IInv, TaskReturn PROVE IInv'
  OBVIOUS
<1> USE DEF IInv, TaskReturn, At, tasks
<1>1. TypeOK'
  BY DEF TypeOK, Context, Labels, TaskState
<1>2. BootPhase'
  BY DEF BootPhase, TypeOK, Context
<1>3. CpuOK'
  BY DEF CpuOK, ThreadOf, TypeOK, Context, InAllocator
<1>4. CountOK'
  BY DEF CountOK, CpuOK, TypeOK, Context
<1>5. SlotsOK'
  BY DEF SlotsOK, CpuOK, CountOK, BootPhase, Parked, Resumable, ThreadOf, TypeOK, Context
<1> QED
  BY <1>1, <1>2, <1>3, <1>4, <1>5

(* The exited task stays current until the next tick. *)
LEMMA TaskExitStep == IInv /\ TaskExit => IInv'
<1> SUFFICES ASSUME IInv, TaskExit PROVE IInv'
  OBVIOUS
<1> USE DEF IInv, TaskExit, At
<1>1. TypeOK'
  BY DEF TypeOK, Context, Labels, TaskState
<1>2. BootPhase'
  BY DEF BootPhase, TypeOK, Context
<1>3. CpuOK'
  BY DEF CpuOK, ThreadOf, TypeOK, Context, InAllocator
<1>4. CountOK'
  BY DEF CountOK, CpuOK, TypeOK, Context
<1>5. SlotsOK'
  BY DEF SlotsOK, CpuOK, CountOK, BootPhase, Parked, Resumable, ThreadOf, TypeOK, Context
<1> QED
  BY <1>1, <1>2, <1>3, <1>4, <1>5

(* Entering the handler changes no task. *)
LEMMA TimerInterruptStep == IInv /\ TimerInterrupt => IInv'
<1> SUFFICES ASSUME IInv, TimerInterrupt PROVE IInv'
  OBVIOUS
<1> USE DEF IInv, TimerInterrupt, tasks
<1>1. TypeOK'
  BY DEF TypeOK, Context, Labels, TaskState
<1>2. BootPhase'
  BY DEF BootPhase, TypeOK, Context
<1>3. CpuOK'
  BY DEF CpuOK, ThreadOf, TypeOK, Context, InAllocator
<1>4. CountOK'
  BY DEF CountOK, CpuOK, TypeOK, Context
<1>5. SlotsOK'
  BY DEF SlotsOK, CpuOK, CountOK, BootPhase, Parked, Resumable, ThreadOf, TypeOK, Context
<1> QED
  BY <1>1, <1>2, <1>3, <1>4, <1>5

(* A tick that may not switch changes no task. *)
LEMMA TickIgnoredStep == IInv /\ TickIgnored => IInv'
<1> SUFFICES ASSUME IInv, TickIgnored PROVE IInv'
  OBVIOUS
<1> USE DEF IInv, TickIgnored, tasks, EoiReturn
<1>1. TypeOK'
  BY DEF TypeOK
<1>2. BootPhase'
  BY DEF BootPhase, TypeOK, Context
<1>3. CpuOK'
  BY DEF CpuOK, ThreadOf, TypeOK, Context, InAllocator
<1>4. CountOK'
  BY DEF CountOK, CpuOK, TypeOK, Context
<1>5. SlotsOK'
  BY DEF SlotsOK, CpuOK, CountOK, BootPhase, Parked, Resumable, ThreadOf, TypeOK, Context
<1> QED
  BY <1>1, <1>2, <1>3, <1>4, <1>5

-----------------------------------------------------------------------------
(* A task switch: the scan always finds a Ready slot, because the idle task *)
(* never exits, and the context it loads is resumable.                      *)
LEMMA TickSwitchStep == IInv /\ TickSwitch => IInv'
<1> SUFFICES ASSUME IInv, TickSwitch PROVE IInv'
  OBVIOUS
<1>1. /\ 0 \in Slots
      /\ CURRENT \in Slots
  BY SchedConstants DEF IInv, TypeOK, Slots
<1>2. /\ isr = "timer" /\ timerOn /\ cpu.iflag
      /\ PREEMPT_COUNT = 0
      /\ cpu.depth = 0
      /\ cpu.pc \in {"own", "pd", "halt"}
  BY DEF IInv, TypeOK, Context, Labels, BootPhase, CpuOK, CountOK, TickSwitch, MaySwitch
<1>3. /\ Demoted \in [Slots -> TaskState]
      /\ Demoted[0] = "Ready" \/ Demoted[CURRENT] = "Ready"
      /\ \A i \in Slots : Demoted[i] # "Running"
      /\ \A i \in Slots : Demoted[i] = "Ready" /\ i # CURRENT => Parked(i)
      /\ Demoted[0] # "Exited"
  BY <1>1, <1>2 DEF IInv, TypeOK, SlotsOK, Demoted, TaskState, Parked
<1>4. PICK n \in Slots : /\ n = PickNext(CURRENT, Demoted)
                         /\ ReadyAfter(CURRENT, Demoted) # {}
                         /\ Demoted[n] = "Ready"
  BY <1>1, <1>3, PickNextReady
<1>5. /\ state' = [Demoted EXCEPT ![n] = "Running"]
      /\ ctx' = SavedCtx
      /\ CURRENT' = n
      /\ cpu' = SavedCtx[n]
      /\ rsp0' = stack[n]
      /\ isr' = "none"
      /\ inService' = FALSE
      /\ UNCHANGED <<stack, ACTIVE, PREEMPT_COUNT, timerOn, used>>
  BY <1>4 DEF TickSwitch, NothingToRun, EoiReturn, KernelStackOf
<1>6. /\ SavedCtx \in [Slots -> Context]
      /\ SavedCtx[CURRENT] = cpu
      /\ \A i \in Slots : i # CURRENT => SavedCtx[i] = ctx[i]
  BY <1>1 DEF IInv, TypeOK, SavedCtx
<1>7. \A i \in Slots : Demoted[i] = "Ready" => Resumable(i)'
  <2> SUFFICES ASSUME NEW i \in Slots, Demoted[i] = "Ready"
               PROVE  Resumable(i)'
    OBVIOUS
  <2>1. ThreadOf(i)' = ThreadOf(i)
    BY <1>5 DEF ThreadOf
  <2>2. CASE i = CURRENT
    <3>1. ctx'[i] = cpu
      BY <1>5, <1>6, <2>2
    <3> QED
      BY <1>2, <2>1, <2>2, <3>1 DEF Resumable, IInv, CpuOK, CountOK
  <2>3. CASE i # CURRENT
    <3>1. ctx'[i] = ctx[i] /\ Resumable(i)
      BY <1>2, <1>3, <1>5, <1>6, <2>3 DEF IInv, SlotsOK
    <3> QED
      BY <2>1, <3>1 DEF Resumable
  <2> QED
    BY <2>2, <2>3
<1>8. Resumable(n)' /\ cpu' = ctx'[n] /\ cpu' \in Context
  BY <1>4, <1>5, <1>6, <1>7
<1>9. TypeOK'
  BY <1>3, <1>4, <1>5, <1>6, <1>8 DEF IInv, TypeOK, TaskState
<1>10. BootPhase'
  BY <1>2, <1>5, <1>8 DEF BootPhase, Resumable
<1>11. CpuOK'
  BY <1>5, <1>8 DEF CpuOK, Resumable
<1>12. CountOK'
  BY <1>2, <1>5, <1>8 DEF CountOK, Resumable
<1>13. SlotsOK'
  <2>1. /\ \A i \in Slots : i # n => state'[i] = Demoted[i]
        /\ state'[n] = "Running"
    BY <1>3, <1>4, <1>5
  <2>2. \A i \in Slots : Parked(i)' => Resumable(i)'
    BY <1>5, <1>7, <2>1 DEF Parked
  <2>3. state'[0] \in {"Ready", "Running"}
    BY <1>1, <1>2, <1>3, <2>1 DEF IInv, SlotsOK, Demoted, TypeOK, TaskState
  <2> QED
    BY <1>3, <1>5, <2>1, <2>2, <2>3 DEF SlotsOK
<1> QED
  BY <1>9, <1>10, <1>11, <1>12, <1>13 DEF IInv

(* Stuttering. *)
LEMMA StutterStep == IInv /\ UNCHANGED vars => IInv'
BY DEF IInv, vars, TypeOK, BootPhase, CpuOK, CountOK, SlotsOK, Parked, Resumable,
       ThreadOf, InAllocator

-----------------------------------------------------------------------------
(* IInv is an invariant of the scheduler: every interleaving of thread code *)
(* and timer interrupts keeps it.                                           *)
THEOREM Invariance == Spec => []IInv
<1>1. Init => IInv
  BY InitIInv
<1>2. IInv /\ [Next]_vars => IInv'
  BY StutterStep, SchedInitStep, SpawnCliStep, SpawnScanStep, SpawnAllocStep,
     SpawnSetCtxStep, StartStep, PreemptDisableLoadStep, PreemptDisableStoreStep,
     PreemptEnableLoadStep, PreemptEnableStoreStep, KmemEnterStep, KmemLeaveStep,
     TaskReturnStep, TaskExitStep, TimerInterruptStep, TickIgnoredStep,
     TickSwitchStep
     DEF Next, ThreadStep
<1> QED
  BY <1>1, <1>2, PTL DEF Spec

(* Type correctness of the scheduler state. *)
THEOREM TypeCorrect == Spec => []TypeOK
<1>1. IInv => TypeOK
  BY DEF IInv
<1> QED
  BY <1>1, Invariance, PTL

(* A tick can only ever load the complete context of the task it resumes,   *)
(* whatever spawn() and task_exit() were doing.                             *)
THEOREM ContextsIntact == Spec => []ContextIntegrity
<1>1. IInv => ContextIntegrity
  <2> SUFFICES ASSUME IInv, cpu.iflag, timerOn PROVE ContextIntegrity
    BY DEF ContextIntegrity
  <2>1. cpu.pc # "sp_ctx"
    BY DEF IInv, CpuOK
  <2>2. \A i \in Slots : Parked(i) => Resumable(i)
    BY <2>1 DEF IInv, SlotsOK
  <2> QED
    BY <2>2 DEF IInv, CpuOK, SlotsOK, ContextIntegrity, Resumable
<1> QED
  BY <1>1, Invariance, PTL

(* The unprotected counter of preempt_disable and preempt_enable is exact.  *)
THEOREM PreemptCountExact == Spec => []PreemptExact
<1>1. IInv => PreemptExact
  BY DEF IInv, CountOK, CpuOK, SlotsOK, PreemptExact, Resumable
<1> QED
  BY <1>1, Invariance, PTL

(* The unlocked allocators are never entered by two tasks at a time. *)
THEOREM AllocatorExclusive == Spec => []AllocExclusive
<1>1. IInv => AllocExclusive
  BY DEF IInv, CpuOK, SlotsOK, AllocExclusive, Resumable, InAllocator
<1> QED
  BY <1>1, Invariance, PTL

(* A task that disabled preemption is not switched away from. *)
THEOREM NoSwitch == Spec => NoSwitchWhileDisabled
<1>1. IInv /\ [Next]_vars => [cpu.depth > 0 => cpu'.th = cpu.th]_vars
  <2> SUFFICES ASSUME IInv, [Next]_vars, cpu.depth > 0
               PROVE  cpu'.th = cpu.th
    OBVIOUS
  <2>1. cpu \in Context /\ PREEMPT_COUNT = cpu.depth
    BY DEF IInv, TypeOK, CountOK
  <2>2. ~TickSwitch
    BY <2>1 DEF TickSwitch, MaySwitch, Context
  <2>3. CASE ThreadStep
    BY <2>1, <2>3 DEF ThreadStep, SchedInit, SpawnCli, SpawnScan, SpawnAlloc,
       SpawnSetCtx, SpawnReturn, Start, PreemptDisableLoad, PreemptDisableStore,
       PreemptEnableLoad, PreemptEnableStore, KmemEnter, KmemLeave, TaskReturn,
       TaskExit, Goto, Context
  <2>4. CASE TimerInterrupt \/ TickIgnored \/ UNCHANGED vars
    BY <2>4 DEF TimerInterrupt, TickIgnored, vars
  <2> QED
    BY <2>2, <2>3, <2>4 DEF Next
<1> QED
  BY <1>1, Invariance, PTL DEF Spec, NoSwitchWhileDisabled

(* spawn() never takes over the slot of a task that can still run. *)
THEOREM VacantSlots == Spec => OnlyVacantSlotsTaken
<1> DEFINE Vacant == \A i \in Slots : stack'[i] # stack[i] =>
                        i # CURRENT /\ state[i] \in {"Empty", "Exited"}
<1>1. IInv /\ [Next]_vars => [Vacant]_vars
  <2> SUFFICES ASSUME IInv, [Next]_vars
               PROVE  Vacant
    OBVIOUS
  <2>1. CASE SpawnAlloc
    BY <2>1 DEF SpawnAlloc, At, tasks, IInv, TypeOK, CpuOK
  <2>2. CASE Next /\ ~SpawnAlloc
    <3>1. stack' = stack
      BY <2>2 DEF Next, ThreadStep, SchedInit, SpawnCli, SpawnScan,
         SpawnSetCtx, Start, PreemptDisableLoad, PreemptDisableStore,
         PreemptEnableLoad, PreemptEnableStore, KmemEnter, KmemLeave, TaskReturn,
         TaskExit, TimerInterrupt, TickIgnored, TickSwitch, tasks
    <3> QED
      BY <3>1
  <2>3. CASE UNCHANGED vars
    BY <2>3 DEF vars
  <2> QED
    BY <2>1, <2>2, <2>3
<1> QED
  BY <1>1, Invariance, PTL DEF Spec, OnlyVacantSlotsTaken

(* How far the scan from slot c has to go to reach slot i. *)
LEMMA Remainder ==
  ASSUME NEW M \in Nat \ {0}, NEW x \in Nat, x < 2 * M
  PROVE  x % M = IF x < M THEN x ELSE x - M
  OBVIOUS

LEMMA ScanDistance ==
  ASSUME NEW M \in Nat \ {0}, NEW c \in 0 .. M - 1, NEW i \in 0 .. M - 1
  PROVE  /\ ((i + M - 1 - c) % M) + 1 \in 1 .. M
         /\ (c + (((i + M - 1 - c) % M) + 1)) % M = i
         /\ (c + M - 1 - c) % M = M - 1
<1>1. /\ i + M - 1 - c \in Nat /\ i + M - 1 - c < 2 * M
      /\ c + M - 1 - c = M - 1 /\ M - 1 \in Nat /\ M - 1 < 2 * M
  OBVIOUS
<1>2. (c + M - 1 - c) % M = M - 1
  BY <1>1, Remainder
<1>3. CASE i + M - 1 - c < M
  <2>1. (i + M - 1 - c) % M = i + M - 1 - c
    BY <1>1, <1>3, Remainder
  <2>2. c + ((i + M - 1 - c) + 1) = i + M /\ i + M \in Nat /\ i + M < 2 * M
    OBVIOUS
  <2>3. (i + M) % M = i
    BY <2>2, Remainder
  <2> QED
    BY <1>2, <1>3, <2>1, <2>2, <2>3
<1>4. CASE i + M - 1 - c >= M
  <2>1. (i + M - 1 - c) % M = i - 1 - c
    <3>1. PICK x \in Nat : x = i + M - 1 - c
      BY <1>1
    <3>2. x < 2 * M /\ ~(x < M)
      BY <1>1, <1>4, <3>1
    <3>3. x % M = x - M
      BY <3>2, Remainder
    <3> QED
      BY <3>1, <3>3
  <2>2. c + ((i - 1 - c) + 1) = i /\ i < 2 * M
    OBVIOUS
  <2>3. i % M = i
    BY <2>2, Remainder
  <2> QED
    BY <1>2, <1>4, <2>1, <2>2, <2>3
<1> QED
  BY <1>1, <1>3, <1>4

LEMMA ScanStops ==
  ASSUME NEW M \in Nat \ {0}, NEW c \in 0 .. M - 1, NEW k \in 1 .. M
  PROVE  (((c + k) % M) + M - 1 - c) % M = k - 1
<1>1. c + k \in Nat /\ c + k < 2 * M
  OBVIOUS
<1>2. CASE c + k < M
  <2>1. (c + k) % M = c + k
    BY <1>1, <1>2, Remainder
  <2>2. (c + k) + M - 1 - c = k - 1 + M /\ k - 1 + M \in Nat /\ k - 1 + M < 2 * M
    OBVIOUS
  <2>3. (k - 1 + M) % M = k - 1
    <3>1. PICK x \in Nat : x = k - 1 + M
      BY <2>2
    <3>2. x < 2 * M /\ ~(x < M)
      BY <2>2, <3>1
    <3>3. x % M = x - M
      BY <3>2, Remainder
    <3> QED
      BY <3>1, <3>3
  <2> QED
    BY <2>1, <2>2, <2>3
<1>3. CASE c + k >= M
  <2>1. (c + k) % M = c + k - M
    <3>1. PICK x \in Nat : x = c + k
      BY <1>1
    <3>2. x < 2 * M /\ ~(x < M)
      BY <1>1, <1>3, <3>1
    <3>3. x % M = x - M
      BY <3>2, Remainder
    <3> QED
      BY <3>1, <3>3
  <2>2. (c + k - M) + M - 1 - c = k - 1 /\ k - 1 \in Nat /\ k - 1 < 2 * M /\ k - 1 < M
    OBVIOUS
  <2>3. (k - 1) % M = k - 1
    BY <2>2, Remainder
  <2> QED
    BY <2>1, <2>2, <2>3
<1> QED
  BY <1>1, <1>2, <1>3

(* The scan stops at the first Ready slot. *)
LEMMA PickNextFirst ==
  ASSUME NEW cur \in Slots, NEW st, ReadyAfter(cur, st) # {},
         NEW i \in Slots,
         (i + MAX_TASKS - 1 - cur) % MAX_TASKS
            < (PickNext(cur, st) + MAX_TASKS - 1 - cur) % MAX_TASKS
  PROVE  st[i] # "Ready" /\ i # cur
<1>1. /\ MAX_TASKS \in Nat \ {0}
      /\ cur \in 0 .. MAX_TASKS - 1 /\ i \in 0 .. MAX_TASKS - 1
  BY SchedConstants DEF Slots
<1>2. ReadyAfter(cur, st) \in SUBSET Nat
  BY <1>1 DEF ReadyAfter
<1>3. PICK k0 \in ReadyAfter(cur, st) :
         /\ PickNext(cur, st) = (cur + k0) % MAX_TASKS
         /\ \A j \in ReadyAfter(cur, st) : k0 <= j
  <2>1. \E k \in ReadyAfter(cur, st) : \A j \in ReadyAfter(cur, st) : k <= j
    BY <1>2, Least
  <2> QED
    BY <2>1 DEF PickNext
<1>4. k0 \in 1 .. MAX_TASKS
  BY DEF ReadyAfter
<1>5. (PickNext(cur, st) + MAX_TASKS - 1 - cur) % MAX_TASKS = k0 - 1
  BY <1>1, <1>3, <1>4, ScanStops
<1>6. PICK k \in 1 .. MAX_TASKS : /\ k = ((i + MAX_TASKS - 1 - cur) % MAX_TASKS) + 1
                                  /\ (cur + k) % MAX_TASKS = i
  BY <1>1, ScanDistance
<1>7. k < k0
  BY <1>1, <1>4, <1>5, <1>6
<1>8. k \notin ReadyAfter(cur, st)
  BY <1>2, <1>3, <1>7
<1>9. i # cur
  <2>1. (cur + MAX_TASKS - 1 - cur) % MAX_TASKS = MAX_TASKS - 1
    BY <1>1, ScanDistance
  <2> QED
    BY <1>1, <1>4, <1>5, <2>1
<1> QED
  BY <1>6, <1>8, <1>9 DEF ReadyAfter

(* Switches go round robin, for every number of slots: no Ready slot is     *)
(* passed over.                                                             *)
THEOREM SwitchesInTurn == Spec => RoundRobin
<1> DEFINE InTurn == CURRENT' # CURRENT =>
         /\ state[CURRENT'] = "Ready"
         /\ rsp0' = stack'[CURRENT']
         /\ \A i \in Slots :
              (i + MAX_TASKS - 1 - CURRENT) % MAX_TASKS
                 < (CURRENT' + MAX_TASKS - 1 - CURRENT) % MAX_TASKS
              => state[i] # "Ready"
<1>1. IInv /\ [Next]_vars => [InTurn]_vars
  <2> SUFFICES ASSUME IInv, [Next]_vars, CURRENT' # CURRENT
               PROVE  InTurn
    OBVIOUS
  <2>1. TickSwitch
    BY DEF Next, ThreadStep, SchedInit, SpawnCli, SpawnScan, SpawnAlloc, SpawnReturn,
       SpawnSetCtx, Start, PreemptDisableLoad, PreemptDisableStore,
       PreemptEnableLoad, PreemptEnableStore, KmemEnter, KmemLeave, TaskReturn,
       TaskExit, TimerInterrupt, TickIgnored, vars
  <2>2. CURRENT \in Slots /\ 0 \in Slots /\ state \in [Slots -> TaskState]
    BY SchedConstants DEF IInv, TypeOK, Slots
  <2>3. \A i \in Slots \ {CURRENT} : Demoted[i] = state[i]
    BY <2>2 DEF Demoted
  <2>4. /\ Demoted \in [Slots -> TaskState]
        /\ Demoted[0] = "Ready" \/ Demoted[CURRENT] = "Ready"
    BY <2>1, <2>2 DEF IInv, TypeOK, SlotsOK, CpuOK, Demoted, TaskState, TickSwitch
  <2>5. PICK n \in Slots : /\ n = PickNext(CURRENT, Demoted)
                           /\ ReadyAfter(CURRENT, Demoted) # {}
                           /\ Demoted[n] = "Ready"
    BY <2>2, <2>4, PickNextReady
  <2>6. CURRENT' = n /\ rsp0' = stack[n] /\ stack' = stack
    BY <2>1, <2>5 DEF TickSwitch, NothingToRun, KernelStackOf
  <2>7. ASSUME NEW i \in Slots,
               (i + MAX_TASKS - 1 - CURRENT) % MAX_TASKS
                  < (n + MAX_TASKS - 1 - CURRENT) % MAX_TASKS
        PROVE  state[i] # "Ready"
    <3>1. Demoted[i] # "Ready" /\ i # CURRENT
      BY <2>2, <2>5, <2>7, PickNextFirst
    <3> QED
      BY <2>3, <3>1
  <2> QED
    BY <2>3, <2>5, <2>6, <2>7
<1> QED
  BY <1>1, Invariance, PTL DEF Spec, RoundRobin
=============================================================================
