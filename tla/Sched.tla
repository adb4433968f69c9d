------------------------------- MODULE Sched -------------------------------
(***************************************************************************)
(* The preemptive round robin scheduler of src/kern/sched.rs on the one    *)
(* CPU that runs tasks, with the timer interrupt that drives it and the    *)
(* code that calls it: the boot thread (_start), the loaded kernel modules *)
(* and the shell.                                                          *)
(*                                                                         *)
(* A thread is identified by the stack it runs on.  A context is what      *)
(* save_ctx stores and load_ctx restores (rip is pc, IF is iflag, one      *)
(* general register is reg) together with what lives on that stack:        *)
(* how often the thread disabled preemption (depth), how much of its       *)
(* finite work is left, and the threads it still has to spawn.             *)
(***************************************************************************)
EXTENDS Naturals, Sequences

CONSTANTS MAX_TASKS,    \* number of task slots
          Stacks,       \* the stacks mem::alloc_pages can hand out, numbered
                        \* in the order in which it does
          BootStack,    \* the stack _start runs on
          NoStack,      \* stack_base = 0
          KernelStack,  \* the rsp0 that tss::init installs
          BootSpawns,   \* kinds of the threads _start spawns, in order
          LateSpawns,   \* kinds a "spawner" thread spawns while tasks run
          MaxWork,      \* bound: preempt_disable and allocator calls of a module
          MaxNest       \* bound: nesting of preempt_disable in a module

Kinds == {"module", "shell", "spawner"}

ASSUME SchedConstants ==
    /\ MAX_TASKS \in Nat \ {0}
    /\ MaxWork \in Nat
    /\ MaxNest \in Nat
    /\ BootSpawns \in Seq(Kinds)
    /\ LateSpawns \in Seq(Kinds)
    /\ Stacks \subseteq Nat
    /\ NoStack \notin Stacks
    /\ BootStack \notin Stacks
    /\ BootStack # NoStack
    /\ KernelStack \notin Stacks

Slots == 0 .. MAX_TASKS - 1

TaskState == {"Empty", "Ready", "Running", "Exited"}

Labels == {"null", "init", "own", "pd", "pe", "kmem",
           "sp_scan", "sp_alloc", "sp_ctx", "exit", "halt"}

Context == [th     : Stacks \cup {BootStack, NoStack},
            pc     : Labels,
            iflag  : BOOLEAN,
            reg    : Nat,
            depth  : Nat,
            work   : Nat,
            kind   : Kinds \cup {"boot", "none"},
            spawns : Seq(Kinds)]

VARIABLES state,          \* TASKS[i].state
          stack,          \* TASKS[i].stack_base
          ctx,            \* TASKS[i].rip .. TASKS[i].r15
          CURRENT,
          ACTIVE,
          PREEMPT_COUNT,
          rsp0,           \* TSS.rsp0
          timerOn,        \* handler registered, PIT running, IRQ0 unmasked
          isr,            \* what the CPU executes: "none" or the "timer" handler
          inService,      \* IRQ0 bit of the PIC's in-service register
          cpu,            \* registers of the CPU: the interrupted ones during isr
          used            \* stacks alloc_pages has handed out

tasks == <<state, stack, ctx>>
vars == <<state, stack, ctx, CURRENT, ACTIVE, PREEMPT_COUNT, rsp0,
          timerOn, isr, inService, cpu, used>>

(* Task::empty(): all registers are zero. *)
EmptyCtx == [th |-> NoStack, pc |-> "null", iflag |-> FALSE, reg |-> 0,
             depth |-> 0, work |-> 0, kind |-> "none", spawns |-> <<>>]

(* rip = task_trampoline, rsp = top of the new stack, rflags = 0x202. *)
EntryCtx(s, k) ==
    [th |-> s, pc |-> "own", iflag |-> TRUE, reg |-> 0, depth |-> 0,
     work |-> MaxWork, kind |-> k,
     spawns |-> IF k = "spawner" THEN LateSpawns ELSE <<>>]

(* _start when it reaches sched::init; main.rs:276 has enabled interrupts. *)
BootCtx == [th |-> BootStack, pc |-> "init", iflag |-> TRUE, reg |-> 0,
            depth |-> 0, work |-> 0, kind |-> "boot", spawns |-> BootSpawns]

Init ==
    /\ state = [i \in Slots |-> "Empty"]
    /\ stack = [i \in Slots |-> NoStack]
    /\ ctx = [i \in Slots |-> EmptyCtx]
    /\ CURRENT = 0
    /\ ACTIVE = FALSE
    /\ PREEMPT_COUNT = 0
    /\ rsp0 = KernelStack
    /\ timerOn = FALSE
    /\ isr = "none"
    /\ inService = FALSE
    /\ cpu = BootCtx
    /\ used = {}

-----------------------------------------------------------------------------
(* The thread on the CPU is at pc and no interrupt handler is running. *)
At(pc) == isr = "none" /\ cpu.pc = pc

Goto(pc) == cpu' = [cpu EXCEPT !.pc = pc]

(* init(): slot 0 is the boot thread; from here IRQ0 can arrive. *)
SchedInit ==
    /\ At("init")
    /\ state' = [state EXCEPT ![0] = "Running"]
    /\ timerOn' = TRUE
    /\ Goto("own")
    /\ UNCHANGED <<stack, ctx, CURRENT, ACTIVE, PREEMPT_COUNT, rsp0, isr,
                   inService, used>>

(* Mutant: spawn() without cpu::cli(). *)
SpawnCli_NoCli ==
    /\ At("own")
    /\ cpu.spawns # <<>>
    /\ Goto("sp_scan")
    /\ UNCHANGED <<tasks, CURRENT, ACTIVE, PREEMPT_COUNT, rsp0, timerOn, isr,
                   inService, used>>

(* spawn() up to the scan: cpu::cli(). *)
SpawnCli ==
    /\ At("own")
    /\ cpu.spawns # <<>>
    /\ cpu' = [cpu EXCEPT !.pc = "sp_scan", !.iflag = FALSE]
    /\ UNCHANGED <<tasks, CURRENT, ACTIVE, PREEMPT_COUNT, rsp0, timerOn, isr,
                   inService, used>>

(* Mutant: the scan takes every slot that is not Running. *)
FreeSlots_NotRunning == {i \in Slots \ {0} : state[i] # "Running"}

FreeSlots == {i \in Slots \ {0} : state[i] \in {"Empty", "Exited"}}

IsFirst(i, S) == i \in S /\ \A j \in S : i <= j

(* Every return of spawn() executes cpu::sti() first. *)
SpawnReturn == cpu' = [cpu EXCEPT !.pc = "own", !.iflag = TRUE,
                                  !.spawns = Tail(cpu.spawns)]

(* The scan for the lowest Empty or Exited slot above slot 0. *)
SpawnScan ==
    /\ At("sp_scan")
    /\ \/ \E i \in Slots : /\ IsFirst(i, FreeSlots)
                           /\ cpu' = [cpu EXCEPT !.pc = "sp_alloc", !.reg = i]
       \/ FreeSlots = {} /\ SpawnReturn
    /\ UNCHANGED <<tasks, CURRENT, ACTIVE, PREEMPT_COUNT, rsp0, timerOn, isr,
                   inService, used>>

(* mem::alloc_pages(TASK_STACK_ORDER) fails, at any time, or gives a stack  *)
(* not handed out before (stacks are never freed): the next number.  Then   *)
(* *task is cleared and becomes Ready while its registers are still zero.   *)
SpawnAlloc ==
    /\ At("sp_alloc")
    /\ \/ \E s \in Stacks \ used :
            /\ IsFirst(s, Stacks \ used)
            /\ used' = used \cup {s}
            /\ state' = [state EXCEPT ![cpu.reg] = "Ready"]
            /\ stack' = [stack EXCEPT ![cpu.reg] = s]
            /\ ctx' = [ctx EXCEPT ![cpu.reg] = EmptyCtx]
            /\ Goto("sp_ctx")
       \/ SpawnReturn /\ UNCHANGED <<tasks, used>>
    /\ UNCHANGED <<CURRENT, ACTIVE, PREEMPT_COUNT, rsp0, timerOn, isr, inService>>

(* The registers of the new task are set and spawn() returns Some(i). *)
SpawnSetCtx ==
    /\ At("sp_ctx")
    /\ ctx' = [ctx EXCEPT ![cpu.reg] = EntryCtx(stack[cpu.reg], Head(cpu.spawns))]
    /\ SpawnReturn
    /\ UNCHANGED <<state, stack, CURRENT, ACTIVE, PREEMPT_COUNT, rsp0, timerOn,
                   isr, inService, used>>

(* start(): the boot thread becomes the idle task. *)
Start ==
    /\ At("own")
    /\ cpu.kind = "boot"
    /\ cpu.spawns = <<>>
    /\ ACTIVE' = TRUE
    /\ Goto("halt")
    /\ UNCHANGED <<tasks, CURRENT, PREEMPT_COUNT, rsp0, timerOn, isr, inService,
                   used>>

-----------------------------------------------------------------------------
(* A module between two calls of the API it was given. *)
InModule == At("own") /\ cpu.kind = "module"

(* PREEMPT_COUNT += 1 on a static mut is a load and a store. *)
PreemptDisableLoad ==
    /\ InModule
    /\ cpu.work > 0
    /\ cpu.depth < MaxNest
    /\ cpu' = [cpu EXCEPT !.pc = "pd", !.reg = PREEMPT_COUNT, !.work = @ - 1]
    /\ UNCHANGED <<tasks, CURRENT, ACTIVE, PREEMPT_COUNT, rsp0, timerOn, isr,
                   inService, used>>

PreemptDisableStore ==
    /\ At("pd")
    /\ PREEMPT_COUNT' = cpu.reg + 1
    /\ cpu' = [cpu EXCEPT !.pc = "own", !.depth = @ + 1]
    /\ UNCHANGED <<tasks, CURRENT, ACTIVE, rsp0, timerOn, isr, inService, used>>

(* A module enables preemption only where it disabled it. *)
PreemptEnableLoad ==
    /\ InModule
    /\ cpu.depth > 0
    /\ cpu' = [cpu EXCEPT !.pc = "pe", !.reg = PREEMPT_COUNT]
    /\ UNCHANGED <<tasks, CURRENT, ACTIVE, PREEMPT_COUNT, rsp0, timerOn, isr,
                   inService, used>>

(* Mutant: enabling ends all nesting levels at once. *)
PreemptEnableStore_Reset ==
    /\ At("pe")
    /\ PREEMPT_COUNT' = 0
    /\ cpu' = [cpu EXCEPT !.pc = "own", !.depth = @ - 1]
    /\ UNCHANGED <<tasks, CURRENT, ACTIVE, rsp0, timerOn, isr, inService, used>>

PreemptEnableStore ==
    /\ At("pe")
    /\ PREEMPT_COUNT' = IF cpu.reg > 0 THEN cpu.reg - 1 ELSE PREEMPT_COUNT
    /\ cpu' = [cpu EXCEPT !.pc = "own", !.depth = @ - 1]
    /\ UNCHANGED <<tasks, CURRENT, ACTIVE, rsp0, timerOn, isr, inService, used>>

(* api.alloc and api.free run the allocator, which has no lock: modules     *)
(* call them between disable_preempt and enable_preempt.                    *)
KmemEnter ==
    /\ InModule
    /\ cpu.depth > 0
    /\ cpu.work > 0
    /\ cpu' = [cpu EXCEPT !.pc = "kmem", !.work = @ - 1]
    /\ UNCHANGED <<tasks, CURRENT, ACTIVE, PREEMPT_COUNT, rsp0, timerOn, isr,
                   inService, used>>

KmemLeave ==
    /\ At("kmem")
    /\ Goto("own")
    /\ UNCHANGED <<tasks, CURRENT, ACTIVE, PREEMPT_COUNT, rsp0, timerOn, isr,
                   inService, used>>

(* task_trampoline: the entry function returned; task_exit executes cli.    *)
(* The shell never returns.                                                 *)
TaskReturn ==
    /\ At("own")
    /\ cpu.kind \in {"module", "spawner"}
    /\ cpu.depth = 0
    /\ cpu.spawns = <<>>
    /\ cpu' = [cpu EXCEPT !.pc = "exit", !.iflag = FALSE]
    /\ UNCHANGED <<tasks, CURRENT, ACTIVE, PREEMPT_COUNT, rsp0, timerOn, isr,
                   inService, used>>

(* task_exit() after cli: the slot is marked, sti, then the hlt loop. *)
TaskExit ==
    /\ At("exit")
    /\ state' = [state EXCEPT ![CURRENT] = "Exited"]
    /\ cpu' = [cpu EXCEPT !.pc = "halt", !.iflag = TRUE]
    /\ UNCHANGED <<stack, ctx, CURRENT, ACTIVE, PREEMPT_COUNT, rsp0, timerOn,
                   isr, inService, used>>

ThreadStep ==
    \/ SchedInit \/ SpawnCli \/ SpawnScan \/ SpawnAlloc \/ SpawnSetCtx \/ Start
    \/ PreemptDisableLoad \/ PreemptDisableStore
    \/ PreemptEnableLoad \/ PreemptEnableStore
    \/ KmemEnter \/ KmemLeave \/ TaskReturn \/ TaskExit

-----------------------------------------------------------------------------
(* The PIT raises IRQ0: the CPU takes it when IF is set and the PIC has no  *)
(* IRQ0 in service; the interrupt gate clears IF for the whole handler.     *)
TimerInterrupt ==
    /\ isr = "none"
    /\ timerOn
    /\ cpu.iflag
    /\ ~inService
    /\ isr' = "timer"
    /\ inService' = TRUE
    /\ UNCHANGED <<tasks, CURRENT, ACTIVE, PREEMPT_COUNT, rsp0, timerOn, cpu, used>>

(* pic::eoi(0) and iretq. *)
EoiReturn == inService' = FALSE /\ isr' = "none"

TickIgnored ==
    /\ isr = "timer"
    /\ ~ACTIVE \/ PREEMPT_COUNT > 0
    /\ EoiReturn
    /\ UNCHANGED <<tasks, CURRENT, ACTIVE, PREEMPT_COUNT, rsp0, timerOn, cpu, used>>

(* Mutant: the scan starts two slots after cur. *)
ReadyAfter_SkipsOne(cur, st) ==
    {k \in 2 .. MAX_TASKS : st[(cur + k) % MAX_TASKS] = "Ready"}

(* How far after cur the scan finds a Ready slot. *)
ReadyAfter(cur, st) == {k \in 1 .. MAX_TASKS : st[(cur + k) % MAX_TASKS] = "Ready"}

(* Mutant: the scan restarts at slot 0 on every tick. *)
PickNext_FromZero(cur, st) ==
    IF \A i \in Slots : st[i] # "Ready" THEN 0
    ELSE CHOOSE i \in Slots : /\ st[i] = "Ready"
                              /\ \A j \in Slots : st[j] = "Ready" => i <= j

(* The scan from the slot after cur, with its fallback to slot 0. *)
PickNext(cur, st) ==
    IF ReadyAfter(cur, st) = {} THEN 0
    ELSE (cur + (CHOOSE k \in ReadyAfter(cur, st) :
                    \A j \in ReadyAfter(cur, st) : k <= j)) % MAX_TASKS

(* Mutant: an exited task is put back in the ready set. *)
Demoted_Always == [state EXCEPT ![CURRENT] = "Ready"]

(* The state array after the interrupted task was taken off the CPU. *)
Demoted == IF state[CURRENT] = "Running" THEN [state EXCEPT ![CURRENT] = "Ready"]
                                         ELSE state

SavedCtx == [ctx EXCEPT ![CURRENT] = cpu]

(* Mutant: the preemption count is not tested. *)
MaySwitch_NoCount == ACTIVE

(* The test that guards the rest of timer_tick. *)
MaySwitch == ACTIVE /\ PREEMPT_COUNT = 0

(* stack_base + stack_size of the next task, handed to set_kernel_stack;    *)
(* zero for slot 0, which has neither.                                      *)
KernelStackOf(next) == stack[next]

(* No slot is Ready and the idle task has exited: the handler returns to    *)
(* the interrupted task.                                                    *)
NothingToRun == ReadyAfter(CURRENT, Demoted) = {} /\ Demoted[0] = "Exited"

TickSwitch ==
    /\ isr = "timer"
    /\ MaySwitch
    /\ LET next == PickNext(CURRENT, Demoted)
       IN  IF NothingToRun
           THEN /\ state' = Demoted
                /\ ctx' = SavedCtx
                /\ UNCHANGED <<CURRENT, cpu, rsp0>>
           ELSE /\ state' = [Demoted EXCEPT ![next] = "Running"]
                /\ ctx' = SavedCtx
                /\ CURRENT' = next
                /\ cpu' = SavedCtx[next]
                /\ rsp0' = KernelStackOf(next)
    /\ EoiReturn
    /\ UNCHANGED <<stack, ACTIVE, PREEMPT_COUNT, timerOn, used>>

(* The idle loop: every thread is in its final loop and only ticks remain. *)
Next == ThreadStep \/ TimerInterrupt \/ TickIgnored \/ TickSwitch

(* The PIT keeps raising IRQ0 and a handler runs to its end; its period is  *)
(* far longer than the handler, so the interrupted thread executes too.     *)
Fairness ==
    /\ WF_vars(TimerInterrupt)
    /\ WF_vars(TickIgnored \/ TickSwitch)
    /\ \A t \in Stacks \cup {BootStack} : SF_vars(ThreadStep /\ cpu.th = t)

Spec == Init /\ [][Next]_vars

FairSpec == Spec /\ Fairness

-----------------------------------------------------------------------------
(* Types: in particular CURRENT is always a slot, for the indexing of TASKS  *)
(* in timer_tick, and rsp0 is a stack or its boot value.                    *)
TypeOK ==
    /\ state \in [Slots -> TaskState]
    /\ stack \in [Slots -> Stacks \cup {NoStack}]
    /\ ctx \in [Slots -> Context]
    /\ CURRENT \in Slots
    /\ ACTIVE \in BOOLEAN
    /\ PREEMPT_COUNT \in Nat
    /\ rsp0 \in Stacks \cup {NoStack, KernelStack}
    /\ timerOn \in BOOLEAN
    /\ isr \in {"none", "timer"}
    /\ inService \in BOOLEAN
    /\ cpu \in Context
    /\ used \subseteq Stacks

(* The thread a slot stands for: its stack, or the boot stack for slot 0. *)
ThreadOf(i) == IF i = 0 THEN BootStack ELSE stack[i]

(* The slots whose saved context is the continuation of a thread. *)
Parked(i) == i # CURRENT /\ state[i] = "Ready"

(* Whenever a timer interrupt can arrive, the CPU runs the thread of slot   *)
(* CURRENT, no other slot is marked Running, and every other Ready slot     *)
(* holds a context that can be resumed: on its own stack, not cleared, with *)
(* interrupts enabled.  A tick can therefore never load registers that      *)
(* spawn() has not written yet, nor the registers of another task.          *)
ContextIntegrity ==
    cpu.iflag /\ timerOn =>
        /\ cpu.th = ThreadOf(CURRENT)
        /\ cpu.pc # "null"
        /\ \A i \in Slots \ {CURRENT} : state[i] # "Running"
        /\ \A i \in Slots : Parked(i) => /\ ctx[i].th = ThreadOf(i)
                                         /\ ctx[i].pc # "null"
                                         /\ ctx[i].iflag

(* spawn() takes a slot over only when no task can still run from it: it is *)
(* vacant and is not the slot the CPU is executing.                         *)
OnlyVacantSlotsTaken ==
    [][\A i \in Slots : stack'[i] # stack[i] =>
          i # CURRENT /\ state[i] \in {"Empty", "Exited"}]_vars

(* The count that timer_tick tests is exactly the nesting depth of the      *)
(* thread on the CPU, although preempt_disable and preempt_enable are       *)
(* unprotected read-modify-writes that a tick can split; a parked task      *)
(* holds no preemption lock.                                                *)
PreemptExact ==
    /\ PREEMPT_COUNT = cpu.depth
    /\ \A i \in Slots : Parked(i) => ctx[i].depth = 0

InAllocator(c) == c.pc \in {"kmem", "sp_alloc"}

(* The buddy and slab allocators have no lock: no task is ever parked in    *)
(* the middle of one of their operations, so only the thread on the CPU can *)
(* be inside.                                                               *)
AllocExclusive ==
    \A i \in Slots : Parked(i) => ~InAllocator(ctx[i])

(* A task that disabled preemption keeps the CPU until it enabled it.       *)
NoSwitchWhileDisabled == [][cpu.depth > 0 => cpu'.th = cpu.th]_vars

(* Ticks go round robin: a switch never passes over a Ready slot between    *)
(* the old and the new current slot, never resumes an Empty or Exited one,  *)
(* and leaves the stack of the task it resumes for the interrupts that come *)
(* from ring 3.                                                             *)
RoundRobin ==
    [][CURRENT' # CURRENT =>
         /\ state[CURRENT'] = "Ready"
         /\ rsp0' = stack'[CURRENT']
         /\ \A i \in Slots :
              (i + MAX_TASKS - 1 - CURRENT) % MAX_TASKS
                 < (CURRENT' + MAX_TASKS - 1 - CURRENT) % MAX_TASKS
              => state[i] # "Ready"]_vars

(* Starvation freedom: once scheduling has started, a Ready slot is run.    *)
ReadyRuns == \A i \in Slots : ACTIVE /\ state[i] = "Ready" ~> state[i] = "Running"

(* A module that was spawned finishes its work and, once it has exited, is  *)
(* never resumed, although ticks keep interrupting its final hlt loop, for  *)
(* as long as its slot is not given to a new task with a stack of its own.  *)
ModulesFinish ==
    \A i \in Slots, s \in Stacks :
        ACTIVE /\ state[i] = "Ready" /\ ctx[i].kind = "module" /\ stack[i] = s
            ~> [](stack[i] = s => state[i] = "Exited")

-----------------------------------------------------------------------------
(* The parts of the inductive invariant. *)

(* Until sched::init() runs, the boot thread is alone and IRQ0 is masked. *)
BootPhase ==
    /\ cpu.pc = "init" <=> ~timerOn
    /\ ~timerOn => /\ \A i \in Slots : state[i] = "Empty"
                   /\ ~ACTIVE
                   /\ CURRENT = 0
                   /\ isr = "none"

(* What the CPU executes, by program counter. *)
CpuOK ==
    /\ cpu.th = ThreadOf(CURRENT)
    /\ cpu.pc # "null"
    /\ cpu.kind = "boot" <=> CURRENT = 0
    /\ cpu.kind # "none"
    /\ cpu.iflag <=> cpu.pc \notin {"sp_scan", "sp_alloc", "sp_ctx", "exit"}
    /\ cpu.pc \in {"sp_scan", "sp_alloc", "sp_ctx"} => cpu.spawns # <<>>
    /\ cpu.pc \in {"sp_alloc", "sp_ctx"} => cpu.reg \in Slots \ {0, CURRENT}
    /\ cpu.pc = "sp_alloc" => state[cpu.reg] \in {"Empty", "Exited"}
    /\ cpu.pc = "sp_ctx" => /\ state[cpu.reg] = "Ready"
                            /\ stack[cpu.reg] \in Stacks
                            /\ ctx[cpu.reg].depth = 0
                            /\ ~InAllocator(ctx[cpu.reg])
    /\ cpu.pc = "exit" => cpu.kind \in {"module", "spawner"}
    /\ isr = "timer" => cpu.iflag /\ timerOn

(* The preemption count belongs to the thread on the CPU. *)
CountOK ==
    /\ PREEMPT_COUNT = cpu.depth
    /\ cpu.pc \in {"pd", "pe"} => cpu.reg = PREEMPT_COUNT
    /\ cpu.pc \in {"pe", "kmem"} => cpu.depth > 0
    /\ cpu.pc \in {"pd", "pe", "kmem"} => cpu.kind = "module"
    /\ cpu.depth > 0 => cpu.pc \in {"own", "pd", "pe", "kmem"}
    /\ cpu.depth > 0 => cpu.kind = "module"
    /\ cpu.kind = "module" => cpu.spawns = <<>>

(* A context a tick may load into the CPU for slot i. *)
Resumable(i) ==
    LET c == ctx[i]
    IN  /\ c.th = ThreadOf(i)
        /\ c.iflag
        /\ c.depth = 0
        /\ c.pc \in {"own", "pd", "halt"}
        /\ c.pc = "pd" => c.reg = 0 /\ c.kind = "module"
        /\ c.kind = "boot" <=> i = 0
        /\ c.kind # "none"
        /\ c.kind = "module" => c.spawns = <<>>

(* The slots: one current, the idle task alive, the others resumable but    *)
(* for the one spawn() is filling in.                                       *)
SlotsOK ==
    /\ timerOn => /\ state[0] \in {"Ready", "Running"}
                  /\ state[CURRENT] \in {"Running", "Exited"}
                  /\ state[CURRENT] = "Exited" => cpu.pc = "halt"
    /\ \A i \in Slots \ {CURRENT} : state[i] # "Running"
    /\ \A i \in Slots : Parked(i) /\ ~(cpu.pc = "sp_ctx" /\ cpu.reg = i)
                            => Resumable(i)

(* Inductive: implies ContextIntegrity, PreemptExact and AllocExclusive. *)
IInv == TypeOK /\ BootPhase /\ CpuOK /\ CountOK /\ SlotsOK
=============================================================================
