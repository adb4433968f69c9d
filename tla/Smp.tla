-------------------------------- MODULE Smp --------------------------------
(***************************************************************************)
(* Start of the other CPUs, src/kern/arch/x86_64/smp.rs: the boot CPU      *)
(* sends every application processor (AP) to ap_entry, waits until all     *)
(* have reported, and lets them go.                                        *)
(***************************************************************************)
EXTENDS Naturals, FiniteSets

CONSTANTS CPUs,       \* the processors in the boot loader's list
          BSP,        \* the one that executes smp::init
          MAX_CPUS,   \* entries of CPU_ONLINE
          lapic_id    \* the id of each processor

ASSUME SmpConstants ==
    /\ IsFiniteSet(CPUs)
    /\ BSP \in CPUs
    /\ MAX_CPUS \in Nat \ {0}
    /\ lapic_id \in [CPUs -> Nat]

APs == CPUs \ {BSP}

OnlineSlots == 0 .. MAX_CPUS - 1

VARIABLES sent,        \* APs whose goto_address is written
          CPU_ONLINE,  \* entries that are true
          APS_READY,
          ALL_GO,
          stage

smpVars == <<sent, CPU_ONLINE, APS_READY, ALL_GO, stage>>

SmpInit ==
    /\ sent = {}
    /\ CPU_ONLINE = {}
    /\ APS_READY = 0
    /\ ALL_GO = FALSE
    /\ stage = [c \in CPUs |-> IF c = BSP THEN "online" ELSE "parked"]

GotoStage(c, l) == stage' = [stage EXCEPT ![c] = l]

SlotOf(c) == lapic_id[c] % MAX_CPUS

(* The boot CPU marks itself online. *)
BspOnline ==
    /\ stage[BSP] = "online"
    /\ CPU_ONLINE' = CPU_ONLINE \cup {SlotOf(BSP)}
    /\ GotoStage(BSP, "send")
    /\ UNCHANGED <<sent, APS_READY, ALL_GO>>

(* goto_address.write(ap_entry) for the next processor of the list. *)
SendAp(c) ==
    /\ stage[BSP] = "send"
    /\ c \in APs \ sent
    /\ sent' = sent \cup {c}
    /\ UNCHANGED <<CPU_ONLINE, APS_READY, ALL_GO, stage>>

SendDone ==
    /\ stage[BSP] = "send"
    /\ sent = APs
    /\ GotoStage(BSP, "wait")
    /\ UNCHANGED <<sent, CPU_ONLINE, APS_READY, ALL_GO>>

(* Mutant: the boot CPU waits for one report too few. *)
AllReported_OffByOne == APS_READY + 1 >= Cardinality(CPUs) - 1

(* The condition that ends the spin loop. *)
AllReported == APS_READY >= Cardinality(CPUs) - 1

BspGo ==
    /\ stage[BSP] = "wait"
    /\ AllReported
    /\ ALL_GO' = TRUE
    /\ GotoStage(BSP, "done")
    /\ UNCHANGED <<sent, CPU_ONLINE, APS_READY>>

(* Mutant: the AP reports without marking itself online. *)
ApOnline_Unmarked(c) ==
    /\ c \in sent
    /\ stage[c] = "parked"
    /\ GotoStage(c, "report")
    /\ UNCHANGED <<sent, CPU_ONLINE, APS_READY, ALL_GO>>

(* An AP starts in ap_entry once its goto_address is written, and marks     *)
(* itself online.                                                           *)
ApOnline(c) ==
    /\ c \in sent
    /\ stage[c] = "parked"
    /\ CPU_ONLINE' = CPU_ONLINE \cup {SlotOf(c)}
    /\ GotoStage(c, "report")
    /\ UNCHANGED <<sent, APS_READY, ALL_GO>>

(* Mutant: a store in place of fetch_add. *)
ApReport_Store(c) ==
    /\ stage[c] = "report"
    /\ APS_READY' = 1
    /\ GotoStage(c, "wait")
    /\ UNCHANGED <<sent, CPU_ONLINE, ALL_GO>>

(* APS_READY.fetch_add(1) *)
ApReport(c) ==
    /\ stage[c] = "report"
    /\ APS_READY' = APS_READY + 1
    /\ GotoStage(c, "wait")
    /\ UNCHANGED <<sent, CPU_ONLINE, ALL_GO>>

(* The spin loop on ALL_GO ends; the AP halts. *)
ApGo(c) ==
    /\ c # BSP
    /\ stage[c] = "wait"
    /\ ALL_GO
    /\ GotoStage(c, "halt")
    /\ UNCHANGED <<sent, CPU_ONLINE, APS_READY, ALL_GO>>

CpuStep(c) ==
    IF c = BSP THEN BspOnline \/ (\E d \in APs : SendAp(d)) \/ SendDone \/ BspGo
               ELSE ApOnline(c) \/ ApReport(c) \/ ApGo(c)

SmpNext == \E c \in CPUs : CpuStep(c)

(* Every processor keeps executing. *)
SmpFairness == \A c \in CPUs : WF_smpVars(CpuStep(c))

SmpSpec == SmpInit /\ [][SmpNext]_smpVars

SmpFairSpec == SmpSpec /\ SmpFairness

-----------------------------------------------------------------------------
online_count == Cardinality(CPU_ONLINE)

Reported == {c \in APs : stage[c] \in {"wait", "halt"}}

(* The boot CPU leaves the barrier, and no AP leaves it, before every AP    *)
(* has initialised itself, is marked online and has reported.               *)
BarrierSafe ==
    ALL_GO \/ (\E c \in APs : stage[c] = "halt") =>
        /\ Reported = APs
        /\ \A c \in CPUs : SlotOf(c) \in CPU_ONLINE

(* After the barrier, main.rs prints the number of CPUs.  CPUs whose APIC   *)
(* ids agree modulo MAX_CPUS count once, all others count: the number is    *)
(* never too large, and exact when no two ids agree.                        *)
OnlineCountExact ==
    stage[BSP] = "done" =>
        /\ online_count = Cardinality({SlotOf(c) : c \in CPUs})
        /\ online_count <= Cardinality(CPUs)
        /\ (\A c, d \in CPUs : SlotOf(c) = SlotOf(d) => c = d)
              => online_count = Cardinality(CPUs)

(* The barrier opens: smp::init returns and every AP reaches its idle loop. *)
BarrierOpens == <>(stage[BSP] = "done" /\ \A c \in APs : stage[c] = "halt")

-----------------------------------------------------------------------------
(* Inductive: the counter is the number of APs that have reported. *)
SmpInv ==
    /\ sent \subseteq APs
    /\ CPU_ONLINE \subseteq OnlineSlots
    /\ APS_READY = Cardinality(Reported)
    /\ ALL_GO \in BOOLEAN
    /\ stage \in [CPUs -> {"online", "send", "wait", "done", "parked", "report", "halt"}]
    /\ stage[BSP] \in {"online", "send", "wait", "done"}
    /\ \A c \in APs : stage[c] \in {"parked", "report", "wait", "halt"}
    /\ stage[BSP] # "online" => SlotOf(BSP) \in CPU_ONLINE
    /\ \A c \in APs : stage[c] # "parked" => SlotOf(c) \in CPU_ONLINE
    /\ ALL_GO <=> stage[BSP] = "done"
    /\ ALL_GO => Reported = APs
    /\ (\E c \in APs : stage[c] = "halt") => ALL_GO
=============================================================================
