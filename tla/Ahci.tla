-------------------------------- MODULE Ahci --------------------------------
(***************************************************************************)
(* One disk port of the AHCI driver (src/kern/drv/disk/ahci.rs) with the   *)
(* byte reads that ext3 makes through it (src/kern/fs/ext3/block.rs), and  *)
(* the host bus adapter (HBA) on the other side of the registers.  The     *)
(* driver polls; every wait is bounded, so the HBA may still be executing  *)
(* a command that the driver has given up.                                 *)
(*                                                                         *)
(* Byte i of the disk is the number i.  A page stands for the block that   *)
(* kmalloc_aligned returns.                                                *)
(***************************************************************************)
EXTENDS Naturals, FiniteSets

CONSTANTS SECTOR,      \* bytes of a sector
          U16,         \* how many values a u16 has
          NPages,      \* pages the allocator can hand out
          Offsets,     \* byte offsets asked of read_bytes
          Counts,      \* byte counts asked of read_bytes
          Junk,        \* a byte of memory nothing was read into
          NoCmd        \* the HBA executes no command

ASSUME AhciConstants ==
    /\ SECTOR \in Nat \ {0}
    /\ U16 \in Nat \ {0}
    /\ NPages \in Nat
    /\ Offsets \subseteq Nat
    /\ Counts \subseteq Nat
    /\ Junk \notin Nat
    /\ NoCmd \notin [lba : Nat, sectors : Nat, bytes : Nat, buf : Nat, done : Nat,
                     late : BOOLEAN]

Pages == 1 .. NPages

VARIABLES
    \* the port registers
    ST, CR,         \* PxCMD: start, command list running
    CI,             \* PxCI bit 0
    BSY, ERR,       \* PxTFD
    TFES,           \* PxIS bit 30
    \* memory
    pool,           \* free pages
    content,        \* content of each page, by byte
    table,          \* command header, table and FIS of the port
    \* the HBA
    exec,           \* the command it executes
    halted,         \* it stopped after a task file error
    prompt,         \* ghost: no wait ended before it had fetched the command
    \* the driver
    ACTIVE_PORTS,   \* the bit of this port
    pc,
    req,            \* the byte range asked for; the first is that of IDENTIFY
    buf,            \* the buffer of the command in progress
    ok,             \* result of read_sectors
    res,            \* result of the last read_bytes
    kept            \* ghost: pages that were taken when init() returned

registers == <<ST, CR, CI, BSY, ERR, TFES>>
hba == <<exec, halted, prompt>>
vars == <<registers, pool, content, table, hba, ACTIVE_PORTS, pc, req, buf, ok, res, kept>>

(* The boot loader leaves the port idle, its command list running or not. *)
Init ==
    /\ ST \in BOOLEAN /\ CR = ST
    /\ CI = FALSE /\ BSY = FALSE /\ ERR = FALSE /\ TFES = FALSE
    /\ pool = Pages
    /\ content = [p \in Pages |-> [i \in {} |-> Junk]]
    /\ table = NoCmd
    /\ exec = NoCmd /\ halted = FALSE /\ prompt = TRUE
    /\ ACTIVE_PORTS = FALSE
    /\ pc = "init"
    /\ req = [off |-> 0, count |-> SECTOR, identify |-> TRUE]
    /\ buf = 0
    /\ ok = FALSE
    /\ res = [ok |-> FALSE, off |-> 0, data |-> [i \in {} |-> Junk]]
    /\ kept = {}

Byte(p, i) == IF i \in DOMAIN content[p] THEN content[p][i] ELSE Junk

(* The blocks that k calls of kmalloc_aligned return: the first that are    *)
(* not in use.  This is what Kmem shows of it as long as no block was given *)
(* out twice; a buffer that has another owner too is Kmem's matter.         *)
Fresh(k) == {p \in pool : Cardinality({q \in pool : q < p}) < k}

-----------------------------------------------------------------------------
(* init() returns; the pages taken so far are never given back. *)
InitEnds == pc' = "idle" /\ kept' = Pages \ pool'

(* init() up to the port: the IDENTIFY buffer is allocated; there may be no *)
(* memory, no controller, or no ATA disk on the port.                       *)
FindDisk ==
    /\ pc = "init"
    /\ \/ UNCHANGED <<pool, buf>> /\ InitEnds
       \/ \E p \in Fresh(1) :
            /\ pool' = pool \ {p}
            /\ buf' = p
            /\ InitEnds \/ (pc' = "stop" /\ UNCHANGED kept)
    /\ UNCHANGED <<registers, content, table, hba, ACTIVE_PORTS, req, ok, res>>

(* stop_port() clears ST and FRE, ... *)
StopPort ==
    /\ pc = "stop"
    /\ ST' = FALSE
    /\ pc' = "stopping"
    /\ UNCHANGED <<CR, CI, BSY, ERR, TFES, pool, content, table, hba,
                   ACTIVE_PORTS, req, buf, ok, res, kept>>

(* ... and waits for CR to clear; when it gives up, init goes on.  Then     *)
(* init_port() allocates three pages: on failure it keeps what it has, and  *)
(* otherwise start_port() waits for CR again and sets ST.  The port is      *)
(* active and identify_device() is called.                                  *)
InitPort ==
    /\ pc = "stopping"
    /\ \/ /\ \E k \in 0 .. 2 : pool' = pool \ Fresh(k)
          /\ InitEnds
          /\ UNCHANGED <<TFES, ST, ACTIVE_PORTS>>
       \/ /\ Cardinality(pool) >= 3
          /\ pool' = pool \ Fresh(3)
          /\ TFES' = FALSE
          /\ ST' = TRUE
          /\ ACTIVE_PORTS' = TRUE
          /\ pc' = "ready"
          /\ UNCHANGED kept
    /\ UNCHANGED <<CR, CI, BSY, ERR, content, table, hba, req, buf, ok, res>>

-----------------------------------------------------------------------------
sector_start == req.off \div SECTOR

offset_in_sector == req.off % SECTOR

(* Mutant: the offset in the first sector is not counted. *)
sector_count_NoOffset(r) == (r.count + SECTOR - 1) \div SECTOR

(* How many sectors a request touches, ends included. *)
sector_count(r) == ((r.off % SECTOR) + r.count + SECTOR - 1) \div SECTOR

(* A u16 count of zero stands for 65536 sectors, in the byte count of the   *)
(* driver and for the disk.                                                 *)
AsSectors(n) == IF n % U16 = 0 THEN U16 ELSE n % U16

(* The callers, which read at most a file system block, stay within a u16. *)
ASSUME RequestsFit ==
    \A o \in Offsets, n \in Counts : sector_count([off |-> o, count |-> n]) <= U16

(* read_bytes() up to read_sectors(): nothing to read, no memory, or a      *)
(* buffer; a port that is not active is refused.                            *)
ReadBytes(off, count) ==
    /\ pc = "idle"
    /\ req' = [off |-> off, count |-> count, identify |-> FALSE]
    /\ \/ /\ count = 0
          /\ res' = [ok |-> TRUE, off |-> off, data |-> [i \in {} |-> Junk]]
          /\ UNCHANGED <<pool, pc, buf, ok>>
       \/ /\ count > 0
          /\ res' = [ok |-> FALSE, off |-> off, data |-> [i \in {} |-> Junk]]
          /\ UNCHANGED <<pool, pc, buf, ok>>
       \/ /\ count > 0
          /\ \E p \in Fresh(1) : pool' = pool \ {p} /\ buf' = p
          /\ ok' = FALSE
          /\ pc' = IF ACTIVE_PORTS THEN "ready" ELSE "return"
          /\ UNCHANGED res
    /\ UNCHANGED <<registers, content, table, hba, ACTIVE_PORTS, kept>>

(* Mutant: the driver does not wait for the port. *)
WaitPortReady_Never ==
    /\ pc = "ready"
    /\ pc' = "setup"
    /\ UNCHANGED <<registers, pool, content, table, hba, ACTIVE_PORTS, req, buf, ok,
                   res, kept>>

(* wait_port_ready(): goes on once BSY and DRQ are clear, or gives up. *)
WaitPortReady ==
    /\ pc = "ready"
    /\ \/ ~BSY /\ pc' = "setup" /\ UNCHANGED ok
       \/ BSY /\ ok' = FALSE /\ pc' = "return"
    /\ UNCHANGED <<registers, pool, content, table, hba, ACTIVE_PORTS, req, buf, res, kept>>

(* setup_command() *)
SetupCommand ==
    /\ pc = "setup"
    /\ LET n == AsSectors(sector_count(req))
       IN  table' = [lba |-> sector_start, sectors |-> n, bytes |-> n * SECTOR,
                     buf |-> buf, done |-> 0, late |-> FALSE]
    /\ pc' = "issue"
    /\ UNCHANGED <<registers, pool, content, hba, ACTIVE_PORTS, req, buf, ok, res, kept>>

(* issue_command() clears PxIS and sets PxCI, ... *)
IssueCommand ==
    /\ pc = "issue"
    /\ TFES' = FALSE
    /\ CI' = TRUE
    /\ pc' = "poll"
    /\ UNCHANGED <<ST, CR, BSY, ERR, pool, content, table, hba, ACTIVE_PORTS, req, buf,
                   ok, res, kept>>

(* ... and polls: the command has left PxCI, with or without an error; *)
PollCompletion ==
    /\ pc = "poll"
    /\ ~CI
    /\ ok' = ~ERR
    /\ pc' = "return"
    /\ UNCHANGED <<registers, pool, content, table, hba, ACTIVE_PORTS, req, buf, res, kept>>

(* or a task file error is reported while it has not; *)
PollError ==
    /\ pc = "poll"
    /\ CI
    /\ TFES
    /\ ok' = FALSE
    /\ pc' = "return"
    /\ UNCHANGED <<registers, pool, content, table, hba, ACTIVE_PORTS, req, buf, res, kept>>

(* Mutant: the wait for the command is not bounded. *)
PollTimeout_Never == pc = "poll" /\ UNCHANGED vars

(* or ten million polls have passed.  The HBA may be executing the command, *)
(* have halted, or not even have fetched it.                                *)
PollTimeout ==
    /\ pc = "poll"
    /\ CI
    /\ prompt' = (prompt /\ (exec # NoCmd \/ halted))
    /\ exec' = IF exec = NoCmd THEN NoCmd ELSE [exec EXCEPT !.late = TRUE]
    /\ ok' = FALSE
    /\ pc' = "return"
    /\ UNCHANGED <<registers, pool, content, table, halted, ACTIVE_PORTS, req, buf, res,
                   kept>>

(* Mutant: the buffer of a failed read is not freed. *)
PoolAfterReturn_Leaks == IF ok THEN pool \cup {buf} ELSE pool

PoolAfterReturn == pool \cup {buf}

(* read_bytes() after read_sectors(): copy on success, free the buffer. *)
ReadBytesReturns ==
    /\ pc = "return"
    /\ ~req.identify
    /\ res' = [ok |-> ok, off |-> req.off,
               data |-> [i \in (IF ok THEN 0 .. req.count - 1 ELSE {}) |->
                            Byte(buf, offset_in_sector + i)]]
    /\ pool' = PoolAfterReturn
    /\ pc' = "idle"
    /\ UNCHANGED <<registers, content, table, hba, ACTIVE_PORTS, req, buf, ok, kept>>

(* identify_device() prints what it got, and init() returns. *)
IdentifyReturns ==
    /\ pc = "return"
    /\ req.identify
    /\ UNCHANGED <<registers, pool, content, table, hba, ACTIVE_PORTS, req, buf, ok, res>>
    /\ InitEnds

-----------------------------------------------------------------------------
(* The HBA.  CR follows ST while no command is executed. *)
HbaStartStop ==
    /\ exec = NoCmd
    /\ CR # ST
    /\ CR' = ST
    /\ UNCHANGED <<ST, CI, BSY, ERR, TFES, pool, content, table, hba, ACTIVE_PORTS, pc,
                   req, buf, ok, res, kept>>

(* It fetches the command and the device becomes busy. *)
HbaFetch ==
    /\ CR /\ CI /\ ~halted
    /\ exec = NoCmd
    /\ exec' = table
    /\ BSY' = TRUE
    /\ UNCHANGED <<ST, CR, CI, ERR, TFES, pool, content, table, halted, prompt, ACTIVE_PORTS, pc,
                   req, buf, ok, res, kept>>

(* It writes one sector to memory, whoever owns that memory by now. *)
HbaTransfer ==
    /\ exec # NoCmd
    /\ exec.done < exec.sectors
    /\ LET at == exec.done * SECTOR .. exec.done * SECTOR + SECTOR - 1
       IN  content' = [content EXCEPT ![exec.buf] =
              [i \in DOMAIN @ \cup at |->
                  IF i \in at /\ i < exec.bytes THEN exec.lba * SECTOR + i
                  ELSE Byte(exec.buf, i)]]
    /\ exec' = [exec EXCEPT !.done = @ + 1]
    /\ UNCHANGED <<registers, pool, table, halted, prompt, ACTIVE_PORTS, pc, req, buf, ok, res,
                   kept>>

(* The device reports success. *)
HbaComplete ==
    /\ exec # NoCmd
    /\ exec.done = exec.sectors
    /\ BSY' = FALSE /\ CI' = FALSE /\ ERR' = FALSE
    /\ exec' = NoCmd
    /\ UNCHANGED <<ST, CR, TFES, pool, content, table, halted, prompt, ACTIVE_PORTS, pc, req, buf,
                   ok, res, kept>>

(* The device reports an error: the HBA leaves the command in PxCI and      *)
(* halts until ST is cleared, or retires it.                                *)
HbaFails ==
    /\ exec # NoCmd
    /\ BSY' = FALSE /\ ERR' = TRUE /\ TFES' = TRUE
    /\ exec' = NoCmd
    /\ (halted' = TRUE /\ UNCHANGED CI) \/ (CI' = FALSE /\ UNCHANGED halted)
    /\ UNCHANGED <<ST, CR, pool, content, table, prompt, ACTIVE_PORTS, pc, req, buf, ok, res, kept>>

-----------------------------------------------------------------------------
Driver ==
    \/ FindDisk \/ StopPort \/ InitPort
    \/ WaitPortReady \/ SetupCommand \/ IssueCommand
    \/ PollCompletion \/ PollError \/ PollTimeout
    \/ ReadBytesReturns \/ IdentifyReturns

Hba == HbaStartStop \/ HbaFetch \/ HbaTransfer \/ HbaComplete \/ HbaFails

Next == (\E off \in Offsets, count \in Counts : ReadBytes(off, count)) \/ Driver \/ Hba

Spec == Init /\ [][Next]_vars

(* The driver's loops end.  The HBA need not do anything. *)
FairSpec == Spec /\ WF_vars(Driver)

-----------------------------------------------------------------------------
(* A read that reports success has copied exactly the bytes asked for,      *)
(* whatever errors, timeouts and late completions came before it, for every *)
(* alignment and also when the sector count wraps to zero.  This needs an   *)
(* HBA that fetches a command within the ten million polls: one that is     *)
(* fetched later, when its slot was given up, may complete in the place of  *)
(* the next.                                                                *)
ReadCorrect ==
    prompt /\ res.ok => \A i \in DOMAIN res.data : res.data[i] = res.off + i

(* While the HBA executes a command, the driver is polling for that very    *)
(* command, into its own buffer; or it gave the command up, and then it     *)
(* issues no other before the HBA is done; again, of an HBA that fetches a  *)
(* command before the driver gives it up.                                   *)
OneCommandAtATime ==
    prompt /\ exec # NoCmd =>
        \/ ~exec.late /\ pc = "poll" /\ exec.buf = buf /\ buf \notin pool
        \/ exec.late /\ pc \notin {"setup", "issue", "poll"}

(* Reads give back all memory they take, whether they succeed, fail or time *)
(* out: when none is in progress, exactly the pages of init() are taken.    *)
ReadsLeakNothing == pc = "idle" => Pages \ pool = kept

(* No device can hang the kernel: init and every read return. *)
CallsReturn == pc # "idle" ~> pc = "idle"
=============================================================================
