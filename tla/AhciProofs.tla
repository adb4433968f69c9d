----------------------------- MODULE AhciProofs -----------------------------
(***************************************************************************)
(* Proofs about the disk port: the driver and the HBA never work on two    *)
(* commands at once, no read loses memory, and a read that reports success *)
(* returns the bytes of the disk, for every sector size, pool and range of *)
(* requests.                                                               *)
(***************************************************************************)
EXTENDS Ahci, TLAPS

Commands == [lba : Nat, sectors : Nat, bytes : Nat, buf : Nat, done : Nat, late : BOOLEAN]

(* The assumptions on the numbers. *)
LEMMA Numbers ==
    /\ SECTOR \in Nat \ {0} /\ U16 \in Nat \ {0}
    /\ Offsets \subseteq Nat /\ Counts \subseteq Nat
  BY Zenon, AhciConstants

(* From the allocation of the buffer until it is freed. *)
Holding == {"stop", "stopping", "ready", "setup", "issue", "poll", "return"}

-----------------------------------------------------------------------------
(* The buffer in use is a page that is not free.  When no call is in        *)
(* progress the pages of init() are taken; during a read, also its buffer.  *)
MemoryInv ==
    /\ pool \subseteq Pages
    /\ pc \in Holding \cup {"init", "idle"}
    /\ pc \in Holding => buf \in Pages \ pool
    /\ pc \in {"init", "stop", "stopping"} => req.identify
    /\ pc = "idle" => Pages \ pool = kept
    /\ pc \in Holding /\ ~req.identify => Pages \ (pool \cup {buf}) = kept

LEMMA FreshIsFree == \A k : Fresh(k) \subseteq pool
  BY DEF Fresh

LEMMA MemoryInit == Init => MemoryInv
  BY DEF Init, MemoryInv, Holding

LEMMA MemoryStep == MemoryInv /\ [Next]_vars => MemoryInv'
<1> SUFFICES ASSUME MemoryInv, [Next]_vars PROVE MemoryInv'
  OBVIOUS
<1> USE DEF MemoryInv, Holding
<1> USE FreshIsFree
<1>1. CASE FindDisk
  <2>1. CASE UNCHANGED <<pool, buf>> /\ InitEnds
    BY <1>1, <2>1 DEF FindDisk, InitEnds
  <2>2. CASE \E p \in Fresh(1) : /\ pool' = pool \ {p}
                                 /\ buf' = p
                                 /\ InitEnds \/ (pc' = "stop" /\ UNCHANGED kept)
    BY <1>1, <2>2 DEF FindDisk, InitEnds
  <2> QED BY <1>1, <2>1, <2>2 DEF FindDisk
<1>2. CASE StopPort
  BY <1>2 DEF StopPort
<1>3. CASE InitPort
  <2>1. pool' \subseteq pool /\ buf' = buf /\ req' = req /\ pc = "stopping"
    BY <1>3 DEF InitPort
  <2>2. CASE InitEnds
    BY <2>1, <2>2 DEF InitEnds
  <2>3. CASE pc' = "ready"
    BY <2>1, <2>3
  <2> QED BY <1>3, <2>2, <2>3 DEF InitPort
<1>4. ASSUME NEW off \in Offsets, NEW count \in Counts, ReadBytes(off, count) PROVE MemoryInv'
  <2>1. pc = "idle" /\ ~req'.identify /\ kept' = kept
    BY <1>4 DEF ReadBytes
  <2>2. CASE UNCHANGED <<pool, pc, buf, ok>>
    BY <2>1, <2>2
  <2>3. CASE /\ \E p \in Fresh(1) : pool' = pool \ {p} /\ buf' = p
             /\ pc' = IF ACTIVE_PORTS THEN "ready" ELSE "return"
    BY <2>1, <2>3
  <2> QED BY <1>4, <2>2, <2>3 DEF ReadBytes
<1>5. CASE \/ WaitPortReady \/ SetupCommand \/ IssueCommand
           \/ PollCompletion \/ PollError \/ PollTimeout
  BY <1>5 DEF WaitPortReady, SetupCommand, IssueCommand, PollCompletion, PollError, PollTimeout
<1>6. CASE ReadBytesReturns
  BY <1>6 DEF ReadBytesReturns, PoolAfterReturn
<1>7. CASE IdentifyReturns
  BY <1>7 DEF IdentifyReturns, InitEnds
<1>8. CASE Hba \/ UNCHANGED vars
  BY <1>8 DEF Hba, HbaStartStop, HbaFetch, HbaTransfer, HbaComplete, HbaFails, vars
<1> QED BY <1>1, <1>2, <1>3, <1>4, <1>5, <1>6, <1>7, <1>8 DEF Next, Driver

(* Every read, whether it succeeds, fails or times out, gives back all the  *)
(* memory it took, whatever the HBA does and however much memory there is.  *)
THEOREM MemoryIsReturned == Spec => []ReadsLeakNothing
<1>1. MemoryInv => ReadsLeakNothing
  BY DEF MemoryInv, ReadsLeakNothing
<1> QED BY MemoryInit, MemoryStep, <1>1, PTL DEF Spec

-----------------------------------------------------------------------------
(* A wait that ended before the HBA had fetched its command is never        *)
(* forgotten.                                                               *)
LEMMA PromptBefore == [Next]_vars /\ prompt' => prompt
<1> SUFFICES ASSUME [Next]_vars, prompt' PROVE prompt
  OBVIOUS
<1>1. CASE PollTimeout
  BY <1>1 DEF PollTimeout
<1>2. CASE prompt' = prompt
  BY <1>2
<1>3. CASE Driver
  BY <1>1, <1>2, <1>3 DEF Driver, FindDisk, StopPort, InitPort, WaitPortReady, SetupCommand,
     IssueCommand, PollCompletion, PollError, ReadBytesReturns, IdentifyReturns, hba
<1>4. CASE (\E off \in Offsets, count \in Counts : ReadBytes(off, count)) \/ Hba \/ UNCHANGED vars
  BY <1>2, <1>4 DEF ReadBytes, Hba, HbaStartStop, HbaFetch, HbaTransfer, HbaComplete,
     HbaFails, vars, hba
<1> QED BY <1>3, <1>4 DEF Next

(* The command that setup_command() builds for a request. *)
CommandFor(r, b) ==
    [lba |-> r.off \div SECTOR, sectors |-> AsSectors(sector_count(r)),
     bytes |-> AsSectors(sector_count(r)) * SECTOR, buf |-> b, done |-> 0, late |-> FALSE]

(* What PxCI, BSY and TFES say about the HBA.  A command in execution is in *)
(* PxCI and keeps the device busy; a command that waits to be fetched is    *)
(* polled for; a task file error during a poll means that the HBA halted.   *)
(* The command table is that of the poll.                                   *)
CommandInv ==
    /\ req.off \in Nat /\ req.count \in Nat
    /\ exec \in Commands \cup {NoCmd}
    /\ exec # NoCmd => BSY /\ CI /\ ~halted
    /\ pc \in {"setup", "issue"} => exec = NoCmd
    /\ CI /\ exec = NoCmd /\ ~halted => pc = "poll"
    /\ pc = "poll" /\ CI /\ TFES => halted
    /\ pc \in {"issue", "poll"} => table = CommandFor(req, buf)
    /\ exec # NoCmd =>
          \/ ~exec.late /\ pc = "poll" /\ exec = [table EXCEPT !.done = exec.done]
          \/ exec.late /\ pc \notin {"setup", "issue", "poll"}

LEMMA CommandForType ==
    ASSUME NEW r, NEW b \in Nat, r.off \in Nat, r.count \in Nat
    PROVE  CommandFor(r, b) \in Commands /\ ~CommandFor(r, b).late
<1>1. r.off \div SECTOR \in Nat /\ sector_count(r) \in Nat
  BY AhciConstants DEF sector_count
<1>2. AsSectors(sector_count(r)) \in Nat
  BY <1>1, AhciConstants DEF AsSectors
<1>3. AsSectors(sector_count(r)) * SECTOR \in Nat
  BY <1>2, AhciConstants
<1> HIDE DEF AsSectors, sector_count
<1> QED BY <1>1, <1>2, <1>3 DEF CommandFor, Commands

LEMMA CommandInit == Init => CommandInv
  BY AhciConstants DEF Init, CommandInv

LEMMA CommandStep == MemoryInv /\ CommandInv /\ [Next]_vars /\ prompt' => CommandInv'
<1> SUFFICES ASSUME MemoryInv, CommandInv, [Next]_vars, prompt' PROVE CommandInv'
  OBVIOUS
<1> USE DEF CommandInv
<1>0. NoCmd \notin Commands
  BY AhciConstants DEF Commands
<1>1. CASE FindDisk
  BY <1>1 DEF FindDisk, InitEnds, registers, hba
<1>2. CASE StopPort
  BY <1>2 DEF StopPort, hba
<1>3. CASE InitPort
  BY <1>3 DEF InitPort, InitEnds, hba
<1>4. ASSUME NEW off \in Offsets, NEW count \in Counts, ReadBytes(off, count) PROVE CommandInv'
  BY <1>4, AhciConstants DEF ReadBytes, registers, hba
<1>5. CASE WaitPortReady
  BY <1>5 DEF WaitPortReady, registers, hba
<1>6. CASE SetupCommand
  BY <1>6 DEF SetupCommand, registers, hba, CommandFor, sector_start
<1>7. CASE IssueCommand
  BY <1>7 DEF IssueCommand, hba
<1>8. CASE PollCompletion \/ PollError
  <2>1. CASE PollCompletion
    BY <2>1 DEF PollCompletion, registers, hba
  <2>2. CASE PollError
    BY <2>2 DEF PollError, registers, hba
  <2> QED BY <1>8, <2>1, <2>2
<1>9. CASE PollTimeout
  <2>1. CASE exec = NoCmd
    BY <1>9, <2>1 DEF PollTimeout, registers
  <2>2. CASE exec # NoCmd
    <3>1. exec' = [exec EXCEPT !.late = TRUE] /\ exec \in Commands
      BY <1>9, <2>2 DEF PollTimeout
    <3>2. exec' \in Commands /\ exec'.late
      BY <3>1 DEF Commands
    <3> QED BY <1>0, <1>9, <2>2, <3>2 DEF PollTimeout, registers
  <2> QED BY <2>1, <2>2
<1>10. CASE ReadBytesReturns
  BY <1>10 DEF ReadBytesReturns, registers, hba
<1>11. CASE IdentifyReturns
  BY <1>11 DEF IdentifyReturns, InitEnds, registers, hba
<1>12. CASE HbaStartStop
  BY <1>12 DEF HbaStartStop, hba
<1>13. CASE HbaFetch
  <2>1. pc = "poll" /\ table = CommandFor(req, buf) /\ buf \in Nat
    BY <1>13 DEF HbaFetch, MemoryInv, Holding, Pages
  <2>2. table \in Commands /\ ~table.late
    BY <2>1, CommandForType
  <2>3. table = [table EXCEPT !.done = table.done]
    BY <2>2 DEF Commands
  <2> QED BY <1>0, <1>13, <2>1, <2>2, <2>3 DEF HbaFetch
<1>14. CASE HbaTransfer
  <2>1. exec \in Commands /\ exec' = [exec EXCEPT !.done = @ + 1]
    BY <1>14 DEF HbaTransfer
  <2>2. exec' \in Commands /\ exec'.late = exec.late
    BY <2>1 DEF Commands
  <2>3. ASSUME exec = [table EXCEPT !.done = exec.done], pc = "poll"
        PROVE  exec' = [table EXCEPT !.done = exec'.done]
    <3>1. table \in Commands
      BY <2>3, CommandForType DEF MemoryInv, Holding, Pages
    <3> QED BY <2>1, <2>3, <3>1 DEF Commands
  <2> QED BY <1>0, <1>14, <2>1, <2>2, <2>3 DEF HbaTransfer, registers
<1>15. CASE HbaComplete
  BY <1>15 DEF HbaComplete
<1>16. CASE HbaFails
  BY <1>16 DEF HbaFails
<1>17. CASE UNCHANGED vars
  BY <1>17 DEF vars, registers, hba
<1> QED BY <1>1, <1>2, <1>3, <1>4, <1>5, <1>6, <1>7, <1>8, <1>9, <1>10, <1>11, <1>12,
           <1>13, <1>14, <1>15, <1>16, <1>17 DEF Next, Driver, Hba

(* While the HBA executes a command the driver polls for it with its buffer *)
(* allocated, or has given it up and issues no other until the HBA is done, *)
(* whatever errors, halts and late completions came before, unless a wait   *)
(* ended before the HBA had fetched the command.                            *)
THEOREM CommandsDoNotOverlap == Spec => []OneCommandAtATime
<1>1. ASSUME MemoryInv, prompt => CommandInv PROVE OneCommandAtATime
  <2> SUFFICES ASSUME prompt, exec # NoCmd, ~exec.late PROVE exec.buf = buf /\ buf \notin pool
    BY <1>1 DEF OneCommandAtATime, CommandInv
  <2>1. pc = "poll" /\ table = CommandFor(req, buf) /\ exec = [table EXCEPT !.done = exec.done]
    BY <1>1 DEF CommandInv
  <2> QED BY <1>1, <2>1 DEF MemoryInv, Holding, CommandFor
<1> QED BY MemoryInit, MemoryStep, CommandInit, CommandStep, PromptBefore, <1>1, PTL DEF Spec

-----------------------------------------------------------------------------
(* The first n sectors of a page are those of the disk from lba on. *)
Filled(page, lba, n) ==
    \A i \in 0 .. n * SECTOR - 1 : i \in DOMAIN page /\ page[i] = lba * SECTOR + i

(* The requests of read_bytes that got as far as a buffer are not empty. *)
RequestInv ==
    ~req.identify => /\ req.off \in Offsets /\ req.count \in Counts
                     /\ pc \in Holding => req.count > 0

(* The buffer of a command holds what the HBA has transferred so far; once  *)
(* the command has left PxCI without an error, that is all of it, and the   *)
(* HBA is done with the buffer until the driver has copied it.              *)
DataInv ==
    /\ DOMAIN content = Pages
    /\ exec # NoCmd /\ ~exec.late =>
          exec.done <= exec.sectors /\ Filled(content[buf], exec.lba, exec.done)
    /\ pc = "poll" /\ ~CI /\ ~ERR => Filled(content[buf], table.lba, table.sectors)
    /\ pc = "return" /\ ok =>
          ~CI /\ Filled(content[buf], CommandFor(req, buf).lba, CommandFor(req, buf).sectors)

(* The sectors that are read hold all the bytes that are asked for, at the  *)
(* place where read_bytes copies them from.                                 *)
LEMMA SectorsCover ==
    ASSUME NEW r, r.off \in Offsets, r.count \in Counts, r.count > 0,
           NEW i \in 0 .. r.count - 1
    PROVE  /\ (r.off % SECTOR) + i \in 0 .. AsSectors(sector_count(r)) * SECTOR - 1
           /\ (r.off \div SECTOR) * SECTOR + ((r.off % SECTOR) + i) = r.off + i
<1> DEFINE o == r.off % SECTOR
           q == r.off \div SECTOR
           n == sector_count(r)
<1>0. r.off \in Nat /\ r.count \in Nat
  BY Zenon, Numbers
<1>1. r.off \in Nat /\ r.count \in Nat /\ i \in Nat /\ i < r.count
  BY <1>0
<1>2. o \in Nat /\ q \in Nat /\ r.off = q * SECTOR + o
  BY <1>1, Numbers
<1>3. n = (o + r.count + SECTOR - 1) \div SECTOR
  BY DEF sector_count
<1> HIDE DEF o, q, n
<1>4. n \in Nat /\ n <= U16
  <2>1. sector_count([off |-> r.off, count |-> r.count]) <= U16
    BY RequestsFit
  <2>2. sector_count([off |-> r.off, count |-> r.count]) = n
    BY DEF sector_count, n
  <2>3. o + r.count + SECTOR - 1 \in Nat
    BY <1>1, <1>2, Numbers
  <2>4. n \in Nat
    BY <1>3, <2>3, Numbers
  <2> QED BY <2>1, <2>2, <2>4
<1>5. o + r.count <= n * SECTOR
  BY <1>1, <1>2, <1>3, Numbers
<1>6. n >= 1
  BY <1>1, <1>2, <1>4, <1>5, Numbers
<1>7. AsSectors(n) = n
  BY <1>4, <1>6, Numbers DEF AsSectors
<1>8. o + i \in 0 .. n * SECTOR - 1
  <2>1. n * SECTOR \in Nat
    BY <1>4, Numbers
  <2> QED BY <1>1, <1>2, <1>5, <2>1
<1>9. q * SECTOR + (o + i) = r.off + i
  <2>1. q * SECTOR \in Nat
    BY <1>2, Numbers
  <2> QED BY <1>1, <1>2, <2>1
<1> QED BY <1>7, <1>8, <1>9 DEF o, q, n

LEMMA RequestInit == Init => RequestInv
  BY DEF Init, RequestInv

LEMMA RequestStep == MemoryInv /\ RequestInv /\ [Next]_vars => RequestInv'
<1> SUFFICES ASSUME MemoryInv, RequestInv, [Next]_vars PROVE RequestInv'
  OBVIOUS
<1> USE DEF RequestInv, Holding
<1>1. ASSUME NEW off \in Offsets, NEW count \in Counts, ReadBytes(off, count) PROVE RequestInv'
  BY <1>1 DEF ReadBytes
<1>2. CASE UNCHANGED req /\ (pc' \in Holding => pc \in Holding \/ req.identify)
  BY <1>2
<1>3. CASE Driver
  BY <1>2, <1>3 DEF MemoryInv, Driver, FindDisk, InitEnds, StopPort, InitPort, WaitPortReady,
        SetupCommand, IssueCommand, PollCompletion, PollError, PollTimeout,
        ReadBytesReturns, IdentifyReturns
<1>4. CASE Hba \/ UNCHANGED vars
  BY <1>2, <1>4 DEF Hba, HbaStartStop, HbaFetch, HbaTransfer, HbaComplete, HbaFails, vars
<1> QED BY <1>1, <1>3, <1>4 DEF Next

LEMMA DataInit == Init => DataInv
  BY DEF Init, DataInv

(* One more sector. *)
LEMMA FilledGrows ==
    ASSUME NEW page, NEW lba \in Nat, NEW n \in Nat, NEW new,
           Filled(page, lba, n),
           new = [i \in DOMAIN page \cup (n * SECTOR .. n * SECTOR + SECTOR - 1) |->
                     IF i \in n * SECTOR .. n * SECTOR + SECTOR - 1 THEN lba * SECTOR + i
                     ELSE page[i]]
    PROVE  Filled(new, lba, n + 1)
<1> SUFFICES ASSUME NEW i \in 0 .. (n + 1) * SECTOR - 1
             PROVE  i \in DOMAIN new /\ new[i] = lba * SECTOR + i
  BY DEF Filled
<1>1. n * SECTOR \in Nat /\ (n + 1) * SECTOR = n * SECTOR + SECTOR
  BY Numbers
<1>2. CASE i < n * SECTOR
  <2>1. i \in 0 .. n * SECTOR - 1
    BY <1>1, <1>2, Numbers
  <2>2. i \in DOMAIN page /\ page[i] = lba * SECTOR + i
    BY <2>1 DEF Filled
  <2> QED BY <2>2
<1>3. CASE i >= n * SECTOR
  <2>1. i \in n * SECTOR .. n * SECTOR + SECTOR - 1
    BY <1>1, <1>3, Numbers
  <2> QED BY <2>1
<1> QED BY <1>1, <1>2, <1>3

LEMMA DataStep == MemoryInv /\ CommandInv /\ DataInv /\ [Next]_vars => DataInv'
<1> SUFFICES ASSUME MemoryInv, CommandInv, DataInv, [Next]_vars PROVE DataInv'
  OBVIOUS
<1> USE DEF DataInv
<1>0. NoCmd \notin Commands
  BY AhciConstants DEF Commands
<1>1. CASE FindDisk \/ StopPort \/ InitPort
  <2>1. pc \in {"init", "stop", "stopping"} /\ pc' \in {"idle", "stop", "stopping", "ready"}
    BY <1>1 DEF FindDisk, InitEnds, StopPort, InitPort
  <2>2. UNCHANGED <<content, table, exec>>
    BY <1>1 DEF FindDisk, StopPort, InitPort, hba
  <2>3. exec # NoCmd => exec.late
    BY <2>1 DEF CommandInv
  <2> QED BY <2>1, <2>2, <2>3
<1>2. ASSUME NEW off \in Offsets, NEW count \in Counts, ReadBytes(off, count) PROVE DataInv'
  <2>1. /\ pc = "idle" /\ pc' \in {"idle", "ready", "return"}
        /\ pc' = "return" => ~ok'
        /\ UNCHANGED <<content, table, exec>>
    BY <1>2 DEF ReadBytes, hba
  <2>2. exec # NoCmd => exec.late
    BY <2>1 DEF CommandInv
  <2> QED BY <2>1, <2>2
<1>3. CASE WaitPortReady
  <2>1. exec # NoCmd => exec.late
    BY <1>3 DEF CommandInv, WaitPortReady
  <2> QED BY <1>3, <2>1 DEF WaitPortReady, registers, hba
<1>4. CASE SetupCommand
  BY <1>4 DEF SetupCommand, CommandInv, hba
<1>5. CASE IssueCommand
  BY <1>5 DEF IssueCommand, CommandInv, hba
<1>6. CASE PollCompletion
  <2>1. table = CommandFor(req, buf) /\ exec = NoCmd
    BY <1>6 DEF PollCompletion, CommandInv
  <2> QED BY <1>6, <2>1 DEF PollCompletion, registers, hba
<1>7. CASE PollError
  BY <1>7 DEF PollError, CommandInv, registers, hba
<1>8. CASE PollTimeout
  <2>1. exec' # NoCmd => exec'.late
    <3>1. exec \in Commands \cup {NoCmd}
      BY DEF CommandInv
    <3> QED BY <1>8, <3>1 DEF PollTimeout, Commands
  <2> QED BY <1>8, <2>1 DEF PollTimeout, registers
<1>9. CASE ReadBytesReturns
  <2>1. exec # NoCmd => exec.late
    BY <1>9 DEF ReadBytesReturns, CommandInv
  <2> QED BY <1>9, <2>1 DEF ReadBytesReturns, registers, hba
<1>10. CASE IdentifyReturns
  <2>1. exec # NoCmd => exec.late
    BY <1>10 DEF IdentifyReturns, CommandInv
  <2> QED BY <1>10, <2>1 DEF IdentifyReturns, InitEnds, registers, hba
<1>11. CASE HbaStartStop
  BY <1>11 DEF HbaStartStop, hba
<1>12. CASE HbaFetch
  <2>1. pc = "poll" /\ table = CommandFor(req, buf) /\ exec' = table /\ req.off \in Nat
    BY <1>12 DEF HbaFetch, CommandInv
  <2>2. table \in Commands /\ table.done = 0
    BY <2>1, CommandForType DEF MemoryInv, Holding, Pages, CommandInv, CommandFor
  <2>3. Filled(content[buf], table.lba, 0)
    BY <2>2, Numbers DEF Filled
  <2>4. table.done <= table.sectors
    BY <2>2 DEF Commands
  <2> QED BY <1>12, <2>1, <2>2, <2>3, <2>4 DEF HbaFetch
<1>13. CASE HbaTransfer
  <2>1. /\ exec \in Commands /\ exec # NoCmd /\ exec.done < exec.sectors /\ CI /\ CI' = CI
        /\ exec' = [exec EXCEPT !.done = @ + 1]
        /\ DOMAIN content' = Pages
        /\ UNCHANGED <<pc, table, buf, ok, req, ERR>>
    BY <1>13 DEF HbaTransfer, CommandInv, registers
  <2>2. CASE exec.late
    <3>1. exec'.late /\ pc # "poll"
      BY <2>1, <2>2 DEF Commands, CommandInv
    <3> QED BY <2>1, <3>1
  <2>3. CASE ~exec.late
    <3>1. pc = "poll" /\ table = CommandFor(req, buf) /\ exec = [table EXCEPT !.done = exec.done]
      BY <2>1, <2>3 DEF CommandInv
    <3>2. exec.buf = buf /\ exec.bytes = exec.sectors * SECTOR /\ buf \in Pages
      BY <3>1 DEF CommandFor, MemoryInv, Holding
    <3>3. /\ exec.lba \in Nat /\ exec.sectors \in Nat /\ exec.done \in Nat
          /\ exec'.lba = exec.lba /\ exec'.sectors = exec.sectors
          /\ exec'.done = exec.done + 1
      BY <2>1 DEF Commands
    <3>4. \A i \in exec.done * SECTOR .. exec.done * SECTOR + SECTOR - 1 : i < exec.bytes
      <4> DEFINE d == exec.done
                 n == exec.sectors
      <4>1. d \in Nat /\ n \in Nat /\ d + 1 <= n
        BY <2>1, <3>3
      <4>2. exec.bytes = n * SECTOR
        BY <3>2
      <4> HIDE DEF d, n
      <4>3. (d + 1) * SECTOR <= n * SECTOR /\ (d + 1) * SECTOR = d * SECTOR + SECTOR
        BY <4>1, Numbers
      <4>4. d * SECTOR \in Nat /\ n * SECTOR \in Nat
        BY <4>1, Numbers
      <4>5. \A i \in d * SECTOR .. d * SECTOR + SECTOR - 1 : i < n * SECTOR
        BY <4>3, <4>4, Numbers
      <4> QED BY <4>2, <4>5 DEF d
    <3>5. content'[buf] =
             [i \in DOMAIN content[buf] \cup
                        (exec.done * SECTOR .. exec.done * SECTOR + SECTOR - 1) |->
                IF i \in exec.done * SECTOR .. exec.done * SECTOR + SECTOR - 1
                THEN exec.lba * SECTOR + i ELSE content[buf][i]]
      BY <1>13, <3>2, <3>4 DEF HbaTransfer, Byte
    <3>6. Filled(content[buf], exec.lba, exec.done)
      BY <2>1, <2>3
    <3>7. Filled(content'[buf], exec.lba, exec.done + 1)
      BY <3>3, <3>5, <3>6, FilledGrows
    <3> QED BY <2>1, <2>3, <3>1, <3>3, <3>7
  <2> QED BY <2>2, <2>3
<1>14. CASE HbaComplete
  <2>1. /\ exec # NoCmd /\ exec' = NoCmd /\ exec.done = exec.sectors /\ CI
        /\ UNCHANGED <<pc, table, buf, ok, req, content>>
    BY <1>14 DEF HbaComplete, CommandInv
  <2>2. ASSUME pc = "poll" PROVE Filled(content[buf], table.lba, table.sectors)
    <3>1. /\ ~exec.late /\ table = CommandFor(req, buf)
          /\ exec = [table EXCEPT !.done = exec.done]
      BY <2>1, <2>2 DEF CommandInv
    <3>2. exec.lba = table.lba /\ exec.sectors = table.sectors
      BY <3>1 DEF CommandFor
    <3> QED BY <2>1, <3>1, <3>2
  <2> QED BY <2>1, <2>2
<1>15. CASE HbaFails
  <2>1. exec # NoCmd /\ exec' = NoCmd /\ ERR' /\ CI /\ UNCHANGED <<pc, table, buf, ok, req, content>>
    BY <1>15 DEF HbaFails, CommandInv
  <2> QED BY <2>1
<1>16. CASE UNCHANGED vars
  BY <1>16 DEF vars, registers, hba
<1> QED BY <1>1, <1>2, <1>3, <1>4, <1>5, <1>6, <1>7, <1>8, <1>9, <1>10, <1>11, <1>12,
           <1>13, <1>14, <1>15, <1>16 DEF Next, Driver, Hba

(* Only the return of a read_bytes that got its sectors changes what was    *)
(* read to anything but the empty result.                                   *)
LEMMA ReadCorrectStep ==
    /\ MemoryInv /\ RequestInv /\ ReadCorrect
    /\ prompt => DataInv
    /\ [Next]_vars
    => ReadCorrect'
<1> SUFFICES ASSUME MemoryInv, RequestInv, DataInv, ReadCorrect, [Next]_vars,
                    prompt, prompt'
             PROVE  ReadCorrect'
  BY PromptBefore DEF ReadCorrect
<1>1. CASE UNCHANGED res
  BY <1>1 DEF ReadCorrect
<1>2. ASSUME NEW off \in Offsets, NEW count \in Counts, ReadBytes(off, count) PROVE ReadCorrect'
  BY <1>1, <1>2 DEF ReadBytes, ReadCorrect
<1>3. CASE ReadBytesReturns
  <2> SUFFICES ASSUME ok, NEW i \in 0 .. req.count - 1
               PROVE  Byte(buf, offset_in_sector + i) = req.off + i
    BY <1>3 DEF ReadBytesReturns, ReadCorrect
  <2>1. req.off \in Offsets /\ req.count \in Counts /\ req.count > 0 /\ pc = "return"
    BY <1>3 DEF ReadBytesReturns, RequestInv, Holding
  <2>2. Filled(content[buf], req.off \div SECTOR, AsSectors(sector_count(req)))
    BY <2>1 DEF DataInv, CommandFor
  <2>3. /\ offset_in_sector + i \in 0 .. AsSectors(sector_count(req)) * SECTOR - 1
        /\ (req.off \div SECTOR) * SECTOR + (offset_in_sector + i) = req.off + i
    BY <2>1, SectorsCover DEF offset_in_sector
  <2> QED BY <2>2, <2>3 DEF Filled, Byte
<1>4. CASE Hba \/ UNCHANGED vars
  BY <1>1, <1>4 DEF Hba, HbaStartStop, HbaFetch, HbaTransfer, HbaComplete, HbaFails, vars
<1>5. CASE Driver
  BY <1>1, <1>3, <1>5 DEF Driver, FindDisk, StopPort, InitPort, WaitPortReady,
        SetupCommand, IssueCommand, PollCompletion, PollError, PollTimeout, IdentifyReturns
<1> QED BY <1>2, <1>4, <1>5 DEF Next

(* A read that reports success returns exactly the bytes asked for, for     *)
(* every sector size, alignment and length that fits the u16 sector count,  *)
(* whatever errors, timeouts and late completions came before it, unless a  *)
(* wait ended before the HBA had fetched the command.                       *)
THEOREM ReadsAreCorrect == Spec => []ReadCorrect
<1>1. Init => ReadCorrect
  BY DEF Init, ReadCorrect
<1> QED BY MemoryInit, MemoryStep, CommandInit, CommandStep, RequestInit, RequestStep,
           DataInit, DataStep, PromptBefore, ReadCorrectStep, <1>1, PTL DEF Spec
=============================================================================
