------------------------------- MODULE Console -------------------------------
(***************************************************************************)
(* Keyboard to screen: the initialisation of the PS/2 controller, the      *)
(* keyboard's interrupt handler and its ring buffer                        *)
(* (src/kern/drv/ps2/mod.rs), and the shell task that reads it and edits   *)
(* its line on the screen (src/main.rs).  The handler runs with interrupts *)
(* disabled on the CPU that runs the shell, so it is one step that can     *)
(* come between any two steps of the shell.                                *)
(*                                                                         *)
(* The controller answers commands in order, some time or never; its       *)
(* translation to scancode set 1 is on, as the firmware leaves it.         *)
(***************************************************************************)
EXTENDS Naturals, SequencesExt

CONSTANTS KB_BUF_SIZE,  \* slots of the ring
          LINE_MAX,     \* size of the shell's line buffer
          cols, rows,   \* text cells of the screen
          prompt_len,
          UserKeys,     \* the keys the user uses
          MaxPress,     \* bound: keys pressed or repeated
          MaxWire       \* bound: the keyboard sends while fewer bytes wait

(* One key of each class of the scancode tables: a letter, a digit, keys    *)
(* that are the same with shift, a key without a character, the modifiers,  *)
(* and an extended key, whose code follows the prefix 0xE0.  Left out are   *)
(* the extended keys that share their code with a character, as print       *)
(* screen, the media keys and the keypad's enter and slash do: the handler  *)
(* takes them for that key.                                                 *)
Shifts == {"lshift", "rshift"}

Keys == {"a", "1", "enter", "backspace", "f1", "caps", "arrow"} \cup Shifts

ASSUME ConsoleConstants ==
    /\ UserKeys \subseteq Keys
    /\ KB_BUF_SIZE \in Nat \ {0, 1}
    /\ LINE_MAX \in Nat \ {0}
    /\ rows \in Nat \ {0}
    /\ prompt_len \in Nat \ {0}
    /\ cols \in Nat /\ cols > prompt_len + 1
    /\ MaxPress \in Nat /\ MaxWire \in Nat

(* The bytes that are read from the controller, as scancodes: 0x55, 0xFA,   *)
(* which is KB_RESPONSE_ACK, and 0xAA, which is both                        *)
(* KB_RESPONSE_SELF_TEST_OK and the release of the left shift key; a byte   *)
(* of no other use.  The first two and the last are no key with a character.*)
TestPassed == [key |-> "x55", released |-> FALSE]
KB_RESPONSE_ACK == [key |-> "ack", released |-> TRUE]
KB_RESPONSE_SELF_TEST_OK == [key |-> "lshift", released |-> TRUE]
OtherByte == [key |-> "f1", released |-> FALSE]
PREFIX == [key |-> "xe0", released |-> TRUE]

VARIABLES
    \* the user and the keyboard
    down,          \* keys held down
    forced,        \* "on" or "off" where shift does not follow the keys held
    capsOn,        \* whether caps lock was sent an odd number of times
    presses,
    wire,          \* bytes sent and not yet read: [key, released]
    \* the controller
    owed,          \* answers to commands that are not sent yet
    ctl,           \* its configuration: interrupt enabled, translation on
    \* the driver's init()
    drv,           \* where it is
    config,        \* the answer to CMD_READ_CONFIG, and whether it was read
    last,          \* the byte read last
    \* the driver
    SHIFT_HELD, CAPS_LOCK, KB_BUF, KB_HEAD, KB_TAIL,
    \* the shell
    pc, ch, line, cur_col, cur_row, screen,
    \* ghosts: characters meant, decoded, put in the ring, read by the shell
    typed, decoded, pushed, eaten

ps2 == <<owed, ctl, drv, config, last>>
user == <<down, forced, capsOn, presses, typed>>
driver == <<SHIFT_HELD, CAPS_LOCK, KB_BUF, KB_HEAD, decoded, pushed>>
editor == <<line, cur_col, cur_row, screen>>
vars == <<user, wire, ps2, driver, KB_TAIL, pc, ch, editor, eaten>>

Blank == [r \in 0 .. rows - 1 |-> [c \in 0 .. cols - 1 |-> " "]]

(* shell_draw_prompt followed by the cursor. *)
Prompt(s, row) ==
    [s EXCEPT ![row] = [c \in 0 .. cols - 1 |->
        IF c < prompt_len THEN ">" ELSE IF c = prompt_len THEN "_" ELSE @[c]]]

NoConfig == [byte |-> OtherByte, read |-> FALSE]

Init ==
    /\ down = {} /\ forced = "none" /\ capsOn = FALSE /\ presses = 0
    /\ wire \in {<<>>, <<OtherByte>>}
    /\ owed = <<>> /\ ctl = [irq |-> FALSE, translate |-> TRUE]
    /\ drv = "begin" /\ config = NoConfig /\ last = OtherByte
    /\ SHIFT_HELD = FALSE /\ CAPS_LOCK = FALSE
    /\ KB_BUF = [i \in 0 .. KB_BUF_SIZE - 1 |-> "nl"]
    /\ KB_HEAD = 0 /\ KB_TAIL = 0
    /\ pc = "poll" /\ ch = "nl"
    /\ line = <<>> /\ cur_col = prompt_len /\ cur_row = 0
    /\ screen = Prompt(Blank, 0)
    /\ typed = <<>> /\ decoded = <<>> /\ pushed = <<>> /\ eaten = <<>>

-----------------------------------------------------------------------------
(* What a key means: shift and caps lock cancel out on letters, caps lock   *)
(* does nothing to other keys.                                              *)
Meaning(key, shift, caps) ==
    CASE key = "a" -> IF shift = caps THEN <<"a">> ELSE <<"A">>
      [] key = "1" -> IF shift THEN <<"!">> ELSE <<"1">>
      [] key = "enter" -> <<"nl">>
      [] key = "backspace" -> <<"bs">>
      [] OTHER -> <<>>

(* The user waits until the keyboard is reset.  Without the translation the *)
(* codes would be others; what is typed then is left out.                   *)
Ready == drv \in {"unmask", "ready"} /\ owed = <<>> /\ ctl.translate

(* Shift is meant while either shift key is held.  There are two            *)
(* exceptions.  When one of two held shift keys is released, shift is off   *)
(* until a shift key is pressed or repeated: the driver has one flag for    *)
(* both.  And around an extended key the keyboard may send a shift that     *)
(* nobody touched, which counts until the next shift: the driver does not   *)
(* look at the prefix that tells it apart.                                  *)
ShiftMeant == IF forced = "none" THEN Shifts \cap down # {} ELSE forced = "on"

Fakes(key) == IF key = "arrow" THEN {"none", "on", "off"} ELSE {"none"}

FakeCodes(fake) ==
    IF fake = "none" THEN <<>>
    ELSE <<PREFIX, [key |-> "lshift", released |-> fake = "off"]>>

SentFor(key, released) ==
    LET code == [key |-> key, released |-> released]
    IN  IF key = "arrow" THEN <<PREFIX, code>> ELSE <<code>>

(* The keyboard sends that a key is down.  Caps lock counts each time. *)
SendDown(key) ==
    /\ Ready /\ presses < MaxPress
    /\ Len(wire) < MaxWire
    /\ presses' = presses + 1
    /\ capsOn' = (capsOn # (key = "caps"))
    /\ typed' = typed \o Meaning(key, ShiftMeant, capsOn)
    /\ \E fake \in Fakes(key) :
          /\ forced' = IF key \in Shifts THEN "none" ELSE IF fake = "none" THEN forced ELSE fake
          /\ wire' = wire \o FakeCodes(fake) \o SentFor(key, FALSE)
    /\ UNCHANGED <<ps2, driver, KB_TAIL, pc, ch, editor, eaten>>

Press(key) ==
    /\ key \notin down
    /\ down' = down \cup {key}
    /\ SendDown(key)

(* A key that is held down is sent again. *)
Repeat(key) ==
    /\ key \in down
    /\ UNCHANGED down
    /\ SendDown(key)

Release(key) ==
    /\ key \in down
    /\ Len(wire) < MaxWire
    /\ down' = down \ {key}
    /\ \E fake \in Fakes(key) :
          /\ forced' = IF key \in Shifts
                       THEN IF Shifts \cap down = {key} THEN "none" ELSE "off"
                       ELSE IF fake = "none" THEN forced ELSE fake
          /\ wire' = wire \o SentFor(key, TRUE) \o FakeCodes(fake)
    /\ UNCHANGED <<ps2, capsOn, presses, typed, driver, KB_TAIL, pc, ch, editor, eaten>>

-----------------------------------------------------------------------------
(* The controller or the keyboard gives the answer it owes. *)
Answer ==
    /\ owed # <<>>
    /\ Len(wire) < MaxWire
    /\ wire' = Append(wire, Head(owed))
    /\ owed' = Tail(owed)
    /\ UNCHANGED <<ctl, drv, config, last, user, driver, KB_TAIL, pc, ch, editor, eaten>>

TimedOut == [key |-> "zero", released |-> FALSE]

(* read_data(): a byte, or 0 when wait_output() has polled 100 000 times    *)
(* without one.                                                             *)
read_data(b) ==
    \/ /\ wire # <<>> /\ b = Head(wire)
       /\ wire' = Tail(wire) /\ last' = b
    \/ wire = <<>> /\ b = TimedOut /\ UNCHANGED <<wire, last>>

(* flush_output(): its 32 turns are more than there are bytes. *)
flush_output ==
    /\ wire' = <<>>
    /\ last' = IF wire = <<>> THEN last ELSE Last(wire)

Bytes == {TestPassed, KB_RESPONSE_ACK, KB_RESPONSE_SELF_TEST_OK, OtherByte, TimedOut}

(* CMD_DISABLE_PORT1, CMD_DISABLE_PORT2, flush_output(), CMD_READ_CONFIG.   *)
(* With port 1 disabled the configuration may read as 0x55.                 *)
Begin ==
    /\ drv = "begin"
    /\ flush_output
    /\ \E b \in {TestPassed, OtherByte} :
          owed' = Append(owed, b) /\ config' = [NoConfig EXCEPT !.byte = b]
    /\ drv' = "config"
    /\ UNCHANGED ctl

(* The configuration is written back with CFG_PORT1_IRQ, and the controller *)
(* tests itself, which resets the configuration of some.  As                *)
(* CFG_PORT1_CLOCK is cleared, a key may be sent before the result.         *)
Written(c) == [irq |-> TRUE, translate |-> c.read]

ReadConfig ==
    /\ drv = "config"
    /\ \E b \in Bytes : read_data(b) /\ config' = [config EXCEPT !.read = (b # TimedOut)]
    /\ ctl' \in {Written(config'), [irq |-> FALSE, translate |-> TRUE]}
    /\ \E t \in {TestPassed, OtherByte} : owed' \in {owed \o <<t>>, owed \o <<OtherByte, t>>}
    /\ drv' = "selftest"

(* Mutant: the result of the self-test is not looked at. *)
Passed_Any(b) == b # TimedOut

Passed(b) == b = TestPassed

(* If it passed, the configuration is written again, port 1 enabled and the *)
(* keyboard, if there is one, reset.  A key that was pressed while the port *)
(* was disabled may be sent before the answers to KB_CMD_RESET.             *)
SelfTest ==
    /\ drv = "selftest"
    /\ \E b \in Bytes :
          /\ read_data(b)
          /\ \/ ~Passed(b) /\ drv' = "failed" /\ UNCHANGED <<ctl, owed>>
             \/ /\ Passed(b) /\ drv' = "ack"
                /\ ctl' = Written(config)
                /\ \E kb \in {<<>>, <<KB_RESPONSE_ACK, KB_RESPONSE_SELF_TEST_OK>>,
                              <<OtherByte, KB_RESPONSE_ACK, KB_RESPONSE_SELF_TEST_OK>>} :
                      owed' = owed \o kb
    /\ UNCHANGED config

(* The answers to the reset; whatever they are, init() goes on. *)
ResetAnswer ==
    /\ \E b \in Bytes :
          /\ read_data(b)
          /\ \/ drv = "ack" /\ b = KB_RESPONSE_ACK /\ drv' = "bat"
             \/ drv = "ack" /\ b # KB_RESPONSE_ACK /\ drv' = "flush"
             \/ drv = "bat" /\ drv' = "flush"
    /\ UNCHANGED <<owed, ctl, config>>

FlushAnswers ==
    /\ drv = "flush"
    /\ flush_output
    /\ drv' = "unmask"
    /\ UNCHANGED <<owed, ctl, config>>

(* register_ctx_handler() and clear_mask().  An interrupt that the PIC has  *)
(* latched for a byte which init() read comes now: the handler reads that   *)
(* byte again.                                                              *)
Unmask ==
    /\ drv = "unmask"
    /\ wire' \in {wire} \cup (IF wire = <<>> THEN {<<last>>} ELSE {})
    /\ drv' = "ready"
    /\ config' = NoConfig /\ last' = OtherByte
    /\ UNCHANGED <<owed, ctl>>

Ps2Init ==
    /\ Begin \/ ReadConfig \/ SelfTest \/ ResetAnswer \/ FlushAnswers \/ Unmask
    /\ UNCHANGED <<user, driver, KB_TAIL, pc, ch, editor, eaten>>

-----------------------------------------------------------------------------
SCANCODE_TABLE ==
    [key \in (Keys \cup {"x55", "ack"}) \ (Shifts \cup {"caps"}) |->
        CASE key = "a" -> "a" [] key = "1" -> "1" [] key = "enter" -> "nl"
          [] key = "backspace" -> "bs" [] OTHER -> "none"]

SCANCODE_TABLE_SHIFT ==
    [SCANCODE_TABLE EXCEPT !["a"] = "A", !["1"] = "!"]

IsLetter(c) == c = "a"

(* base - 32 *)
Upper(c) == "A"

(* Mutant: caps lock selects the shifted table for every key. *)
Decode_CapsIsShift(key) ==
    IF SHIFT_HELD \/ CAPS_LOCK THEN SCANCODE_TABLE_SHIFT[key] ELSE SCANCODE_TABLE[key]

(* The character of a pressed key. *)
Decode(key) ==
    LET base == SCANCODE_TABLE[key]
    IN  CASE CAPS_LOCK /\ ~SHIFT_HELD -> IF IsLetter(base) THEN Upper(base) ELSE base
          [] CAPS_LOCK /\ SHIFT_HELD -> IF IsLetter(base) THEN base
                                        ELSE SCANCODE_TABLE_SHIFT[key]
          [] ~CAPS_LOCK /\ SHIFT_HELD -> SCANCODE_TABLE_SHIFT[key]
          [] OTHER -> base

(* The modifier keys, of which the shift keys share a flag; the release of   *)
(* caps lock falls through and is ignored.  CTRL_HELD and ALT_HELD are not   *)
(* read by anything.                                                         *)
UpdateModifiers(sc) ==
    /\ SHIFT_HELD' = IF sc.key \in Shifts THEN ~sc.released ELSE SHIFT_HELD
    /\ CAPS_LOCK' = IF sc.key = "caps" /\ ~sc.released THEN ~CAPS_LOCK ELSE CAPS_LOCK

(* Mutant: a full ring is not noticed. *)
buf_push_NoCheck(c) ==
    /\ KB_BUF' = [KB_BUF EXCEPT ![KB_HEAD] = c]
    /\ KB_HEAD' = (KB_HEAD + 1) % KB_BUF_SIZE
    /\ pushed' = Append(pushed, c)

(* A character that does not fit is dropped. *)
buf_push(c) ==
    IF (KB_HEAD + 1) % KB_BUF_SIZE # KB_TAIL
    THEN /\ KB_BUF' = [KB_BUF EXCEPT ![KB_HEAD] = c]
         /\ KB_HEAD' = (KB_HEAD + 1) % KB_BUF_SIZE
         /\ pushed' = Append(pushed, c)
    ELSE UNCHANGED <<KB_BUF, KB_HEAD, pushed>>

(* The prefix is skipped, the code after it treated like any other. *)
HasChar(sc) ==
    /\ sc # PREFIX
    /\ ~sc.released
    /\ sc.key \notin Shifts \cup {"caps"}
    /\ Decode(sc.key) # "none"

(* An interrupt ends the hlt the shell is in. *)
WakeShell == pc' = IF pc = "asleep" THEN "poll" ELSE pc

(* keyboard_irq_handler and process_scancode. *)
KeyboardIrq ==
    /\ wire # <<>> /\ drv = "ready" /\ ctl.irq
    /\ wire' = Tail(wire)
    /\ UpdateModifiers(Head(wire))
    /\ IF HasChar(Head(wire))
       THEN /\ buf_push(Decode(Head(wire).key))
            /\ decoded' = Append(decoded, Decode(Head(wire).key))
       ELSE UNCHANGED <<KB_BUF, KB_HEAD, decoded, pushed>>
    /\ WakeShell
    /\ UNCHANGED <<ps2, user, KB_TAIL, ch, editor, eaten>>

(* Mutant: the timer does not end the hlt. *)
TimerIrq_NoWake == pc = "asleep" /\ UNCHANGED vars

(* The scheduler's timer interrupt also ends the hlt. *)
TimerIrq ==
    /\ pc = "asleep"
    /\ WakeShell
    /\ UNCHANGED <<user, wire, ps2, driver, KB_TAIL, ch, editor, eaten>>

-----------------------------------------------------------------------------
(* read_key() loads tail and head; with nothing to read the shell is about  *)
(* to execute hlt.                                                          *)
ReadKeyCheck ==
    /\ pc = "poll"
    /\ pc' = IF KB_TAIL = KB_HEAD THEN "hlt" ELSE "take"
    /\ UNCHANGED <<user, wire, ps2, driver, KB_TAIL, ch, editor, eaten>>

Hlt ==
    /\ pc = "hlt"
    /\ pc' = "asleep"
    /\ UNCHANGED <<user, wire, ps2, driver, KB_TAIL, ch, editor, eaten>>

ReadKeyTake ==
    /\ pc = "take"
    /\ ch' = KB_BUF[KB_TAIL]
    /\ pc' = "advance"
    /\ UNCHANGED <<user, wire, ps2, driver, KB_TAIL, editor, eaten>>

ReadKeyAdvance ==
    /\ pc = "advance"
    /\ KB_TAIL' = (KB_TAIL + 1) % KB_BUF_SIZE
    /\ eaten' = Append(eaten, ch)
    /\ pc' = "edit"
    /\ UNCHANGED <<user, wire, ps2, driver, ch, editor>>

(* A screen after the cursor went to the next row: past the last one the    *)
(* screen is cleared and the cursor starts at the top.                      *)
NextRow(row) == IF row + 1 >= rows THEN 0 ELSE row + 1

Advance(s, row) == IF row + 1 >= rows THEN Blank ELSE s

Echo(s, row) ==
    [s EXCEPT ![row] = [c \in 0 .. cols - 1 |->
        IF c < 2 THEN ">" ELSE IF c - 2 < Len(line) THEN line[c - 1] ELSE @[c]]]

EditNewline ==
    LET s1 == Advance([screen EXCEPT ![cur_row][cur_col] = " "], cur_row)
        r1 == NextRow(cur_row)
        s2 == IF line = <<>> THEN s1 ELSE Advance(Echo(s1, r1), r1)
        r2 == IF line = <<>> THEN r1 ELSE NextRow(r1)
    IN  /\ screen' = Prompt(s2, r2)
        /\ cur_row' = r2
        /\ line' = <<>>
        /\ cur_col' = prompt_len

(* Mutant: the cursor cell is not blanked. *)
EditBackspace_LeavesCursor ==
    IF line # <<>>
    THEN /\ screen' = [screen EXCEPT ![cur_row][cur_col - 1] = "_"]
         /\ line' = Front(line)
         /\ cur_col' = cur_col - 1
         /\ UNCHANGED cur_row
    ELSE UNCHANGED editor

EditBackspace ==
    IF line # <<>>
    THEN /\ screen' = [screen EXCEPT ![cur_row][cur_col] = " ",
                                     ![cur_row][cur_col - 1] = "_"]
         /\ line' = Front(line)
         /\ cur_col' = cur_col - 1
         /\ UNCHANGED cur_row
    ELSE UNCHANGED editor

(* There is room in the line buffer and, for the cursor, on the row. *)
Fits == Len(line) < LINE_MAX - 1 /\ cur_col < cols - 1

EditInsert ==
    IF Fits
    THEN /\ screen' = [screen EXCEPT ![cur_row][cur_col] = ch,
                                     ![cur_row][cur_col + 1] = "_"]
         /\ line' = Append(line, ch)
         /\ cur_col' = cur_col + 1
         /\ UNCHANGED cur_row
    ELSE UNCHANGED editor

(* The match on the character. *)
ShellEdit ==
    /\ pc = "edit"
    /\ CASE ch = "nl" -> EditNewline
         [] ch = "bs" -> EditBackspace
         [] OTHER -> EditInsert
    /\ pc' = "poll"
    /\ UNCHANGED <<user, wire, ps2, driver, KB_TAIL, ch, eaten>>

(* The shell is spawned after init(). *)
Shell ==
    /\ drv \in {"ready", "failed"}
    /\ ReadKeyCheck \/ Hlt \/ ReadKeyTake \/ ReadKeyAdvance \/ ShellEdit

Next ==
    \/ \E key \in UserKeys : Press(key) \/ Repeat(key) \/ Release(key)
    \/ Ps2Init \/ Answer \/ KeyboardIrq \/ TimerIrq \/ Shell

(* init() runs on, the shell is scheduled, interrupts are delivered, the    *)
(* timer ticks.  The controller and the keyboard need not answer.           *)
Fairness == WF_vars(Ps2Init) /\ WF_vars(Shell) /\ WF_vars(KeyboardIrq) /\ WF_vars(TimerIrq)

Spec == Init /\ [][Next]_vars

FairSpec == Spec /\ Fairness

-----------------------------------------------------------------------------
Buffered == [i \in 1 .. (KB_HEAD + KB_BUF_SIZE - KB_TAIL) % KB_BUF_SIZE |->
                KB_BUF[(KB_TAIL + i - 1) % KB_BUF_SIZE]]

(* The characters decoded by the interrupt handler are, in order, the ones  *)
(* the user meant when the keys were pressed or repeated: scancodes that    *)
(* wait in the controller do not pick up a later shift or caps lock, and    *)
(* late answers of the keyboard reset produce no character and take no      *)
(* shift away.  Shift is meant while either shift key is held, with the two *)
(* exceptions of ShiftMeant, and a caps lock that is held down toggles each *)
(* time it repeats.                                                         *)
CharsAsTyped == IsPrefix(decoded, typed)

(* What the shell has read, followed by what the ring holds, is what the    *)
(* handler put in: a full ring drops new characters, never old ones, even   *)
(* when the handler interrupts read_key between its load and its store.     *)
KeysInOrder == pushed = eaten \o Buffered

(* The row of the cursor shows the prompt, the line as it is in the line    *)
(* buffer, the cursor and nothing else; the rows below it are blank; the    *)
(* line fits its buffer and the row.                                        *)
VisibleLine ==
    /\ cur_col = prompt_len + Len(line)
    /\ cur_col < cols
    /\ Len(line) < LINE_MAX
    /\ screen[cur_row] = [c \in 0 .. cols - 1 |->
          IF c < prompt_len THEN ">"
          ELSE IF c < cur_col THEN line[c - prompt_len + 1]
          ELSE IF c = cur_col THEN "_" ELSE " "]
    /\ \A r \in cur_row + 1 .. rows - 1 : screen[r] = Blank[r]

(* Once port 1 is enabled the controller translates to the scancode set     *)
(* that the driver decodes, even when its answers came late: a              *)
(* configuration that was not read in time, and is written back as zero,    *)
(* makes init() give up, because the late byte is taken for the result of   *)
(* the self-test.  The exception is a configuration byte of 0x55.           *)
TranslationKept ==
    drv \in {"ack", "bat", "flush", "unmask"} => ctl.translate \/ config.byte = TestPassed

(* init() comes to an end whatever the controller and the keyboard do, and  *)
(* then no keystroke is stranded: what the keyboard sent and what is in the *)
(* ring is read, also when its interrupt came before clear_mask() or        *)
(* between the shell's check and its hlt.                                   *)
Quiet == drv = "ready" /\ wire = <<>> /\ KB_HEAD = KB_TAIL

KeysGetRead == []<>(Quiet \/ drv = "failed")
=============================================================================
