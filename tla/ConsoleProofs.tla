---------------------------- MODULE ConsoleProofs ----------------------------
(***************************************************************************)
(* Proofs about the way from the keyboard to the screen, for every size of *)
(* the ring, the line and the screen, and any number of keystrokes.        *)
(***************************************************************************)
EXTENDS Console, TLAPS

(* The bytes that the controller gives, and the characters of the tables. *)
ByteKeys == Keys \cup {"x55", "ack"}

ModifierKeys == Shifts \cup {"caps"}

Codes == [key : ByteKeys, released : BOOLEAN] \cup {PREFIX}

Chars == {"a", "A", "1", "!", "nl", "bs", "none"}

LEMMA SomeCodes ==
    /\ TestPassed \in Codes /\ KB_RESPONSE_ACK \in Codes
    /\ KB_RESPONSE_SELF_TEST_OK \in Codes /\ OtherByte \in Codes
    /\ PREFIX \in Codes
    /\ TimedOut \notin Codes
  BY DEF PREFIX, TestPassed, KB_RESPONSE_ACK, KB_RESPONSE_SELF_TEST_OK, OtherByte,
     TimedOut, Codes, ByteKeys, Keys, Shifts

LEMMA KeyCodes ==
    \A key \in UserKeys : /\ [key |-> key, released |-> FALSE] \in Codes
                          /\ [key |-> key, released |-> TRUE] \in Codes
                          /\ key \in Keys
  BY ConsoleConstants DEF Codes, ByteKeys, Keys

(* What joins and extends a sequence keeps its type. *)
LEMMA SeqJoin ==
    ASSUME NEW S, NEW s \in Seq(S), NEW t \in Seq(S) PROVE s \o t \in Seq(S)
  OBVIOUS

(* The table has a character, or none, for every key that is no modifier.   *)
LEMMA DecodeInChars ==
    \A key \in ByteKeys \ ModifierKeys : Decode(key) \in Chars
<1> SUFFICES ASSUME NEW key \in ByteKeys \ ModifierKeys PROVE Decode(key) \in Chars
  OBVIOUS
<1>1. SCANCODE_TABLE[key] \in Chars /\ SCANCODE_TABLE_SHIFT[key] \in Chars
  BY DEF SCANCODE_TABLE, SCANCODE_TABLE_SHIFT, Chars, ByteKeys, Keys, Shifts, ModifierKeys
<1> QED BY <1>1 DEF Decode, IsLetter, Upper, Chars

LEMMA CharacterKeys ==
    ASSUME NEW c \in Codes, HasChar(c) PROVE c.key \in ByteKeys \ ModifierKeys
  BY DEF Codes, HasChar, ModifierKeys

(* What the keyboard sends for an extended key, with or without a shift, is *)
(* a sequence of scancodes; for any other key it is one scancode.           *)
LEMMA ShiftCodes ==
    \A fake \in {"none", "on", "off"} :
        /\ [key |-> "lshift", released |-> fake = "off"] \in Codes
        /\ FakeCodes(fake) \in Seq(Codes)
<1> SUFFICES ASSUME NEW fake \in {"none", "on", "off"}
             PROVE  /\ [key |-> "lshift", released |-> fake = "off"] \in Codes
                    /\ FakeCodes(fake) \in Seq(Codes)
  OBVIOUS
<1>1. PICK c \in Codes : c = [key |-> "lshift", released |-> fake = "off"]
  BY DEF Codes, ByteKeys, Keys, Shifts
<1>2. <<>> \in Seq(Codes) /\ <<PREFIX, c>> \in Seq(Codes)
  BY SomeCodes
<1> QED BY <1>1, <1>2 DEF FakeCodes

LEMMA SentCodes ==
    \A key \in UserKeys, released \in BOOLEAN :
        /\ SentFor(key, released) \in Seq(Codes)
        /\ key # "arrow" => SentFor(key, released) = <<[key |-> key, released |-> released]>>
        /\ key = "arrow" => SentFor(key, released) = <<PREFIX, [key |-> key, released |-> released]>>
<1> SUFFICES ASSUME NEW key \in UserKeys, NEW released \in BOOLEAN
             PROVE  /\ SentFor(key, released) \in Seq(Codes)
                    /\ key # "arrow" =>
                          SentFor(key, released) = <<[key |-> key, released |-> released]>>
                    /\ key = "arrow" =>
                          SentFor(key, released) = <<PREFIX, [key |-> key, released |-> released]>>
  OBVIOUS
<1>1. PICK c \in Codes : c = [key |-> key, released |-> released]
  BY ConsoleConstants DEF Codes, ByteKeys
<1>2. PICK p \in Codes : p = PREFIX
  BY SomeCodes
<1>3. <<c>> \in Seq(Codes) /\ <<p, c>> \in Seq(Codes)
  OBVIOUS
<1> QED BY <1>1, <1>2, <1>3 DEF SentFor

(* The keyboard sends some bytes when a key is pressed, repeated, released. *)
LEMMA KeysAreSent ==
    ASSUME NEW key \in UserKeys, Press(key) \/ Repeat(key) \/ Release(key),
           wire \in Seq(Codes)
    PROVE  \E t \in Seq(Codes) : wire' = wire \o t
<1>0. Fakes(key) \subseteq {"none", "on", "off"}
  BY DEF Fakes
<1>1. CASE Press(key) \/ Repeat(key)
  <2>1. PICK fake \in Fakes(key) : wire' = wire \o FakeCodes(fake) \o SentFor(key, FALSE)
    BY <1>1 DEF Press, Repeat, SendDown
  <2>2. PICK f \in Seq(Codes), t \in Seq(Codes) : f = FakeCodes(fake) /\ t = SentFor(key, FALSE)
    BY <1>0, ShiftCodes, SentCodes
  <2>3. wire \o f \o t = wire \o (f \o t) /\ f \o t \in Seq(Codes)
    OBVIOUS
  <2> QED BY <2>1, <2>2, <2>3
<1>2. CASE Release(key)
  <2>1. PICK fake \in Fakes(key) : wire' = wire \o SentFor(key, TRUE) \o FakeCodes(fake)
    BY <1>2 DEF Release
  <2>2. PICK f \in Seq(Codes), t \in Seq(Codes) : f = FakeCodes(fake) /\ t = SentFor(key, TRUE)
    BY <1>0, ShiftCodes, SentCodes
  <2>3. wire \o t \o f = wire \o (t \o f) /\ t \o f \in Seq(Codes)
    OBVIOUS
  <2> QED BY <2>1, <2>2, <2>3
<1> QED BY <1>1, <1>2

-----------------------------------------------------------------------------
(* What the controller sends and owes are scancodes and answers. *)
WireInv ==
    /\ wire \in Seq(Codes)
    /\ owed \in Seq(Codes)
    /\ last \in Codes

LEMMA WireInit == Init => WireInv
<1> SUFFICES ASSUME Init PROVE WireInv
  OBVIOUS
<1>1. OtherByte \in Codes
  BY SomeCodes
<1>2. wire \in {<<>>, <<OtherByte>>} /\ owed = <<>> /\ last = OtherByte
  BY DEF Init
<1>3. <<>> \in Seq(Codes) /\ <<OtherByte>> \in Seq(Codes)
  BY <1>1
<1> QED BY <1>1, <1>2, <1>3 DEF WireInv

(* read_data() takes the first byte, or there is none. *)
LEMMA ReadData ==
    ASSUME WireInv, NEW b \in Bytes, read_data(b)
    PROVE  /\ wire' \in Seq(Codes) /\ last' \in Codes
           /\ b = TimedOut <=> wire = <<>>
           /\ wire # <<>> => b = Head(wire) /\ wire' = Tail(wire)
           /\ wire = <<>> => wire' = <<>>
<1>1. CASE wire = <<>>
  BY <1>1 DEF read_data, WireInv
<1>2. CASE wire # <<>>
  <2>1. Head(wire) \in Codes /\ Tail(wire) \in Seq(Codes)
    BY <1>2 DEF WireInv
  <2> QED BY <1>2, <2>1, SomeCodes DEF read_data
<1> QED BY <1>1, <1>2

LEMMA FlushOutput ==
    ASSUME WireInv, flush_output
    PROVE  wire' = <<>> /\ last' \in Codes
<1>1. wire # <<>> => Last(wire) \in Codes
  BY DEF WireInv, Last
<1> QED BY <1>1 DEF flush_output, WireInv

LEMMA WireStep == WireInv /\ [Next]_vars => WireInv'
<1> SUFFICES ASSUME WireInv, [Next]_vars PROVE WireInv'
  OBVIOUS
<1>0. wire \in Seq(Codes) /\ owed \in Seq(Codes) /\ last \in Codes
  BY DEF WireInv
<1>1. ASSUME NEW key \in UserKeys, Press(key) \/ Repeat(key) \/ Release(key)
      PROVE  WireInv'
  <2>1. PICK t \in Seq(Codes) : wire' = wire \o t
    BY <1>0, <1>1, KeysAreSent
  <2>2. owed' = owed /\ last' = last
    BY <1>1 DEF Press, Repeat, SendDown, Release, ps2
  <2>3. wire \o t \in Seq(Codes)
    BY <1>0, SeqJoin
  <2> QED BY <1>0, <2>1, <2>2, <2>3 DEF WireInv
<1>2. CASE Begin
  BY <1>0, <1>2, FlushOutput, SomeCodes DEF Begin, WireInv
<1>3. CASE ReadConfig
  <2>1. wire' \in Seq(Codes) /\ last' \in Codes
    BY <1>3, ReadData DEF ReadConfig
  <2>2. PICK t \in {TestPassed, OtherByte} : owed' \in {owed \o <<t>>, owed \o <<OtherByte, t>>}
    BY <1>3 DEF ReadConfig
  <2>3. t \in Codes /\ OtherByte \in Codes
    BY SomeCodes
  <2>4. <<t>> \in Seq(Codes) /\ <<OtherByte, t>> \in Seq(Codes)
    BY <2>3
  <2>5. owed' \in Seq(Codes)
    BY <1>0, <2>2, <2>4, SeqJoin
  <2> QED BY <2>1, <2>5 DEF WireInv
<1>4. CASE SelfTest
  <2>1. wire' \in Seq(Codes) /\ last' \in Codes
    BY <1>4, ReadData DEF SelfTest
  <2>2. \/ owed' = owed
        \/ \E kb \in {<<>>, <<KB_RESPONSE_ACK, KB_RESPONSE_SELF_TEST_OK>>,
                      <<OtherByte, KB_RESPONSE_ACK, KB_RESPONSE_SELF_TEST_OK>>} :
              owed' = owed \o kb
    BY <1>4 DEF SelfTest
  <2>3. {<<>>, <<KB_RESPONSE_ACK, KB_RESPONSE_SELF_TEST_OK>>,
         <<OtherByte, KB_RESPONSE_ACK, KB_RESPONSE_SELF_TEST_OK>>} \subseteq Seq(Codes)
    BY SomeCodes
  <2>4. owed' \in Seq(Codes)
    BY <1>0, <2>2, <2>3, SeqJoin
  <2> QED BY <2>1, <2>4 DEF WireInv
<1>5. CASE ResetAnswer
  BY <1>0, <1>5, ReadData DEF ResetAnswer, WireInv
<1>6. CASE FlushAnswers
  BY <1>0, <1>6, FlushOutput DEF FlushAnswers, WireInv
<1>7. CASE Unmask
  <2>1. wire' \in {wire, <<last>>} /\ last' = OtherByte /\ owed' = owed
    BY <1>7 DEF Unmask
  <2>2. <<last>> \in Seq(Codes) /\ OtherByte \in Codes
    BY <1>0, SomeCodes
  <2> QED BY <1>0, <2>1, <2>2 DEF WireInv
<1>8. CASE Answer
  BY <1>0, <1>8 DEF Answer, WireInv
<1>9. CASE KeyboardIrq
  BY <1>0, <1>9 DEF KeyboardIrq, ps2, WireInv
<1>10. CASE TimerIrq \/ Shell \/ UNCHANGED vars
  BY <1>0, <1>10 DEF TimerIrq, Shell, ReadKeyCheck, Hlt, ReadKeyTake, ReadKeyAdvance,
     ShellEdit, vars, ps2, WireInv
<1> QED BY <1>1, <1>2, <1>3, <1>4, <1>5, <1>6, <1>7, <1>8, <1>9, <1>10 DEF Next, Ps2Init

-----------------------------------------------------------------------------
(* The byte that is read next, now or when the controller sends it. *)
NextByte == IF wire # <<>> THEN Head(wire) ELSE Head(owed)

(* The user presses nothing before the keyboard is reset.                   *)
(* While the answer to CMD_READ_CONFIG is not read it is the next byte,     *)
(* also after read_data() gave up waiting for it.                           *)
ConfigInv ==
    /\ config \in [byte : Codes, read : BOOLEAN]
    /\ drv \notin {"unmask", "ready"} => down = {}
    /\ drv = "begin" => owed = <<>>
    /\ drv = "config" \/ (drv = "selftest" /\ ~config.read) =>
          (wire # <<>> \/ owed # <<>>) /\ NextByte = config.byte
    /\ TranslationKept

LEMMA ConfigInit == Init => ConfigInv
  BY SomeCodes DEF Init, ConfigInv, TranslationKept, NoConfig

(* A byte that is sent does not get ahead of others. *)
LEMMA NextByteStays ==
    ASSUME NEW s \in Seq(Codes), NEW c \in Codes
    PROVE  /\ Append(s, c) # <<>>
           /\ s # <<>> => Head(Append(s, c)) = Head(s)
           /\ s = <<>> => Head(Append(s, c)) = c
  OBVIOUS

LEMMA ConfigStep == WireInv /\ ConfigInv /\ [Next]_vars => ConfigInv'
<1> SUFFICES ASSUME WireInv, ConfigInv, [Next]_vars PROVE ConfigInv'
  OBVIOUS
<1>0. wire \in Seq(Codes) /\ owed \in Seq(Codes)
  BY DEF WireInv
<1>a. config \in [byte : Codes, read : BOOLEAN]
  BY DEF ConfigInv
<1>1. CASE Ps2Init
  <2>0. down' = down
    BY <1>1 DEF Ps2Init, user
  <2>1. CASE Begin
    <3>1. PICK b \in {TestPassed, OtherByte} :
                owed' = Append(owed, b) /\ config' = [NoConfig EXCEPT !.byte = b]
      BY <2>1 DEF Begin
    <3>2. drv = "begin" /\ owed = <<>> /\ drv' = "config" /\ wire' = <<>>
      BY <2>1 DEF Begin, flush_output, ConfigInv
    <3>3. b \in Codes
      BY SomeCodes
    <3>4. owed' # <<>> /\ Head(owed') = b
      BY <1>0, <3>1, <3>2, <3>3, NextByteStays
    <3>5. config' \in [byte : Codes, read : BOOLEAN] /\ config'.byte = b
      BY <3>1, <3>3, SomeCodes DEF NoConfig
    <3> QED BY <2>0, <3>2, <3>4, <3>5 DEF NextByte, ConfigInv, TranslationKept
  <2>2. CASE ReadConfig
    <3>1. PICK b \in Bytes : read_data(b) /\ config' = [config EXCEPT !.read = (b # TimedOut)]
      BY <2>2 DEF ReadConfig
    <3>2. /\ b = TimedOut <=> wire = <<>>
          /\ wire = <<>> => wire' = <<>>
      BY <3>1, ReadData
    <3>3. /\ config' \in [byte : Codes, read : BOOLEAN]
          /\ config'.byte = config.byte /\ config'.read = (b # TimedOut)
      BY <1>a, <3>1
    <3>4. drv = "config" /\ drv' = "selftest"
      BY <2>2 DEF ReadConfig
    <3>5. PICK t \in {TestPassed, OtherByte} : owed' \in {owed \o <<t>>, owed \o <<OtherByte, t>>}
      BY <2>2 DEF ReadConfig
    <3>6. owed # <<>> => owed' # <<>> /\ Head(owed') = Head(owed)
      <4>1. <<t>> \in Seq(Codes) /\ <<OtherByte, t>> \in Seq(Codes)
        BY SomeCodes
      <4> QED BY <1>0, <3>5, <4>1
    <3>7. ASSUME ~config'.read
          PROVE  wire' = <<>> /\ owed' # <<>> /\ Head(owed') = config'.byte
      BY <3>2, <3>3, <3>4, <3>6, <3>7 DEF ConfigInv, NextByte
    <3> QED BY <2>0, <3>3, <3>4, <3>7 DEF NextByte, ConfigInv, TranslationKept
  <2>3. CASE SelfTest
    <3>1. PICK b \in Bytes :
            /\ read_data(b)
            /\ \/ ~Passed(b) /\ drv' = "failed"
               \/ Passed(b) /\ drv' = "ack" /\ ctl' = Written(config)
      BY <2>3 DEF SelfTest
    <3>2. drv = "selftest" /\ config' = config
      BY <2>3 DEF SelfTest
    <3>3. ASSUME b = TestPassed, ~config.read PROVE config.byte = TestPassed
      <4>1. b # TimedOut
        BY <3>3, SomeCodes
      <4>2. b = Head(wire) /\ wire # <<>>
        BY <3>1, <4>1, ReadData
      <4> QED BY <3>2, <3>3, <4>2 DEF ConfigInv, NextByte
    <3> QED BY <2>0, <1>a, <3>1, <3>2, <3>3 DEF ConfigInv, TranslationKept, Passed, Written
  <2>4. CASE ResetAnswer \/ FlushAnswers
    <3>1. /\ drv \in {"ack", "bat", "flush"} /\ drv' \in {"bat", "flush", "unmask"}
          /\ UNCHANGED <<owed, ctl, config>>
      BY <2>4 DEF ResetAnswer, FlushAnswers
    <3> QED BY <2>0, <3>1 DEF ConfigInv, TranslationKept
  <2>5. CASE Unmask
    BY <2>0, <2>5, SomeCodes DEF Unmask, NoConfig, ConfigInv, TranslationKept
  <2> QED BY <1>1, <2>1, <2>2, <2>3, <2>4, <2>5 DEF Ps2Init
<1>2. ASSUME NEW key \in UserKeys, Press(key) \/ Repeat(key) PROVE ConfigInv'
  BY <1>2 DEF Press, Repeat, SendDown, Ready, ps2, ConfigInv, TranslationKept
<1>3. ASSUME NEW key \in UserKeys, Release(key) PROVE ConfigInv'
  BY <1>3 DEF Release, ps2, ConfigInv, TranslationKept
<1>4. CASE Answer
  <2>1. Head(owed) \in Codes /\ owed # <<>>
    BY <1>0, <1>4 DEF Answer
  <2>2. wire' = Append(wire, Head(owed)) /\ UNCHANGED <<ctl, drv, config, down>>
    BY <1>4 DEF Answer, user
  <2>3. wire' # <<>> /\ Head(wire') = NextByte
    BY <1>0, <2>1, <2>2, NextByteStays DEF NextByte
  <2> QED BY <2>1, <2>2, <2>3 DEF ConfigInv, TranslationKept, NextByte
<1>5. CASE KeyboardIrq
  BY <1>5 DEF KeyboardIrq, ps2, user, ConfigInv, TranslationKept
<1>6. CASE TimerIrq \/ Shell \/ UNCHANGED vars
  BY <1>6 DEF TimerIrq, Shell, ReadKeyCheck, Hlt, ReadKeyTake, ReadKeyAdvance,
     ShellEdit, vars, ps2, user, ConfigInv, TranslationKept, NextByte
<1> QED BY <1>1, <1>2, <1>3, <1>4, <1>5, <1>6 DEF Next

(* Whenever init() gets past the self-test, the controller translates to    *)
(* the scancode set of the driver's tables, however late the answers came:  *)
(* a configuration that was missed is the next byte that is read, and taken *)
(* for the result of the self-test.                                         *)
THEOREM TranslationIsKept == Spec => []TranslationKept
<1>1. ConfigInv => TranslationKept
  BY DEF ConfigInv
<1> QED BY WireInit, WireStep, ConfigInit, ConfigStep, <1>1, PTL DEF Spec

-----------------------------------------------------------------------------
(* The slots of the ring and its content from tail t to head h. *)
Slots == 0 .. KB_BUF_SIZE - 1

Count(h, t) == (h + KB_BUF_SIZE - t) % KB_BUF_SIZE

Held(b, h, t) == [i \in 1 .. Count(h, t) |-> b[(t + i - 1) % KB_BUF_SIZE]]

(* The ring's index arithmetic without the remainder. *)
LEMMA RingIndex ==
    ASSUME NEW h \in Slots, NEW t \in Slots
    PROVE  /\ (h + 1) % KB_BUF_SIZE = IF h + 1 = KB_BUF_SIZE THEN 0 ELSE h + 1
           /\ (h + 1) % KB_BUF_SIZE \in Slots
           /\ (h + KB_BUF_SIZE - t) % KB_BUF_SIZE = IF h >= t THEN h - t ELSE h + KB_BUF_SIZE - t
           /\ (h + t) % KB_BUF_SIZE = IF h + t < KB_BUF_SIZE THEN h + t ELSE h + t - KB_BUF_SIZE
<1> DEFINE N == KB_BUF_SIZE
<1>1. N \in Nat \ {0, 1} /\ h \in 0 .. N - 1 /\ t \in 0 .. N - 1
  BY ConsoleConstants DEF Slots
<1> HIDE DEF N
<1>2. (h + 1) % N = IF h + 1 = N THEN 0 ELSE h + 1
  BY <1>1
<1>3. (h + N - t) % N = IF h >= t THEN h - t ELSE h + N - t
  <2>1. CASE h >= t
    <3>1. (h - t) \in 0 .. N - 1 /\ h + N - t = (h - t) + N
      BY <1>1, <2>1
    <3>2. ((h - t) + N) % N = h - t
      BY <1>1, <3>1
    <3> QED BY <2>1, <3>1, <3>2
  <2>2. CASE ~(h >= t)
    <3>1. h + N - t \in 0 .. N - 1
      BY <1>1, <2>2
    <3>2. (h + N - t) % N = h + N - t
      BY <1>1, <3>1
    <3> QED BY <2>2, <3>2
  <2> QED BY <2>1, <2>2
<1>4. (h + t) % N = IF h + t < N THEN h + t ELSE h + t - N
  <2>1. CASE h + t < N
    BY <1>1, <2>1
  <2>2. CASE ~(h + t < N)
    <3>1. h + t - N \in 0 .. N - 1 /\ h + t = (h + t - N) + N
      BY <1>1, <2>2
    <3>2. ((h + t - N) + N) % N = h + t - N
      BY <1>1, <3>1
    <3> QED BY <2>2, <3>1, <3>2
  <2> QED BY <2>1, <2>2
<1>5. (h + 1) % N \in 0 .. N - 1
  BY <1>1, <1>2
<1> QED BY <1>2, <1>3, <1>4, <1>5 DEF N, Slots

(* The content is a sequence; its slots are neither the head nor, when the  *)
(* ring is not empty, without the tail.                                     *)
LEMMA HeldFacts ==
    ASSUME NEW b \in [Slots -> Chars], NEW h \in Slots, NEW t \in Slots
    PROVE  /\ Count(h, t) \in Nat /\ Count(h, t) < KB_BUF_SIZE
           /\ Held(b, h, t) \in Seq(Chars) /\ Len(Held(b, h, t)) = Count(h, t)
           /\ \A i \in 1 .. Count(h, t) :
                 /\ (t + (i - 1)) % KB_BUF_SIZE \in Slots \ {h}
                 /\ Held(b, h, t)[i] = b[(t + (i - 1)) % KB_BUF_SIZE]
           /\ (t + Count(h, t)) % KB_BUF_SIZE = h
<1> DEFINE N == KB_BUF_SIZE
           n == Count(h, t)
<1>1. N \in Nat \ {0, 1} /\ h \in 0 .. N - 1 /\ t \in 0 .. N - 1
  BY ConsoleConstants DEF Slots
<1>2. n = IF h >= t THEN h - t ELSE h + N - t
  BY RingIndex DEF Count
<1>3. \A j \in 0 .. N - 1 : (t + j) % N = IF t + j < N THEN t + j ELSE t + j - N
  BY RingIndex DEF Slots
<1> HIDE DEF N, n
<1>4. n \in 0 .. N - 1
  BY <1>1, <1>2
<1>5. (t + n) % N = h
  BY <1>1, <1>2, <1>3, <1>4
<1>6. ASSUME NEW i \in 1 .. n
      PROVE  /\ (t + (i - 1)) % N \in (0 .. N - 1) \ {h}
             /\ t + i - 1 = t + (i - 1)
  <2>1. i - 1 \in 0 .. N - 1 /\ i - 1 < n /\ t + i - 1 = t + (i - 1)
    BY <1>1, <1>4
  <2>2. (t + (i - 1)) % N = IF t + (i - 1) < N THEN t + (i - 1) ELSE t + (i - 1) - N
    BY <1>3, <2>1
  <2> QED BY <1>1, <1>2, <2>1, <2>2
<1>7. Held(b, h, t) = [i \in 1 .. n |-> b[(t + i - 1) % N]]
  BY DEF Held, n, N
<1>8. \A i \in 1 .. n : Held(b, h, t)[i] = b[(t + (i - 1)) % N] /\ Held(b, h, t)[i] \in Chars
  BY <1>6, <1>7 DEF Slots, N
<1>9. Held(b, h, t) \in Seq(Chars) /\ Len(Held(b, h, t)) = n
  BY <1>4, <1>7, <1>8
<1>10. \A i \in 1 .. n : /\ (t + (i - 1)) % N \in Slots \ {h}
                         /\ Held(b, h, t)[i] = b[(t + (i - 1)) % N]
  BY <1>6, <1>8 DEF Slots, N
<1>11. n \in Nat /\ n < N
  BY <1>1, <1>4
<1> QED BY <1>5, <1>9, <1>10, <1>11 DEF N, n

(* The same, apart. *)
LEMMA HeldSeq ==
    ASSUME NEW b \in [Slots -> Chars], NEW h \in Slots, NEW t \in Slots
    PROVE  /\ Count(h, t) \in Nat
           /\ Held(b, h, t) \in Seq(Chars) /\ Len(Held(b, h, t)) = Count(h, t)
  BY HeldFacts

LEMMA HeldAt ==
    ASSUME NEW b \in [Slots -> Chars], NEW h \in Slots, NEW t \in Slots,
           NEW i \in 1 .. Count(h, t)
    PROVE  Held(b, h, t)[i] = b[(t + (i - 1)) % KB_BUF_SIZE]
  BY HeldFacts

(* buf_push() on a ring that is not full appends. *)
LEMMA HeldPush ==
    ASSUME NEW b \in [Slots -> Chars], NEW h \in Slots, NEW t \in Slots, NEW c \in Chars
    PROVE  (h + 1) % KB_BUF_SIZE # t =>
              Held([b EXCEPT ![h] = c], (h + 1) % KB_BUF_SIZE, t) = Append(Held(b, h, t), c)
<1> DEFINE N == KB_BUF_SIZE
<1>0. /\ (t + Count(h, t)) % N = h
      /\ \A i \in 1 .. Count(h, t) : (t + (i - 1)) % N \in Slots \ {h}
  BY HeldFacts
<1>1. PICK h1 \in Slots : h1 = (h + 1) % N
  BY RingIndex
<1>2. PICK b1 \in [Slots -> Chars] : b1 = [b EXCEPT ![h] = c]
  OBVIOUS
<1>3. b1[h] = c /\ \A j \in Slots \ {h} : b1[j] = b[j]
  BY <1>2
<1> DEFINE n == Count(h, t)
           n1 == Count(h1, t)
           s == Held(b, h, t)
           s1 == Held(b1, h1, t)
<1>4. n \in Nat /\ s \in Seq(Chars) /\ Len(s) = n
  BY HeldSeq
<1>5. n1 \in Nat /\ s1 \in Seq(Chars) /\ Len(s1) = n1
  BY HeldSeq
<1>6. h1 # t => n1 = n + 1
  <2>1. N \in Nat \ {0, 1} /\ h \in 0 .. N - 1 /\ t \in 0 .. N - 1 /\ h1 \in 0 .. N - 1
    BY ConsoleConstants DEF Slots
  <2>2. h1 = IF h + 1 = N THEN 0 ELSE h + 1
    BY <1>1, RingIndex
  <2>3. n = IF h >= t THEN h - t ELSE h + N - t
    BY RingIndex DEF Count
  <2>4. n1 = IF h1 >= t THEN h1 - t ELSE h1 + N - t
    BY RingIndex DEF Count
  <2> HIDE DEF N, n, n1
  <2> QED BY <2>1, <2>2, <2>3, <2>4
<1>7. \A i \in 1 .. n : s[i] = b[(t + (i - 1)) % N]
  BY HeldAt
<1>8. \A i \in 1 .. n1 : s1[i] = b1[(t + (i - 1)) % N]
  BY HeldAt
<1>9. (t + n) % N = h /\ \A i \in 1 .. n : (t + (i - 1)) % N \in Slots \ {h}
  BY <1>0
<1> HIDE DEF N, n, n1, s, s1
<1>10. ASSUME h1 # t PROVE s1 = Append(s, c)
  <2>1. ASSUME NEW i \in 1 .. n1 PROVE s1[i] = Append(s, c)[i]
    <3>1. CASE i = n + 1
      <4>1. i - 1 = n
        BY <1>4, <3>1
      <4>2. s1[i] = c
        BY <1>3, <1>8, <1>9, <4>1
      <4>3. Append(s, c)[n + 1] = c
        BY <1>4
      <4> QED BY <3>1, <4>2, <4>3
    <3>2. CASE i \in 1 .. n
      <4>1. s1[i] = s[i]
        BY <1>3, <1>7, <1>8, <1>9, <3>2
      <4>2. Append(s, c)[i] = s[i]
        BY <1>4, <3>2
      <4> QED BY <4>1, <4>2
    <3> QED BY <1>4, <1>6, <1>10, <3>1, <3>2
  <2>2. Append(s, c) \in Seq(Chars) /\ Len(Append(s, c)) = n1
    BY <1>4, <1>6, <1>10
  <2> QED BY <1>5, <2>1, <2>2
<1> QED BY <1>1, <1>2, <1>10 DEF N, s, s1

(* read_key() on a ring that is not empty takes the first character. *)
LEMMA HeldPop ==
    ASSUME NEW b \in [Slots -> Chars], NEW h \in Slots, NEW t \in Slots, h # t
    PROVE  Held(b, h, t) = <<b[t]>> \o Held(b, h, (t + 1) % KB_BUF_SIZE)
<1> DEFINE N == KB_BUF_SIZE
<1>a. PICK t1 \in Slots : t1 = (t + 1) % N
  BY RingIndex
<1> DEFINE n == Count(h, t)
           n1 == Count(h, t1)
           s == Held(b, h, t)
           s1 == Held(b, h, t1)
<1>0. N \in Nat \ {0, 1} /\ h \in 0 .. N - 1 /\ t \in 0 .. N - 1
  BY ConsoleConstants DEF Slots
<1>1. t1 \in 0 .. N - 1 /\ t1 = IF t + 1 = N THEN 0 ELSE t + 1
  BY <1>a, RingIndex DEF Slots
<1>2. /\ n \in Nat /\ n < N /\ s \in Seq(Chars) /\ Len(s) = n
      /\ \A i \in 1 .. n : s[i] = b[(t + (i - 1)) % N]
  BY HeldFacts
<1>3. /\ n1 \in Nat /\ n1 < N /\ s1 \in Seq(Chars) /\ Len(s1) = n1
      /\ \A i \in 1 .. n1 : s1[i] = b[(t1 + (i - 1)) % N]
  BY HeldFacts
<1>4. n = IF h >= t THEN h - t ELSE h + N - t
  BY RingIndex DEF Count
<1>5. n1 = IF h >= t1 THEN h - t1 ELSE h + N - t1
  BY RingIndex DEF Count
<1>6. \A j \in 0 .. N - 1 :
        /\ (t + j) % N = IF t + j < N THEN t + j ELSE t + j - N
        /\ (t1 + j) % N = IF t1 + j < N THEN t1 + j ELSE t1 + j - N
  BY RingIndex DEF Slots
<1>7. b[t] \in Chars
  OBVIOUS
<1> HIDE DEF N, n, n1, s, s1
<1>8. n1 = n - 1 /\ n >= 1
  BY <1>0, <1>1, <1>4, <1>5
<1> DEFINE u == <<b[t]>> \o s1
<1>9. u \in Seq(Chars) /\ Len(u) = n /\ u[1] = b[t] /\ \A i \in 2 .. n : u[i] = s1[i - 1]
  <2>1. <<b[t]>> \in Seq(Chars) /\ Len(<<b[t]>>) = 1
    BY <1>7
  <2>2. u \in Seq(Chars) /\ Len(u) = 1 + n1
    BY <1>3, <2>1
  <2>3. u[1] = b[t]
    BY <1>3, <2>1
  <2>4. \A i \in 2 .. 1 + n1 : u[i] = s1[i - 1]
    BY <1>3, <2>1
  <2>5. 1 + n1 = n
    BY <1>2, <1>3, <1>8
  <2> QED BY <2>2, <2>3, <2>4, <2>5
<1> HIDE DEF u
<1>10. ASSUME NEW i \in 1 .. n PROVE s[i] = u[i]
  <2>1. CASE i = 1
    <3>1. (t + (i - 1)) % N = t
      BY <1>0, <2>1
    <3> QED BY <1>2, <1>9, <2>1, <3>1
  <2>2. CASE i # 1
    <3>1. i \in 2 .. n /\ i - 1 \in 1 .. n1 /\ (i - 1) - 1 = i - 2
      BY <1>8, <1>2, <2>2
    <3>2. u[i] = b[(t1 + (i - 2)) % N]
      BY <1>3, <1>9, <3>1
    <3>3. i - 1 \in 0 .. N - 1 /\ i - 2 \in 0 .. N - 1
      BY <1>0, <1>2, <3>1
    <3>4. (t1 + (i - 2)) % N = (t + (i - 1)) % N
      BY <1>0, <1>1, <1>6, <3>1, <3>3
    <3> QED BY <1>2, <3>2, <3>4
  <2> QED BY <2>1, <2>2
<1>11. s = u
  BY <1>2, <1>9, <1>10
<1> QED BY <1>a, <1>11 DEF s, u, s1, N

(* What read_key() has seen stays so until it stores the tail: the handler  *)
(* neither empties the ring nor overwrites the character at the tail.       *)
KeysInv ==
    /\ KB_BUF \in [Slots -> Chars] /\ KB_HEAD \in Slots /\ KB_TAIL \in Slots
    /\ ch \in Chars /\ eaten \in Seq(Chars)
    /\ pc \in {"take", "advance"} => KB_HEAD # KB_TAIL
    /\ pc = "advance" => ch = KB_BUF[KB_TAIL]
    /\ KeysInOrder

LEMMA BufferedIsHeld == Buffered = Held(KB_BUF, KB_HEAD, KB_TAIL)
  BY DEF Buffered, Held, Count

LEMMA KeysInit == Init => KeysInv
<1> SUFFICES ASSUME Init PROVE KeysInv
  OBVIOUS
<1>1. KB_HEAD = 0 /\ KB_TAIL = 0 /\ KB_BUF \in [Slots -> Chars] /\ ch \in Chars
  BY DEF Init, Slots, Chars
<1>2. 0 \in Slots
  BY ConsoleConstants DEF Slots
<1>3. eaten = <<>> /\ pushed = <<>> /\ pc = "poll"
  BY DEF Init
<1>4. Held(KB_BUF, 0, 0) \in Seq(Chars) /\ Len(Held(KB_BUF, 0, 0)) = Count(0, 0)
  BY <1>1, <1>2, HeldSeq
<1>5. Count(0, 0) = 0
  BY ConsoleConstants DEF Count
<1>6. Held(KB_BUF, 0, 0) = <<>>
  BY <1>4, <1>5
<1>7. KeysInOrder
  BY <1>1, <1>3, <1>6, BufferedIsHeld DEF KeysInOrder
<1> QED BY <1>1, <1>2, <1>3, <1>7 DEF KeysInv

(* buf_push() of a character, complete or dropped. *)
LEMMA PushKeepsOrder ==
    ASSUME KeysInv, NEW c \in Chars, buf_push(c), KB_TAIL' = KB_TAIL, eaten' = eaten,
           ch' = ch, pc' \in {"take", "advance"} => pc' = pc
    PROVE  KeysInv'
<1>0. /\ KB_BUF \in [Slots -> Chars] /\ KB_HEAD \in Slots /\ KB_TAIL \in Slots
      /\ ch \in Chars /\ eaten \in Seq(Chars)
  BY DEF KeysInv
<1>1. CASE UNCHANGED <<KB_BUF, KB_HEAD, pushed>>
  <2>1. Buffered' = Buffered
    BY <1>1 DEF Buffered
  <2> QED BY <1>1, <2>1 DEF KeysInv, KeysInOrder
<1>2. CASE /\ (KB_HEAD + 1) % KB_BUF_SIZE # KB_TAIL
           /\ KB_BUF' = [KB_BUF EXCEPT ![KB_HEAD] = c]
           /\ KB_HEAD' = (KB_HEAD + 1) % KB_BUF_SIZE
           /\ pushed' = Append(pushed, c)
  <2> DEFINE H == Held(KB_BUF, KB_HEAD, KB_TAIL)
  <2>1. H \in Seq(Chars)
    BY <1>0, HeldSeq
  <2>2. Buffered' = Held(KB_BUF', KB_HEAD', KB_TAIL') /\ Buffered = H
    BY BufferedIsHeld DEF Buffered, Held, Count
  <2>3. Held(KB_BUF', KB_HEAD', KB_TAIL) = Append(H, c)
    BY <1>0, <1>2, HeldPush
  <2>4. pushed = eaten \o H
    BY <2>2 DEF KeysInv, KeysInOrder
  <2> HIDE DEF H
  <2>5. Append(eaten \o H, c) = eaten \o Append(H, c)
    BY <1>0, <2>1
  <2>6. KeysInOrder'
    BY <1>2, <2>2, <2>3, <2>4, <2>5 DEF KeysInOrder
  <2>7. KB_HEAD' \in Slots /\ KB_BUF' \in [Slots -> Chars]
    BY <1>0, <1>2, RingIndex
  <2>8. KB_HEAD # KB_TAIL => KB_BUF'[KB_TAIL] = KB_BUF[KB_TAIL]
    BY <1>0, <1>2
  <2>9. KB_HEAD' # KB_TAIL'
    BY <1>2
  <2>10. pc' = "advance" => ch' = KB_BUF'[KB_TAIL']
    BY <2>8 DEF KeysInv
  <2> QED BY <1>0, <2>6, <2>7, <2>9, <2>10 DEF KeysInv
<1> QED BY <1>1, <1>2 DEF buf_push

LEMMA KeysStep == WireInv /\ KeysInv /\ [Next]_vars => KeysInv'
<1> SUFFICES ASSUME WireInv, KeysInv, [Next]_vars PROVE KeysInv'
  OBVIOUS
<1>0. /\ KB_BUF \in [Slots -> Chars] /\ KB_HEAD \in Slots /\ KB_TAIL \in Slots
      /\ ch \in Chars /\ eaten \in Seq(Chars)
  BY DEF KeysInv
<1>1. CASE KeyboardIrq
  <2>1. /\ UNCHANGED <<KB_TAIL, eaten, ch>>
        /\ pc' \in {"take", "advance"} => pc' = pc
    BY <1>1 DEF KeyboardIrq, WakeShell
  <2>2. CASE HasChar(Head(wire))
    <3>1. Head(wire) \in Codes
      BY <1>1 DEF KeyboardIrq, WireInv
    <3>2. Head(wire).key \in ByteKeys \ ModifierKeys
      BY <2>2, <3>1, CharacterKeys
    <3>3. Decode(Head(wire).key) \in Chars
      BY <3>2, DecodeInChars
    <3>4. buf_push(Decode(Head(wire).key))
      BY <1>1, <2>2 DEF KeyboardIrq
    <3> QED BY <2>1, <3>3, <3>4, PushKeepsOrder
  <2>3. CASE ~HasChar(Head(wire))
    <3>1. UNCHANGED <<KB_BUF, KB_HEAD, pushed>>
      BY <1>1, <2>3 DEF KeyboardIrq
    <3>2. Buffered' = Buffered
      BY <2>1, <3>1 DEF Buffered
    <3> QED BY <2>1, <3>1, <3>2 DEF KeysInv, KeysInOrder
  <2> QED BY <2>2, <2>3
<1>2. CASE ReadKeyAdvance
  <2>1. /\ KB_HEAD # KB_TAIL /\ ch = KB_BUF[KB_TAIL]
        /\ KB_TAIL' = (KB_TAIL + 1) % KB_BUF_SIZE /\ eaten' = Append(eaten, ch)
        /\ pc' = "edit" /\ UNCHANGED <<KB_BUF, KB_HEAD, pushed, ch>>
    BY <1>2 DEF ReadKeyAdvance, KeysInv, driver
  <2>2. KB_TAIL' \in Slots
    BY <1>0, <2>1, RingIndex
  <2> DEFINE H == Held(KB_BUF, KB_HEAD, KB_TAIL')
  <2>3. Buffered' = H /\ Buffered = Held(KB_BUF, KB_HEAD, KB_TAIL)
    BY <2>1, BufferedIsHeld DEF Buffered, Held, Count
  <2>4. Buffered = <<ch>> \o H
    BY <1>0, <2>1, <2>3, HeldPop
  <2>5. H \in Seq(Chars)
    BY <1>0, <2>2, HeldSeq
  <2> HIDE DEF H
  <2>6. eaten \o (<<ch>> \o H) = Append(eaten, ch) \o H
    BY <1>0, <2>5
  <2>7. KeysInOrder'
    BY <2>1, <2>3, <2>4, <2>6 DEF KeysInv, KeysInOrder
  <2>8. Append(eaten, ch) \in Seq(Chars)
    BY <1>0
  <2> QED BY <1>0, <2>1, <2>2, <2>7, <2>8 DEF KeysInv
<1>3. CASE ReadKeyTake
  <2>1. Buffered' = Buffered
    BY <1>3 DEF ReadKeyTake, driver, Buffered
  <2>2. ch' \in Chars
    BY <1>0, <1>3 DEF ReadKeyTake
  <2> QED BY <1>3, <2>1, <2>2 DEF ReadKeyTake, driver, KeysInv, KeysInOrder
<1>4. ASSUME /\ UNCHANGED <<KB_BUF, KB_HEAD, KB_TAIL, pushed, eaten, ch>>
             /\ pc' \in {"take", "advance"} => pc' = pc \/ (pc' = "take" /\ KB_HEAD # KB_TAIL)
      PROVE  KeysInv'
  <2>1. Buffered' = Buffered
    BY <1>4 DEF Buffered
  <2> QED BY <1>4, <2>1 DEF KeysInv, KeysInOrder
<1>5. CASE ReadKeyCheck \/ Hlt \/ ShellEdit \/ TimerIrq
  BY <1>4, <1>5 DEF ReadKeyCheck, Hlt, ShellEdit, TimerIrq, WakeShell, driver
<1>6. CASE \/ \E key \in UserKeys : Press(key) \/ Repeat(key) \/ Release(key)
           \/ Ps2Init \/ Answer \/ UNCHANGED vars
  BY <1>4, <1>6 DEF Press, Repeat, SendDown, Release, Ps2Init, Answer, vars, driver
<1> QED BY <1>1, <1>2, <1>3, <1>5, <1>6 DEF Next, Shell

(* What the shell reads is what the handler put in the ring, in order and   *)
(* without loss, for every size of the ring and also when the interrupt     *)
(* comes between read_key()'s load of a character and its store of the tail.*)
THEOREM KeysAreInOrder == Spec => []KeysInOrder
<1>1. KeysInv => KeysInOrder
  BY DEF KeysInv
<1> QED BY WireInit, WireStep, KeysInit, KeysStep, <1>1, PTL DEF Spec

-----------------------------------------------------------------------------
(* The row of the screen that shows line l with the cursor in column cc. *)
RowOf(l, cc) ==
    [c \in 0 .. cols - 1 |->
        IF c < prompt_len THEN ">"
        ELSE IF c < cc THEN l[c - prompt_len + 1]
        ELSE IF c = cc THEN "_" ELSE " "]

(* Screen s has all its rows, and they are blank from row r on. *)
Clear(s, r) == DOMAIN s = 0 .. rows - 1 /\ \A q \in r .. rows - 1 : s[q] = Blank[q]

LEMMA Sizes ==
    /\ rows \in Nat \ {0} /\ prompt_len \in Nat \ {0} /\ LINE_MAX \in Nat \ {0}
    /\ cols \in Nat /\ cols > prompt_len + 1
  BY ConsoleConstants

(* Writing two cells of a row, and of a screen. *)
LEMMA TwoCells ==
    ASSUME NEW f, NEW a, NEW b, NEW x, NEW y
    PROVE  [f EXCEPT ![a] = x, ![b] = y] =
              [c \in DOMAIN f |-> IF c = b THEN y ELSE IF c = a THEN x ELSE f[c]]
  OBVIOUS

LEMMA TwoCellsOfScreen ==
    ASSUME NEW s, NEW r \in DOMAIN s, NEW a, NEW b, NEW x, NEW y, NEW g,
           g = [s EXCEPT ![r][a] = x, ![r][b] = y]
    PROVE  /\ DOMAIN g = DOMAIN s
           /\ g[r] = [s[r] EXCEPT ![a] = x, ![b] = y]
           /\ \A q \in DOMAIN s : q # r => g[q] = s[q]
  OBVIOUS

(* A screen that differs in row r only. *)
LEMMA BelowUntouched ==
    ASSUME NEW s, NEW g, NEW r \in 0 .. rows - 1, Clear(s, r + 1),
           DOMAIN g = DOMAIN s, \A q \in DOMAIN s : q # r => g[q] = s[q]
    PROVE  Clear(g, r + 1)
<1> SUFFICES ASSUME NEW q \in r + 1 .. rows - 1 PROVE g[q] = Blank[q]
  BY DEF Clear
<1>1. q \in 0 .. rows - 1 /\ q # r
  BY Sizes
<1>2. s[q] = Blank[q] /\ DOMAIN s = 0 .. rows - 1
  BY DEF Clear
<1> QED BY <1>1, <1>2

(* The cells of a row. *)
LEMMA RowAt ==
    ASSUME NEW l, NEW cc \in Nat, NEW c \in 0 .. cols - 1
    PROVE  /\ c < prompt_len => RowOf(l, cc)[c] = ">"
           /\ c >= prompt_len /\ c < cc => RowOf(l, cc)[c] = l[c - prompt_len + 1]
           /\ c >= prompt_len /\ c = cc => RowOf(l, cc)[c] = "_"
           /\ c >= prompt_len /\ c > cc => RowOf(l, cc)[c] = " "
<1>1. c \in Nat
  BY Sizes
<1>2. RowOf(l, cc)[c] = IF c < prompt_len THEN ">"
                        ELSE IF c < cc THEN l[c - prompt_len + 1]
                        ELSE IF c = cc THEN "_" ELSE " "
  BY DEF RowOf
<1>3. /\ c >= prompt_len => ~(c < prompt_len)
      /\ c = cc => ~(c < cc)
      /\ c > cc => ~(c < cc) /\ c # cc
  BY <1>1, Sizes
<1> QED BY <1>2, <1>3

LEMMA RowInsert ==
    ASSUME NEW l \in Seq(Chars), NEW x \in Chars, NEW cc \in Nat,
           cc = prompt_len + Len(l), cc < cols - 1
    PROVE  [RowOf(l, cc) EXCEPT ![cc] = x, ![cc + 1] = "_"] = RowOf(Append(l, x), cc + 1)
<1>1. PICK m : m = Append(l, x)
  OBVIOUS
<1>2. Len(l) \in Nat /\ (\A i \in 1 .. Len(l) : m[i] = l[i]) /\ m[Len(l) + 1] = x
  BY <1>1
<1>3. DOMAIN RowOf(l, cc) = 0 .. cols - 1
  BY DEF RowOf
<1>4. ASSUME NEW c \in 0 .. cols - 1
      PROVE  (IF c = cc + 1 THEN "_" ELSE IF c = cc THEN x ELSE RowOf(l, cc)[c])
                = RowOf(m, cc + 1)[c]
  <2>0. c \in Nat /\ cc + 1 \in Nat /\ cc >= prompt_len /\ prompt_len \in Nat
    BY <1>2, Sizes
  <2>1. CASE c < prompt_len
    <3>1. RowOf(l, cc)[c] = ">" /\ RowOf(m, cc + 1)[c] = ">"
      BY <2>0, <2>1, RowAt
    <3>2. c # cc /\ c # cc + 1
      BY <2>0, <2>1
    <3> QED BY <3>1, <3>2
  <2>2. CASE c >= prompt_len /\ c < cc
    <3>1. c - prompt_len + 1 \in 1 .. Len(l) /\ c # cc /\ c # cc + 1 /\ c < cc + 1
      BY <1>2, <2>0, <2>2
    <3>2. RowOf(l, cc)[c] = l[c - prompt_len + 1]
      BY <2>2, RowAt
    <3>3. RowOf(m, cc + 1)[c] = m[c - prompt_len + 1]
      BY <2>0, <2>2, <3>1, RowAt
    <3>4. m[c - prompt_len + 1] = l[c - prompt_len + 1]
      BY <1>2, <3>1
    <3> QED BY <3>1, <3>2, <3>3, <3>4
  <2>3. CASE c = cc
    <3>1. c - prompt_len + 1 = Len(l) + 1 /\ c # cc + 1 /\ c < cc + 1 /\ c >= prompt_len
      BY <1>2, <2>0, <2>3
    <3>2. RowOf(m, cc + 1)[c] = m[c - prompt_len + 1]
      BY <2>0, <3>1, RowAt
    <3>3. m[c - prompt_len + 1] = x
      BY <1>2, <3>1
    <3> QED BY <2>3, <3>1, <3>2, <3>3
  <2>4. CASE c > cc
    <3>1. c >= prompt_len /\ c # cc /\ (c = cc + 1 \/ c > cc + 1)
      BY <2>0, <2>4
    <3>2. RowOf(l, cc)[c] = " "
      BY <2>4, <3>1, RowAt
    <3>3. c = cc + 1 => RowOf(m, cc + 1)[c] = "_"
      BY <2>0, <3>1, RowAt
    <3>4. c > cc + 1 => RowOf(m, cc + 1)[c] = " "
      BY <2>0, <3>1, RowAt
    <3>5. c > cc + 1 => c # cc + 1
      BY <2>0
    <3> QED BY <3>1, <3>2, <3>3, <3>4, <3>5
  <2>5. c < prompt_len \/ (c >= prompt_len /\ c < cc) \/ c = cc \/ c > cc
    BY <2>0
  <2> QED BY <2>1, <2>2, <2>3, <2>4, <2>5
<1>5. [c \in 0 .. cols - 1 |->
          IF c = cc + 1 THEN "_" ELSE IF c = cc THEN x ELSE RowOf(l, cc)[c]]
        = [c \in 0 .. cols - 1 |-> RowOf(m, cc + 1)[c]]
  BY <1>4
<1>6. RowOf(m, cc + 1) = [c \in 0 .. cols - 1 |-> RowOf(m, cc + 1)[c]]
  BY DEF RowOf
<1> QED BY <1>1, <1>3, <1>5, <1>6, TwoCells

LEMMA FrontFacts ==
    ASSUME NEW l \in Seq(Chars), l # <<>>
    PROVE  Front(l) \in Seq(Chars) /\ Len(Front(l)) = Len(l) - 1 /\ Len(l) >= 1
<1>1. Len(l) \in Nat /\ Len(l) # 0
  OBVIOUS
<1>2. 1 \in Nat /\ Len(l) - 1 \in Nat /\ Len(l) - 1 <= Len(l)
  BY <1>1
<1>3. SubSeq(l, 1, Len(l) - 1) \in Seq(Chars)
  BY <1>1, <1>2
<1>4. PICK n \in Nat : n = Len(l) - 1
  BY <1>2
<1>5. Len(SubSeq(l, 1, n)) = n
  <2>1. n + 1 = Len(l)
    BY <1>1, <1>4
  <2>2. CASE n = 0
    BY <2>1, <2>2
  <2>3. CASE n > 0
    BY <2>1, <2>3
  <2> QED BY <2>2, <2>3
<1> QED BY <1>1, <1>3, <1>4, <1>5 DEF Front

LEMMA RowBackspace ==
    ASSUME NEW l \in Seq(Chars), l # <<>>, NEW cc \in Nat,
           cc = prompt_len + Len(l), cc < cols
    PROVE  [RowOf(l, cc) EXCEPT ![cc] = " ", ![cc - 1] = "_"] = RowOf(Front(l), cc - 1)
<1>1. PICK m : m = Front(l)
  OBVIOUS
<1>2. Len(l) \in Nat \ {0} /\ (\A i \in 1 .. Len(l) - 1 : m[i] = l[i])
  BY <1>1 DEF Front
<1>3. DOMAIN RowOf(l, cc) = 0 .. cols - 1
  BY DEF RowOf
<1>4. ASSUME NEW c \in 0 .. cols - 1
      PROVE  (IF c = cc - 1 THEN "_" ELSE IF c = cc THEN " " ELSE RowOf(l, cc)[c])
                = RowOf(m, cc - 1)[c]
  <2>0. c \in Nat /\ cc - 1 \in Nat /\ cc - 1 >= prompt_len /\ prompt_len \in Nat
    BY <1>2, Sizes
  <2>1. CASE c < prompt_len
    <3>1. RowOf(l, cc)[c] = ">" /\ RowOf(m, cc - 1)[c] = ">"
      BY <2>0, <2>1, RowAt
    <3>2. c # cc /\ c # cc - 1
      BY <2>0, <2>1
    <3> QED BY <3>1, <3>2
  <2>2. CASE c >= prompt_len /\ c < cc - 1
    <3>1. c - prompt_len + 1 \in 1 .. Len(l) - 1 /\ c # cc /\ c # cc - 1 /\ c < cc
      BY <1>2, <2>0, <2>2
    <3>2. RowOf(l, cc)[c] = l[c - prompt_len + 1]
      BY <2>2, <3>1, RowAt
    <3>3. RowOf(m, cc - 1)[c] = m[c - prompt_len + 1]
      BY <2>0, <2>2, RowAt
    <3>4. m[c - prompt_len + 1] = l[c - prompt_len + 1]
      BY <1>2, <3>1
    <3> QED BY <3>1, <3>2, <3>3, <3>4
  <2>3. CASE c >= cc - 1
    <3>1. c >= prompt_len /\ (c = cc - 1 \/ (c > cc - 1 /\ c # cc - 1 /\ (c = cc \/ c > cc)))
      BY <2>0, <2>3
    <3>2. c > cc => RowOf(l, cc)[c] = " "
      BY <3>1, RowAt
    <3>3. c = cc - 1 => RowOf(m, cc - 1)[c] = "_"
      BY <2>0, <3>1, RowAt
    <3>4. c > cc - 1 => RowOf(m, cc - 1)[c] = " "
      BY <2>0, <3>1, RowAt
    <3> QED BY <3>1, <3>2, <3>3, <3>4
  <2>4. c < prompt_len \/ (c >= prompt_len /\ c < cc - 1) \/ c >= cc - 1
    BY <2>0
  <2> QED BY <2>1, <2>2, <2>3, <2>4
<1>5. [c \in 0 .. cols - 1 |->
          IF c = cc - 1 THEN "_" ELSE IF c = cc THEN " " ELSE RowOf(l, cc)[c]]
        = [c \in 0 .. cols - 1 |-> RowOf(m, cc - 1)[c]]
  BY <1>4
<1>6. RowOf(m, cc - 1) = [c \in 0 .. cols - 1 |-> RowOf(m, cc - 1)[c]]
  BY DEF RowOf
<1> QED BY <1>1, <1>3, <1>5, <1>6, TwoCells

(* The next row, or the first of a new screen, is blank with all below it. *)
LEMMA AdvanceClears ==
    ASSUME NEW s, NEW row \in 0 .. rows - 1, Clear(s, row + 1)
    PROVE  NextRow(row) \in 0 .. rows - 1 /\ Clear(Advance(s, row), NextRow(row))
<1>1. CASE row + 1 >= rows
  <2>1. Clear(Blank, 0)
    BY DEF Clear, Blank
  <2> QED BY <1>1, <2>1, Sizes DEF NextRow, Advance
<1>2. CASE ~(row + 1 >= rows)
  BY <1>2, Sizes DEF NextRow, Advance
<1> QED BY <1>1, <1>2

LEMMA EchoKeepsClear ==
    ASSUME NEW s, NEW row \in 0 .. rows - 1, Clear(s, row)
    PROVE  Clear(Echo(s, row), row + 1)
<1>1. Clear(s, row + 1)
  BY Sizes DEF Clear
<1>2. DOMAIN Echo(s, row) = DOMAIN s /\ \A q \in DOMAIN s : q # row => Echo(s, row)[q] = s[q]
  BY DEF Echo
<1> QED BY <1>1, <1>2, BelowUntouched

LEMMA PromptOnBlank ==
    ASSUME NEW s, NEW row \in 0 .. rows - 1, Clear(s, row)
    PROVE  Clear(Prompt(s, row), row + 1) /\ Prompt(s, row)[row] = RowOf(<<>>, prompt_len)
<1>1. s[row] = Blank[row] /\ row \in DOMAIN s
  <2>1. row \in row .. rows - 1
    BY Sizes
  <2> QED BY <2>1 DEF Clear
<1>2. Blank[row] = [c \in 0 .. cols - 1 |-> " "]
  BY DEF Blank
<1>3. Prompt(s, row)[row] =
        [c \in 0 .. cols - 1 |->
            IF c < prompt_len THEN ">" ELSE IF c = prompt_len THEN "_" ELSE " "]
  BY <1>1, <1>2 DEF Prompt
<1>4. Clear(s, row + 1)
  BY Sizes DEF Clear
<1>5. DOMAIN Prompt(s, row) = DOMAIN s
      /\ \A q \in DOMAIN s : q # row => Prompt(s, row)[q] = s[q]
  BY DEF Prompt
<1>6. Clear(Prompt(s, row), row + 1)
  BY <1>4, <1>5, BelowUntouched
<1> QED BY <1>3, <1>6, Sizes DEF RowOf

(* The screen below the cursor is blank and its row shows the line. *)
ScreenInv ==
    /\ line \in Seq(Chars)
    /\ cur_row \in 0 .. rows - 1
    /\ cur_col = prompt_len + Len(line) /\ cur_col < cols /\ Len(line) < LINE_MAX
    /\ screen[cur_row] = RowOf(line, cur_col)
    /\ Clear(screen, cur_row + 1)

LEMMA ScreenInit == Init => ScreenInv
<1> SUFFICES ASSUME Init PROVE ScreenInv
  OBVIOUS
<1>1. line = <<>> /\ cur_col = prompt_len /\ cur_row = 0 /\ screen = Prompt(Blank, 0)
  BY DEF Init
<1>2. Clear(Blank, 0) /\ 0 \in 0 .. rows - 1
  BY Sizes DEF Clear, Blank
<1>3. Clear(Prompt(Blank, 0), 0 + 1) /\ Prompt(Blank, 0)[0] = RowOf(<<>>, prompt_len)
  BY <1>2, PromptOnBlank
<1>4. Len(line) = 0 /\ line \in Seq(Chars)
  BY <1>1
<1> QED BY <1>1, <1>2, <1>3, <1>4, Sizes DEF ScreenInv

LEMMA EditKeepsScreen ==
    ASSUME ScreenInv, ch \in Chars, ShellEdit
    PROVE  ScreenInv'
<1>0. /\ line \in Seq(Chars) /\ Len(line) \in Nat /\ cur_row \in 0 .. rows - 1
      /\ cur_col = prompt_len + Len(line) /\ cur_col < cols /\ Len(line) < LINE_MAX
      /\ screen[cur_row] = RowOf(line, cur_col)
      /\ DOMAIN screen = 0 .. rows - 1
      /\ \A q \in cur_row + 1 .. rows - 1 : screen[q] = Blank[q]
  BY DEF ScreenInv, Clear
<1>1. cur_col \in Nat
  BY <1>0, Sizes
<1>2. CASE EditNewline
  <2> DEFINE s0 == [screen EXCEPT ![cur_row][cur_col] = " "]
             s1 == Advance(s0, cur_row)
             r1 == NextRow(cur_row)
             s2 == IF line = <<>> THEN s1 ELSE Advance(Echo(s1, r1), r1)
             r2 == IF line = <<>> THEN r1 ELSE NextRow(r1)
  <2>1. Clear(s0, cur_row + 1)
    <3>1. DOMAIN s0 = DOMAIN screen /\ \A q \in DOMAIN screen : q # cur_row => s0[q] = screen[q]
      OBVIOUS
    <3> HIDE DEF s0
    <3> QED BY <1>0, <3>1, BelowUntouched DEF ScreenInv
  <2>2. r1 \in 0 .. rows - 1 /\ Clear(s1, r1)
    BY <1>0, <2>1, AdvanceClears
  <2>3. r2 \in 0 .. rows - 1 /\ Clear(s2, r2)
    <3>1. CASE line = <<>>
      BY <2>2, <3>1
    <3>2. CASE line # <<>>
      <4> HIDE DEF s1, r1
      <4>1. Clear(Echo(s1, r1), r1 + 1)
        BY <2>2, EchoKeepsClear
      <4>2. NextRow(r1) \in 0 .. rows - 1 /\ Clear(Advance(Echo(s1, r1), r1), NextRow(r1))
        BY <2>2, <4>1, AdvanceClears
      <4> QED BY <3>2, <4>2
    <3> QED BY <3>1, <3>2
  <2>4. screen' = Prompt(s2, r2) /\ cur_row' = r2 /\ line' = <<>> /\ cur_col' = prompt_len
    BY <1>2 DEF EditNewline
  <2> HIDE DEF s2, r2
  <2>5. Clear(Prompt(s2, r2), r2 + 1) /\ Prompt(s2, r2)[r2] = RowOf(<<>>, prompt_len)
    BY <2>3, PromptOnBlank
  <2>6. Len(line') = 0 /\ line' \in Seq(Chars)
    BY <2>4
  <2> QED BY <2>3, <2>4, <2>5, <2>6, Sizes DEF ScreenInv
<1>3. CASE UNCHANGED editor
  BY <1>3 DEF ScreenInv, editor
<1>4. CASE /\ line # <<>>
           /\ screen' = [screen EXCEPT ![cur_row][cur_col] = " ",
                                       ![cur_row][cur_col - 1] = "_"]
           /\ line' = Front(line)
           /\ cur_col' = cur_col - 1
           /\ UNCHANGED cur_row
  <2>1. /\ screen'[cur_row] =
              [RowOf(line, cur_col) EXCEPT ![cur_col] = " ", ![cur_col - 1] = "_"]
        /\ DOMAIN screen' = DOMAIN screen
        /\ \A q \in DOMAIN screen : q # cur_row => screen'[q] = screen[q]
    BY <1>0, <1>4, TwoCellsOfScreen
  <2>2. screen'[cur_row] = RowOf(Front(line), cur_col - 1)
    BY <1>0, <1>1, <1>4, <2>1, RowBackspace
  <2>3. Front(line) \in Seq(Chars) /\ Len(Front(line)) = Len(line) - 1 /\ Len(line) >= 1
    BY <1>0, <1>4, FrontFacts
  <2>4. Clear(screen', cur_row + 1)
    BY <1>0, <2>1, BelowUntouched DEF ScreenInv
  <2>5. /\ cur_col - 1 = prompt_len + (Len(line) - 1) /\ cur_col - 1 < cols
        /\ Len(line) - 1 < LINE_MAX
    BY <1>0, <1>1, Sizes
  <2> QED BY <1>0, <1>4, <2>2, <2>3, <2>4, <2>5 DEF ScreenInv
<1>5. CASE /\ Fits
           /\ screen' = [screen EXCEPT ![cur_row][cur_col] = ch,
                                       ![cur_row][cur_col + 1] = "_"]
           /\ line' = Append(line, ch)
           /\ cur_col' = cur_col + 1
           /\ UNCHANGED cur_row
  <2>1. /\ screen'[cur_row] =
              [RowOf(line, cur_col) EXCEPT ![cur_col] = ch, ![cur_col + 1] = "_"]
        /\ DOMAIN screen' = DOMAIN screen
        /\ \A q \in DOMAIN screen : q # cur_row => screen'[q] = screen[q]
    BY <1>0, <1>5, TwoCellsOfScreen
  <2>2. screen'[cur_row] = RowOf(Append(line, ch), cur_col + 1)
    <3>1. cur_col < cols - 1
      BY <1>5 DEF Fits
    <3>2. [RowOf(line, cur_col) EXCEPT ![cur_col] = ch, ![cur_col + 1] = "_"]
            = RowOf(Append(line, ch), cur_col + 1)
      BY <1>0, <1>1, <3>1, RowInsert
    <3> QED BY <2>1, <3>2
  <2>3. Append(line, ch) \in Seq(Chars) /\ Len(Append(line, ch)) = Len(line) + 1
    BY <1>0
  <2>4. Clear(screen', cur_row + 1)
    BY <1>0, <2>1, BelowUntouched DEF ScreenInv
  <2>5. /\ cur_col + 1 = prompt_len + (Len(line) + 1) /\ cur_col + 1 < cols
        /\ Len(line) + 1 < LINE_MAX
    <3>1. Len(line) < LINE_MAX - 1 /\ cur_col < cols - 1
      BY <1>5 DEF Fits
    <3> QED BY <1>0, <1>1, <3>1, Sizes
  <2> QED BY <1>0, <1>5, <2>2, <2>3, <2>4, <2>5 DEF ScreenInv
<1> QED BY <1>2, <1>3, <1>4, <1>5 DEF ShellEdit, EditBackspace, EditInsert

LEMMA ScreenStep == KeysInv /\ ScreenInv /\ [Next]_vars => ScreenInv'
<1> SUFFICES ASSUME KeysInv, ScreenInv, [Next]_vars PROVE ScreenInv'
  OBVIOUS
<1>1. CASE ShellEdit
  BY <1>1, EditKeepsScreen DEF KeysInv
<1>2. CASE UNCHANGED editor
  BY <1>2 DEF ScreenInv, editor
<1>3. CASE \/ \E key \in UserKeys : Press(key) \/ Repeat(key) \/ Release(key)
           \/ Ps2Init \/ Answer \/ UNCHANGED vars
  BY <1>2, <1>3 DEF Press, Repeat, SendDown, Release, Ps2Init, Answer, vars
<1>4. CASE KeyboardIrq \/ TimerIrq \/ ReadKeyCheck \/ Hlt \/ ReadKeyTake \/ ReadKeyAdvance
  BY <1>2, <1>4 DEF KeyboardIrq, TimerIrq, ReadKeyCheck, Hlt, ReadKeyTake, ReadKeyAdvance
<1> QED BY <1>1, <1>3, <1>4 DEF Next, Shell

(* The cursor's row always shows prompt, line and cursor and the rows below *)
(* are blank, for every size of screen and line buffer and every sequence   *)
(* of characters, newlines and backspaces.                                  *)
THEOREM LineIsVisible == Spec => []VisibleLine
<1>1. ScreenInv => VisibleLine
  BY DEF ScreenInv, VisibleLine, RowOf, Clear
<1> QED BY WireInit, WireStep, KeysInit, KeysStep, ScreenInit, ScreenStep, <1>1, PTL DEF Spec

-----------------------------------------------------------------------------
(* The modifiers in force, as a set, and what a scancode does to them and   *)
(* means under them.                                                        *)
Modifiers == SUBSET {"shift", "caps"}

Mods(shift, caps) == (IF shift THEN {"shift"} ELSE {}) \cup (IF caps THEN {"caps"} ELSE {})

After(c, m) ==
    IF c.key \in Shifts THEN (IF c.released THEN m \ {"shift"} ELSE m \cup {"shift"})
    ELSE IF c.key = "caps" /\ ~c.released
         THEN (IF "caps" \in m THEN m \ {"caps"} ELSE m \cup {"caps"})
    ELSE m

Of(c, m) == IF c.released THEN <<>> ELSE Meaning(c.key, "shift" \in m, "caps" \in m)

(* From modifiers m0 and n characters of ty, the scancodes w lead to        *)
(* modifiers m1 and mean the other characters of ty.                        *)
Trace(w, ty, m0, n, m1) ==
    \E m \in [0 .. Len(w) -> Modifiers], cut \in [0 .. Len(w) -> Nat] :
        /\ m[0] = m0 /\ cut[0] = n
        /\ m[Len(w)] = m1 /\ cut[Len(w)] = Len(ty)
        /\ \A i \in 1 .. Len(w) :
              /\ m[i] = After(w[i], m[i - 1])
              /\ cut[i] = cut[i - 1] + Len(Of(w[i], m[i - 1]))
              /\ cut[i] <= Len(ty)
              /\ \A k \in 1 .. Len(Of(w[i], m[i - 1])) :
                    ty[cut[i - 1] + k] = Of(w[i], m[i - 1])[k]

LEMMA AfterType ==
    ASSUME NEW c \in Codes, NEW m \in Modifiers
    PROVE  After(c, m) \in Modifiers
  BY DEF After, Modifiers

LEMMA OfType ==
    ASSUME NEW c \in Codes, NEW m \in Modifiers
    PROVE  Of(c, m) \in Seq(Chars) /\ (Of(c, m) = <<>> \/ \E x \in Chars : Of(c, m) = <<x>>)
<1>1. Of(c, m) = <<>> \/ \E x \in Chars : Of(c, m) = <<x>>
  BY DEF Of, Meaning, Chars
<1>2. CASE Of(c, m) = <<>>
  BY <1>2
<1>3. ASSUME NEW x \in Chars, Of(c, m) = <<x>> PROVE Of(c, m) \in Seq(Chars)
  BY <1>3
<1> QED BY <1>1, <1>2, <1>3

(* A scancode that is sent adds its meaning at the end. *)
LEMMA TraceGrows ==
    ASSUME NEW w \in Seq(Codes), NEW ty \in Seq(Chars), NEW m0, NEW n, NEW m1, NEW c \in Codes,
           Trace(w, ty, m0, n, m1)
    PROVE  Trace(Append(w, c), ty \o Of(c, m1), m0, n, After(c, m1))
<1>1. PICK m \in [0 .. Len(w) -> Modifiers], cut \in [0 .. Len(w) -> Nat] :
        /\ m[0] = m0 /\ cut[0] = n
        /\ m[Len(w)] = m1 /\ cut[Len(w)] = Len(ty)
        /\ \A i \in 1 .. Len(w) :
              /\ m[i] = After(w[i], m[i - 1])
              /\ cut[i] = cut[i - 1] + Len(Of(w[i], m[i - 1]))
              /\ cut[i] <= Len(ty)
              /\ \A k \in 1 .. Len(Of(w[i], m[i - 1])) :
                    ty[cut[i - 1] + k] = Of(w[i], m[i - 1])[k]
  BY DEF Trace
<1>2. PICK L \in Nat : L = Len(w)
  OBVIOUS
<1>a. m \in [0 .. L -> Modifiers] /\ cut \in [0 .. L -> Nat]
  BY <1>2
<1>3. L \in 0 .. L /\ m1 \in Modifiers
  BY <1>1, <1>2
<1>4. PICK o \in Seq(Chars) : o = Of(c, m1)
  BY <1>3, OfType
<1>5. PICK a \in Modifiers : a = After(c, m1)
  BY <1>3, AfterType
<1>6. PICK v \in Seq(Codes) : v = Append(w, c)
  <2>1. Append(w, c) \in Seq(Codes)
    OBVIOUS
  <2> QED BY <2>1
<1>7. Len(v) = L + 1 /\ v[L + 1] = c /\ \A i \in 1 .. L : v[i] = w[i]
  BY <1>2, <1>6
<1>8. PICK u \in Seq(Chars) : u = ty \o o
  <2>1. ty \o o \in Seq(Chars)
    BY SeqJoin
  <2> QED BY <2>1
<1>9. /\ Len(u) = Len(ty) + Len(o) /\ Len(o) \in Nat /\ Len(ty) \in Nat
      /\ \A k \in 1 .. Len(ty) : u[k] = ty[k]
      /\ \A k \in 1 .. Len(o) : u[Len(ty) + k] = o[k]
  BY <1>8
<1> DEFINE M == [i \in 0 .. L + 1 |-> IF i = L + 1 THEN a ELSE m[i]]
           C == [i \in 0 .. L + 1 |-> IF i = L + 1 THEN Len(u) ELSE cut[i]]
<1>10. M \in [0 .. L + 1 -> Modifiers] /\ C \in [0 .. L + 1 -> Nat]
  <2>1. \A i \in 0 .. L + 1 : i = L + 1 \/ i \in 0 .. L
    BY <1>2
  <2>2. \A i \in 0 .. L : m[i] \in Modifiers /\ cut[i] \in Nat
    BY <1>a
  <2>3. Len(u) \in Nat
    BY <1>9
  <2> QED BY <2>1, <2>2, <2>3
<1>11. /\ M[L + 1] = a /\ C[L + 1] = Len(u)
       /\ \A i \in 0 .. L : M[i] = m[i] /\ C[i] = cut[i]
  BY <1>2
<1> HIDE DEF M, C
<1>12. ASSUME NEW i \in 1 .. L + 1
       PROVE  /\ M[i] = After(v[i], M[i - 1])
              /\ C[i] = C[i - 1] + Len(Of(v[i], M[i - 1]))
              /\ C[i] <= Len(u)
              /\ \A k \in 1 .. Len(Of(v[i], M[i - 1])) :
                    u[C[i - 1] + k] = Of(v[i], M[i - 1])[k]
  <2>1. CASE i = L + 1
    <3>1. i - 1 = L /\ M[i - 1] = m1 /\ C[i - 1] = Len(ty) /\ v[i] = c
      BY <1>1, <1>2, <1>7, <1>11, <2>1
    <3>2. Of(v[i], M[i - 1]) = o /\ After(v[i], M[i - 1]) = a
      BY <1>4, <1>5, <3>1
    <3> QED BY <1>9, <1>11, <2>1, <3>1, <3>2
  <2>2. CASE i \in 1 .. L
    <3>1. i - 1 \in 0 .. L /\ i \in 0 .. L
      BY <1>2, <2>2
    <3>2. M[i - 1] = m[i - 1] /\ M[i] = m[i] /\ C[i - 1] = cut[i - 1] /\ C[i] = cut[i] /\ v[i] = w[i]
      BY <1>7, <1>11, <2>2, <3>1
    <3>3. /\ m[i] = After(w[i], m[i - 1])
          /\ cut[i] = cut[i - 1] + Len(Of(w[i], m[i - 1]))
          /\ cut[i] <= Len(ty)
          /\ \A k \in 1 .. Len(Of(w[i], m[i - 1])) :
                ty[cut[i - 1] + k] = Of(w[i], m[i - 1])[k]
      BY <1>1, <1>2, <2>2
    <3>4. cut[i - 1] \in Nat /\ cut[i] \in Nat /\ Len(Of(w[i], m[i - 1])) \in Nat
      <4>0. w[i] \in Codes
        BY <1>2, <2>2
      <4>1. w[i] \in Codes /\ m[i - 1] \in Modifiers
        BY <1>a, <3>1, <4>0
      <4>2. Of(w[i], m[i - 1]) \in Seq(Chars)
        BY <4>1, OfType
      <4> QED BY <1>a, <3>1, <4>2
    <3>5. PICK q \in Nat : q = Len(Of(w[i], m[i - 1]))
      BY <3>4
    <3>6. \A k \in 1 .. q : u[cut[i - 1] + k] = ty[cut[i - 1] + k]
      <4>1. cut[i - 1] + q <= Len(ty)
        BY <3>3, <3>5
      <4>2. \A k \in 1 .. q : cut[i - 1] + k \in 1 .. Len(ty)
        <5>1. PICK x \in Nat, y \in Nat : x = cut[i - 1] /\ y = Len(ty)
          BY <1>9, <3>4
        <5>2. x + q <= y
          BY <4>1, <5>1
        <5>3. \A k \in 1 .. q : x + k \in 1 .. y
          BY <5>2
        <5> QED BY <5>1, <5>3
      <4> QED BY <1>9, <4>2
    <3>7. cut[i] <= Len(u)
      BY <1>9, <3>3, <3>4
    <3> QED BY <3>2, <3>3, <3>5, <3>6, <3>7
  <2> QED BY <1>2, <2>1, <2>2
<1>13. M[0] = m0 /\ C[0] = n
  BY <1>1, <1>2, <1>11
<1>14. Trace(v, u, m0, n, a)
  <2>1. M \in [0 .. Len(v) -> Modifiers] /\ C \in [0 .. Len(v) -> Nat]
    BY <1>7, <1>10
  <2>2. M[Len(v)] = a /\ C[Len(v)] = Len(u)
    BY <1>7, <1>11
  <2>3. \A i \in 1 .. Len(v) :
           /\ M[i] = After(v[i], M[i - 1])
           /\ C[i] = C[i - 1] + Len(Of(v[i], M[i - 1]))
           /\ C[i] <= Len(u)
           /\ \A k \in 1 .. Len(Of(v[i], M[i - 1])) :
                 u[C[i - 1] + k] = Of(v[i], M[i - 1])[k]
    BY <1>7, <1>12
  <2> QED BY <1>13, <2>1, <2>2, <2>3 DEF Trace
<1> QED BY <1>4, <1>5, <1>6, <1>8, <1>14

(* The characters o of ty come after its first n. *)
Follow(ty, n, o) ==
    /\ n + Len(o) <= Len(ty)
    /\ \A k \in 1 .. Len(o) : ty[n + k] = o[k]

(* The handler takes the first scancode, which means the next characters. *)
LEMMA TraceDrops ==
    ASSUME NEW w \in Seq(Codes), NEW ty \in Seq(Chars), NEW m0, NEW n \in Nat, NEW m1,
           Trace(w, ty, m0, n, m1), w # <<>>,
           NEW c \in Codes, c = Head(w), NEW o \in Seq(Chars), o = Of(c, m0)
    PROVE  Trace(Tail(w), ty, After(c, m0), n + Len(o), m1) /\ Follow(ty, n, o)
<1>1. PICK m \in [0 .. Len(w) -> Modifiers], cut \in [0 .. Len(w) -> Nat] :
        /\ m[0] = m0 /\ cut[0] = n
        /\ m[Len(w)] = m1 /\ cut[Len(w)] = Len(ty)
        /\ \A i \in 1 .. Len(w) :
              /\ m[i] = After(w[i], m[i - 1])
              /\ cut[i] = cut[i - 1] + Len(Of(w[i], m[i - 1]))
              /\ cut[i] <= Len(ty)
              /\ \A k \in 1 .. Len(Of(w[i], m[i - 1])) :
                    ty[cut[i - 1] + k] = Of(w[i], m[i - 1])[k]
  BY DEF Trace
<1>2. PICK L \in Nat : L + 1 = Len(w)
  <2>1. Len(w) \in Nat /\ Len(w) # 0
    OBVIOUS
  <2>2. Len(w) - 1 \in Nat /\ (Len(w) - 1) + 1 = Len(w)
    BY <2>1
  <2> QED BY <2>2
<1>3. PICK v \in Seq(Codes) : v = Tail(w)
  <2>1. Tail(w) \in Seq(Codes)
    OBVIOUS
  <2> QED BY <2>1
<1>4. Len(v) = L /\ Head(w) = w[1] /\ \A i \in 1 .. L : v[i] = w[i + 1]
  BY <1>2, <1>3
<1>5. /\ m[1] = After(Head(w), m0)
      /\ cut[1] = n + Len(Of(Head(w), m0)) /\ cut[1] <= Len(ty)
      /\ \A k \in 1 .. Len(Of(Head(w), m0)) : ty[n + k] = Of(Head(w), m0)[k]
  <2>1. 1 \in 1 .. Len(w) /\ 1 - 1 = 0
    BY <1>2
  <2> QED BY <1>1, <1>4, <2>1
<1> DEFINE M == [i \in 0 .. L |-> m[i + 1]]
           C == [i \in 0 .. L |-> cut[i + 1]]
<1>6. M \in [0 .. L -> Modifiers] /\ C \in [0 .. L -> Nat]
  <2>1. \A i \in 0 .. L : i + 1 \in 0 .. Len(w)
    BY <1>2
  <2> QED BY <2>1
<1>7. \A i \in 0 .. L : M[i] = m[i + 1] /\ C[i] = cut[i + 1]
  OBVIOUS
<1> HIDE DEF M, C
<1>8. ASSUME NEW i \in 1 .. L
      PROVE  /\ M[i] = After(v[i], M[i - 1])
             /\ C[i] = C[i - 1] + Len(Of(v[i], M[i - 1]))
             /\ C[i] <= Len(ty)
             /\ \A k \in 1 .. Len(Of(v[i], M[i - 1])) :
                   ty[C[i - 1] + k] = Of(v[i], M[i - 1])[k]
  <2>1. i \in 0 .. L /\ i - 1 \in 0 .. L /\ i + 1 \in 1 .. Len(w) /\ (i - 1) + 1 = i /\ (i + 1) - 1 = i
    BY <1>2
  <2>2. M[i] = m[i + 1] /\ M[i - 1] = m[i] /\ C[i] = cut[i + 1] /\ C[i - 1] = cut[i] /\ v[i] = w[i + 1]
    BY <1>4, <1>7, <2>1
  <2>3. /\ m[i + 1] = After(w[i + 1], m[i])
        /\ cut[i + 1] = cut[i] + Len(Of(w[i + 1], m[i]))
        /\ cut[i + 1] <= Len(ty)
        /\ \A k \in 1 .. Len(Of(w[i + 1], m[i])) :
              ty[cut[i] + k] = Of(w[i + 1], m[i])[k]
    BY <1>1, <2>1
  <2> QED BY <2>2, <2>3
<1>9. M[0] = m[1] /\ C[0] = cut[1] /\ M[L] = m1 /\ C[L] = Len(ty)
  BY <1>1, <1>2, <1>7
<1>10. Trace(v, ty, m[1], cut[1], m1)
  BY <1>4, <1>6, <1>8, <1>9 DEF Trace
<1> QED BY <1>3, <1>5, <1>10 DEF Follow

(* What the controller and the keyboard answer to commands means no         *)
(* character; it may be taken for the release of a shift key that is not    *)
(* held.                                                                    *)
Answers == {TestPassed, KB_RESPONSE_ACK, KB_RESPONSE_SELF_TEST_OK, OtherByte}

LEMMA AnswersMeanNothing ==
    ASSUME NEW c \in Answers
    PROVE  /\ c \in Codes
           /\ \A m : Of(c, m) = <<>>
           /\ \A m : "shift" \notin m => After(c, m) = m
<1>1. c \in Codes
  BY SomeCodes DEF Answers
<1>2. ASSUME NEW m PROVE Of(c, m) = <<>>
  BY DEF Of, Meaning, Answers, TestPassed, KB_RESPONSE_ACK, KB_RESPONSE_SELF_TEST_OK, OtherByte
<1>3. ASSUME NEW m, "shift" \notin m PROVE After(c, m) = m
  BY <1>3 DEF After, Shifts, Answers, TestPassed, KB_RESPONSE_ACK, KB_RESPONSE_SELF_TEST_OK, OtherByte
<1> QED BY <1>1, <1>2, <1>3

(* Only answers come before the keyboard is reset, and no key is held while *)
(* an answer is outstanding; the handler does not run before the end of     *)
(* init().                                                                  *)
AnswersInv ==
    /\ owed \in Seq(Answers) /\ last \in Answers
    /\ owed # <<>> => down = {} /\ forced = "none"
    /\ drv \notin {"unmask", "ready"} =>
          wire \in Seq(Answers) /\ typed = <<>> /\ ~capsOn /\ forced = "none"
    /\ drv # "ready" => ~SHIFT_HELD /\ ~CAPS_LOCK /\ decoded = <<>>

LEMMA AnswersInit == Init => AnswersInv
<1> SUFFICES ASSUME Init PROVE AnswersInv
  OBVIOUS
<1>1. OtherByte \in Answers
  BY DEF Answers
<1>2. <<>> \in Seq(Answers) /\ <<OtherByte>> \in Seq(Answers)
  BY <1>1
<1>3. wire \in {<<>>, <<OtherByte>>} /\ owed = <<>> /\ last = OtherByte
  BY DEF Init
<1>4. typed = <<>> /\ capsOn = FALSE /\ forced = "none" /\ SHIFT_HELD = FALSE /\ CAPS_LOCK = FALSE /\ decoded = <<>>
  BY DEF Init
<1> QED BY <1>1, <1>2, <1>3, <1>4 DEF AnswersInv

LEMMA ReadAnswer ==
    ASSUME wire \in Seq(Answers), last \in Answers, NEW b, read_data(b)
    PROVE  wire' \in Seq(Answers) /\ last' \in Answers
<1>1. CASE wire = <<>>
  BY <1>1 DEF read_data
<1>2. CASE wire # <<>>
  <2>1. Head(wire) \in Answers /\ Tail(wire) \in Seq(Answers)
    BY <1>2
  <2> QED BY <1>2, <2>1 DEF read_data
<1> QED BY <1>1, <1>2

LEMMA AnswersStep == ConfigInv /\ AnswersInv /\ [Next]_vars => AnswersInv'
<1> SUFFICES ASSUME ConfigInv, AnswersInv, [Next]_vars PROVE AnswersInv'
  OBVIOUS
<1>0. owed \in Seq(Answers) /\ last \in Answers
  BY DEF AnswersInv
<1>1. CASE Ps2Init
  <2>0. /\ UNCHANGED <<down, forced, capsOn, typed, SHIFT_HELD, CAPS_LOCK, decoded>>
        /\ drv # "unmask" => drv' # "ready"
    BY <1>1 DEF Ps2Init, user, driver, Begin, ReadConfig, SelfTest, ResetAnswer, FlushAnswers, Unmask
  <2>1. CASE Begin
    <3>1. PICK b \in {TestPassed, OtherByte} : owed' = Append(owed, b)
      BY <2>1 DEF Begin
    <3>2. owed' \in Seq(Answers)
      BY <1>0, <3>1 DEF Answers
    <3>3. wire' = <<>> /\ drv = "begin" /\ drv' = "config" /\ last' = IF wire = <<>> THEN last ELSE Last(wire)
      BY <2>1 DEF Begin, flush_output
    <3>4. wire \in Seq(Answers)
      BY <3>3 DEF AnswersInv
    <3>5. last' \in Answers
      BY <1>0, <3>3, <3>4 DEF Last
    <3>6. <<>> \in Seq(Answers)
      OBVIOUS
    <3>7. down = {} /\ forced = "none" /\ typed = <<>> /\ ~capsOn /\ ~SHIFT_HELD /\ ~CAPS_LOCK /\ decoded = <<>>
      BY <3>3 DEF AnswersInv, ConfigInv
    <3> QED BY <2>0, <3>2, <3>3, <3>5, <3>6, <3>7 DEF AnswersInv
  <2>2. CASE ReadConfig
    <3>1. drv = "config" /\ drv' = "selftest"
      BY <2>2 DEF ReadConfig
    <3>2. wire \in Seq(Answers) /\ down = {} /\ forced = "none"
      BY <3>1 DEF AnswersInv, ConfigInv
    <3>3. wire' \in Seq(Answers) /\ last' \in Answers
      BY <1>0, <2>2, <3>2, ReadAnswer DEF ReadConfig
    <3>4. PICK t \in {TestPassed, OtherByte} : owed' \in {owed \o <<t>>, owed \o <<OtherByte, t>>}
      BY <2>2 DEF ReadConfig
    <3>5. t \in Answers /\ OtherByte \in Answers
      BY DEF Answers
    <3>6. <<t>> \in Seq(Answers) /\ <<OtherByte, t>> \in Seq(Answers)
      BY <3>5
    <3>7. owed' \in Seq(Answers)
      BY <1>0, <3>4, <3>6, SeqJoin
    <3>8. typed = <<>> /\ ~capsOn /\ ~SHIFT_HELD /\ ~CAPS_LOCK /\ decoded = <<>>
      BY <3>1 DEF AnswersInv
    <3> QED BY <2>0, <3>1, <3>2, <3>3, <3>7, <3>8 DEF AnswersInv
  <2>3. CASE SelfTest
    <3>1. drv = "selftest" /\ drv' \in {"ack", "failed"}
      BY <2>3 DEF SelfTest
    <3>2. wire \in Seq(Answers) /\ down = {} /\ forced = "none"
      BY <3>1 DEF AnswersInv, ConfigInv
    <3>3. wire' \in Seq(Answers) /\ last' \in Answers
      BY <1>0, <2>3, <3>2, ReadAnswer DEF SelfTest
    <3>4. \/ owed' = owed
          \/ \E kb \in {<<>>, <<KB_RESPONSE_ACK, KB_RESPONSE_SELF_TEST_OK>>,
                        <<OtherByte, KB_RESPONSE_ACK, KB_RESPONSE_SELF_TEST_OK>>} :
                owed' = owed \o kb
      BY <2>3 DEF SelfTest
    <3>5. KB_RESPONSE_ACK \in Answers /\ KB_RESPONSE_SELF_TEST_OK \in Answers /\ OtherByte \in Answers
      BY DEF Answers
    <3>6. {<<>>, <<KB_RESPONSE_ACK, KB_RESPONSE_SELF_TEST_OK>>,
           <<OtherByte, KB_RESPONSE_ACK, KB_RESPONSE_SELF_TEST_OK>>} \subseteq Seq(Answers)
      BY <3>5
    <3>7. owed' \in Seq(Answers)
      BY <1>0, <3>4, <3>6, SeqJoin
    <3>8. typed = <<>> /\ ~capsOn /\ ~SHIFT_HELD /\ ~CAPS_LOCK /\ decoded = <<>>
      BY <3>1 DEF AnswersInv
    <3> QED BY <2>0, <3>1, <3>2, <3>3, <3>7, <3>8 DEF AnswersInv
  <2>4. CASE ResetAnswer
    <3>1. drv \in {"ack", "bat"} /\ drv' \in {"bat", "flush"} /\ owed' = owed
      BY <2>4 DEF ResetAnswer
    <3>2. wire \in Seq(Answers) /\ down = {} /\ forced = "none"
      BY <3>1 DEF AnswersInv, ConfigInv
    <3>3. wire' \in Seq(Answers) /\ last' \in Answers
      BY <1>0, <2>4, <3>2, ReadAnswer DEF ResetAnswer
    <3>4. typed = <<>> /\ ~capsOn /\ ~SHIFT_HELD /\ ~CAPS_LOCK /\ decoded = <<>>
      BY <3>1 DEF AnswersInv
    <3> QED BY <1>0, <2>0, <3>1, <3>2, <3>3, <3>4 DEF AnswersInv
  <2>5. CASE FlushAnswers
    <3>1. /\ drv = "flush" /\ drv' = "unmask" /\ owed' = owed
          /\ last' = IF wire = <<>> THEN last ELSE Last(wire)
      BY <2>5 DEF FlushAnswers, flush_output
    <3>2. wire \in Seq(Answers) /\ down = {} /\ forced = "none" /\ ~SHIFT_HELD /\ ~CAPS_LOCK /\ decoded = <<>>
      BY <3>1 DEF AnswersInv, ConfigInv
    <3>3. last' \in Answers
      BY <1>0, <3>1, <3>2 DEF Last
    <3> QED BY <1>0, <2>0, <3>1, <3>2, <3>3 DEF AnswersInv
  <2>6. CASE Unmask
    <3>1. drv = "unmask" /\ drv' = "ready" /\ owed' = owed /\ last' = OtherByte
      BY <2>6 DEF Unmask
    <3>2. OtherByte \in Answers /\ (owed # <<>> => down = {} /\ forced = "none")
      BY DEF Answers, AnswersInv
    <3> QED BY <1>0, <2>0, <3>1, <3>2 DEF AnswersInv
  <2> QED BY <1>1, <2>1, <2>2, <2>3, <2>4, <2>5, <2>6 DEF Ps2Init
<1>2. ASSUME NEW key \in UserKeys, Press(key) \/ Repeat(key) PROVE AnswersInv'
  <2>1. owed = <<>> /\ drv \in {"unmask", "ready"} /\ UNCHANGED <<owed, last, drv, SHIFT_HELD, CAPS_LOCK, decoded>>
    BY <1>2 DEF Press, Repeat, SendDown, Ready, ps2, driver
  <2> QED BY <1>0, <2>1 DEF AnswersInv
<1>3. ASSUME NEW key \in UserKeys, Release(key) PROVE AnswersInv'
  <2>1. down # {} /\ UNCHANGED <<owed, last, drv, SHIFT_HELD, CAPS_LOCK, decoded>>
    BY <1>3 DEF Release, ps2, driver
  <2>2. drv \in {"unmask", "ready"} /\ owed = <<>>
    BY <2>1 DEF AnswersInv, ConfigInv
  <2> QED BY <1>0, <2>1, <2>2 DEF AnswersInv
<1>4. CASE Answer
  <2>1. /\ owed # <<>> /\ wire' = Append(wire, Head(owed)) /\ owed' = Tail(owed)
        /\ UNCHANGED <<drv, last, down, forced, capsOn, typed, SHIFT_HELD, CAPS_LOCK, decoded>>
    BY <1>4 DEF Answer, user, driver
  <2>2. Head(owed) \in Answers /\ owed' \in Seq(Answers)
    BY <1>0, <2>1
  <2>3. wire \in Seq(Answers) => wire' \in Seq(Answers)
    BY <2>1, <2>2
  <2>4. down = {} /\ forced = "none"
    BY <2>1 DEF AnswersInv
  <2> QED BY <1>0, <2>1, <2>2, <2>3, <2>4 DEF AnswersInv
<1>5. CASE KeyboardIrq
  <2>1. drv = "ready" /\ UNCHANGED <<owed, last, drv, down, forced, capsOn, typed>>
    BY <1>5 DEF KeyboardIrq, ps2, user
  <2> QED BY <1>0, <2>1 DEF AnswersInv
<1>6. CASE TimerIrq \/ Shell \/ UNCHANGED vars
  <2>1. UNCHANGED <<owed, last, drv, wire, down, forced, capsOn, typed, SHIFT_HELD, CAPS_LOCK, decoded>>
    BY <1>6 DEF TimerIrq, Shell, ReadKeyCheck, Hlt, ReadKeyTake, ReadKeyAdvance,
       ShellEdit, vars, ps2, user, driver
  <2> QED BY <1>0, <2>1 DEF AnswersInv
<1> QED BY <1>1, <1>2, <1>3, <1>4, <1>5, <1>6 DEF Next

-----------------------------------------------------------------------------
(* The modifiers that the driver keeps and that the user holds. *)
DriverMods == Mods(SHIFT_HELD, CAPS_LOCK)

UserMods == Mods(ShiftMeant, capsOn)

LEMMA ModsType == \A x, y : Mods(x, y) \in Modifiers
  BY DEF Mods, Modifiers

LEMMA ModsMembers == \A x, y : /\ "shift" \in Mods(x, y) <=> x
                               /\ "caps" \in Mods(x, y) <=> y
  BY DEF Mods

(* process_scancode() and the user agree on what a scancode does to the     *)
(* modifiers ...                                                            *)
LEMMA DriverFollows ==
    ASSUME NEW c \in Codes, UpdateModifiers(c)
    PROVE  DriverMods' = After(c, DriverMods)
<1>1. SHIFT_HELD' = IF c.key \in Shifts THEN ~c.released ELSE SHIFT_HELD
  BY DEF UpdateModifiers
<1>2. CAPS_LOCK' = IF c.key = "caps" /\ ~c.released THEN ~CAPS_LOCK ELSE CAPS_LOCK
  BY DEF UpdateModifiers
<1>3. CASE c.key \in Shifts
  BY <1>1, <1>2, <1>3 DEF DriverMods, Mods, After, Shifts
<1>4. CASE c.key = "caps" /\ ~c.released
  BY <1>1, <1>2, <1>4 DEF DriverMods, Mods, After, Shifts
<1>5. CASE c.key \notin Shifts /\ ~(c.key = "caps" /\ ~c.released)
  BY <1>1, <1>2, <1>5 DEF DriverMods, Mods, After
<1> QED BY <1>3, <1>4, <1>5

LEMMA PressFollows ==
    ASSUME NEW key \in UserKeys, capsOn \in BOOLEAN, Press(key) \/ Repeat(key), key # "arrow"
    PROVE  UserMods' = After([key |-> key, released |-> FALSE], UserMods)
<1>0. /\ down' = down \cup {key} /\ capsOn' = (capsOn # (key = "caps"))
      /\ forced' = IF key \in Shifts THEN "none" ELSE forced
  BY DEF Press, Repeat, SendDown, Fakes
<1>1. /\ key = "caps" => (capsOn' <=> ~capsOn)
      /\ key # "caps" => (capsOn' <=> capsOn)
  <2>1. CASE capsOn = TRUE
    BY <1>0, <2>1
  <2>2. CASE capsOn = FALSE
    BY <1>0, <2>2
  <2> QED BY <2>1, <2>2
<1>2. CASE key \in Shifts
  <2>1. ShiftMeant' = TRUE /\ key # "caps"
    BY <1>0, <1>2 DEF ShiftMeant, Shifts
  <2> QED BY <1>1, <1>2, <2>1 DEF UserMods, Mods, After
<1>3. CASE key \notin Shifts
  <2>1. ShiftMeant' = ShiftMeant
    BY <1>0, <1>3 DEF ShiftMeant
  <2>2. CASE key = "caps"
    BY <1>1, <1>3, <2>1, <2>2 DEF UserMods, Mods, After
  <2>3. CASE key # "caps"
    BY <1>1, <1>3, <2>1, <2>3 DEF UserMods, Mods, After
  <2> QED BY <2>2, <2>3
<1> QED BY <1>2, <1>3

LEMMA ReleaseFollows ==
    ASSUME NEW key \in UserKeys, Release(key), key # "arrow"
    PROVE  UserMods' = After([key |-> key, released |-> TRUE], UserMods)
<1>1. /\ key \in down /\ down' = down \ {key} /\ capsOn' = capsOn
      /\ forced' = IF key \in Shifts
                    THEN IF Shifts \cap down = {key} THEN "none" ELSE "off"
                    ELSE forced
  BY DEF Release, Fakes
<1>2. CASE key \in Shifts
  <2>1. ShiftMeant' = FALSE
    <3>1. CASE Shifts \cap down = {key}
      BY <1>1, <1>2, <3>1 DEF ShiftMeant
    <3>2. CASE Shifts \cap down # {key}
      BY <1>1, <1>2, <3>2 DEF ShiftMeant
    <3> QED BY <3>1, <3>2
  <2> QED BY <1>1, <1>2, <2>1 DEF UserMods, Mods, After
<1>3. CASE key \notin Shifts
  <2>1. ShiftMeant' = ShiftMeant
    BY <1>1, <1>3 DEF ShiftMeant
  <2> QED BY <1>1, <1>3, <2>1 DEF UserMods, Mods, After
<1> QED BY <1>2, <1>3

(* An extended key changes nothing, but the shift that may be sent with it. *)
FakeCode(fake) == [key |-> "lshift", released |-> fake = "off"]

LEMMA ArrowFollows ==
    ASSUME capsOn \in BOOLEAN, Press("arrow") \/ Repeat("arrow") \/ Release("arrow"),
           NEW fake \in {"none", "on", "off"},
           forced' = IF fake = "none" THEN forced ELSE fake
    PROVE  UserMods' = IF fake = "none" THEN UserMods ELSE After(FakeCode(fake), UserMods)
<1>1. /\ down' \in {down \cup {"arrow"}, down \ {"arrow"}, down}
      /\ capsOn' = capsOn
  <2>1. CASE Release("arrow")
    BY <2>1 DEF Release
  <2>2. CASE Press("arrow") \/ Repeat("arrow")
    <3>1. capsOn' = (capsOn # FALSE)
      BY <2>2 DEF Press, Repeat, SendDown
    <3>2. capsOn' = capsOn
      BY <3>1
    <3> QED BY <2>2, <3>2 DEF Press, Repeat
  <2> QED BY <2>1, <2>2
<1>2. Shifts \cap down' = Shifts \cap down
  BY <1>1 DEF Shifts
<1>3. CASE fake = "none"
  <2>1. ShiftMeant' = ShiftMeant
    BY <1>2, <1>3 DEF ShiftMeant
  <2> QED BY <1>1, <1>3, <2>1 DEF UserMods, Mods
<1>4. CASE fake = "on"
  <2>1. ShiftMeant' = TRUE
    BY <1>4 DEF ShiftMeant
  <2> QED BY <1>1, <1>4, <2>1 DEF UserMods, Mods, After, FakeCode, Shifts
<1>5. CASE fake = "off"
  <2>1. ShiftMeant' = FALSE
    BY <1>5 DEF ShiftMeant
  <2> QED BY <1>1, <1>5, <2>1 DEF UserMods, Mods, After, FakeCode, Shifts
<1> QED BY <1>3, <1>4, <1>5

(* ... and on the character it means.                                       *)
LEMMA DecodeIsMeaning ==
    ASSUME NEW c \in Codes, SHIFT_HELD \in BOOLEAN, CAPS_LOCK \in BOOLEAN
    PROVE  /\ HasChar(c) => Of(c, DriverMods) = <<Decode(c.key)>>
           /\ ~HasChar(c) => Of(c, DriverMods) = <<>>
<1>0. c = PREFIX \/ c.key \in ByteKeys
  BY DEF Codes
<1>1. \/ SHIFT_HELD = TRUE /\ ("shift" \in DriverMods) = TRUE
      \/ SHIFT_HELD = FALSE /\ ("shift" \in DriverMods) = FALSE
  BY DEF DriverMods, Mods
<1>2. \/ CAPS_LOCK = TRUE /\ ("caps" \in DriverMods) = TRUE
      \/ CAPS_LOCK = FALSE /\ ("caps" \in DriverMods) = FALSE
  BY DEF DriverMods, Mods
<1>3. CASE c = PREFIX \/ c.released \/ c.key \in ModifierKeys
  <2>1. ~HasChar(c)
    BY <1>3 DEF HasChar, ModifierKeys
  <2>2. Of(c, DriverMods) = <<>>
    BY <1>3 DEF Of, Meaning, ModifierKeys, Shifts, PREFIX
  <2> QED BY <2>1, <2>2
<1>4. CASE c # PREFIX /\ ~c.released /\ c.key \in ByteKeys \ ModifierKeys
  <2>1. /\ HasChar(c) <=> Decode(c.key) # "none"
        /\ Of(c, DriverMods) = Meaning(c.key, "shift" \in DriverMods, "caps" \in DriverMods)
    BY <1>4 DEF HasChar, Of, ModifierKeys
  <2>2. CASE c.key = "a"
    BY <1>1, <1>2, <2>1, <2>2 DEF Decode, Meaning, SCANCODE_TABLE, SCANCODE_TABLE_SHIFT,
       IsLetter, Upper, Keys, Shifts
  <2>3. CASE c.key = "1"
    BY <1>1, <1>2, <2>1, <2>3 DEF Decode, Meaning, SCANCODE_TABLE, SCANCODE_TABLE_SHIFT,
       IsLetter, Upper, Keys, Shifts
  <2>4. CASE c.key = "enter"
    BY <1>1, <1>2, <2>1, <2>4 DEF Decode, Meaning, SCANCODE_TABLE, SCANCODE_TABLE_SHIFT,
       IsLetter, Upper, Keys, Shifts
  <2>5. CASE c.key = "backspace"
    BY <1>1, <1>2, <2>1, <2>5 DEF Decode, Meaning, SCANCODE_TABLE, SCANCODE_TABLE_SHIFT,
       IsLetter, Upper, Keys, Shifts
  <2>6. CASE c.key \in {"f1", "arrow", "x55", "ack"}
    BY <1>1, <1>2, <2>1, <2>6 DEF Decode, Meaning, SCANCODE_TABLE, SCANCODE_TABLE_SHIFT,
       IsLetter, Upper, Keys, Shifts
  <2> QED BY <1>4, <2>2, <2>3, <2>4, <2>5, <2>6 DEF ByteKeys, Keys, Shifts, ModifierKeys
<1> QED BY <1>0, <1>3, <1>4

(* What was decoded is what was meant first, and the scancodes that wait    *)
(* mean the rest: they take the driver's modifiers to those of the user.    *)
TypedInv ==
    /\ typed \in Seq(Chars) /\ decoded \in Seq(Chars)
    /\ SHIFT_HELD \in BOOLEAN /\ CAPS_LOCK \in BOOLEAN /\ capsOn \in BOOLEAN
    /\ Len(decoded) <= Len(typed)
    /\ \A k \in 1 .. Len(decoded) : decoded[k] = typed[k]
    /\ drv \in {"unmask", "ready"} => Trace(wire, typed, DriverMods, Len(decoded), UserMods)

LEMMA TypedInit == Init => TypedInv
<1> SUFFICES ASSUME Init PROVE TypedInv
  OBVIOUS
<1>1. typed = <<>> /\ decoded = <<>> /\ drv = "begin"
  BY DEF Init
<1>2. SHIFT_HELD = FALSE /\ CAPS_LOCK = FALSE /\ capsOn = FALSE
  BY DEF Init
<1>3. Len(decoded) = 0 /\ Len(typed) = 0 /\ typed \in Seq(Chars) /\ decoded \in Seq(Chars)
  BY <1>1
<1>4. SHIFT_HELD \in BOOLEAN /\ CAPS_LOCK \in BOOLEAN /\ capsOn \in BOOLEAN
  BY <1>2, Zenon
<1>5. Len(decoded) <= Len(typed) /\ \A k \in 1 .. Len(decoded) : decoded[k] = typed[k]
  BY <1>3
<1>6. drv \notin {"unmask", "ready"}
  BY <1>1
<1> QED BY <1>3, <1>4, <1>5, <1>6, Zenon DEF TypedInv

(* Nothing waits. *)
LEMMA TraceOfNothing ==
    ASSUME NEW ty \in Seq(Chars), NEW m \in Modifiers
    PROVE  Trace(<<>>, ty, m, Len(ty), m)
<1> DEFINE M == [i \in {0} |-> m]
           C == [i \in {0} |-> Len(ty)]
<1>1. Len(<<>>) = 0 /\ 0 .. 0 = {0} /\ 1 .. 0 = {} /\ Len(ty) \in Nat
  OBVIOUS
<1>2. M \in [0 .. Len(<<>>) -> Modifiers] /\ C \in [0 .. Len(<<>>) -> Nat]
  BY <1>1
<1>3. M[0] = m /\ C[0] = Len(ty)
  OBVIOUS
<1> HIDE DEF M, C
<1> QED BY <1>1, <1>2, <1>3 DEF Trace

(* An answer that comes while no shift key is held changes nothing. *)
LEMMA TraceOfAnswer ==
    ASSUME NEW w \in Seq(Codes), NEW ty \in Seq(Chars), NEW m0, NEW n, NEW m1,
           NEW c \in Answers, "shift" \notin m1, Trace(w, ty, m0, n, m1)
    PROVE  Trace(Append(w, c), ty, m0, n, m1)
<1>1. c \in Codes /\ Of(c, m1) = <<>> /\ After(c, m1) = m1
  BY AnswersMeanNothing
<1>2. ty \o <<>> = ty
  OBVIOUS
<1>3. Trace(Append(w, c), ty \o Of(c, m1), m0, n, After(c, m1))
  BY <1>1, TraceGrows
<1> QED BY <1>1, <1>2, <1>3

(* A scancode without a character, and the same after the prefix. *)
LEMMA TraceOfQuiet ==
    ASSUME NEW w \in Seq(Codes), NEW ty \in Seq(Chars), NEW m0, NEW n, NEW m1,
           NEW c \in Codes, Of(c, m1) = <<>>, Trace(w, ty, m0, n, m1)
    PROVE  Trace(Append(w, c), ty, m0, n, After(c, m1))
<1>1. ty \o <<>> = ty
  OBVIOUS
<1>2. Trace(Append(w, c), ty \o Of(c, m1), m0, n, After(c, m1))
  BY TraceGrows
<1> QED BY <1>1, <1>2

LEMMA TraceOfExtended ==
    ASSUME NEW w \in Seq(Codes), NEW ty \in Seq(Chars), NEW m0, NEW n, NEW m1,
           NEW c \in Codes, Of(c, m1) = <<>>, Trace(w, ty, m0, n, m1)
    PROVE  Trace(w \o <<PREFIX, c>>, ty, m0, n, After(c, m1))
<1>1. PICK p \in Codes : p = PREFIX
  BY SomeCodes
<1>2. Of(p, m1) = <<>> /\ After(p, m1) = m1
  BY <1>1 DEF Of, After, PREFIX, Shifts
<1>3. Append(w, p) \in Seq(Codes) /\ w \o <<p, c>> = Append(Append(w, p), c)
  OBVIOUS
<1>4. Trace(Append(w, p), ty, m0, n, m1)
  <2>1. Trace(Append(w, p), ty, m0, n, After(p, m1))
    BY <1>2, TraceOfQuiet
  <2> QED BY <1>2, <2>1
<1>5. Trace(Append(Append(w, p), c), ty, m0, n, After(c, m1))
  BY <1>3, <1>4, TraceOfQuiet
<1> QED BY <1>1, <1>3, <1>5

(* An extended key, with the shift that the keyboard may send before or     *)
(* after it.                                                                *)
LEMMA TraceOfArrow ==
    ASSUME NEW w \in Seq(Codes), NEW ty \in Seq(Chars), NEW m0, NEW n, NEW m1,
           NEW fake \in {"none", "on", "off"}, NEW released \in BOOLEAN,
           Trace(w, ty, m0, n, m1)
    PROVE  LET a == [key |-> "arrow", released |-> released]
               m2 == IF fake = "none" THEN m1 ELSE After(FakeCode(fake), m1)
           IN  /\ Trace(w \o FakeCodes(fake) \o <<PREFIX, a>>, ty, m0, n, m2)
               /\ Trace(w \o <<PREFIX, a>> \o FakeCodes(fake), ty, m0, n, m2)
<1>1. PICK a \in Codes : a = [key |-> "arrow", released |-> released]
  BY DEF Codes, ByteKeys, Keys
<1>2. \A m : Of(a, m) = <<>> /\ After(a, m) = m
  BY <1>1 DEF Of, Meaning, After, Shifts
<1>3. PICK f \in Codes : f = FakeCode(fake)
  BY ShiftCodes DEF FakeCode
<1>4. \A m : Of(f, m) = <<>>
  BY <1>3 DEF Of, Meaning, FakeCode
<1>5. PICK p \in Codes : p = PREFIX
  BY SomeCodes
<1>6. CASE fake = "none"
  <2>1. w \o <<>> = w /\ w \o <<p, a>> \o <<>> = w \o <<p, a>>
    OBVIOUS
  <2>2. Trace(w \o <<p, a>>, ty, m0, n, m1)
    <3>1. Trace(w \o <<PREFIX, a>>, ty, m0, n, After(a, m1))
      BY <1>2, TraceOfExtended
    <3> QED BY <1>2, <1>5, <3>1
  <2> QED BY <1>1, <1>5, <1>6, <2>1, <2>2 DEF FakeCodes
<1>7. CASE fake # "none"
  <2>0. FakeCodes(fake) = <<p, f>>
    BY <1>3, <1>5, <1>7 DEF FakeCodes, FakeCode
  <2>1. PICK m2 : m2 = After(f, m1)
    OBVIOUS
  <2>2. PICK u \in Seq(Codes), v \in Seq(Codes) : u = w \o <<p, f>> /\ v = w \o <<p, a>>
    <3>1. <<p, f>> \in Seq(Codes) /\ <<p, a>> \in Seq(Codes)
      OBVIOUS
    <3> QED BY <3>1, SeqJoin
  <2>3. Trace(u, ty, m0, n, m2)
    BY <1>4, <1>5, <2>1, <2>2, TraceOfExtended
  <2>4. Trace(v, ty, m0, n, m1)
    <3>1. Trace(w \o <<PREFIX, a>>, ty, m0, n, After(a, m1))
      BY <1>2, TraceOfExtended
    <3> QED BY <1>2, <1>5, <2>2, <3>1
  <2>5. Trace(u \o <<p, a>>, ty, m0, n, m2)
    <3>1. Trace(u \o <<PREFIX, a>>, ty, m0, n, After(a, m2))
      BY <1>2, <2>3, TraceOfExtended
    <3> QED BY <1>2, <1>5, <3>1
  <2>6. Trace(v \o <<p, f>>, ty, m0, n, m2)
    BY <1>4, <1>5, <2>1, <2>4, TraceOfExtended
  <2> QED BY <1>1, <1>3, <1>5, <1>7, <2>0, <2>1, <2>2, <2>5, <2>6
<1> QED BY <1>6, <1>7

LEMMA TypedStep ==
    WireInv /\ ConfigInv /\ AnswersInv /\ TypedInv /\ [Next]_vars => TypedInv'
<1> SUFFICES ASSUME WireInv, ConfigInv, AnswersInv, TypedInv, [Next]_vars PROVE TypedInv'
  OBVIOUS
<1>0. /\ typed \in Seq(Chars) /\ decoded \in Seq(Chars)
      /\ Len(decoded) \in Nat /\ Len(typed) \in Nat
      /\ Len(decoded) <= Len(typed)
      /\ \A k \in 1 .. Len(decoded) : decoded[k] = typed[k]
      /\ wire \in Seq(Codes)
  BY DEF TypedInv, WireInv
<1>a. SHIFT_HELD \in BOOLEAN /\ CAPS_LOCK \in BOOLEAN /\ capsOn \in BOOLEAN
  BY DEF TypedInv
<1>b. drv \in {"unmask", "ready"} => Trace(wire, typed, DriverMods, Len(decoded), UserMods)
  BY DEF TypedInv
<1>1. ASSUME NEW key \in UserKeys, Press(key) \/ Repeat(key), key # "arrow"
      PROVE  TypedInv'
  <2>1. PICK c \in Codes : c = [key |-> key, released |-> FALSE]
    BY KeyCodes
  <2>2. /\ wire' = Append(wire, c) /\ drv \in {"unmask", "ready"}
        /\ typed' = typed \o Meaning(key, ShiftMeant, capsOn)
        /\ UNCHANGED <<SHIFT_HELD, CAPS_LOCK, decoded, drv>>
        /\ capsOn' = (capsOn # (key = "caps"))
    <3>1. PICK w \in Seq(Codes) : w = wire
      BY <1>0
    <3>2. w \o <<>> \o <<c>> = Append(w, c)
      OBVIOUS
    <3>3. wire' = wire \o FakeCodes("none") \o SentFor(key, FALSE)
      BY <1>1 DEF Press, Repeat, SendDown, Fakes
    <3>4. wire' = w \o <<>> \o <<c>>
      BY <1>1, <2>1, <3>1, <3>3, SentCodes DEF FakeCodes
    <3>5. /\ drv \in {"unmask", "ready"}
          /\ typed' = typed \o Meaning(key, ShiftMeant, capsOn)
          /\ UNCHANGED <<SHIFT_HELD, CAPS_LOCK, decoded, drv>>
          /\ capsOn' = (capsOn # (key = "caps"))
      BY <1>1 DEF Press, Repeat, SendDown, Ready, ps2, driver
    <3> QED BY <3>1, <3>2, <3>4, <3>5
  <2>3. Of(c, UserMods) = Meaning(key, ShiftMeant, capsOn)
    <3>1. Of(c, UserMods) = Meaning(key, "shift" \in UserMods, "caps" \in UserMods)
      BY <2>1 DEF Of
    <3>2. ("shift" \in UserMods) = ShiftMeant
      BY DEF UserMods, Mods, ShiftMeant
    <3>3. ("caps" \in UserMods) = capsOn
      <4>1. "caps" \in UserMods <=> capsOn
        BY ModsMembers DEF UserMods
      <4> QED BY <1>a, <4>1, Zenon
    <3> QED BY <3>1, <3>2, <3>3
  <2>4. UserMods \in Modifiers
    BY ModsType DEF UserMods
  <2>5. PICK o \in Seq(Chars) : o = Of(c, UserMods)
    BY <2>4, OfType
  <2>6. typed' = typed \o o
    BY <2>2, <2>3, <2>5
  <2>7. /\ typed' \in Seq(Chars) /\ Len(decoded) <= Len(typed')
        /\ \A k \in 1 .. Len(decoded) : decoded[k] = typed'[k]
    BY <1>0, <2>6
  <2>8. Trace(wire', typed', DriverMods, Len(decoded), After(c, UserMods))
    BY <1>0, <1>b, <2>2, <2>5, <2>6, TraceGrows
  <2>9. UserMods' = After(c, UserMods) /\ DriverMods' = DriverMods
    <3>1. UserMods' = After([key |-> key, released |-> FALSE], UserMods)
      BY <1>1, <1>a, PressFollows
    <3>2. DriverMods' = DriverMods
      BY <2>2 DEF DriverMods
    <3> QED BY <2>1, <3>1, <3>2
  <2>10. capsOn' \in BOOLEAN
    BY <2>2
  <2> QED BY <1>0, <1>a, <2>2, <2>7, <2>8, <2>9, <2>10 DEF TypedInv
<1>2. ASSUME NEW key \in UserKeys, Release(key), key # "arrow" PROVE TypedInv'
  <2>1. PICK c \in Codes : c = [key |-> key, released |-> TRUE]
    BY KeyCodes
  <2>2. /\ wire' = Append(wire, c) /\ down # {}
        /\ UNCHANGED <<SHIFT_HELD, CAPS_LOCK, decoded, drv, capsOn, typed>>
    <3>1. PICK w \in Seq(Codes) : w = wire
      BY <1>0
    <3>2. w \o <<c>> \o <<>> = Append(w, c)
      OBVIOUS
    <3>3. wire' = wire \o SentFor(key, TRUE) \o FakeCodes("none")
      BY <1>2 DEF Release, Fakes
    <3>4. wire' = w \o <<c>> \o <<>>
      BY <1>2, <2>1, <3>1, <3>3, SentCodes DEF FakeCodes
    <3>5. down # {} /\ UNCHANGED <<SHIFT_HELD, CAPS_LOCK, decoded, drv, capsOn, typed>>
      BY <1>2 DEF Release, ps2, driver
    <3> QED BY <3>1, <3>2, <3>4, <3>5
  <2>3. drv \in {"unmask", "ready"}
    BY <2>2 DEF ConfigInv
  <2>4. Of(c, UserMods) = <<>> /\ typed \o <<>> = typed
    BY <1>0, <2>1 DEF Of
  <2>5. Trace(wire', typed, DriverMods, Len(decoded), After(c, UserMods))
    BY <1>0, <1>b, <2>2, <2>3, <2>4, TraceGrows
  <2>6. UserMods' = After(c, UserMods) /\ DriverMods' = DriverMods
    <3>1. UserMods' = After([key |-> key, released |-> TRUE], UserMods)
      BY <1>2, ReleaseFollows
    <3>2. DriverMods' = DriverMods
      BY <2>2 DEF DriverMods
    <3> QED BY <2>1, <3>1, <3>2
  <2> QED BY <1>0, <1>a, <2>2, <2>3, <2>5, <2>6 DEF TypedInv
<1>7. ASSUME "arrow" \in UserKeys, Press("arrow") \/ Repeat("arrow") \/ Release("arrow")
      PROVE  TypedInv'
  <2>1. /\ drv \in {"unmask", "ready"} /\ typed' = typed /\ capsOn' = capsOn
        /\ UNCHANGED <<SHIFT_HELD, CAPS_LOCK, decoded, drv>>
    <3>1. CASE Press("arrow") \/ Repeat("arrow")
      <4>1. capsOn' = (capsOn # FALSE) /\ typed' = typed \o <<>>
        BY <3>1 DEF Press, Repeat, SendDown, Meaning
      <4>2. capsOn' = capsOn
        BY <4>1, <1>a
      <4>3. typed' = typed
        BY <4>1, <1>0
      <4> QED BY <3>1, <4>2, <4>3 DEF Press, Repeat, SendDown, Ready, ps2, driver
    <3>2. CASE Release("arrow")
      BY <3>2 DEF Release, ps2, driver, ConfigInv
    <3> QED BY <1>7, <3>1, <3>2
  <2>2. PICK fake \in {"none", "on", "off"}, released \in BOOLEAN :
          /\ forced' = IF fake = "none" THEN forced ELSE fake
          /\ \/ wire' = wire \o FakeCodes(fake) \o SentFor("arrow", released)
             \/ wire' = wire \o SentFor("arrow", released) \o FakeCodes(fake)
    <3>1. Fakes("arrow") = {"none", "on", "off"} /\ "arrow" \notin Shifts
      BY DEF Fakes, Shifts
    <3> QED BY <1>7, <3>1 DEF Press, Repeat, SendDown, Release
  <2>3. SentFor("arrow", released) = <<PREFIX, [key |-> "arrow", released |-> released]>>
    BY <1>7, SentCodes
  <2>4. UserMods' = (IF fake = "none" THEN UserMods ELSE After(FakeCode(fake), UserMods))
        /\ DriverMods' = DriverMods
    BY <1>7, <1>a, <2>1, <2>2, ArrowFollows DEF DriverMods
  <2>5. PICK w \in Seq(Codes), ty \in Seq(Chars), n \in Nat,
              m0 \in Modifiers, m1 \in Modifiers :
          /\ w = wire /\ ty = typed /\ m0 = DriverMods /\ n = Len(decoded) /\ m1 = UserMods
    BY <1>0, ModsType DEF DriverMods, UserMods
  <2>6. Trace(w, ty, m0, n, m1)
    BY <1>b, <2>1, <2>5
  <2>7. Trace(wire', ty, m0, n, UserMods')
    BY <2>2, <2>3, <2>4, <2>5, <2>6, TraceOfArrow
  <2> QED BY <1>0, <1>a, <2>1, <2>4, <2>5, <2>7 DEF TypedInv
<1>3. CASE Ps2Init
  <2>1. UNCHANGED <<down, forced, capsOn, typed, SHIFT_HELD, CAPS_LOCK, decoded>>
    BY <1>3 DEF Ps2Init, user, driver
  <2>2. UserMods' = UserMods /\ DriverMods' = DriverMods
    BY <2>1 DEF UserMods, DriverMods, ShiftMeant
  <2>3. CASE FlushAnswers
    <3>1. drv = "flush" /\ wire' = <<>>
      BY <2>3 DEF FlushAnswers, flush_output
    <3>2. /\ typed = <<>> /\ decoded = <<>> /\ ~SHIFT_HELD /\ ~CAPS_LOCK /\ ~capsOn /\ down = {} /\ forced = "none"
      BY <3>1 DEF AnswersInv, ConfigInv
    <3>3. UserMods = {} /\ DriverMods = {}
      BY <3>2 DEF UserMods, DriverMods, Mods, ShiftMeant
    <3>4. Trace(wire', typed, DriverMods, Len(decoded), UserMods)
      BY <1>0, <3>1, <3>2, <3>3, TraceOfNothing DEF Modifiers
    <3> QED BY <1>0, <1>a, <2>1, <2>2, <3>4 DEF TypedInv
  <2>4. CASE Unmask
    <3>1. drv = "unmask" /\ drv' = "ready" /\ (wire' = wire \/ (wire = <<>> /\ wire' = <<last>>))
      BY <2>4 DEF Unmask
    <3>2. CASE wire' = wire
      BY <1>0, <1>a, <1>b, <2>1, <2>2, <3>1, <3>2 DEF TypedInv
    <3>3. CASE wire = <<>> /\ wire' = <<last>>
      <4>1. last \in Answers /\ ~SHIFT_HELD
        BY <3>1 DEF AnswersInv
      <4>2. <<last>> = Append(wire, last)
        BY <3>3
      <4>3. "shift" \notin UserMods
        <5>1. DriverMods = UserMods
          BY <1>b, <3>1, <3>3 DEF Trace
        <5> QED BY <4>1, <5>1 DEF DriverMods, Mods
      <4>4. Trace(wire', typed, DriverMods, Len(decoded), UserMods)
        BY <1>0, <1>b, <3>1, <3>3, <4>1, <4>2, <4>3, TraceOfAnswer
      <4> QED BY <1>0, <1>a, <2>1, <2>2, <4>4 DEF TypedInv
    <3> QED BY <3>1, <3>2, <3>3
  <2>5. CASE Begin \/ ReadConfig \/ SelfTest \/ ResetAnswer
    <3>1. drv' \notin {"unmask", "ready"}
      BY <2>5 DEF Begin, ReadConfig, SelfTest, ResetAnswer
    <3> QED BY <1>0, <1>a, <2>1, <3>1 DEF TypedInv
  <2> QED BY <1>3, <2>3, <2>4, <2>5 DEF Ps2Init
<1>4. CASE Answer
  <2>1. /\ owed # <<>> /\ wire' = Append(wire, Head(owed))
        /\ UNCHANGED <<drv, down, forced, capsOn, typed, SHIFT_HELD, CAPS_LOCK, decoded>>
    BY <1>4 DEF Answer, user, driver
  <2>2. Head(owed) \in Answers /\ down = {} /\ forced = "none"
    BY <2>1 DEF AnswersInv
  <2>3. "shift" \notin UserMods
    BY <2>2 DEF UserMods, Mods, ShiftMeant
  <2>4. drv \in {"unmask", "ready"} => Trace(wire', typed, DriverMods, Len(decoded), UserMods)
    BY <1>0, <1>b, <2>1, <2>2, <2>3, TraceOfAnswer
  <2>5. UserMods' = UserMods /\ DriverMods' = DriverMods
    BY <2>1 DEF UserMods, DriverMods, ShiftMeant
  <2> QED BY <1>0, <1>a, <2>1, <2>4, <2>5 DEF TypedInv
<1>5. CASE KeyboardIrq
  <2>1. PICK c \in Codes : c = Head(wire) /\ wire # <<>>
    BY <1>0, <1>5 DEF KeyboardIrq
  <2>2. /\ drv = "ready" /\ wire' = Tail(wire) /\ UpdateModifiers(c)
        /\ UNCHANGED <<drv, down, forced, capsOn, typed>>
    BY <1>5, <2>1 DEF KeyboardIrq, ps2, user
  <2>3. PICK o \in Seq(Chars) : o = Of(c, DriverMods)
    <3>1. DriverMods \in Modifiers
      BY ModsType DEF DriverMods
    <3> QED BY <3>1, OfType
  <2>4. /\ Trace(wire', typed, After(c, DriverMods), Len(decoded) + Len(o), UserMods)
        /\ Len(decoded) + Len(o) <= Len(typed)
        /\ \A k \in 1 .. Len(o) : typed[Len(decoded) + k] = o[k]
    <3>0. DriverMods \in Modifiers /\ UserMods \in Modifiers
      BY ModsType DEF DriverMods, UserMods
    <3>1. PICK w \in Seq(Codes), ty \in Seq(Chars), n \in Nat, m0 \in Modifiers, m1 \in Modifiers :
             /\ w = wire /\ ty = typed /\ n = Len(decoded)
             /\ m0 = DriverMods /\ m1 = UserMods
      BY <1>0, <3>0
    <3>2. w # <<>> /\ Trace(w, ty, m0, n, m1)
      BY <1>b, <2>1, <2>2, <3>1
    <3>3. c = Head(w) /\ o = Of(c, m0) /\ Tail(w) = wire'
      BY <2>1, <2>2, <2>3, <3>1
    <3>4. Trace(Tail(w), ty, After(c, m0), n + Len(o), m1) /\ Follow(ty, n, o)
      BY <3>2, <3>3, TraceDrops
    <3> QED BY <3>1, <3>3, <3>4 DEF Follow
  <2>5. DriverMods' = After(c, DriverMods) /\ UserMods' = UserMods
    BY <2>2, DriverFollows DEF UserMods, ShiftMeant
  <2>6. SHIFT_HELD' \in BOOLEAN /\ CAPS_LOCK' \in BOOLEAN
    BY <1>a, <2>2 DEF UpdateModifiers
  <2>7. CASE ~HasChar(c)
    <3>1. decoded' = decoded
      BY <1>5, <2>1, <2>7 DEF KeyboardIrq
    <3>2. o = <<>>
      BY <1>a, <2>3, <2>7, DecodeIsMeaning
    <3>3. Len(decoded) + Len(o) = Len(decoded)
      BY <1>0, <3>2
    <3> QED BY <1>0, <1>a, <2>2, <2>4, <2>5, <2>6, <3>1, <3>3 DEF TypedInv
  <2>8. CASE HasChar(c)
    <3>1. PICK x : x = Decode(c.key)
      OBVIOUS
    <3>2. x \in Chars
      <4>1. c.key \in ByteKeys \ ModifierKeys
        BY <2>8, CharacterKeys
      <4> QED BY <3>1, <4>1, DecodeInChars
    <3>3. decoded' = Append(decoded, x)
      BY <1>5, <2>1, <2>8, <3>1 DEF KeyboardIrq
    <3>4. o = <<x>>
      BY <1>a, <2>3, <2>8, <3>1, DecodeIsMeaning
    <3>5. Len(o) = 1 /\ o[1] = x
      BY <3>4
    <3>6. /\ decoded' \in Seq(Chars) /\ Len(decoded') = Len(decoded) + 1
          /\ decoded'[Len(decoded) + 1] = x
          /\ \A k \in 1 .. Len(decoded) : decoded'[k] = decoded[k]
      BY <1>0, <3>2, <3>3
    <3>7. typed[Len(decoded) + 1] = x /\ Len(decoded) + 1 <= Len(typed)
      BY <2>4, <3>5
    <3>8. \A k \in 1 .. Len(decoded) + 1 : decoded'[k] = typed[k]
      <4>1. \A k \in 1 .. Len(decoded) + 1 : k = Len(decoded) + 1 \/ k \in 1 .. Len(decoded)
        BY <1>0
      <4> QED BY <1>0, <3>6, <3>7, <4>1
    <3>9. Trace(wire', typed, After(c, DriverMods), Len(decoded) + 1, UserMods)
      BY <2>4, <3>5
    <3> QED BY <1>0, <1>a, <2>2, <2>5, <2>6, <3>6, <3>7, <3>8, <3>9 DEF TypedInv
  <2> QED BY <2>7, <2>8
<1>6. CASE TimerIrq \/ Shell \/ UNCHANGED vars
  <2>1. UNCHANGED <<drv, wire, down, forced, capsOn, typed, SHIFT_HELD, CAPS_LOCK, decoded>>
    BY <1>6 DEF TimerIrq, Shell, ReadKeyCheck, Hlt, ReadKeyTake, ReadKeyAdvance,
       ShellEdit, vars, ps2, user, driver
  <2>2. UserMods' = UserMods /\ DriverMods' = DriverMods
    BY <2>1 DEF UserMods, DriverMods, ShiftMeant
  <2> QED BY <1>0, <1>a, <1>b, <2>1, <2>2 DEF TypedInv
<1> QED BY <1>1, <1>2, <1>3, <1>4, <1>5, <1>6, <1>7 DEF Next

(* The characters that the handler decodes are, in order, those that the    *)
(* user meant, for any use of the two shift keys, caps lock, extended keys  *)
(* and repeats, any number of scancodes that wait, and also when late       *)
(* answers of the controller and the keyboard come among them.              *)
THEOREM CharsAreAsTyped == Spec => []CharsAsTyped
<1>1. TypedInv => CharsAsTyped
  <2> SUFFICES ASSUME TypedInv PROVE IsPrefix(decoded, typed)
    BY DEF CharsAsTyped
  <2>1. /\ typed \in Seq(Chars) /\ decoded \in Seq(Chars)
        /\ Len(decoded) <= Len(typed) /\ Len(decoded) \in Nat /\ Len(typed) \in Nat
        /\ \A k \in 1 .. Len(decoded) : decoded[k] = typed[k]
    BY DEF TypedInv
  <2>2. SubSeq(decoded, 1, Len(decoded)) = decoded
    BY <2>1
  <2>3. SubSeq(typed, 1, Len(decoded)) = decoded
    BY <2>1
  <2> QED BY <2>1, <2>2, <2>3 DEF IsPrefix
<1> QED BY WireInit, WireStep, ConfigInit, ConfigStep, AnswersInit, AnswersStep,
           TypedInit, TypedStep, <1>1, PTL DEF Spec
=============================================================================
