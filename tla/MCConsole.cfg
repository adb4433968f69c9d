\* Every kind of key, scancodes that wait, a ring of one character, a line of
\* one, and a screen of two rows, so that all of them overflow and wrap within
\* three keystrokes, which are enough for two shift keys or a repeated caps lock
\* and a letter.
SPECIFICATION FairSpec
CONSTANTS
    KB_BUF_SIZE = 2
    LINE_MAX = 2
    cols = 3
    rows = 2
    prompt_len = 1
    UserKeys = {"a", "1", "lshift", "rshift", "caps", "arrow", "enter", "backspace"}
    MaxPress = 3
    MaxWire = 2
INVARIANTS CharsAsTyped KeysInOrder VisibleLine TranslationKept
PROPERTIES KeysGetRead
