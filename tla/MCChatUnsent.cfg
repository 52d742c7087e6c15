\* A message that chat send reports as sent has left.
SPECIFICATION Spec
CHECK_DEADLOCK FALSE
CONSTANTS
    Parts = {"client"}
    MenuItems = 4
    Groups = 2
    BannerTime = 2
    Rows = 1
    PageSize = 2
    BufSize = 4
    TuiKeys = {"^c", "^t", "^g", "^q", "F5", "F1", "esc", "up", "down", "enter", "ink", "blank", "q", "backspace", "mouse"}
    BrowserKeys = {"up", "down", "pgup", "pgdn", "j", "k", "enter", "esc", "q"}
    Markets = {0, 1, 4}
    Directories <- MCDirectories
    MaxMessages = 2
    MaxInput = 1
    MaxLine = 4
    Commands = {"send"}
    Rounds = 1
    PressureRounds = 2
    Count = 3
    Mailbags <- MCMailbags
    Times = {0, 2}
    FragmentSize = 2
    FragmentTtl = 1
INVARIANT SaidSentHasLeft
