\* Two interactive messages of any kinds and two presses by two members.
CONSTANTS
    Users = {u1, u2}
    NMessages = 2
    NPresses = 2
    Languages = {en}
    LastPage = 1
    First = u1
SPECIFICATION Spec
INVARIANTS UndefinedNeedsCrossTalk DeadNeedsCause
PROPERTIES Settles
\* All collectors have ended.
CHECK_DEADLOCK FALSE
