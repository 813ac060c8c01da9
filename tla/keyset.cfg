SPECIFICATION Spec
CONSTANTS
    Null = Null
    Attribute <- MCAttribute
    Row <- MCRow
    CursorKey <- MCKey
    Requests <- MCRequests
    Limits = {1, 2}
    MaxChanges = 2
INVARIANT EveryRowIsShown
PROPERTY ShownOnce ThereAndBack
