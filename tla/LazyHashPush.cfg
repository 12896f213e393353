SPECIFICATION Spec
CONSTANTS
    MaxInt = 1
    StrKeys = {}
    Vals = {null}
    Null = null
    Boxes = {b1}
    Absent = absent
    AtEnd = atEnd
    Vars = {va}
    RVars = {r1}
    NoArray = noArray
    NoBox = noBox
    Stores = {s1, s2}
    Cells = {c1, c2}
    MaxCount = 1
PROPERTY PushIsFresh
CHECK_DEADLOCK FALSE
VIEW StateView
