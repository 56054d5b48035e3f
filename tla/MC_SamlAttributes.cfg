CONSTANTS
    Names = {"", "uid", "mail"}
    AttrValues = {v1, v2}
    MaxValues = 2
    MaxAttributes = 2
SPECIFICATION Spec
INVARIANTS
    ExtractMatchesSpec
CHECK_DEADLOCK FALSE
