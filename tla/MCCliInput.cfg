CONSTANTS
    Chars = {"0", "1", "x", "b", "A", "=", " ", "-"}
    MaxChars = 3

SPECIFICATION Spec

INVARIANT SelectorRejectsMalformed
