CONSTANTS
    Bytes = {0, 1, 16, 127, 128, 171, 211, 251, 255}
    MaxBytes = 3
    MaxNumber = 300

SPECIFICATION Spec

INVARIANT ByteEncodingsAgree
