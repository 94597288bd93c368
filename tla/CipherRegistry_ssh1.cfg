\* The registry of a build with libcrypto and protocol 1: every row of the
\* table.
CONSTANTS
    WITH_OPENSSL = TRUE
    WITH_SSH1 = TRUE
    NULL = NULL
    UpperCaseOf <- MCUpperCaseOf
    Names = {"aes128-ctr", "chacha20-poly1305@openssh.com", "des", "none", "bogus", ""}
    Seps = {",", " "}
    FailAts = {0, 1, 2, 44}
    MaxTokens = 3
SPECIFICATION Spec
INVARIANTS
    TypeOK
    ListOwned
    AlgListSound
    ListIsValid
    MaskIsNegotiable
