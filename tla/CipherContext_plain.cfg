\* One context of a build without libcrypto: software AES-CTR, none and
\* chacha20-poly1305.
CONSTANTS
    WITH_OPENSSL = FALSE
    WITH_SSH1 = FALSE
    NULL = NULL
    UpperCaseOf <- MCUpperCaseOf
    Slots = {s1}
    Ciphers = {"aes128-ctr", "none", "chacha20-poly1305@openssh.com"}
    Keys = {k1}
    IVs <- MCIVs
    Payloads = {p1}
    Lens = {0, 16, 20}
    Passphrases = {pw}
    MaxCrypt = 3
    MaxSeq = 1
    CtrModulus = 4
SPECIFICATION Spec
INVARIANTS
    TypeOK
    NoLeak
    AuthenticDecrypt
