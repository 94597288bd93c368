\* cipher_crypt with a tag length on ciphers without a tag, in a build without libcrypto.
CONSTANTS
    WITH_OPENSSL = FALSE
    WITH_SSH1 = FALSE
    NULL = NULL
    UpperCaseOf <- MCUpperCaseOf
    Slots = {s1}
    Ciphers = {"aes128-ctr", "none", "chacha20-poly1305@openssh.com"}
    Keys = {k1}
    IVs <- MCIVs
    Payloads = {p1}
    Lens = {16, 20}
    Passphrases = {pw}
    MaxCrypt = 3
    MaxSeq = 1
    CtrModulus = 4
SPECIFICATION Spec
INVARIANT TaglessRejectsTag
