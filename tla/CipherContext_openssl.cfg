\* One context of a build with libcrypto and protocol 1: one cipher of every
\* family, DES and the protocol 1 triple DES among them.
CONSTANTS
    WITH_OPENSSL = TRUE
    WITH_SSH1 = TRUE
    NULL = NULL
    UpperCaseOf <- MCUpperCaseOf
    Slots = {s1}
    Ciphers = {"aes128-cbc", "aes128-ctr", "aes128-gcm@openssh.com", "arcfour128",
               "none", "des", "3des", "chacha20-poly1305@openssh.com", "im-aes128-gcm-127"}
    Keys = {k1}
    IVs <- MCIVs
    Payloads = {p1}
    Lens = {16, 20}
    Passphrases = {pw}
    MaxCrypt = 2
    MaxSeq = 1
    CtrModulus = 4
SPECIFICATION Spec
INVARIANTS
    TypeOK
    NoLeak
    AuthenticDecrypt
    TransferWithinBuffers
