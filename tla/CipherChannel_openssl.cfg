\* Two ends of a connection in a build with libcrypto and protocol 1, for
\* every family of ciphers that cipher_crypt serves.
CONSTANTS
    WITH_OPENSSL = TRUE
    WITH_SSH1 = TRUE
    NULL = NULL
    UpperCaseOf <- MCUpperCaseOf
    Ciphers = {"aes128-cbc", "aes128-ctr", "aes128-gcm@openssh.com", "arcfour128",
               "des", "3des", "blowfish",
               "none", "chacha20-poly1305@openssh.com"}
    Keys = {k1}
    IVs <- MCIVs
    Payloads = {p1}
    Lens = {16, 20}
    MaxPackets = 3
    MaxHandOff = 2
    MaxAttack = 1
    CtrModulus = 8
SPECIFICATION FairReadsSpec
INVARIANTS
    TypeOK
    InStep
    NoNonceReuse
PROPERTIES
    DeliversInOrder
    EveryPacketArrives
