\* Two ends of a connection in a build without libcrypto: cipher_crypt serves
\* chacha20-poly1305, the software AES-CTR and none by its own branches.
CONSTANTS
    WITH_OPENSSL = FALSE
    WITH_SSH1 = FALSE
    NULL = NULL
    UpperCaseOf <- MCUpperCaseOf
    Ciphers = {"aes128-ctr", "none", "chacha20-poly1305@openssh.com"}
    Keys = {k1}
    IVs <- MCIVs
    Payloads = {p1}
    Lens = {16, 20}
    MaxPackets = 3
    MaxHandOff = 2
    MaxAttack = 1
    CtrModulus = 8
SPECIFICATION FairSpec
INVARIANTS
    TypeOK
    InStep
    NoNonceReuse
PROPERTIES
    DeliversInOrder
    EveryPacketArrives
