\* cipher_get_length on a context of an InterMAC cipher.
CONSTANTS
    WITH_OPENSSL = TRUE
    WITH_SSH1 = FALSE
    NULL = NULL
    UpperCaseOf <- MCUpperCaseOf
    Slots = {s1}
    Ciphers = {"aes128-cbc", "aes128-ctr", "aes128-gcm@openssh.com", "arcfour128",
               "none", "chacha20-poly1305@openssh.com", "im-aes128-gcm-127"}
    Keys = {k1}
    IVs <- MCIVs
    Payloads = {p1}
    Lens = {16, 20}
    Passphrases = {pw}
    MaxCrypt = 2
    MaxSeq = 1
    CtrModulus = 4
SPECIFICATION Spec
INVARIANT ImLengthDelegated
