---------------------------- MODULE CipherTable ----------------------------
(***************************************************************************)
(* The cipher registry of cipher.c: the static table `ciphers` and the     *)
(* pure functions that read it.  The table depends on the build, so the    *)
(* build switches are CONSTANTS.  A descriptor is a record with the fields *)
(* of struct sshcipher; `flags` is the set of CFLAG_ bits that are set and *)
(* `evptype` names the EVP constructor (NULL where the table has NULL).    *)
(* Optional algorithms (OPENSSL_NO_BF, _CAST, _RC4) are taken as present,  *)
(* and so are OPENSSL_HAVE_EVPGCM and OPENSSL_HAVE_EVPCTR.                 *)
(***************************************************************************)
EXTENDS Integers, Sequences, SequencesExt, TLC

CONSTANTS
    WITH_OPENSSL,   \* the build links libcrypto
    WITH_SSH1,      \* the build keeps the protocol 1 ciphers
    NULL            \* the null pointer

ASSUME /\ WITH_OPENSSL \in BOOLEAN
       /\ WITH_SSH1 \in BOOLEAN
       /\ WITH_SSH1 => WITH_OPENSSL

\* cipher.h: the protocol numbers.
SSH_CIPHER_SSH2     == -3
SSH_CIPHER_INVALID  == -2
SSH_CIPHER_NONE     == 0
SSH_CIPHER_DES      == 2
SSH_CIPHER_3DES     == 3
SSH_CIPHER_BLOWFISH == 6

\* ssherr.h: the error codes cipher.c returns.
SSH_ERR_INTERNAL_ERROR     == -1
SSH_ERR_ALLOC_FAIL         == -2
SSH_ERR_MESSAGE_INCOMPLETE == -3
SSH_ERR_INVALID_ARGUMENT   == -10
SSH_ERR_LIBCRYPTO_ERROR    == -22
SSH_ERR_MAC_INVALID        == -30

CFLAGS == {"CBC", "CHACHAPOLY", "AESCTR", "NONE", "INTERMAC"}

sshcipher(name, number, bs, klen, ivlen, alen, dlen, flags, evptype) ==
    [name |-> name, number |-> number, block_size |-> bs, key_len |-> klen,
     iv_len |-> ivlen, auth_len |-> alen, discard_len |-> dlen,
     flags |-> flags, evptype |-> evptype]

Ssh1Ciphers ==
    << sshcipher("des", SSH_CIPHER_DES, 8, 8, 0, 0, 0, {"CBC"}, "EVP_des_cbc"),
       sshcipher("3des", SSH_CIPHER_3DES, 8, 16, 0, 0, 0, {"CBC"}, "evp_ssh1_3des"),
       sshcipher("blowfish", SSH_CIPHER_BLOWFISH, 8, 32, 0, 0, 0, {"CBC"}, "evp_ssh1_bf") >>

\* An InterMAC suite: block_size holds the chunk length, auth_len is 1.
ImCipher(family, chunk) ==
    sshcipher(family \o "-" \o ToString(chunk), SSH_CIPHER_SSH2, chunk, 16, 0, 1, 0,
              {"INTERMAC"}, NULL)

ImChunkLengths ==
    <<127, 128, 255, 256, 511, 512, 1023, 1024, 2047, 2048, 4095, 4096, 8191, 8192>>

\* Two entries per chunk length; the table lists gcm first up to 256 and
\* chacha-poly first from 511 on.
ImCiphers ==
    FlattenSeq([i \in DOMAIN ImChunkLengths |->
        LET n   == ImChunkLengths[i]
            gcm == ImCipher("im-aes128-gcm", n)
            cp  == ImCipher("im-chacha-poly", n)
        IN  IF n <= 256 THEN <<gcm, cp>> ELSE <<cp, gcm>>])

Ssh2(name, bs, klen, ivlen, alen, dlen, flags, evptype) ==
    sshcipher(name, SSH_CIPHER_SSH2, bs, klen, ivlen, alen, dlen, flags, evptype)

OpensslCiphers ==
    << sshcipher("none", SSH_CIPHER_NONE, 8, 0, 0, 0, 0, {}, "EVP_enc_null"),
       Ssh2("3des-cbc", 8, 24, 0, 0, 0, {"CBC"}, "EVP_des_ede3_cbc"),
       Ssh2("blowfish-cbc", 8, 16, 0, 0, 0, {"CBC"}, "EVP_bf_cbc"),
       Ssh2("cast128-cbc", 8, 16, 0, 0, 0, {"CBC"}, "EVP_cast5_cbc"),
       Ssh2("arcfour", 8, 16, 0, 0, 0, {}, "EVP_rc4"),
       Ssh2("arcfour128", 8, 16, 0, 0, 1536, {}, "EVP_rc4"),
       Ssh2("arcfour256", 8, 32, 0, 0, 1536, {}, "EVP_rc4"),
       Ssh2("aes128-cbc", 16, 16, 0, 0, 0, {"CBC"}, "EVP_aes_128_cbc"),
       Ssh2("aes192-cbc", 16, 24, 0, 0, 0, {"CBC"}, "EVP_aes_192_cbc"),
       Ssh2("aes256-cbc", 16, 32, 0, 0, 0, {"CBC"}, "EVP_aes_256_cbc"),
       Ssh2("rijndael-cbc@lysator.liu.se", 16, 32, 0, 0, 0, {"CBC"}, "EVP_aes_256_cbc"),
       Ssh2("aes128-ctr", 16, 16, 0, 0, 0, {}, "EVP_aes_128_ctr"),
       Ssh2("aes192-ctr", 16, 24, 0, 0, 0, {}, "EVP_aes_192_ctr"),
       Ssh2("aes256-ctr", 16, 32, 0, 0, 0, {}, "EVP_aes_256_ctr"),
       Ssh2("aes128-gcm@openssh.com", 16, 16, 12, 16, 0, {}, "EVP_aes_128_gcm"),
       Ssh2("aes256-gcm@openssh.com", 16, 32, 12, 16, 0, {}, "EVP_aes_256_gcm") >>
    \o ImCiphers

PlainCiphers ==
    << Ssh2("aes128-ctr", 16, 16, 0, 0, 0, {"AESCTR"}, NULL),
       Ssh2("aes192-ctr", 16, 24, 0, 0, 0, {"AESCTR"}, NULL),
       Ssh2("aes256-ctr", 16, 32, 0, 0, 0, {"AESCTR"}, NULL),
       sshcipher("none", SSH_CIPHER_NONE, 8, 0, 0, 0, 0, {"NONE"}, NULL) >>

\* The table without its terminating { NULL, SSH_CIPHER_INVALID, ... } row:
\* every loop of the file stops at that row.
ciphers ==
    (IF WITH_SSH1 THEN Ssh1Ciphers ELSE <<>>)
    \o (IF WITH_OPENSSL THEN OpensslCiphers ELSE PlainCiphers)
    \o << Ssh2("chacha20-poly1305@openssh.com", 8, 64, 0, 16, 0, {"CHACHAPOLY"}, NULL) >>

-----------------------------------------------------------------------------
\* The accessors.

cipher_blocksize(c) == c.block_size

cipher_keylen(c) == c.key_len

cipher_seclen(c) == IF c.name = "3des-cbc" THEN 14 ELSE cipher_keylen(c)

cipher_authlen(c) == c.auth_len

\* iv_len 0 means "the block size", except for the two families with no IV.
cipher_ivlen(c) ==
    IF c.iv_len # 0 \/ "CHACHAPOLY" \in c.flags \/ "INTERMAC" \in c.flags
    THEN c.iv_len
    ELSE c.block_size

cipher_get_number(c) == c.number

cipher_is_cbc(c) == "CBC" \in c.flags

\* The bits are distinct, so or-ing them is adding them.
cipher_mask_ssh1(client) ==
    2^SSH_CIPHER_3DES + 2^SSH_CIPHER_BLOWFISH + (IF client THEN 2^SSH_CIPHER_DES ELSE 0)

-----------------------------------------------------------------------------
\* The lookups: each is a scan of the table that returns at the first match.

\* The row a scan returns, given the rows that match.
FirstCipher(rows) == IF rows = {} THEN NULL ELSE ciphers[Min(rows)]

cipher_by_name(name) == FirstCipher({i \in DOMAIN ciphers : ciphers[i].name = name})

cipher_by_number(id) == FirstCipher({i \in DOMAIN ciphers : ciphers[i].number = id})

\* strcasecmp: the names of the table are lower case, so a name matches when
\* its lower-case form does.  ToLower is given for the spellings a model asks
\* about; any other name is its own lower-case form.
CONSTANT UpperCaseOf
ToLower(name) == IF name \in DOMAIN UpperCaseOf THEN UpperCaseOf[name] ELSE name

\* A faulty variant: the scan of cipher_by_name, which compares with strcmp.
CipherNumberCaseSensitive(name) ==
    IF name = NULL \/ cipher_by_name(name) = NULL THEN -1 ELSE cipher_by_name(name).number

cipher_number(name) ==
    LET c == cipher_by_name(ToLower(name))
    IN  IF name = NULL \/ c = NULL THEN -1 ELSE c.number

cipher_name(id) ==
    LET c == cipher_by_number(id) IN IF c = NULL THEN "<unknown>" ELSE c.name

-----------------------------------------------------------------------------
\* The InterMAC name helpers.

IM_CHACHA_POLY == "im-chacha-poly"
IM_AES128_GCM  == "im-aes128-gcm"

\* strlen(s) >= strlen(p) && memcmp(p, s, strlen(p)) == 0
HasPrefix(s, p) == Len(s) >= Len(p) /\ SubSeq(s, 1, Len(p)) = p

cipher_im_get_name(cipher_name_) ==
    CASE HasPrefix(cipher_name_, IM_CHACHA_POLY) -> IM_CHACHA_POLY
      [] HasPrefix(cipher_name_, IM_AES128_GCM)  -> IM_AES128_GCM
      [] OTHER                                   -> NULL

\* `memcmp(...)` without `== 0` is true when the bytes DIFFER: a branch is
\* taken for a name of the right length that is not the family's name.
MemcmpTrue(a, b) == a # b

cipher_im_block_size(cc) ==
    LET name == cipher_im_get_name(cc.cipher.name) IN
    CASE name = NULL -> SSH_ERR_INTERNAL_ERROR
      [] name # NULL /\ Len(IM_AES128_GCM) = Len(name)
                     /\ MemcmpTrue(IM_AES128_GCM, name) -> 16
      [] name # NULL /\ Len(IM_CHACHA_POLY) = Len(name)
                     /\ MemcmpTrue(IM_CHACHA_POLY, name) -> 64
      [] OTHER -> SSH_ERR_INTERNAL_ERROR

cipher_is_intermac(cc) == "INTERMAC" \in cc.cipher.flags
=============================================================================
