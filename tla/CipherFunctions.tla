-------------------------- MODULE CipherFunctions --------------------------
(***************************************************************************)
(* The bodies of the functions of cipher.c that work on a context, as      *)
(* operators on a record with the fields of struct sshcipher_ctx.  The     *)
(* modules that hold contexts in their state (CipherContext, one call at   *)
(* a time on a pointer; CipherChannel, two ends of a connection) build     *)
(* their actions from these.                                               *)
(*                                                                         *)
(* A function is a list of fallible steps in program order.  A step stops  *)
(* the function when its check fails, when the call it makes fails (the    *)
(* environment chooses which call, if any, fails: `fault`), or when it     *)
(* dereferences a null pointer.  The steps before the stop have had their  *)
(* effect; the stopping step gives the return code.                        *)
(***************************************************************************)
EXTENDS CipherTable, FiniteSets

CONSTANT CtrModulus     \* bound: the width of the counters

INSTANCE CipherEngines

NoFault == "none"

-----------------------------------------------------------------------------
\* Step lists.

Step(name, err, fallible, broken, crash) ==
    [name |-> name, err |-> err, fallible |-> fallible, broken |-> broken, crash |-> crash]

\* A call that fails only when the environment makes it fail.
Call(name, err) == Step(name, err, TRUE, FALSE, FALSE)

\* A test of the function itself.
Check(name, err, broken) == Step(name, err, FALSE, broken, FALSE)

\* A call that dereferences `ptr`, and may also fail.
Deref(name, err, ptr) == Step(name, err, TRUE, FALSE, ptr = NULL)

StopAt(steps, fault) ==
    SelectInSeq(steps, LAMBDA st : st.crash \/ st.broken \/ st.name = fault)

\* The faults the environment can inject into a step list: a failure of any
\* call that the function gets to.
FaultsOf(steps) ==
    LET stop == StopAt(steps, NoFault)
        last == IF stop = 0 THEN Len(steps) ELSE stop
    IN  {NoFault} \cup {steps[i].name : i \in {j \in 1..last : steps[j].fallible}}

\* The run of a step list: the names of the steps that completed, the return
\* value, and whether the process died.
Run(steps, fault) ==
    LET i == StopAt(steps, fault)
        n == IF i = 0 THEN Len(steps) ELSE i - 1
    IN  [done  |-> {steps[j].name : j \in 1..n},
         ret   |-> IF i = 0 THEN 0 ELSE steps[i].err,
         crash |-> i # 0 /\ steps[i].crash]

-----------------------------------------------------------------------------
\* cipher_init

\* The legacy single-DES entry takes the first 8 bytes of a longer key.
InitKeylen(c, keylen) ==
    IF c.number = SSH_CIPHER_DES /\ keylen > 8 THEN 8 ELSE keylen

InitArgsInvalid(c, keylen, iv, ivlen) ==
    keylen < c.key_len \/ (iv # NULL /\ ivlen < cipher_ivlen(c))

\* im_initialise may fail before or after it has stored a handle in im_ctx.
ImInitSteps(c) ==
    << Check("cipher_im_get_name", SSH_ERR_INTERNAL_ERROR, cipher_im_get_name(c.name) = NULL),
       Call("im_initialise", SSH_ERR_INTERNAL_ERROR),
       Call("im_initialise_late", SSH_ERR_INTERNAL_ERROR) >>

PlainInitSteps(c, iv) ==
    CASE "AESCTR" \in c.flags -> << Step("aesctr_ivsetup", 0, FALSE, FALSE, iv = NULL) >>
      [] "NONE" \in c.flags /\ "AESCTR" \notin c.flags -> << >>
      [] OTHER -> << Check("unsupported", SSH_ERR_INVALID_ARGUMENT, TRUE) >>

EvpInitSteps(c, keylen, iv) ==
    LET t == EvpType[c.evptype] IN
       << Call("EVP_CIPHER_CTX_new", SSH_ERR_ALLOC_FAIL),
          Call("EVP_CipherInit_type", SSH_ERR_LIBCRYPTO_ERROR) >>
    \o (IF cipher_authlen(c) # 0
        THEN << Deref("GCM_SET_IV_FIXED", SSH_ERR_LIBCRYPTO_ERROR, iv) >> ELSE << >>)
    \o (IF t.key_len > 0 /\ keylen # t.key_len
        THEN << Check("set_key_length", SSH_ERR_LIBCRYPTO_ERROR, ~t.varkey) >> ELSE << >>)
    \o << Call("EVP_CipherInit_key", SSH_ERR_LIBCRYPTO_ERROR) >>
    \o (IF c.discard_len > 0
        THEN << Call("malloc_junk", SSH_ERR_ALLOC_FAIL),
                Call("malloc_discard", SSH_ERR_ALLOC_FAIL),
                Call("EVP_Cipher_discard", SSH_ERR_LIBCRYPTO_ERROR) >>
        ELSE << >>)

InitSteps(c, key, keylen, iv, ivlen) ==
    << Call("calloc", SSH_ERR_ALLOC_FAIL),
       Check("args", SSH_ERR_INVALID_ARGUMENT, InitArgsInvalid(c, keylen, iv, ivlen)) >>
    \o CASE "INTERMAC" \in c.flags -> ImInitSteps(c)
         [] "CHACHAPOLY" \in c.flags /\ "INTERMAC" \notin c.flags ->
                << Check("chachapoly_init", SSH_ERR_INVALID_ARGUMENT,
                         chachapoly_init(key, keylen) = NULL) >>
         [] OTHER -> IF WITH_OPENSSL THEN EvpInitSteps(c, keylen, iv)
                                     ELSE PlainInitSteps(c, iv)

\* A faulty variant: the engine is set up to encrypt whatever do_encrypt is.
InitEvpEncrypts(c, key, keylen, iv, enc) ==
    LET evp == EVP_CipherInit_key(EVP_CipherInit_type(c.evptype, iv, TRUE), key, keylen)
    IN  IF c.discard_len > 0 THEN [evp EXCEPT !.iv = c.discard_len] ELSE evp

\* The engine after a successful EVP initialisation; RC4 has then run
\* discard_len bytes of keystream.
InitEvp(c, key, keylen, iv, enc) ==
    LET evp == EVP_CipherInit_key(EVP_CipherInit_type(c.evptype, iv, enc), key, keylen)
    IN  IF c.discard_len > 0 THEN [evp EXCEPT !.iv = c.discard_len] ELSE evp

\* A faulty variant: the handle im_initialise made is not stored in the
\* context.
InitImCtxDropped(c, key, enc) == NULL

\* The InterMAC handle: the chunk length is the table's block_size.
InitImCtx(c, key, enc) ==
    [key |-> key, chunk |-> c.block_size, enc |-> enc, name |-> cipher_im_get_name(c.name)]

\* A faulty variant: the key is set up and the counter is not.
InitAcCtxNoIv(key, keylen, iv) == [key |-> <<key, keylen>>, ctr |-> NULL]

\* The software AES-CTR state: aesctr_keysetup, then aesctr_ivsetup.
InitAcCtx(key, keylen, iv) == [key |-> <<key, keylen>>, ctr |-> iv]

\* The context a successful cipher_init hands back.
InitContext(c, key, keylen, iv, enc) ==
    LET im  == "INTERMAC" \in c.flags
        cp  == "CHACHAPOLY" \in c.flags
        evp == WITH_OPENSSL /\ ~im /\ ~cp
    IN  [cipher    |-> c,
         plaintext |-> c.number = SSH_CIPHER_NONE,
         encrypt   |-> enc,
         evp       |-> IF evp THEN InitEvp(c, key, keylen, iv, enc) ELSE NULL,
         cp_ctx    |-> IF cp THEN chachapoly_init(key, keylen) ELSE NULL,
         ac_ctx    |-> IF ~WITH_OPENSSL /\ "AESCTR" \in c.flags
                       THEN InitAcCtx(key, keylen, iv) ELSE NULL,
         im_ctx    |-> IF im THEN InitImCtx(c, key, enc) ELSE NULL]

\* The objects cipher_init allocates and the step that makes each: the
\* context, the engine handle (cc->evp), the InterMAC handle (the local
\* im_ctx) and the two scratch buffers of the RC4 discard.
AllocatedBy ==
    [cc |-> "calloc", evp |-> "EVP_CIPHER_CTX_new", im |-> "im_initialise",
     junk |-> "malloc_junk", discard |-> "malloc_discard"]

InitAllocated(done) == {k \in DOMAIN AllocatedBy : AllocatedBy[k] \in done}

\* The scratch buffers are freed where they are used: junk when the second
\* malloc fails, both after EVP_Cipher, before its result is tested.
ScratchFreed(allocated) == allocated \cap {"junk", "discard"}

\* Two faulty variants of the cleanup: one that knows no InterMAC handle (as
\* the file was before the extension), one that leaves the context behind.
InitReleasedWithoutIm(ret, allocated) ==
    IF ret = 0 \/ "cc" \notin allocated THEN {} ELSE allocated \cap {"cc", "evp"}

InitReleasedKeepsContext(ret, allocated) ==
    IF ret = 0 THEN {} ELSE allocated \cap {"evp", "im"}

\* The label `out`: a failed cipher_init frees cc->evp and im_ctx where they
\* are not NULL, then the context; a successful one releases nothing.
InitReleased(ret, allocated) ==
    IF ret = 0 \/ "cc" \notin allocated THEN {} ELSE allocated \cap {"cc", "evp", "im"}

\* The whole function: the return value, the context stored in *ccp and the
\* objects left allocated.
InitResult(c, key, keylen0, iv, ivlen, enc, fault) ==
    LET keylen == InitKeylen(c, keylen0)
        r      == Run(InitSteps(c, key, keylen, iv, ivlen), fault)
        alloc  == InitAllocated(r.done)
    IN  [ret   |-> r.ret,
         crash |-> r.crash,
         cc    |-> IF r.ret = 0 /\ ~r.crash
                   THEN InitContext(c, key, keylen, iv, enc) ELSE NULL,
         kept  |-> alloc \ (ScratchFreed(alloc) \cup InitReleased(r.ret, alloc))]

-----------------------------------------------------------------------------
\* cipher_free

\* The engine and InterMAC handles are released only by an OpenSSL build.
FreeReleased(cc) ==
    {"cc"} \cup {k \in {"evp", "im"} :
                    /\ WITH_OPENSSL
                    /\ \/ k = "im" /\ "INTERMAC" \in cc.cipher.flags
                       \/ k = "evp" /\ cc.evp # NULL}

-----------------------------------------------------------------------------
\* cipher_crypt.  The caller's src is [ aad | body | tag ]; len and aadlen
\* are the lengths of its body and aad.

aadlen(src) == src.aad.aadlen

Blank(src) == Buf(IF src.aad = NoAad THEN NoAad ELSE Unwritten, Unwritten, Unwritten)

Result(ret, crash, cc, buf) == [ret |-> ret, crash |-> crash, cc |-> cc, dest |-> buf]

\* A faulty variant: the result of chachapoly_crypt is dropped.
CryptChachaPolyIgnoresResult(cc, seqnr, src) ==
    Result(0, FALSE, cc,
           CASE cc.encrypt -> ChachaSeal(cc.cp_ctx, seqnr, src)
             [] ~cc.encrypt /\ ChachaVerifies(cc.cp_ctx, seqnr, src) ->
                    ChachaOpen(cc.cp_ctx, seqnr, src)
             [] OTHER -> Blank(src))

\* A faulty variant: chachapoly_crypt is always told to seal, cc->encrypt is
\* not passed on.
CryptChachaPolySeals(cc, seqnr, src) ==
    Result(0, FALSE, cc, ChachaSeal(cc.cp_ctx, seqnr, src))

CryptChachaPoly(cc, seqnr, src) ==
    CASE cc.encrypt -> Result(0, FALSE, cc, ChachaSeal(cc.cp_ctx, seqnr, src))
      [] ~cc.encrypt /\ ChachaVerifies(cc.cp_ctx, seqnr, src) ->
            Result(0, FALSE, cc, ChachaOpen(cc.cp_ctx, seqnr, src))
      [] OTHER -> Result(SSH_ERR_MAC_INVALID, FALSE, cc, Blank(src))

\* A faulty variant of the build without libcrypto: the counter is not
\* written back to the context.
CryptPlainKeepsCounter(cc, src) ==
    Result(0, FALSE, cc,
           Buf(src.aad, IF "AESCTR" \in cc.cipher.flags
                        THEN AesCtrOut(cc.ac_ctx, src.body) ELSE src.body, Unwritten))

\* The build without libcrypto: neither branch looks at authlen.
CryptPlain(cc, src) ==
    CASE "AESCTR" \in cc.cipher.flags ->
            Result(0, FALSE, [cc EXCEPT !.ac_ctx = AesCtrNext(@, src.body)],
                   Buf(src.aad, AesCtrOut(cc.ac_ctx, src.body), Unwritten))
      [] "NONE" \in cc.cipher.flags /\ "AESCTR" \notin cc.cipher.flags ->
            Result(0, FALSE, cc, Buf(src.aad, src.body, Unwritten))
      [] OTHER -> Result(SSH_ERR_INVALID_ARGUMENT, FALSE, cc, Blank(src))

\* A faulty variant: the IV is loaded and the invocation counter is not
\* stepped (a SET_IV where the code has IV_GEN).
EvpLoadedWithoutStep(evp, done) ==
    IF "GCM_IV_GEN" \in done THEN [GcmIvGen(evp) EXCEPT !.iv = evp.iv] ELSE evp

\* The engine once the IV of this invocation is loaded.
EvpLoaded(evp, done) == IF "GCM_IV_GEN" \in done THEN GcmIvGen(evp) ELSE evp

\* A faulty variant: the result of the final EVP_Cipher is not tested.
TagUnchecked(cc, src) == FALSE

\* The tag a decrypting GCM engine compares with the one it was given.
TagMismatch(cc, src) ==
    /\ ~cc.encrypt /\ cc.evp # NULL /\ EvpMode(cc.evp) = "gcm"
    /\ src.tag # GcmTag(GcmIvGen(cc.evp), src.aad, src.body)

\* EVP_Cipher is tested for a negative value, which only an engine with a
\* custom cipher function (GCM) returns.
IsCustom(evp) == evp # NULL /\ EvpMode(evp) = "gcm"

EvpCryptSteps(cc, src, authlen) ==
    LET evp == cc.evp
        E(b, steps) == IF b THEN steps ELSE << >>
    IN  E(authlen # 0,
            << Check("authlen", SSH_ERR_INVALID_ARGUMENT, authlen # cipher_authlen(cc.cipher)),
               Deref("GCM_IV_GEN", SSH_ERR_LIBCRYPTO_ERROR, evp) >>)
     \o E(authlen # 0 /\ ~cc.encrypt,
            << Deref("GCM_SET_TAG", SSH_ERR_LIBCRYPTO_ERROR, evp) >>)
     \o E(aadlen(src) # 0 /\ authlen # 0,
            << Deref("EVP_Cipher_aad", SSH_ERR_LIBCRYPTO_ERROR, evp) >>)
     \o E(aadlen(src) # 0, << Check("memcpy_aad", 0, FALSE) >>)
     \o << Check("block_size", SSH_ERR_INVALID_ARGUMENT,
                 src.body.len % cc.cipher.block_size # 0),
           Step("EVP_Cipher_body", SSH_ERR_LIBCRYPTO_ERROR, IsCustom(evp),
                evp # NULL /\ authlen = 0 /\ EvpCipherFails(evp), evp = NULL) >>
     \o E(authlen # 0,
            << Step("EVP_Cipher_final",
                    IF cc.encrypt THEN SSH_ERR_LIBCRYPTO_ERROR ELSE SSH_ERR_MAC_INVALID,
                    TRUE, TagMismatch(cc, src), FALSE) >>)
     \o E(authlen # 0 /\ cc.encrypt, << Call("GCM_GET_TAG", SSH_ERR_LIBCRYPTO_ERROR) >>)

\* The effects of the steps that completed, in their order: the IV is
\* loaded and stepped, the aad copied, the body transformed into dest, the
\* loaded IV consumed by the final call, the tag written.
CryptEvp(cc, src, authlen, fault) ==
    LET r    == Run(EvpCryptSteps(cc, src, authlen), fault)
        did(step) == step \in r.done
        evp1 == EvpLoaded(cc.evp, r.done)
        body == IF did("EVP_Cipher_body") THEN EvpCipherOut(evp1, src.body) ELSE Unwritten
        evp2 == IF did("EVP_Cipher_body")
                THEN EvpCipherNext(evp1, src.body, cc.cipher.block_size) ELSE evp1
        evp3 == IF did("EVP_Cipher_final") THEN GcmFinal(evp2) ELSE evp2
    IN  Result(r.ret, r.crash, [cc EXCEPT !.evp = evp3],
               Buf(IF did("memcpy_aad") THEN src.aad ELSE Blank(src).aad,
                   body,
                   IF did("GCM_GET_TAG") THEN GcmTag(evp1, src.aad, body) ELSE Unwritten))

\* The calls of cipher_crypt that the environment can make fail.
CryptFaults(cc, src, authlen) ==
    IF WITH_OPENSSL /\ "CHACHAPOLY" \notin cc.cipher.flags
    THEN FaultsOf(EvpCryptSteps(cc, src, authlen)) ELSE {NoFault}

Crypt(cc, seqnr, src, authlen, fault) ==
    CASE "CHACHAPOLY" \in cc.cipher.flags -> CryptChachaPoly(cc, seqnr, src)
      [] "CHACHAPOLY" \notin cc.cipher.flags /\ ~WITH_OPENSSL -> CryptPlain(cc, src)
      [] OTHER -> CryptEvp(cc, src, authlen, fault)

-----------------------------------------------------------------------------
\* cipher_get_length: the packet length is the first four bytes, sealed for
\* chacha20-poly1305 and plain for every other cipher.

\* A faulty variant, the function as it was before chacha20-poly1305: the
\* four bytes are taken as they are, whatever the cipher.
GetLengthPlain(cc, seqnr, src, avail) ==
    IF avail < 4 THEN [ret |-> SSH_ERR_MESSAGE_INCOMPLETE, plen |-> Unwritten]
    ELSE [ret |-> 0, plen |-> src.aad.val]

\* chacha20-poly1305 is handed the call whole: chachapoly_get_length makes
\* the test of len itself and opens the four bytes.
GetLength(cc, seqnr, src, avail) ==
    LET Length(plen) == IF avail < 4 THEN [ret |-> SSH_ERR_MESSAGE_INCOMPLETE, plen |-> Unwritten]
                                     ELSE [ret |-> 0, plen |-> plen]
    IN  IF "CHACHAPOLY" \in cc.cipher.flags
        THEN Length(ChachaLength(cc.cp_ctx, seqnr, src))
        ELSE Length(src.aad.val)

-----------------------------------------------------------------------------
\* Key/IV state transfer.  The table gives every entry at most one of the
\* flags, so the tests of a dispatch exclude one another.

Rc4StateLen == 1032     \* sizeof(RC4_KEY), the ctx_size of EVP_rc4

EvpNumbers == {SSH_CIPHER_SSH2, SSH_CIPHER_DES, SSH_CIPHER_BLOWFISH}

\* A faulty variant: the IV length of the engine whatever the cipher, the
\* protocol 1 triple DES included.
KeyIvLenOfEngine(cc) == IF cc.evp = NULL THEN 0 ELSE EVP_CIPHER_CTX_iv_length(cc.evp)

cipher_get_keyiv_len(cc) ==
    LET c == cc.cipher IN
    CASE c.number = SSH_CIPHER_3DES             -> 24
      [] "CHACHAPOLY" \in c.flags               -> 0
      [] "AESCTR" \in c.flags                   -> 16
      [] WITH_OPENSSL /\ "INTERMAC" \in c.flags -> 0
      [] WITH_OPENSSL /\ c.number # SSH_CIPHER_3DES
                      /\ c.flags \cap {"CHACHAPOLY", "AESCTR", "INTERMAC"} = {} ->
            EVP_CIPHER_CTX_iv_length(cc.evp)
      [] OTHER                                  -> 0

\* The result of a transfer call; n is the number of bytes it copied to or
\* from the caller's buffer.
Transfer(ret, val, cc) == [ret |-> ret, val |-> val, cc |-> cc, n |-> 0]

Copied(n, r) == [r EXCEPT !.n = n]

\* The calls of the IV functions that the environment can make fail: the
\* engine's length query (it answers a negative number), the control of GCM
\* that the function uses (`ctrl`), and ssh1_3des_iv.
KeyIvFaults(cc, ctrl) ==
    LET c == cc.cipher IN
    {NoFault} \cup
    {f \in {"EVP_CIPHER_CTX_iv_length", ctrl, "ssh1_3des_iv"} :
        /\ WITH_OPENSSL /\ cc.evp # NULL
        /\ \/ f = "EVP_CIPHER_CTX_iv_length" /\ c.number \in EvpNumbers
           \/ f = ctrl /\ c.number \in EvpNumbers /\ cipher_authlen(c) # 0
           \/ f = "ssh1_3des_iv" /\ c.number = SSH_CIPHER_3DES}

EvpLen(cc, fault) ==
    IF fault = "EVP_CIPHER_CTX_iv_length" THEN -1 ELSE EVP_CIPHER_CTX_iv_length(cc.evp)

Failed(err, cc) == Transfer(err, Unwritten, cc)

\* The labels of the libcrypto ciphers in cipher_get_keyiv.  A GCM context
\* is asked to GENERATE its IV: the exporter's invocation counter moves on.
GetKeyIvEvp(cc, len, fault) ==
    LET evplen == EvpLen(cc, fault)
        gcm    == cipher_authlen(cc.cipher) # 0
    IN  CASE evplen = 0 -> Transfer(0, Unwritten, cc)
          [] evplen < 0 -> Failed(SSH_ERR_LIBCRYPTO_ERROR, cc)
          [] evplen > 0 /\ evplen # len -> Failed(SSH_ERR_INVALID_ARGUMENT, cc)
          [] evplen > 0 /\ evplen = len /\ gcm /\ fault = "GCM_IV_GEN" ->
                Failed(SSH_ERR_LIBCRYPTO_ERROR, cc)
          [] evplen > 0 /\ evplen = len /\ gcm /\ fault # "GCM_IV_GEN" ->
                Copied(len, Transfer(0, cc.evp.iv, [cc EXCEPT !.evp = GcmIvGen(@)]))
          [] OTHER -> Copied(len, Transfer(0, cc.evp.iv, cc))

\* The protocol 1 triple DES: ssh1_3des_iv is told to copy 24 bytes, from
\* the engine (cipher_get_keyiv, which does not look at len) or to it.
Ssh1TripleDesIv(cc, val, evp, fault) ==
    IF fault = "ssh1_3des_iv" THEN Failed(SSH_ERR_INTERNAL_ERROR, cc)
    ELSE Copied(24, Transfer(0, val, [cc EXCEPT !.evp = evp]))

GetKeyIv(cc, len, fault) ==
    LET c == cc.cipher IN
    CASE WITH_OPENSSL /\ "INTERMAC" \in c.flags -> Transfer(0, Unwritten, cc)
      [] "CHACHAPOLY" \in c.flags ->
            Transfer(IF len # 0 THEN SSH_ERR_INVALID_ARGUMENT ELSE 0, Unwritten, cc)
      [] "AESCTR" \in c.flags ->
            IF len # 16 THEN Failed(SSH_ERR_INVALID_ARGUMENT, cc)
                        ELSE Copied(len, Transfer(0, cc.ac_ctx.ctr, cc))
      [] "NONE" \in c.flags -> Transfer(0, Unwritten, cc)
      [] OTHER ->
            CASE WITH_OPENSSL /\ c.number \in EvpNumbers -> GetKeyIvEvp(cc, len, fault)
              [] WITH_SSH1 /\ c.number = SSH_CIPHER_3DES ->
                    Ssh1TripleDesIv(cc, cc.evp.iv, cc.evp, fault)
              [] OTHER -> Failed(SSH_ERR_INVALID_ARGUMENT, cc)

\* A faulty variant: the IV is checked and not stored.
SetKeyIvKeepsIv(cc, iv, fault) == Transfer(0, Unwritten, cc)

\* The labels of the libcrypto ciphers in cipher_set_keyiv: an engine
\* without an IV is an error here, where cipher_get_keyiv returns 0.
SetKeyIvEvp(cc, iv, fault) ==
    LET evplen == EvpLen(cc, fault)
        gcm    == cipher_authlen(cc.cipher) # 0
        to(evp) == Copied(evplen, Transfer(0, Unwritten, [cc EXCEPT !.evp = evp]))
    IN  CASE evplen <= 0 \/ (gcm /\ fault = "GCM_SET_IV_FIXED") ->
                Failed(SSH_ERR_LIBCRYPTO_ERROR, cc)
          [] evplen > 0 /\ gcm /\ fault # "GCM_SET_IV_FIXED" -> to(GcmSetIv(cc.evp, iv))
          [] OTHER -> to([cc.evp EXCEPT !.iv = iv])

SetKeyIv(cc, iv, fault) ==
    LET c == cc.cipher IN
    CASE c.flags \cap {"CHACHAPOLY", "INTERMAC", "NONE"} # {} -> Transfer(0, Unwritten, cc)
      [] OTHER ->
            CASE WITH_OPENSSL /\ c.number \in EvpNumbers -> SetKeyIvEvp(cc, iv, fault)
              [] WITH_SSH1 /\ c.number = SSH_CIPHER_3DES ->
                    Ssh1TripleDesIv(cc, Unwritten, [cc.evp EXCEPT !.iv = iv], fault)
              [] OTHER -> Failed(SSH_ERR_INVALID_ARGUMENT, cc)

\* Only an RC4 engine has a key context: its whole state, key schedule and
\* position.  With dat = NULL the caller asks for the length alone.
HasKeyContext(cc) == WITH_OPENSSL /\ cc.cipher.evptype = "EVP_rc4"

GetKeyContext(cc, dat) ==
    IF HasKeyContext(cc)
    THEN IF dat = NULL THEN Transfer(Rc4StateLen, Unwritten, cc)
         ELSE Copied(Rc4StateLen,
                     Transfer(Rc4StateLen, [key |-> cc.evp.key, pos |-> cc.evp.iv], cc))
    ELSE Transfer(0, Unwritten, cc)

SetKeyContext(cc, dat) ==
    IF HasKeyContext(cc)
    THEN Copied(Rc4StateLen,
                Transfer(0, Unwritten, [cc EXCEPT !.evp.key = dat.key, !.evp.iv = dat.pos]))
    ELSE Transfer(0, Unwritten, cc)

\* cipher_set_key_string: the key is the MD5 digest of the passphrase, and
\* there is no IV.
Md5(passphrase) == [md5 |-> passphrase]

SetKeyString(c, passphrase, enc, fault) ==
    IF fault = "ssh_digest_memory"
    THEN [ret |-> SSH_ERR_LIBCRYPTO_ERROR, crash |-> FALSE, cc |-> NULL, kept |-> {}]
    ELSE InitResult(c, Md5(passphrase), 16, NULL, 0, enc, fault)

get_cipher(cc) == cc.cipher.name

cipher_ctx_is_plaintext(cc) == cc.plaintext

cipher_ctx_get_number(cc) == cc.cipher.number

cipher_get_intermac_context(cc) == cc.im_ctx

cipher_warning_message(cc) ==
    IF cc # NULL /\ cc.cipher # NULL /\ cc.cipher.number = SSH_CIPHER_DES
    THEN "use of DES is strongly discouraged due to cryptographic weaknesses"
    ELSE NULL

-----------------------------------------------------------------------------
\* The shape of a context.

Counters == 0..(CtrModulus - 1)

EvpOK(cc) ==
    LET evp == cc.evp IN
    /\ evp.type = cc.cipher.evptype /\ evp.enc = cc.encrypt
    /\ EvpMode(evp) \in {"ctr", "gcm"} => evp.iv \in Counters
    /\ EvpMode(evp) = "rc4" => evp.iv \in Nat
    /\ evp.cur # NULL => EvpMode(evp) = "gcm" /\ evp.cur.iv \in Counters

\* A context holds the state of exactly the engine its cipher's family uses.
ContextOK(cc) ==
    LET c == cc.cipher
        has(flag) == flag \in c.flags
    IN  /\ c \in Range(ciphers) /\ cc.encrypt \in BOOLEAN /\ cc.plaintext \in BOOLEAN
        /\ (cc.evp # NULL) = (WITH_OPENSSL /\ ~has("CHACHAPOLY") /\ ~has("INTERMAC"))
        /\ (cc.cp_ctx # NULL) = has("CHACHAPOLY")
        /\ (cc.ac_ctx # NULL) = has("AESCTR")
        /\ (cc.im_ctx # NULL) = has("INTERMAC")
        /\ cc.evp # NULL => EvpOK(cc)
        /\ cc.ac_ctx # NULL => cc.ac_ctx.ctr \in Counters
=============================================================================
