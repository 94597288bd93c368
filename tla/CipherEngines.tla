--------------------------- MODULE CipherEngines ---------------------------
(***************************************************************************)
(* The primitives cipher.c calls and does not define: libcrypto's EVP      *)
(* ciphers, cipher-chachapoly.c and cipher-aesctr.c.  They are modelled    *)
(* symbolically, from their documented behaviour: a ciphertext is a term   *)
(* that names the algorithm, the key and the stream state it was made      *)
(* under, and it opens only under the same three.  What is kept is what     *)
(* cipher.c's contract depends on: how each engine's state moves with      *)
(* every call, and when an engine reports failure.                         *)
(***************************************************************************)
EXTENDS Integers

CONSTANTS
    NULL,
    CtrModulus      \* counters (CTR block counter, GCM invocation field) wrap here

ASSUME CtrModulus \in Nat \ {0}

\* What cipher.c can observe of each EVP_CIPHER: mode, iv and key length, and
\* whether EVP_CIPHER_CTX_set_key_length accepts another key length.
Evp(mode, iv_len, key_len, varkey) ==
    [mode |-> mode, iv_len |-> iv_len, key_len |-> key_len, varkey |-> varkey]

EvpType ==
    [ EVP_des_cbc      |-> Evp("cbc", 8, 8, FALSE),
      evp_ssh1_3des    |-> Evp("cbc", 0, 16, TRUE),
      evp_ssh1_bf      |-> Evp("cbc", 8, 32, TRUE),
      EVP_enc_null     |-> Evp("null", 0, 0, FALSE),
      EVP_des_ede3_cbc |-> Evp("cbc", 8, 24, FALSE),
      EVP_bf_cbc       |-> Evp("cbc", 8, 16, TRUE),
      EVP_cast5_cbc    |-> Evp("cbc", 8, 16, TRUE),
      EVP_rc4          |-> Evp("rc4", 0, 16, TRUE),
      EVP_aes_128_cbc  |-> Evp("cbc", 16, 16, FALSE),
      EVP_aes_192_cbc  |-> Evp("cbc", 16, 24, FALSE),
      EVP_aes_256_cbc  |-> Evp("cbc", 16, 32, FALSE),
      EVP_aes_128_ctr  |-> Evp("ctr", 16, 16, FALSE),
      EVP_aes_192_ctr  |-> Evp("ctr", 16, 24, FALSE),
      EVP_aes_256_ctr  |-> Evp("ctr", 16, 32, FALSE),
      EVP_aes_128_gcm  |-> Evp("gcm", 12, 16, FALSE),
      EVP_aes_256_gcm  |-> Evp("gcm", 12, 32, FALSE) ]

-----------------------------------------------------------------------------
\* Symbolic data.  A body is a plaintext, a ciphertext term or junk; `len` is
\* its length in bytes.

Plain(p, len)             == [pt |-> p, len |-> len]
Sealed(alg, key, st, pt)  == [alg |-> alg, key |-> key, st |-> st, pt |-> pt.pt, len |-> pt.len]
Junk(len)                 == [junk |-> TRUE, len |-> len]

IsPlain(b)  == DOMAIN b = {"pt", "len"}
IsSealed(b) == "alg" \in DOMAIN b
OpensWith(b, alg, key, st) == IsSealed(b) /\ b.alg = alg /\ b.key = key /\ b.st = st

\* An authentication tag over (key, nonce, associated data, ciphertext).
Mac(key, nonce, aad, body) == [mac |-> <<key, nonce, aad, body>>]

\* The parts of a buffer [ aad | body | tag ]: the associated data is absent
\* or four bytes that hold a packet length; a region nothing was written to
\* (or that holds no tag) is Unwritten.
NoAad     == [aadlen |-> 0]
Aad(val)  == [aadlen |-> 4, val |-> val]
Unwritten == [unwritten |-> TRUE]
Buf(aad, body, tag) == [aad |-> aad, body |-> body, tag |-> tag]

\* What an attacker makes of a buffer on the wire: the tag cut off, the body
\* overwritten, the length bytes forged.
Tampered(b) ==
    {[b EXCEPT !.tag = Unwritten], [b EXCEPT !.body = Junk(b.body.len)]}
    \cup {[b EXCEPT !.aad = Aad(Plain("forged", 4))] : x \in {b.aad} \ {NoAad}}

\* A keystream xor-ed on: it seals a plaintext, opens the ciphertext made at
\* the same position, and makes junk of anything else.
Xor(alg, key, st, b) ==
    CASE IsPlain(b)                -> Sealed(alg, key, st, b)
      [] OpensWith(b, alg, key, st) -> Plain(b.pt, b.len)
      [] OTHER                     -> Junk(b.len)

\* CBC: the direction matters, and the chaining value after a call is the
\* last ciphertext seen, whether or not it opened.
CbcOut(enc, key, iv, b) ==
    CASE enc /\ IsPlain(b)                    -> Sealed("cbc", key, iv, b)
      [] ~enc /\ OpensWith(b, "cbc", key, iv) -> Plain(b.pt, b.len)
      [] OTHER                                -> Junk(b.len)

CbcNextIv(enc, key, iv, b) ==
    IF b.len = 0 THEN iv ELSE IF enc THEN CbcOut(enc, key, iv, b) ELSE b

Blocks(len, bs) == (len + bs - 1) \div bs

-----------------------------------------------------------------------------
\* An EVP_CIPHER_CTX: the engine type, direction, key, the evolving state
\* `iv` (CBC chaining value, CTR counter, GCM next invocation IV, RC4
\* position) and, for GCM, the IV loaded into the engine (`cur`, NULL when
\* none is: EVP's iv_set).

EVP_CipherInit_type(type, iv, enc) ==
    LET mode == EvpType[type].mode
        iv0  == IF iv = NULL THEN 0 ELSE iv
    IN  [type |-> type, enc |-> enc, key |-> NULL,
         iv   |-> CASE mode = "cbc"            -> [iv0 |-> iv0]
                    [] mode \in {"ctr", "gcm"} -> iv0
                    [] OTHER                   -> 0,
         cur  |-> IF mode = "gcm" /\ iv # NULL THEN [iv |-> iv, off |-> 0] ELSE NULL]

EvpMode(evp) == EvpType[evp.type].mode

EVP_CIPHER_CTX_iv_length(evp) == EvpType[evp.type].iv_len

EVP_CIPHER_CTX_key_length(evp) == EvpType[evp.type].key_len

\* The key is the first keylen bytes of the key material.
EVP_CipherInit_key(evp, key, keylen) == [evp EXCEPT !.key = <<key, keylen>>]

\* EVP_CTRL_GCM_IV_GEN: load the next invocation IV and step the counter.
GcmIvGen(evp) ==
    [evp EXCEPT !.cur = [iv |-> evp.iv, off |-> 0],
                !.iv  = (evp.iv + 1) % CtrModulus]

\* EVP_CTRL_GCM_SET_IV_FIXED with length -1: restore the whole IV.
GcmSetIv(evp, iv) == [evp EXCEPT !.iv = iv]

\* EVP_Cipher on len bytes: what comes out, and the engine afterwards.
EvpCipherOut(evp, b) ==
    CASE EvpMode(evp) = "null" -> b
      [] EvpMode(evp) = "cbc"  -> CbcOut(evp.enc, evp.key, evp.iv, b)
      [] EvpMode(evp) = "gcm"  -> Xor("gcm", evp.key, evp.cur, b)
      [] OTHER                 -> Xor(EvpMode(evp), evp.key, evp.iv, b)

EvpCipherNext(evp, b, bs) ==
    CASE EvpMode(evp) = "null" -> evp
      [] EvpMode(evp) = "cbc"  -> [evp EXCEPT !.iv = CbcNextIv(evp.enc, evp.key, evp.iv, b)]
      [] EvpMode(evp) = "ctr"  -> [evp EXCEPT !.iv = (@ + Blocks(b.len, bs)) % CtrModulus]
      [] EvpMode(evp) = "rc4"  -> [evp EXCEPT !.iv = @ + b.len]
      [] EvpMode(evp) = "gcm"  -> [evp EXCEPT !.cur.off = @ + 1]

\* EVP_Cipher refuses a GCM engine that holds no IV.
EvpCipherFails(evp) == EvpMode(evp) = "gcm" /\ evp.cur = NULL

\* The GCM tag of what was processed since the IV was loaded.
GcmTag(evp, aad, body) == Mac(evp.key, evp.cur.iv, aad, body)

\* The final call consumes the loaded IV.
GcmFinal(evp) == [evp EXCEPT !.cur = NULL]

-----------------------------------------------------------------------------
\* cipher-chachapoly.c.  The nonce is the sequence number; the four length
\* bytes are sealed under the header key, the payload under the main key,
\* and the tag covers both ciphertexts.

chachapoly_init(key, keylen) == IF keylen # 64 THEN NULL ELSE [key |-> <<key, keylen>>]

ChachaAad(cp, seqnr, aad) ==
    IF aad = NoAad THEN aad ELSE Aad(Xor("chacha-hdr", cp.key, seqnr, aad.val))

ChachaTag(cp, seqnr, aad, body) == Mac(cp.key, seqnr, aad, body)

\* chachapoly_crypt checks the tag of what it is given before it opens it.
ChachaVerifies(cp, seqnr, src) == src.tag = ChachaTag(cp, seqnr, src.aad, src.body)

ChachaSeal(cp, seqnr, src) ==
    LET aad  == ChachaAad(cp, seqnr, src.aad)
        body == Xor("chacha", cp.key, seqnr, src.body)
    IN  Buf(aad, body, ChachaTag(cp, seqnr, aad, body))

ChachaOpen(cp, seqnr, src) ==
    Buf(ChachaAad(cp, seqnr, src.aad), Xor("chacha", cp.key, seqnr, src.body), Unwritten)

\* chachapoly_get_length opens the four length bytes alone.
ChachaLength(cp, seqnr, src) == Xor("chacha-hdr", cp.key, seqnr, src.aad.val)

\* aesctr_encrypt_bytes: a fresh counter block for every 16 bytes begun.
AesCtrOut(ac, b) == Xor("ctr", ac.key, ac.ctr, b)

AesCtrNext(ac, b) == [ac EXCEPT !.ctr = (@ + Blocks(b.len, 16)) % CtrModulus]
=============================================================================
