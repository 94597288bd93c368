--------------------------- MODULE CipherContext ---------------------------
(***************************************************************************)
(* The cipher context of cipher.c as a state machine: each function that   *)
(* creates, uses, exports, imports or destroys a struct sshcipher_ctx is   *)
(* one action on a context slot (a caller's `struct sshcipher_ctx *`).     *)
(* The function bodies are the operators of CipherFunctions.               *)
(***************************************************************************)
EXTENDS CipherFunctions

CONSTANTS
    Slots,          \* the callers' context pointers
    Ciphers,        \* the names of the table that callers ask for
    Keys,           \* key material
    IVs,            \* initial IV / counter values, below CtrModulus
    Payloads,       \* plaintext contents
    Lens,           \* payload lengths in bytes
    Passphrases,    \* passphrases given to cipher_set_key_string
    MaxCrypt,       \* bound: cipher_crypt calls through one slot
    MaxSeq          \* bound: packet sequence numbers are 0..MaxSeq

VARIABLES
    ccp,            \* ccp[s]: the context s points to, or NULL
    heap,           \* the allocated objects, as <<slot, kind>>
    res,            \* res[s]: the last call on s, what it returned and wrote
    ncrypt,         \* ncrypt[s]: cipher_crypt calls made through s
    aborted         \* the process died on a null pointer

vars == <<ccp, heap, res, ncrypt, aborted>>

-----------------------------------------------------------------------------
\* The callers' inputs.

AuthLens  == {0, 1, 16}         \* no tag, the InterMAC table value, a real tag
AvailLens == {3, 4}             \* bytes available to cipher_get_length

Descriptors == {cipher_by_name(n) : n \in Ciphers} \ {NULL}

\* One byte short, exact, one byte long.
KeyLens(c) == {c.key_len - 1, c.key_len, c.key_len + 1} \cap Nat

IvLens(c, iv) ==
    IF iv = NULL THEN {0} ELSE {cipher_ivlen(c) - 1, cipher_ivlen(c)} \cap Nat

PlainBuffers ==
    {Buf(aad, Plain(p, l), Unwritten) :
        aad \in {NoAad, Aad(Plain("len", 4))}, p \in Payloads, l \in Lens}

Called(op, ret, val, arg) == [op |-> op, ret |-> ret, val |-> val, arg |-> arg]

NotCalled == Called("none", 0, Unwritten, 0)

\* cipher.c hands seqnr to chacha20-poly1305 alone.
SeqNrs(cc) == IF "CHACHAPOLY" \in cc.cipher.flags THEN 0..MaxSeq ELSE {0}

\* The peer of a decrypting context: the same context with the direction
\* reversed.  It seals plain buffers under any sequence number.
Peer(cc) ==
    [cc EXCEPT !.encrypt = TRUE, !.evp = IF @ = NULL THEN NULL ELSE [@ EXCEPT !.enc = TRUE]]

Seals(pc) ==
    {r \in {Crypt(pc, seqnr, p, cipher_authlen(pc.cipher), NoFault) :
                seqnr \in SeqNrs(pc), p \in PlainBuffers} : ~r.crash /\ r.ret = 0}

\* What the peer sends: the packet it seals when it is in step with the
\* context, and the one it seals after that, which reaches a context that
\* missed a packet.
FromPeer(cc) ==
    LET next == Seals(Peer(cc))
    IN  {r.dest : r \in next \cup UNION {Seals(r.cc) : r \in next}}

\* What a caller passes as src: a plain buffer or, to decrypt, a buffer from
\* its peer, as sent or tampered with.
Sources(cc) ==
    PlainBuffers \cup
    (IF cc.encrypt THEN {} ELSE UNION {{b} \cup Tampered(b) : b \in FromPeer(cc)})

\* What an earlier export gave a caller, for a context of the same cipher:
\* the buffer of a cipher_get_keyiv that returned 0, or the one
\* cipher_get_keycontext wrote its state to.
Exported(cc, op) ==
    {res[t] : t \in {u \in Slots : /\ res[u].op = op /\ res[u].ret >= 0
                                    /\ res[u].arg.cipher = cc.cipher.name
                                    /\ (HasKeyContext(cc) /\ op = "cipher_get_keycontext"
                                            => res[u].val # Unwritten)}}

-----------------------------------------------------------------------------
\* The actions: one call of one function through the slot s, with any
\* arguments a caller can pass and any one call inside it failing.

Objects(s, kinds) == {<<s, k>> : k \in kinds}

\* The context behind s, if there is one.
Live(s) == {ccp[s]} \ {NULL}

Init ==
    /\ ccp = [s \in Slots |-> NULL]
    /\ heap = {}
    /\ res = [s \in Slots |-> NotCalled]
    /\ ncrypt = [s \in Slots |-> 0]
    /\ aborted = FALSE

\* The caller hands in a pointer that owns nothing: *ccp is overwritten.
Created(s, op, r) ==
    /\ ccp' = [ccp EXCEPT ![s] = r.cc]
    /\ heap' = heap \cup Objects(s, r.kept)
    /\ res' = [res EXCEPT ![s] = Called(op, r.ret, Unwritten, 0)]
    /\ aborted' = r.crash
    /\ UNCHANGED ncrypt

cipher_init(s) ==
    /\ ~aborted /\ ccp[s] = NULL
    /\ \E c \in Descriptors, enc \in BOOLEAN, key \in Keys, iv \in IVs \cup {NULL} :
       \E keylen \in KeyLens(c), ivlen \in IvLens(c, iv) :
       \E fault \in FaultsOf(InitSteps(c, key, InitKeylen(c, keylen), iv, ivlen)) :
          Created(s, "cipher_init", InitResult(c, key, keylen, iv, ivlen, enc, fault))

cipher_set_key_string(s) ==
    /\ ~aborted /\ ccp[s] = NULL
    /\ \E c \in Descriptors, enc \in BOOLEAN, p \in Passphrases :
       \E fault \in FaultsOf(InitSteps(c, Md5(p), 16, NULL, 0)) \cup {"ssh_digest_memory"} :
          Created(s, "cipher_set_key_string", SetKeyString(c, p, enc, fault))

cipher_free(s) ==
    /\ ~aborted
    /\ ccp' = [ccp EXCEPT ![s] = NULL]
    /\ heap' = IF ccp[s] = NULL THEN heap ELSE heap \ Objects(s, FreeReleased(ccp[s]))
    /\ res' = [res EXCEPT ![s] = Called("cipher_free", 0, Unwritten, 0)]
    /\ UNCHANGED <<ncrypt, aborted>>

cipher_crypt(s) ==
    /\ ~aborted /\ ncrypt[s] < MaxCrypt
    /\ \E cc \in Live(s) : \E seqnr \in SeqNrs(cc), src \in Sources(cc) :
       \E authlen \in AuthLens : \E fault \in CryptFaults(cc, src, authlen) :
          LET r == Crypt(cc, seqnr, src, authlen, fault) IN
            /\ ccp' = [ccp EXCEPT ![s] = r.cc]
            /\ res' = [res EXCEPT ![s] = Called("cipher_crypt", r.ret, r.dest, authlen)]
            /\ aborted' = r.crash
    /\ ncrypt' = [ncrypt EXCEPT ![s] = @ + 1]
    /\ UNCHANGED heap

\* cp points at the first bytes of a packet: only they are read.
cipher_get_length(s) ==
    /\ ~aborted
    /\ \E cc \in Live(s) : \E seqnr \in SeqNrs(cc) :
       \E aad \in {b.aad : b \in Sources(cc)} \ {NoAad}, avail \in AvailLens :
          LET r == GetLength(cc, seqnr, Buf(aad, Unwritten, Unwritten), avail) IN
            res' = [res EXCEPT ![s] = Called("cipher_get_length", r.ret, r.plen,
                                             [cp |-> aad.val, len |-> avail])]
    /\ UNCHANGED <<ccp, heap, ncrypt, aborted>>

\* A transfer call on a buffer of `size` bytes: the context may change, the
\* heap does not.  Remembered are the cipher, the size of the buffer and
\* whether it is the one the length function gives, the bytes copied, and
\* the call that failed.
Transferred(s, op, r, size, fits, fault) ==
    /\ ccp' = [ccp EXCEPT ![s] = r.cc]
    /\ res' = [res EXCEPT ![s] =
                  Called(op, r.ret, r.val, [cipher |-> r.cc.cipher.name, size |-> size,
                                            fits |-> fits, copied |-> r.n, fault |-> fault])]
    /\ UNCHANGED <<heap, ncrypt, aborted>>

\* The caller's len is the one cipher_get_keyiv_len gives, one less or one
\* more.
cipher_get_keyiv(s) ==
    /\ ~aborted
    /\ \E cc \in Live(s) : \E d \in {-1, 0, 1}, fault \in KeyIvFaults(cc, "GCM_IV_GEN") :
          LET len == cipher_get_keyiv_len(cc) + d IN
            /\ len >= 0
            /\ Transferred(s, "cipher_get_keyiv", GetKeyIv(cc, len, fault), len, d = 0, fault)

\* The packet layer takes a blob whose size is the one the length function
\* gives for the context it is for (cipher_get_keyiv_len, and
\* cipher_get_keycontext with dat = NULL).
cipher_set_keyiv(s) ==
    /\ ~aborted
    /\ \E cc \in Live(s) :
       \E iv \in Exported(cc, "cipher_get_keyiv"), fault \in KeyIvFaults(cc, "GCM_SET_IV_FIXED") :
          /\ iv.arg.size = cipher_get_keyiv_len(cc)
          /\ Transferred(s, "cipher_set_keyiv", SetKeyIv(cc, iv.val, fault),
                         iv.arg.size, TRUE, fault)

cipher_get_keycontext(s) ==
    /\ ~aborted
    /\ \E cc \in Live(s) : \E dat \in {NULL, "dat"} :
          Transferred(s, "cipher_get_keycontext", GetKeyContext(cc, dat),
                      GetKeyContext(cc, NULL).ret, TRUE, NoFault)

cipher_set_keycontext(s) ==
    /\ ~aborted
    /\ \E cc \in Live(s) : \E dat \in Exported(cc, "cipher_get_keycontext") :
          /\ dat.arg.size = GetKeyContext(cc, NULL).ret
          /\ Transferred(s, "cipher_set_keycontext", SetKeyContext(cc, dat.val),
                         dat.arg.size, TRUE, NoFault)

\* A process that died takes no further step.
Dead == aborted /\ UNCHANGED vars

Next ==
    \/ \E s \in Slots :
          \/ cipher_init(s)
          \/ cipher_set_key_string(s)
          \/ cipher_free(s)
          \/ cipher_crypt(s)
          \/ cipher_get_length(s)
          \/ cipher_get_keyiv(s)
          \/ cipher_set_keyiv(s)
          \/ cipher_get_keycontext(s)
          \/ cipher_set_keycontext(s)
    \/ Dead

Spec == Init /\ [][Next]_vars

-----------------------------------------------------------------------------
\* Properties.

TransferOps ==
    {"cipher_get_keyiv", "cipher_set_keyiv", "cipher_get_keycontext", "cipher_set_keycontext"}

Ops ==
    {"none", "cipher_init", "cipher_set_key_string", "cipher_free", "cipher_crypt",
     "cipher_get_length"} \cup TransferOps

RetCodes ==
    {0, Rc4StateLen, SSH_ERR_INTERNAL_ERROR, SSH_ERR_ALLOC_FAIL, SSH_ERR_MESSAGE_INCOMPLETE,
     SSH_ERR_INVALID_ARGUMENT, SSH_ERR_LIBCRYPTO_ERROR, SSH_ERR_MAC_INVALID}

\* The type invariant: the shape of every variable, and for each live
\* context that cipher_init built the state of its cipher's engine,
\* with every counter inside its width.
TypeOK ==
    /\ \A s \in Slots : ccp[s] # NULL => ContextOK(ccp[s])
    /\ heap \subseteq Slots \X DOMAIN AllocatedBy
    /\ \A s \in Slots : res[s].op \in Ops /\ res[s].ret \in RetCodes
    /\ ncrypt \in [Slots -> 0..MaxCrypt]
    /\ aborted \in BOOLEAN

\* The objects the live contexts own.
Owned(s) ==
    IF ccp[s] = NULL THEN {}
    ELSE Objects(s, {"cc"} \cup {k \in {"evp", "im"} :
                                    \/ k = "evp" /\ ccp[s].evp # NULL
                                    \/ k = "im" /\ ccp[s].im_ctx # NULL})

\* No leak and no dangling handle: whatever way cipher_init, with any of its
\* calls failing, cipher_set_key_string and cipher_free are interleaved, the
\* allocated objects are exactly those a live context owns.  cipher_init has
\* nine ways out through the label `out`; each must release what the steps
\* before it allocated.
NoLeak == ~aborted => heap = UNION {Owned(s) : s \in Slots}

\* No transfer call moves more bytes than the buffer holds, when the buffer
\* has the size the length function gives for the context: what
\* cipher_get_keyiv writes to iv and cipher_set_keyiv reads from it is at
\* most cipher_get_keyiv_len (the 24 bytes of the protocol 1 triple DES, which
\* are written whatever len is, included), and cipher_set_keycontext, which
\* takes no length, copies what cipher_get_keycontext says it writes.
TransferWithinBuffers ==
    \A s \in Slots :
        (res[s].op \in TransferOps /\ res[s].arg.fits)
        => res[s].arg.copied <= res[s].arg.size

\* The call was made with a tag to verify (chacha20-poly1305 always has one).
Authenticated(cc, authlen) ==
    /\ ~cc.encrypt /\ cipher_authlen(cc.cipher) # 0 /\ "INTERMAC" \notin cc.cipher.flags
    /\ authlen # 0 \/ "CHACHAPOLY" \in cc.cipher.flags

\* What a sender really sent: a plaintext of the callers, under the length
\* bytes of the callers.
Genuine(buf) ==
    /\ buf.body # Unwritten /\ IsPlain(buf.body) /\ buf.body.pt \in Payloads
    /\ buf.aad \notin {NoAad, Unwritten} => IsPlain(buf.aad.val) /\ buf.aad.val.pt = "len"

\* Authenticity: when cipher_crypt, decrypting with a tag, returns 0, dest
\* holds what the peer sealed under this key and this IV or sequence number:
\* no forged, tampered or tagless buffer is accepted, whichever call of the
\* engine fails on the way.
AuthenticDecrypt ==
    \A s \in Slots :
        (/\ ~aborted /\ ccp[s] # NULL
         /\ res[s].op = "cipher_crypt" /\ res[s].ret = 0
         /\ Authenticated(ccp[s], res[s].arg))
        => Genuine(res[s].val)

-----------------------------------------------------------------------------
\* What the specification of the repository says and the code does not do.

\* "chunked-extension: delegates entirely to the chunk session's
\* encrypt/decrypt entry point" and "for all supported modes,
\* decrypt(encrypt(P, seq), seq) == P": cipher_crypt on an InterMAC context
\* is served, it neither kills the process nor rejects the call.
ImCryptServed ==
    \A s \in Slots :
        (ccp[s] # NULL /\ cipher_is_intermac(ccp[s]) /\ res[s].op = "cipher_crypt")
        => ~aborted /\ res[s].ret \in {0, SSH_ERR_MAC_INVALID}

\* "Both transfer paths are fatal-error-free except for size mismatches":
\* cipher_get_keyiv with the length cipher_get_keyiv_len gives, and
\* cipher_set_keyiv of what cipher_get_keyiv exported for the same cipher,
\* return 0 when no call of the engine fails.
TransferFailsOnlyOnSize ==
    \A s \in Slots :
        (/\ res[s].op \in {"cipher_get_keyiv", "cipher_set_keyiv"}
         /\ res[s].arg.fits /\ res[s].arg.fault = NoFault)
        => res[s].ret = 0

\* "software-CTR: tagLen must be 0 - fail otherwise" and "no-op: rejects
\* nonzero tagLen": cipher_crypt with authlen # 0 on a context of a cipher
\* without a tag returns SSH_ERR_INVALID_ARGUMENT.
TaglessRejectsTag ==
    \A s \in Slots :
        (/\ ccp[s] # NULL /\ cipher_authlen(ccp[s].cipher) = 0
         /\ res[s].op = "cipher_crypt" /\ res[s].arg # 0)
        => res[s].ret = SSH_ERR_INVALID_ARGUMENT

\* "For AEAD-derived-nonce and chunked-extension modes, this requires
\* decrypting or otherwise unmasking a fixed-size length prefix (delegated to
\* the owning primitive)": the length cipher_get_length gives for an
\* InterMAC context is not the first four bytes of cp as they stand, which
\* are ciphertext of the first chunk.
ImLengthDelegated ==
    \A s \in Slots :
        (/\ ccp[s] # NULL /\ cipher_is_intermac(ccp[s])
         /\ res[s].op = "cipher_get_length" /\ res[s].ret = 0)
        => res[s].val # res[s].arg.cp

\* cipher_im_block_size gives the block size of the suite's cipher, 16 for
\* im-aes128-gcm and 64 for im-chacha-poly, for every InterMAC cipher that
\* cipher_init accepted.
ImBlockSizeKnown ==
    \A s \in Slots :
        (ccp[s] # NULL /\ cipher_is_intermac(ccp[s]))
        => cipher_im_block_size(ccp[s]) \in {16, 64}

\* "Init(descriptor, key, optional IV, direction) -> Context | Error", and
\* cipher_set_key_string passes no IV: cipher_init and cipher_set_key_string
\* return, with a context or with an error, for every cipher of the table.
InitReturns ==
    \A s \in Slots :
        res[s].op \in {"cipher_init", "cipher_set_key_string"} => ~aborted
=============================================================================
