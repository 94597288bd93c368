--------------------------- MODULE CipherChannel ---------------------------
(***************************************************************************)
(* Two contexts of cipher.c at the two ends of one direction of a          *)
(* connection: the sending end seals packets with cipher_crypt, the        *)
(* receiving end opens them, both from the cipher, key and IV that key     *)
(* exchange gave them.  The callers are the packet layer, which is not in  *)
(* this repository and is modelled from the specification: it numbers the  *)
(* packets, gives up the connection at the first error, and hands a        *)
(* context over to another process by exporting its state and importing   *)
(* it into a context made afresh from the same key.  Between the ends is   *)
(* a wire that an attacker can write to and that delivers a packet a few   *)
(* bytes at a time: the receiving end asks cipher_get_length for the       *)
(* length of a packet with a tag as soon as it has input, waits while the  *)
(* answer is SSH_ERR_MESSAGE_INCOMPLETE, and calls cipher_crypt when the   *)
(* whole packet is there.                                                  *)
(***************************************************************************)
EXTENDS CipherFunctions

CONSTANTS
    Ciphers,        \* the names key exchange can agree on
    Keys,           \* key material
    IVs,            \* initial IVs, below CtrModulus
    Payloads,       \* plaintext contents
    Lens,           \* payload lengths in bytes
    MaxPackets,     \* bound: packets sealed on one connection
    MaxHandOff,     \* bound: hand-overs on one connection
    MaxAttack       \* bound: packets the attacker changes, drops or repeats

Tx == "tx"
Rx == "rx"
Ends == {Tx, Rx}

VARIABLES
    session,        \* what key exchange gave both ends: cipher, key, iv
    ctx,            \* ctx[e]: the context of end e, or NULL
    seq,            \* seq[e]: the packet layer's sequence number at e
    wire,           \* the packets in flight, oldest first
    sent,           \* history: the buffers sealed and the packets made of them
    rcvd,           \* the buffers the receiving end handed up
    avail,          \* bytes of the packet at the head of the wire that arrived
    packlen,        \* the length cipher_get_length gave for it, or NULL
    closed,         \* an end met an error, or left
    broken,         \* the connection met something else than the receiving
                    \* end's verdict on a packet: a failed engine call, a
                    \* refused send or hand-over, an end leaving
    handoffs,       \* hand-overs made
    attacks         \* steps the attacker made

vars == <<session, ctx, seq, wire, sent, rcvd, avail, packlen, closed, broken,
          handoffs, attacks>>

input == <<avail, packlen>>

\* The packet layer passes the table's tag length, and the four length bytes
\* as associated data when the cipher has a tag.
AuthLen == cipher_authlen(session.cipher)

Buffers(aads) == {Buf(aad, Plain(p, l), Unwritten) : aad \in aads, p \in Payloads, l \in Lens}

Msgs == Buffers({IF AuthLen # 0 THEN Aad(Plain("len", 4)) ELSE NoAad})

\* The bytes of a packet on the wire.
Size(pkt) == aadlen(pkt) + pkt.body.len + AuthLen

\* cipher_init as both ends call it.
Opened(e, fault) ==
    LET c == session.cipher
    IN  InitResult(c, session.key, c.key_len, session.iv, cipher_ivlen(c), e = Tx, fault)

-----------------------------------------------------------------------------
Init ==
    /\ session \in [cipher : {cipher_by_name(n) : n \in Ciphers}, key : Keys, iv : IVs]
    /\ ctx = [e \in Ends |-> NULL]
    /\ seq = [e \in Ends |-> 0]
    /\ wire = << >> /\ sent = << >> /\ rcvd = << >>
    /\ avail = 0 /\ packlen = NULL
    /\ closed = FALSE /\ broken = FALSE
    /\ handoffs = 0 /\ attacks = 0

Open(e) ==
    /\ ~closed /\ ctx[e] = NULL
    /\ \E fault \in FaultsOf(InitSteps(session.cipher, session.key, session.cipher.key_len,
                                       session.iv, cipher_ivlen(session.cipher))) :
          /\ ctx' = [ctx EXCEPT ![e] = Opened(e, fault).cc]
          /\ closed' = (Opened(e, fault).ret # 0)
          /\ broken' = (broken \/ fault # NoFault)
    /\ UNCHANGED <<session, seq, wire, sent, rcvd, input, handoffs, attacks>>

\* One cipher_crypt call at end e; an error ends the connection.
Crypted(e, r) ==
    /\ ctx' = [ctx EXCEPT ![e] = r.cc]
    /\ closed' = (r.ret # 0 \/ r.crash)
    /\ seq' = [seq EXCEPT ![e] = IF closed' THEN @ ELSE @ + 1]

Send ==
    /\ ~closed /\ ctx[Tx] # NULL /\ Len(sent) < MaxPackets
    /\ \E msg \in Msgs : \E fault \in CryptFaults(ctx[Tx], msg, AuthLen) :
          LET r == Crypt(ctx[Tx], seq[Tx], msg, AuthLen, fault) IN
            /\ Crypted(Tx, r)
            /\ sent' = IF closed' THEN sent ELSE Append(sent, [msg |-> msg, pkt |-> r.dest])
            /\ wire' = IF closed' THEN wire ELSE Append(wire, r.dest)
            /\ broken' = (broken \/ closed')
    /\ UNCHANGED <<session, rcvd, input, handoffs, attacks>>

\* The wire delivers more of its first packet: all of it or, where the
\* receiving end will ask for the length, less than a length field or just
\* a length field.
CanArrive == ~closed /\ wire # << >> /\ avail < Size(Head(wire))

Arrive ==
    /\ CanArrive
    /\ \E n \in {Size(Head(wire))} \cup (IF AuthLen # 0 THEN {3, 4} ELSE {}) :
          n > avail /\ avail' = n
    /\ UNCHANGED <<session, ctx, seq, wire, sent, rcvd, packlen, closed, broken,
                   handoffs, attacks>>

\* The receiving end asks for the length of a packet with a tag.  While
\* cipher_get_length says SSH_ERR_MESSAGE_INCOMPLETE it waits.  It acts on
\* the answer before cipher_crypt has verified the packet: a length that is
\* not one a sender writes ends the connection when it is out of range, and
\* is waited for like any other when it is not.
CanReadLength ==
    /\ ~closed /\ ctx[Rx] # NULL /\ AuthLen # 0 /\ avail > 0 /\ packlen = NULL
    /\ GetLength(ctx[Rx], seq[Rx], Head(wire), avail).ret = 0

ReadLength ==
    /\ CanReadLength
    /\ LET r == GetLength(ctx[Rx], seq[Rx], Head(wire), avail) IN
          \E refused \in {FALSE, r.plen # Plain("len", 4)} :
              /\ closed' = refused
              /\ packlen' = IF refused THEN NULL ELSE r.plen
    /\ UNCHANGED <<session, ctx, seq, wire, sent, rcvd, avail, broken, handoffs, attacks>>

CanReceive ==
    /\ ~closed /\ ctx[Rx] # NULL /\ wire # << >>
    /\ avail = Size(Head(wire)) /\ (AuthLen # 0 => packlen # NULL)

Receive ==
    /\ CanReceive
    /\ \E fault \in CryptFaults(ctx[Rx], Head(wire), AuthLen) :
          LET r == Crypt(ctx[Rx], seq[Rx], Head(wire), AuthLen, fault) IN
            /\ Crypted(Rx, r)
            /\ rcvd' = IF closed' THEN rcvd ELSE Append(rcvd, r.dest)
            /\ broken' = (broken \/ fault # NoFault)
    /\ wire' = Tail(wire)
    /\ avail' = 0 /\ packlen' = NULL
    /\ UNCHANGED <<session, sent, handoffs, attacks>>

\* The state of end e moves to another process: cipher_get_keyiv and
\* cipher_get_keycontext in the old one; cipher_init, cipher_set_keycontext
\* and, when the blob holds IV bytes (cipher_get_keyiv_len is not 0),
\* cipher_set_keyiv in the new one.  The sequence number travels with the
\* packet layer's own state.
HandOff(e) ==
    /\ ~closed /\ ctx[e] # NULL /\ handoffs < MaxHandOff
    /\ LET ivlen == cipher_get_keyiv_len(ctx[e])
           iv  == GetKeyIv(ctx[e], ivlen, NoFault)
           dat == GetKeyContext(iv.cc, "dat")
           new == SetKeyContext(Opened(e, NoFault).cc, dat.val)
           set == IF ivlen = 0 THEN new ELSE SetKeyIv(new.cc, iv.val, NoFault)
       IN  /\ closed' = (iv.ret # 0 \/ set.ret # 0)
           /\ ctx' = [ctx EXCEPT ![e] = IF closed' THEN NULL ELSE set.cc]
    /\ broken' = (broken \/ closed')
    /\ handoffs' = handoffs + 1
    /\ UNCHANGED <<session, seq, wire, sent, rcvd, input, attacks>>

\* cipher_free: an end leaves.
Close(e) ==
    /\ ctx[e] # NULL
    /\ ctx' = [ctx EXCEPT ![e] = NULL]
    /\ closed' = TRUE /\ broken' = TRUE
    /\ UNCHANGED <<session, seq, wire, sent, rcvd, input, handoffs, attacks>>

\* The attacker: a packet changed, dropped, or sent again.  A cipher without
\* a tag leaves this to the MAC of the packet layer, so the attacker is given
\* the wire when the cipher has a tag.  What has arrived is out of reach.
Attack ==
    /\ ~closed /\ AuthLen # 0 /\ attacks < MaxAttack /\ avail = 0
    /\ \/ \E i \in DOMAIN wire : \E t \in Tampered(wire[i]) : wire' = [wire EXCEPT ![i] = t]
       \/ \E i \in DOMAIN wire : wire' = RemoveAt(wire, i)
       \/ \E i \in DOMAIN sent : wire' = <<sent[i].pkt>> \o wire
    /\ attacks' = attacks + 1
    /\ UNCHANGED <<session, ctx, seq, sent, rcvd, input, closed, broken, handoffs>>

\* A connection that is closed and freed stays so.
Done == closed /\ (\A e \in Ends : ctx[e] = NULL) /\ UNCHANGED vars

Next ==
    \/ \E e \in Ends : Open(e) \/ HandOff(e) \/ Close(e)
    \/ Send \/ Arrive \/ ReadLength \/ Receive \/ Attack \/ Done

Spec == Init /\ [][Next]_vars

\* The wire and the receiving process that it feeds: while one of these
\* steps can be taken, one is.
Reads == Arrive \/ ReadLength \/ Receive

Fairness == WF_vars(Reads)

FairSpec == Spec /\ Fairness

\* The same fairness with the enabling condition of Reads written out, for
\* the build with libcrypto, where ENABLED has to run the step list of
\* cipher_crypt in every state: each of the three steps changes a variable
\* whenever its guard holds, so Reads is enabled exactly when a guard holds.
FairReads == []<>~(CanArrive \/ CanReadLength \/ CanReceive) \/ []<><<Reads>>_vars

FairReadsSpec == Spec /\ FairReads

-----------------------------------------------------------------------------
\* Properties.

\* The type invariant: the shape of the variables, and that each end holds a
\* context of the session's cipher for its direction, every counter inside
\* its width, also after a hand-over has rebuilt it from exported state.
TypeOK ==
    /\ \A e \in Ends : ctx[e] # NULL =>
          ContextOK(ctx[e]) /\ ctx[e].cipher = session.cipher /\ ctx[e].encrypt = (e = Tx)
    /\ seq \in [Ends -> 0..MaxPackets]
    /\ Len(sent) <= MaxPackets /\ Len(rcvd) <= Len(sent)
    /\ \A i \in DOMAIN wire : wire[i].body # Unwritten
    /\ avail \in 0..(IF wire = << >> THEN 0 ELSE Size(Head(wire)))
    /\ packlen # NULL => packlen.len = 4
    /\ closed \in BOOLEAN /\ broken \in BOOLEAN /\ handoffs \in 0..MaxHandOff /\ attacks \in 0..MaxAttack

\* The receiving end is handed what the sending end sealed, each buffer at
\* most once and in order, and nothing else: the connection implements
\* AuthStream.  This one property covers the tag verification of
\* cipher_crypt (a changed packet is not handed up), the stepping of the IV
\* and the use of seqnr (a repeated or a late packet is not), and the stream
\* state of CBC, CTR and RC4 (what is handed up is what was sealed).
Stream ==
    INSTANCE AuthStream
    WITH Msgs <- Buffers({NoAad, Aad(Plain("len", 4))}),
         given <- [i \in DOMAIN sent |-> sent[i].msg], taken <- rcvd

DeliversInOrder == Stream!Spec

\* The two ends stay in step: whenever the packet at the head of the wire is
\* the next one the sender made, cipher_crypt at the receiving end opens it
\* and gives the buffer that was sealed.  It fails if the ends count
\* differently (the IV of GCM, the counter of CTR, the chaining value of
\* CBC), or if cipher_get_keyiv and cipher_set_keyiv do not carry the state
\* of one context into the next.
InStep ==
    (/\ ~closed /\ ctx[Rx] # NULL /\ wire # << >> /\ Len(rcvd) < Len(sent)
     /\ Head(wire) = sent[Len(rcvd) + 1].pkt)
    => LET r == Crypt(ctx[Rx], seq[Rx], Head(wire), AuthLen, NoFault)
           m == sent[Len(rcvd) + 1].msg
       IN  /\ r.ret = 0 /\ ~r.crash /\ r.dest = m
           /\ AuthLen # 0 => GetLength(ctx[Rx], seq[Rx], Head(wire), 4).plen = m.aad.val

\* The position of the key stream a packet was sealed at.
Nonce(pkt) == IF IsSealed(pkt.body) THEN {pkt.body.st} ELSE {}

\* No two packets of a connection are sealed at the same position of the key
\* stream, across cipher_crypt calls and across hand-overs of the sending
\* end: cipher_crypt leaves the IV stepped, cipher_get_keyiv exports the
\* next IV and not a used one, and cipher_set_keyiv replaces the IV that
\* cipher_init gave the new context.
NoNonceReuse ==
    \A i, j \in DOMAIN sent : i # j => Nonce(sent[i].pkt) \cap Nonce(sent[j].pkt) = {}

\* Every packet that cipher_crypt sealed is in the end handed up by a
\* receiving end that has its context, unless the connection was disturbed
\* (a changed wire, a failed engine call, a refused send or hand-over, an
\* end leaving):
\* cipher_get_length stops answering SSH_ERR_MESSAGE_INCOMPLETE once four
\* bytes are there and gives the length the sender wrote, and cipher_crypt
\* at the receiving end never refuses a genuine packet, whatever hand-overs
\* and counter wraps lie between sealing and opening.
EveryPacketArrives ==
    \A n \in 1..MaxPackets :
        (Len(sent) >= n /\ ctx[Rx] # NULL) ~> (Len(rcvd) >= n \/ broken \/ attacks > 0)
=============================================================================
