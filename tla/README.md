# Model checking `cipher.c` (OpenSSH with the InterMAC extension)

`src/cipher.c` is the cipher layer of OpenSSH: a static table of cipher
descriptors, a context object that binds one descriptor to one engine, one
transform function for every cipher, and functions that export and import the
stream state. This repository adds the InterMAC ciphers (`im-aes128-gcm-N`,
`im-chacha-poly-N`) to it. The TLA+ modules here model that file and TLC checks
them.

## 1. Inventory

| Part | Code | State | Operations |
|---|---|---|---|
| Registry | `struct sshcipher`, `ciphers[]` (70-195), lookups and accessors (291-430), InterMAC name helpers (204-262) | none (a constant table that depends on `WITH_OPENSSL`, `WITH_SSH1`) | `cipher_by_name`, `cipher_by_number`, `cipher_number`, `cipher_name`, `cipher_blocksize` ... `cipher_is_cbc`, `cipher_mask_ssh1`, `cipher_im_get_name`, `cipher_im_block_size`, `cipher_alg_list`, `ciphers_valid` |
| Context lifecycle | `struct sshcipher_ctx` (60-68), `cipher_init` (443-578), `cipher_set_key_string` (691-707), `cipher_free` (666-685) | the caller's pointer `*ccp`; the context; the engine handle `cc->evp`; the InterMAC handle `im_ctx` | create, create from a passphrase, destroy |
| Transform | `cipher_crypt` (590-650) | the engine state: CBC chaining value, CTR counter, GCM invocation IV and whether an IV is loaded, RC4 position | encrypt or decrypt `[aad | body | tag]` |
| Length extraction | `cipher_get_length` (653-664) | none | read the packet length |
| State transfer | `cipher_get_keyiv_len`, `cipher_get_keyiv`, `cipher_set_keyiv` (714-842), `cipher_get_keycontext`, `cipher_set_keycontext` (849-880) | the engine state | export and import the IV and the RC4 state |
| Engines | libcrypto EVP, `cipher-chachapoly.c`, `cipher-aesctr.c`, the InterMAC library | theirs | called by the above; not in this repository |

The parts interact through the context: `cipher_init` chooses the engine from
the descriptor's flags, and every later function dispatches on the same flags
again. The file has no threads; what makes it hard is

* **partial failure**: `cipher_init` makes up to eight calls that can fail and
  has one cleanup label for all of them;
* **dispatch that must agree** across functions written at different times
  (the InterMAC branches were added to some functions and not to others; the
  two builds differ);
* **stream state** that every call moves, that an error may have moved
  already, and that export and import read and overwrite;
* **the order of steps inside `cipher_crypt`** (IV stepped, tag set,
  associated data fed, length tested, body transformed, tag verified), with an
  early return between any two;
* **null pointers** that are legal arguments (`iv`) or legal field values
  (`cc->evp` of a context that needs no engine);
* **a caller that waits**: `cipher_get_length` answers
  `SSH_ERR_MESSAGE_INCOMPLETE` until enough of a packet has arrived, and the
  receiving end makes progress only if the answer changes and the length is
  the sender's.

`PROJECT.json` lists each of these at its line under `hazards`.

## 2. Modules

| Module | Models | How |
|---|---|---|
| `CipherTable` | the registry: table, accessors, lookups, InterMAC name helpers | The table is a sequence of records with the fields of `struct sshcipher`; `flags` is the set of `CFLAG_` bits. The build switches are CONSTANTS. Lookups are first-match scans. |
| `CipherRegistry` | `cipher_alg_list`, `ciphers_valid`, the protocol 1 mask | A caller that builds a list, checks strings and frees the list, and a protocol 1 end that announces `cipher_mask_ssh1`. The loop of `cipher_alg_list` is a function of the buffer (names written, `rlen`, size of the allocation, whether a byte went outside it) applied row by row; `ciphers_valid` is its early returns in order. |
| `CipherEngines` | the engines | Symbolic: a ciphertext is a term naming algorithm, key, stream state and plaintext, and opens only under the same three; a tag is a term over key, nonce, associated data and body. Each engine call is an operator on the engine state. Written from the documented behaviour of the libraries (`spec_modelled`). |
| `CipherFunctions` | every function of `cipher.c` that takes a context | Operators from (context, arguments, injected fault) to (return value, context after, what was written). No variables: both state machines below use them. |
| `CipherContext` | one context and its caller | One action per function of `cipher.c`, acting on a slot (a caller's `struct sshcipher_ctx *`), with any argument a caller can pass. |
| `CipherChannel` | a connection: a sending and a receiving context, a wire that delivers packets in pieces, an attacker | The packet layer's use of `cipher.c` (it is not in this repository; its steps are `spec_modelled`), built on the operators of `CipherFunctions`. |
| `AuthStream` | what a connection promises | The abstract specification: messages are given, and taken at most once, in the order given. |
| `MCCipherContext`, `MCCipherChannel`, `MCCipherRegistry` | - | Values of constants for TLC. |

### State of `CipherContext`

| Variable | Code |
|---|---|
| `ccp[s]` | `*ccp`: NULL or a record with the fields of `struct sshcipher_ctx` |
| `heap` | the objects that are allocated: `<<s, "cc">>` (calloc), `<<s, "evp">>` (`EVP_CIPHER_CTX_new`), `<<s, "im">>` (`im_initialise`), `<<s, "junk">>` and `<<s, "discard">>` (the scratch buffers of the RC4 discard, lines 544-553) |
| `res[s]` | the last call through `s`: function, return value, what it wrote (`dest`, `*plenp`, `iv`, `dat`) and the argument the properties need |
| `ncrypt[s]` | number of `cipher_crypt` calls, to bound the run |
| `aborted` | the process dereferenced a null pointer |

### State of `CipherChannel`

| Variable | Meaning |
|---|---|
| `session` | the cipher, key and IV both ends got from key exchange |
| `ctx[e]`, `seq[e]` | the context of end `e` (`tx`, `rx`) and the sequence number its caller passes to `cipher_crypt` |
| `wire` | the packets sent and not yet read, in order |
| `avail` | how many bytes of the first packet on the wire have reached the receiving end: 0, 3, 4 or all |
| `packlen` | the length `cipher_get_length` wrote to `*plenp` for that packet, or NULL |
| `sent`, `rcvd` | history: every message sealed with its packet; every message handed up |
| `closed` | an error was returned at either end; the connection is torn down (specification, section 7) |
| `broken` | history: the connection met something other than the receiving end's verdict on a packet (an engine call that failed, a send or a hand-over that was refused, an end that left) |
| `handoffs`, `attacks` | counters that bound the run |

Actions: `Open(e)` (`cipher_init`, any inner call failing), `Send` and
`Receive` (`cipher_crypt` at either end, any inner call failing, the sequence
number stepped by the caller), `Arrive` (more bytes of the first packet reach
the receiving end), `ReadLength` (for a cipher with a tag, `cipher_get_length`
on what has arrived: the receiving end waits while the answer is
`SSH_ERR_MESSAGE_INCOMPLETE` and keeps the length it is given; a length
that is not one a sender writes is either out of range, and the connection
is given up, or in range, and the receiving end goes on with it to
`cipher_crypt`, which is then what has to refuse the packet; `Receive` waits
for the whole packet and for a length), `HandOff(e)` (the state of a context
exported with `cipher_get_keyiv` and `cipher_get_keycontext` and imported
into a fresh context of another process with `cipher_init`,
`cipher_set_keycontext` and, when `cipher_get_keyiv_len` says the cipher has
IV bytes to carry, `cipher_set_keyiv`: privilege separation), `Close(e)`
(`cipher_free`),
`Attack` (a packet on the wire tampered with, dropped, or an old one
replayed; bytes that have arrived are out of the attacker's reach).

The guards of the three steps of the reading side are state predicates of
their own (`CanArrive`, `CanReadLength`, `CanReceive`): each step changes a
variable whenever its guard holds, so their disjunction is the enabling
condition of `Reads == Arrive \/ ReadLength \/ Receive`.

### State of `CipherRegistry`

| Variable | Code |
|---|---|
| `list` | the buffer `cipher_alg_list` returned and the caller has not freed |
| `heap` | the buffers allocated |
| `res` | the last call (also of `cipher_mask_ssh1`), its argument and its return value |

### Functions as step lists

A C function that returns at the first failing test is modelled as the list of
its tests and calls in program order (`InitSteps`, `EvpCryptSteps`). A step
stops the function when its test fails (`Check`), when the environment makes
the call fail (`Call`, chosen by the action's `fault`), or when it reads
through a null pointer (`Deref`). `Run` gives the steps that completed and the
return code; the effects (what is allocated, how far the engine moved, what
was written to `dest`) are functions of the completed steps. The whole
function, cleanup included, is one action. At most one call fails per
invocation, which is all a sequential function can observe.

`Step`, `Check`, `Call`, `Deref`, `StopAt`, `Run`, and the record
constructors `Blank`, `Result`, `Transfer`, `Copied` and `Failed` are the
devices of this notation and translate no line of their own: `map` in
`PROJECT.json` names the definitions that do (the step lists and the
functions built on them).

What `cipher_init` has allocated is read off the completed steps
(`AllocatedBy`, `InitAllocated`). The scratch buffers are freed where the
code frees them (`ScratchFreed`: `junk` when the second `malloc` fails, both
after the discard), and `InitReleased` is the label `out`, which frees the
engine handle, the InterMAC handle and the context and nothing else.
`im_initialise` is given two ways to fail, before and after it has stored a
handle in `im_ctx`; the library is not in this repository, and the second is
the case that is harder on the cleanup.

### Inputs

A caller passes any descriptor of `Ciphers`, a key one byte short, exact or
one byte long, an IV (or NULL) one byte short or exact, either direction. To
`cipher_crypt` it passes a plain buffer or, when decrypting, what its peer
sends (`FromPeer`: the same context with the direction reversed, sealing a
plain buffer under any sequence number, at this point of the stream and one
packet further on) or a tampered copy of it (tag removed, body replaced,
length bytes forged), with `authlen` 0, 1 or 16 and any sequence number. A
decryption therefore meets packets sealed for it, packets sealed under
another sequence number and packets the peer sealed one IV ahead.
`cipher_get_keyiv` is called with a buffer of the length
`cipher_get_keyiv_len` gives, of one byte less or of one byte more.
`cipher_set_keyiv` and `cipher_set_keycontext` take no length: they are given
what the last export on a context of the same cipher produced, when its
size is the one the length function gives for the importing context (the
comparison the importing process makes before it calls them). In both IV
functions any call of the engine whose result the code tests may fail
(`KeyIvFaults`: `EVP_CIPHER_CTX_iv_length` answering a negative length, the
GCM IV control, `ssh1_3des_iv`). Every transfer
call records in `res[s].arg` the size of the caller's buffer and the number
of bytes the function copied. `ciphers_valid` is given
NULL, any string of up to `MaxTokens` pieces of `Names` (an unknown name, a
protocol 1 name, `none`, the empty piece among them), or the list the caller
holds.

## 3. Runs

| Run | Config | Result | What it shows |
|---|---|---|---|
| `context_openssl` | `CipherContext_openssl.cfg` | pass | build with libcrypto and protocol 1, one cipher of each family (CBC, CTR, GCM, RC4 with discard, none, DES with its key cut to 8 bytes, the protocol 1 triple DES with its 24-byte IV, chacha20-poly1305, InterMAC): `TypeOK`, `NoLeak`, `AuthenticDecrypt`, `TransferWithinBuffers` |
| `context_plain` | `CipherContext_plain.cfg` | pass | build without libcrypto (software AES-CTR, none, chacha20-poly1305): the first three |
| `channel_openssl` | `CipherChannel_openssl.cfg` | pass | a connection of up to three packets in the build with libcrypto and protocol 1, for one cipher of each family `cipher_crypt` serves (CBC, CTR, GCM, RC4, none, chacha20-poly1305 and the protocol 1 `des`, `3des`, `blowfish`), under weak fairness of the wire and the receiving end: `TypeOK`, `InStep`, `NoNonceReuse`, the refinement `DeliversInOrder` and the liveness property `EveryPacketArrives` |
| `channel_plain` | `CipherChannel_plain.cfg` | pass | the same connection in the build without libcrypto (chacha20-poly1305, software AES-CTR, none), under the same fairness: the same five |
| `registry_ssh1` | `CipherRegistry_ssh1.cfg` | pass | the whole table of a build with libcrypto and protocol 1: `TypeOK`, `ListOwned`, `AlgListSound`, `ListIsValid`, `MaskIsNegotiable` |
| `intermac_crypt` | `Intermac_crypt.cfg` | violation | `cipher_crypt` on an InterMAC context takes the EVP path: it refuses a length that is not a whole number of chunks (the trace TLC gives) and uses the null engine otherwise |
| `transfer_errors` | `Transfer_errors.cfg` | violation | `cipher_get_keyiv` / `cipher_set_keyiv` fail with a fitting size |
| `tagless_authlen` | `Tagless_authlen.cfg` | violation | without libcrypto `authlen` is ignored |
| `intermac_blocksize` | `Intermac_blocksize.cfg` | violation | `cipher_im_block_size` always returns an error code |
| `intermac_length` | `Intermac_length.cfg` | violation | `cipher_get_length` on an InterMAC context returns the first four bytes of ciphertext as the length |
| `init_returns` | `Init_returns.cfg` | violation | `cipher_init` with `iv = NULL` on a cipher with a tag |
| `valid_unknown` | `Valid_unknown.cfg` | violation | `ciphers_valid` accepts `",des"` and `"aes128-ctr,,bogus"` |

### Properties

* **`TypeOK`** (one per module): the shape of the variables, and for each live
  context that exactly the engine of its cipher's family is set up, with every
  counter inside its width.
* **`NoLeak`**: the allocated objects are exactly those owned by live contexts,
  after any sequence of creations (with any call failing), uses and
  destructions. It fails if any exit of `cipher_init` forgets the engine, the
  InterMAC handle or a scratch buffer of the RC4 discard, or if `cipher_free`
  does.
* **`AuthenticDecrypt`**: when `cipher_crypt` decrypts with a tag and returns
  0, `dest` holds a plaintext and length bytes that the peer sealed under this
  key at this IV or sequence number. It fails if the tag is not verified, if a
  failure of the engine is dropped, or if a packet sealed under another
  sequence number or another IV, or one with forged length bytes, is
  accepted.
* **`TransferWithinBuffers`**: a transfer call on a buffer of the size the
  length function gave (`cipher_get_keyiv_len`, or `cipher_get_keycontext`
  with `dat` NULL) copies no more than that size, for every cipher of the
  build. The length is computed in one function and the copy made in another,
  each with its own dispatch: the property fails if the two disagree for any
  family, as they would for the protocol 1 triple DES (24 bytes copied, an
  engine IV of 8) without the branch at line 719.
* **`DeliversInOrder`**: `CipherChannel` implements `AuthStream` under the
  mapping `given <- the messages of sent`, `taken <- rcvd`: whatever the
  attacker, the failures and the hand-overs do, the receiver hands up a prefix
  of what the sender sealed. For the ciphers without a tag the attacker is
  kept off the wire (they promise nothing against one; the MAC that protects
  them is the packet layer's).
* **`InStep`**: while the connection is open, the receiving context opens the
  next packet the sender sealed, and for a cipher with a tag
  `cipher_get_length` gives the length the sender wrote: the two engine
  states, which every call and every hand-over moves, never drift apart
  silently. The hand-overs include that of an `arcfour` context, whose whole
  state travels through `cipher_get_keycontext` and `cipher_set_keycontext`.
* **`NoNonceReuse`**: no two packets are sealed at the same position of the key
  stream (IV, counter, RC4 position or sequence number), also across a
  hand-over, where the exported IV must be the next one and not the last.
* **`EveryPacketArrives`** (liveness): every packet sealed is in the end
  handed up by a receiving end that has its context, unless the connection
  was disturbed (`broken`, or the attacker acted). It fails if
  `cipher_get_length` keeps the receiving end waiting or gives it a length
  that is not the sender's, or if `cipher_crypt` refuses a genuine packet at
  any point of the stream. In the build with libcrypto that includes the
  packets after a hand-over of a GCM, CBC or CTR context and of the
  protocol 1 triple DES with its 24 bytes of IV.
* **`ListOwned`**: after `cipher_alg_list`, with `realloc` failing at any
  turn, the only buffer allocated is the list returned.
* **`AlgListSound`**: the list holds the protocol 2 names (those with a tag
  when `auth_only`) in table order, `rlen` is its length, and every byte was
  written inside the allocation of its turn; the last holds also of a call
  whose `realloc` fails, which has written the separator of that turn into
  the old buffer before.
* **`ListIsValid`**: `ciphers_valid` accepts the list `cipher_alg_list` built
  exactly when the separator was a comma or the list has one name. No build
  of this table gives a list of one name (with `auth_only` there are the two
  GCM ciphers, chacha20-poly1305 and the InterMAC ciphers), so the runs
  exercise the first alternative alone; the second is there because the
  statement would be wrong without it, not because TLC reaches it.
* **`MaskIsNegotiable`**: every number in the mask `cipher_mask_ssh1` returns
  is a cipher that `cipher_by_number` finds in this build's table, and
  `cipher_number` gives that number for its name in lower and in upper case.

Each property has a faulty variant of a modelled definition under which TLC
finds it violated (`mutants` in `PROJECT.json`).

### Findings

The seven `violation` runs each state one sentence of the repository's
specification (or of the code's own contract) and TLC shows the code does
otherwise; `findings` in `PROJECT.json` gives the lines.

`intermac_crypt` is a divergence between the specification and the code
rather than a defect a run of the program shows: `cipher.c` hands the
InterMAC session out through `cipher_get_intermac_context`, so a caller can
go to the library itself, and only a caller that uses the unified entry
point, as the specification describes it, meets the EVP path. The run offers
a length of 20 and one of 127 (a whole chunk), so that the refusal at line
633, the engine call at line 635 and the IV control at line 618 are all
reachable.

`transfer_errors` and the channel. For a cipher without IV bytes
(`cipher_get_keyiv_len` is 0: `arcfour`, `none`, chacha20-poly1305) the
hand-over of `CipherChannel` does not call `cipher_set_keyiv`: there is
nothing to import, and the call would fail for `arcfour` and for `none` with
libcrypto, which is what `transfer_errors` shows. So `InStep` and
`NoNonceReuse` check that the RC4 state carried by the key context puts the
new context where the old one was. In the build without libcrypto the
hand-over of an AES-CTR context does fail: `cipher_get_keyiv` exports 16
bytes of counter (line 752) and `cipher_set_keyiv` has no branch that takes
them back (it reaches `default:` at line 839); the connection closes and
no packet after such a hand-over is checked. `transfer_errors` is a run of
the libcrypto build; with the constants of the other build the same property
fails at line 839.

### What the properties do not reach

`hazards` in `PROJECT.json` names, for each hazard, the properties that fail
when it goes wrong, and says so where there is none:

* a refused `cipher_crypt` that has already stepped the GCM IV (line 618
  before line 633), and `dest` written before the tag is verified (line 635
  before line 640): the model does both as the code does, and only a caller
  that goes on after an error would see them; the channel gives up the
  connection, as the specification says the packet layer does;
* a call with `authlen = 0` on a cipher with a tag, and an `EVP_Cipher`
  failure that the `< 0` test takes for success: nothing in the code or the
  specification says what should happen instead;
* an IV imported long after it was exported, and a key context of another
  size than the announced one: errors of the caller that `cipher.c` has no
  means to detect;
* the wrap of the GCM invocation field and of the CTR counter: the counters
  are modelled modulo `CtrModulus` and do wrap in the runs, but the runs stay
  below `CtrModulus` blocks per connection, as the re-keying limit of the
  packet layer keeps a real one, so no key stream position comes round again
  and the wrap is not listed as a hazard of this file.

`TransferWithinBuffers` needs its condition on the size: for the protocol 1
triple DES `cipher_get_keyiv` never looks at `len` (line 788 passes the
constant 24 to `ssh1_3des_iv`), so a call with a shorter buffer writes 24
bytes and returns 0, where every other family answers
`SSH_ERR_INVALID_ARGUMENT`. The callers of this repository's specification
always pass the length `cipher_get_keyiv_len` gave, so this is listed as a
hazard (line 788) and not as a finding.

## 4. Bounds

| Constant | Value | Why it is enough |
|---|---|---|
| `Slots` | 1 | the functions touch one context; nothing is shared between contexts |
| `Ciphers` | one per family | the code dispatches on flags, `number`, `auth_len`, `discard_len` and the EVP type; the chosen ciphers cover every combination the table has. The channel of the libcrypto build has nine (the protocol 1 `des`, `3des` and `blowfish` among them) and leaves the InterMAC ciphers out: `cipher_crypt` does not serve them (`intermac_crypt`) |
| `Keys`, `Payloads`, `Passphrases` | 1 each | the code never compares their contents |
| `IVs` | 0 and `CtrModulus - 1` | the second makes the counters wrap on the first step |
| `Lens` | 16, 20 (and 0 in `context_plain`; 20, 127 in `intermac_crypt`) | a multiple of every block size, and a length that is not and that takes two counter blocks; 127 is one InterMAC chunk |
| `MaxCrypt` | 2 (3 without libcrypto) | a second call sees the state the first left: stepped IV, consumed GCM IV, moved chaining value |
| `MaxSeq` | 1 | two sequence numbers, for the call and for the packets the peer sealed: the matching one and another |
| `CtrModulus` | 4 (8 in the channel) | the width of the counters, small so that they wrap; the channel's three packets of up to two blocks stay below it, as the packet layer's re-keying limit keeps a real connection below 2^32 |
| `MaxPackets` | 3 | a packet before, one between and one after two hand-overs |
| `MaxHandOff` | 2 | one at each end, or two in a row at one |
| `MaxAttack` | 1 | one act of the attacker anywhere in the run; a second one acts on a connection the first already closed or left intact |
| `len` of `cipher_get_keyiv` | the announced length, one less, one more | the sizes the function tells apart: it compares `len` with the engine's length for equality |
| `avail` | 0, 3, 4, the whole packet | nothing, less than a length field, exactly a length field, everything: the values `cipher_get_length` and the packet layer tell apart |
| `UpperCaseOf` | empty; `DES`, `3DES`, `Blowfish` in the registry | the only function that folds case is `cipher_number`, which the registry run calls with the protocol 1 names |
| `Names`, `MaxTokens` | 6 names, 3 pieces | a valid name, a name with a tag, a protocol 1 name, `none`, an unknown name, the empty piece; three pieces put an empty piece between two names |
| `Seps` | `","` and `" "` | the separator `ciphers_valid` splits at, and another |
| `FailAts` | 0, 1, 2, 44 | `realloc` never failing, failing before anything is allocated, at the first turn that has a buffer to free, and at the last turn |

## 5. Fairness

`cipher.c` has no loop that waits and no scheduler: every function returns or
kills the process. What can wait is its caller. The packet layer's read loop
asks `cipher_get_length` again whenever more input has arrived and calls
`cipher_crypt` once a whole packet is there, and it does nothing else in
between; the transport under it delivers what was written to it. `FairSpec`
of `CipherChannel` states this as one weak fairness condition,
`WF_vars(Arrive \/ ReadLength \/ Receive)`: while the wire or the receiving
end can take a step, one is taken. Weak fairness is enough because none of
the three, once enabled, is disabled by anything but a step of the three or
the end of the connection. Nothing is assumed of the sender, of hand-overs,
of `Open` (the property speaks of a receiving end that has its context) or of
the attacker.

`EveryPacketArrives` is checked under `FairSpec` in `channel_plain`. The run
of the libcrypto build checks it under `FairReadsSpec`, which states the same
condition with the definition of weak fairness written out:

    FairReads == []<>~(CanArrive \/ CanReadLength \/ CanReceive) \/ []<><<Reads>>_vars

`WF_vars(Reads)` is `[]<>~ENABLED <<Reads>>_vars \/ []<><<Reads>>_vars`, and
`Reads` can take a step that changes a variable exactly when one of the three
guards holds (`Arrive` raises `avail`, `ReadLength` sets `packlen` or
`closed`, `Receive` shortens `wire`). With `WF_vars` TLC works out `ENABLED`
in every state by running the action, which through the step list of the EVP
path makes the run an order of magnitude too slow; the guards are read off
the state. That the two agree was confirmed on the build without libcrypto,
where both forms can be run: the guards equal `ENABLED <<Reads>>_vars` in
every reachable state.

A process that died stutters (`Dead`), and so does a connection that ended
(`Done`). The refinement `DeliversInOrder` is a safety property
(`AuthStream`'s specification has no fairness): the wire may lose everything.

## 6. Not modelled

* The arithmetic of the ciphers and the digest.
* The InterMAC library beyond the three calls `cipher.c` makes into it
  (`im_initialise`, `im_cleanup` and the name it is given): its source is not
  in this repository and the specification gives it a paragraph. A connection
  over an InterMAC cipher would need its chunk counter and what becomes of it
  in a hand-over, which nothing here states; `cipher.c` itself does not
  transform with it (`intermac_crypt`).
* The packet layer beyond its calls into `cipher.c`.
* Zeroing of memory before release (`explicit_bzero`): it has no effect the
  program can observe, and a property on it would repeat the calls.
* A hand-over in which a call fails half way, as a sequence of states: the
  importing process has nothing but the fresh context, and every failure
  ends the same way (the connection closes, `broken`), so `HandOff` is one
  step and its failures are those `cipher_get_keyiv` and `cipher_set_keyiv`
  return by themselves.
* Re-keying of a live connection. For `cipher.c` it is `cipher_free` and
  `cipher_init`, which are modelled; when the two ends switch keys is decided
  by the packet layer and key exchange, which are not in this repository.
  `cipher_init` on a pointer to a live context (line 457 overwrites it, and
  the old context is lost) is kept out by the guard of the action: the
  specification has a context created once and re-keying make a new one, so
  a model that allowed the call would only show `NoLeak` failing on a
  sequence the callers do not make.
* An export whose context goes on being used (`cipher_get_keyiv` steps a GCM
  context it reads): the hand-over the specification describes exports as the
  last act of a process. For the same reason an import takes what the last
  export gave and not a blob kept from earlier.
* What the packet layer does with a length between `cipher_get_length` and
  `cipher_crypt` (how many bytes it waits for, which bytes it then passes):
  lengths are symbolic, and a forged one that is in range leads to
  `cipher_crypt` on the packet as it is on the wire.
* A failure of `ssh1_3des_iv` beyond its return value, and the chaining
  values it might have written before it failed.
* The capacity of `dest` in `cipher_crypt`: the function has no parameter
  for it and writes `aadlen + len + authlen` bytes by contract. The buffers
  of the transfer functions are checked (`TransferWithinBuffers`) for callers
  that size them by the length functions; an import of a blob of another
  size is the caller's error, which `cipher_set_keyiv` and
  `cipher_set_keycontext` cannot see (they take no length).
* `OPENSSL_NO_BF`, `OPENSSL_NO_CAST`, `OPENSSL_NO_RC4` and builds without
  `OPENSSL_HAVE_EVPGCM` / `OPENSSL_HAVE_EVPCTR`: the optional algorithms are
  taken as present.

## 7. Plan

1. **`CipherContext`** (done): the context and every function on it, in the
   builds with and without libcrypto and with protocol 1.
2. **`CipherChannel`** and **`AuthStream`** (done for both builds, with
   partial arrival, `cipher_get_length` and liveness in the build without
   libcrypto and, with the fairness condition unfolded, in the build with
   libcrypto and protocol 1).
3. **`CipherRegistry`** (done): `cipher_alg_list`, `ciphers_valid` and the
   protocol 1 mask against the lookups.
4. **State transfer sizes** (done): the bytes each transfer function copies
   against the length the length functions announce.

What is left is outside the repository: the InterMAC library's chunk state
and the packet layer's re-keying protocol. Modelling either would be
modelling the specification's paragraph on it and none of this code.
