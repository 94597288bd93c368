--------------------------- MODULE CipherRegistry ---------------------------
(***************************************************************************)
(* The functions of cipher.c that build and check lists of cipher names:   *)
(* cipher_alg_list, which grows a buffer name by name, and ciphers_valid,  *)
(* which splits a caller's string at commas and looks every piece up.  A   *)
(* caller holds at most one list, which it owns until it frees it.  A      *)
(* protocol 1 server announces its ciphers with cipher_mask_ssh1.          *)
(***************************************************************************)
EXTENDS CipherTable

CONSTANTS
    Names,          \* the pieces of the strings callers pass to ciphers_valid
    Seps,           \* the separators callers pass to cipher_alg_list
    FailAts,        \* the turns of cipher_alg_list whose realloc may fail; 0 is none
    MaxTokens       \* bound: pieces in a string given to ciphers_valid

VARIABLES
    list,           \* the list the caller holds, or NULL
    heap,           \* the buffers that are allocated
    res             \* the last call: function, argument, return value

vars == <<list, heap, res>>

-----------------------------------------------------------------------------
\* cipher_alg_list.  The buffer: the names written, rlen, the size of the
\* allocation, whether a byte was written outside it, whether realloc failed.

NoBuffer == [names |-> << >>, rlen |-> 0, cap |-> 0, overrun |-> FALSE, failed |-> FALSE]

\* ret[rlen++] = sep: the separator goes into the old allocation, before the
\* realloc of the turn.
AlgListSeparator(b) ==
    IF b.names = << >> THEN b
    ELSE [b EXCEPT !.rlen = @ + 1, !.overrun = @ \/ b.rlen >= b.cap]

\* A faulty variant: room for the name and neither the separator nor the NUL.
AlgListAppendTight(b, c) ==
    LET cap == b.rlen + Len(c.name)
    IN  [b EXCEPT !.names = Append(@, c.name), !.rlen = @ + Len(c.name), !.cap = cap,
                  !.overrun = @ \/ b.rlen + Len(c.name) + 1 > cap]

\* The realloc that succeeds, and the memcpy of the name and its NUL into
\* the new allocation.
AlgListAppend(b, c) ==
    LET cap == b.rlen + Len(c.name) + 2
    IN  [b EXCEPT !.names = Append(@, c.name), !.rlen = @ + Len(c.name), !.cap = cap,
                  !.overrun = @ \/ b.rlen + Len(c.name) + 1 > cap]

\* One turn of the loop; the realloc of turn number failAt fails, after the
\* separator is written.
AlgListRow(b, c, auth_only, failAt) ==
    IF c.number # SSH_CIPHER_SSH2 \/ (auth_only /\ c.auth_len = 0) THEN b
    ELSE IF Len(b.names) + 1 = failAt THEN [AlgListSeparator(b) EXCEPT !.failed = TRUE]
    ELSE AlgListAppend(AlgListSeparator(b), c)

\* The turns of the loop for the rows lo..hi, in order, from buffer b; the
\* loop ends at the realloc that fails.  The rows are taken by halves, which
\* keeps TLC's evaluation shallow.
RECURSIVE AlgListRows(_, _, _, _, _)
AlgListRows(b, lo, hi, auth_only, failAt) ==
    IF lo = hi THEN AlgListRow(b, ciphers[lo], auth_only, failAt)
    ELSE LET mid  == (lo + hi) \div 2
             half == AlgListRows(b, lo, mid, auth_only, failAt)
         IN  IF half.failed THEN half
             ELSE AlgListRows(half, mid + 1, hi, auth_only, failAt)

AlgList(auth_only, failAt) == AlgListRows(NoBuffer, 1, Len(ciphers), auth_only, failAt)

\* A faulty variant: realloc fails and the buffer built so far is not freed.
AlgListKeptOnFailure(b) == IF b.names # << >> THEN {"list"} ELSE {}

\* What the call leaves allocated.
AlgListKept(b) == IF b.names # << >> /\ ~b.failed THEN {"list"} ELSE {}

-----------------------------------------------------------------------------
\* ciphers_valid.  A caller's string is the sequence of its pieces between
\* commas; the empty string is one empty piece.

\* The string cipher_alg_list built, as strsep cuts it: no name holds a
\* comma, so with another separator the string is one piece.
RECURSIVE Join(_, _)
Join(names, sep) ==
    IF Len(names) <= 1 THEN (IF names = << >> THEN "" ELSE names[1])
    ELSE LET mid == Len(names) \div 2
         IN  Join(SubSeq(names, 1, mid), sep) \o sep \o Join(SubSeq(names, mid + 1, Len(names)), sep)

Strsep(l) == IF l.sep = "," THEN l.names ELSE <<Join(l.names, l.sep)>>

\* A faulty variant: the test of the number is the wrong way round.
KnownLegacy(p) == cipher_by_name(p) # NULL /\ cipher_by_name(p).number # SSH_CIPHER_SSH2

Known(p) == cipher_by_name(p) # NULL /\ cipher_by_name(p).number = SSH_CIPHER_SSH2

\* The loop ends at the first empty piece.
ValidPieces(names) ==
    LET gap == SelectInSeq(names, LAMBDA p : p = "")
    IN  IF gap = 0 THEN names ELSE SubSeq(names, 1, gap - 1)

\* A faulty variant: a failing strdup reported with an error code.
CiphersValidErrCode(names, strdupFails) ==
    IF names = NULL \/ names = <<"">> THEN 0
    ELSE IF strdupFails THEN SSH_ERR_ALLOC_FAIL
    ELSE IF \A i \in DOMAIN ValidPieces(names) : Known(names[i]) THEN 1 ELSE 0

\* The early returns in their order: no string or an empty one, strdup
\* failing, a piece that is no protocol 2 cipher.
CiphersValid(names, strdupFails) ==
    IF names = NULL \/ names = <<"">> \/ strdupFails THEN 0
    ELSE IF \A i \in DOMAIN ValidPieces(names) : Known(names[i]) THEN 1 ELSE 0

-----------------------------------------------------------------------------
Called(op, arg, ret) == [op |-> op, arg |-> arg, ret |-> ret]

Strings == UNION {[1..n -> Names] : n \in 1..MaxTokens} \cup {NULL}

Init == list = NULL /\ heap = {} /\ res = Called("none", NULL, 0)

cipher_alg_list ==
    /\ list = NULL
    /\ \E sep \in Seps, auth_only \in BOOLEAN, failAt \in FailAts :
          LET b == AlgList(auth_only, failAt) IN
            /\ list' = IF b.failed \/ b.names = << >> THEN NULL
                       ELSE [sep |-> sep, auth_only |-> auth_only, names |-> b.names,
                             rlen |-> b.rlen]
            /\ heap' = heap \cup AlgListKept(b)
            /\ res' = Called("cipher_alg_list", [failAt |-> failAt, overrun |-> b.overrun],
                             list' # NULL)

\* The caller frees its list.
Free ==
    /\ list # NULL
    /\ list' = NULL /\ heap' = heap \ {"list"}
    /\ res' = Called("free", NULL, 0)

\* The string is the caller's own, or the list it holds.
ciphers_valid ==
    /\ \E names \in Strings \cup {Strsep(l) : l \in {list} \ {NULL}}, fails \in BOOLEAN :
          res' = Called("ciphers_valid", [names |-> names, fails |-> fails],
                        CiphersValid(names, fails))
    /\ UNCHANGED <<list, heap>>

\* A protocol 1 end computes the mask of the ciphers it announces.
Announce ==
    /\ \E client \in BOOLEAN :
          res' = Called("cipher_mask_ssh1", client, cipher_mask_ssh1(client))
    /\ UNCHANGED <<list, heap>>

Next == cipher_alg_list \/ Free \/ ciphers_valid \/ Announce

Spec == Init /\ [][Next]_vars

-----------------------------------------------------------------------------
\* Properties.

\* The type invariant.
TypeOK ==
    /\ list # NULL => /\ list.sep \in Seps /\ list.auth_only \in BOOLEAN
                      /\ list.names \in Seq({c.name : c \in Range(ciphers)})
                      /\ list.rlen \in Nat
    /\ heap \subseteq {"list"}
    /\ res.op \in {"none", "cipher_alg_list", "free", "ciphers_valid", "cipher_mask_ssh1"}
    /\ res.op = "ciphers_valid" => res.ret \in {0, 1} /\ res.arg.fails \in BOOLEAN
    /\ res.op = "cipher_alg_list" =>
          res.ret = (list # NULL) /\ res.arg \in [failAt : FailAts, overrun : BOOLEAN]

\* Whether realloc fails at the first name, at a later one or never,
\* cipher_alg_list leaves allocated the list it returns and nothing else:
\* the failing exit at line 280 frees what the turns before it built.
ListOwned == heap = IF list = NULL THEN {} ELSE {"list"}

\* The names a list must hold, in the order of the table.
Listed(auth_only) ==
    SelectSeq(ciphers, LAMBDA c : c.number = SSH_CIPHER_SSH2 /\ (auth_only => c.auth_len # 0))

\* A list cipher_alg_list returns holds the names of the protocol 2 ciphers
\* (those with a tag when auth_only), each once and in table order; rlen is
\* the length of the string; and no byte of it, separator, name or NUL, was
\* written outside the allocation of its turn, in a call whose realloc
\* fails no more than in one that returns a list (lines 276-285).
AlgListSound ==
    /\ res.op = "cipher_alg_list" => ~res.arg.overrun
    /\ list # NULL =>
        /\ list.names = [i \in DOMAIN Listed(list.auth_only) |-> Listed(list.auth_only)[i].name]
        /\ list.rlen = Len(Join(list.names, list.sep))

\* What cipher_alg_list builds with a comma ciphers_valid accepts, and a list
\* of several names built with another separator it rejects: the two
\* functions agree on the table and on the separator.
ListIsValid ==
    \A l \in {list} \ {NULL} :
        (res.op = "ciphers_valid" /\ res.arg.names = Strsep(l) /\ ~res.arg.fails)
        => (res.ret = 1) = (l.sep = "," \/ Len(l.names) = 1)

\* The numbers whose bit is set in a mask (`1 << n` of an int is defined up
\* to n = 30), and the ways a name is spelled.
Bits(mask) == {n \in 0..30 : (mask \div 2^n) % 2 = 1}

Spellings(name) == {name} \cup {s \in DOMAIN UpperCaseOf : UpperCaseOf[s] = name}

\* What cipher_mask_ssh1 announces can be negotiated: every number of the
\* mask is a cipher of this build's table (cipher_by_number finds it), and
\* cipher_number gives that number for the cipher's name however the peer's
\* configuration spells it.  The mask is written apart from the table and
\* from the conditional rows of protocol 1.
MaskIsNegotiable ==
    res.op = "cipher_mask_ssh1" =>
        \A n \in Bits(res.ret) :
            /\ cipher_by_number(n) # NULL
            /\ \A s \in Spellings(cipher_name(n)) : cipher_number(s) = n

-----------------------------------------------------------------------------
\* What the specification of the repository says and the code does not do.

\* "validate fails (returns false) on empty input or any unknown/legacy-class
\* name": when ciphers_valid returns 1, every name in the string, before or
\* after an empty piece, is the name of a protocol 2 cipher.
ValidRejectsUnknown ==
    (res.op = "ciphers_valid" /\ res.ret = 1)
    => \A i \in DOMAIN res.arg.names : res.arg.names[i] # "" => Known(res.arg.names[i])
=============================================================================
