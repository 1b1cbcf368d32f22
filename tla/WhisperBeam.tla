----------------------------- MODULE WhisperBeam -----------------------------
(***************************************************************************)
(* src/stelnettts.cpp, whisper_full: beam search over one self-attention   *)
(* cache.  The decoders share the cells of the cache; a cell belongs to    *)
(* the sequences whose ids it is tagged with.  At every step each live     *)
(* decoder draws continuations, the best candidates of all are dealt to    *)
(* the decoders, and the tags follow: decoder j may go on from the history *)
(* of any other, which itself goes on from a third.                        *)
(*                                                                         *)
(* A score is the order it puts the candidates in, any order being         *)
(* possible; different token sequences have different scores.  The content *)
(* of a cell is the token sequence it was computed from.  Whether a        *)
(* decoder is completed or failed makes no difference to the others, so    *)
(* both are "not live".                                                    *)
(***************************************************************************)
EXTENDS Integers, Sequences, FiniteSets, FiniteSetsExt, Functions

CONSTANTS
    Tokens,
    Calls  \* bounds: the sizes of a call, [dec, prompt, steps]

ASSUME BeamAssumption ==
    /\ IsFiniteSet(Tokens)
    /\ Calls \subseteq [dec : Nat \ {0}, prompt : Nat \ {0}, steps : Nat \ {0}]

VARIABLES
    call,     \* n_decoders_cur, prompt.size() and n_max
    kv,       \* kv_self: the cells in use, and where the next search begins
    seq,      \* seq[j]: the tokens of decoder j
    live,     \* the decoders that are neither completed nor failed
    step,     \* i
    stage,    \* "sample", "decode" or "done"
    offered   \* history: different candidates of the last step

beamVars == <<call, kv, seq, live, step, stage, offered>>

Dec == 0 .. call.dec - 1
Scratch(j) == call.dec + j  \* STELNETTTS_MAX_DECODERS + j

\* Mutant: the cache is not recreated when there are more decoders.
CellCountOfOne == call.prompt + call.steps

\* The cells of the cache, for the smallest text context that the call fits.
CellCount ==
    (call.prompt + call.steps) * (IF call.dec > 1 THEN call.dec + 2 ELSE 1)

----------------------------------------------------------------------------
\* whisper_kv_cache_seq_rm(s, -1, -1): cells that lose their last tag are
\* free, and the next search begins at the first of them.
SeqRm(k, s) ==
    LET freed == {c \in DOMAIN k.cells : k.cells[c].tags = {s}} IN
    [cells |-> [c \in (DOMAIN k.cells) \ freed |-> [k.cells[c] EXCEPT !.tags = @ \ {s}]],
     head |-> IF freed = {} THEN k.head ELSE Min(freed)]

\* whisper_kv_cache_seq_cp(from, to, -1, -1)
SeqCp(k, from, to) ==
    [cells |-> [c \in DOMAIN k.cells |->
                  [k.cells[c] EXCEPT !.tags = IF from \in @ THEN @ \cup {to} ELSE @]],
     head |-> 0]

\* Where n free cells in a row begin.
Slots(k, n) == {at \in 0 .. CellCount - n : (at .. at + n - 1) \cap DOMAIN k.cells = {}}

\* whisper_kv_cache_find_slot(): the first of them from the head on, or else
\* from the beginning.
FindSlot(k, n) ==
    LET ahead == {at \in Slots(k, n) : at >= k.head} IN
    IF ahead # {} THEN Min(ahead) ELSE Min(Slots(k, n))

\* How many members of S come before j: the turn of decoder j.
Rank(S, j) == Cardinality({l \in S : l < j})

\* whisper_decode_internal() of the last tokens of the decoders in `batch`,
\* in the order of their numbers, at position pos.
Decoded(k, batch, pos) ==
    LET n == Cardinality(batch)
        at == FindSlot(k, n)
        owner(c) == CHOOSE j \in batch : at + Rank(batch, j) = c
    IN
    [cells |-> [c \in DOMAIN k.cells \cup (at .. at + n - 1) |->
                  IF c \in DOMAIN k.cells THEN k.cells[c]
                  ELSE [pos |-> pos, tags |-> {owner(c)}, path |-> seq[owner(c)]]],
     head |-> at]

----------------------------------------------------------------------------
\* The prompt has been decoded into sequence 0 of an empty cache and copied
\* to the others.
BeamInit ==
    /\ call \in Calls
    /\ kv = [cells |-> [c \in 0 .. call.prompt - 1 |-> [pos |-> c, tags |-> Dec, path |-> <<>>]],
             head |-> 0]
    /\ seq = [j \in Dec |-> <<>>]
    /\ live = Dec
    /\ step = 0
    /\ stage = "sample"
    /\ offered = 1

\* The sequences that the live decoders propose when decoder j draws the
\* tokens offer[j] (drawing one twice adds no outcome).
Proposed(offer) == UNION {{Append(seq[j], t) : t \in offer[j]} : j \in live}

\* A candidate <<m, j>>: decoder j proposes the m-th best sequence.
Candidates(offer, order) ==
    {x \in (DOMAIN order) \X live : \E t \in offer[x[2]] : Append(seq[x[2]], t) = order[x[1]]}

\* The order of their scores, and of the decoders where scores are equal.
Before(x, y) == x[1] < y[1] \/ (x[1] = y[1] /\ x[2] < y[2])

\* Mutant: equal candidates are dealt like different ones.
DealtAlike(cands) == cands

\* After the first step a candidate equal to the one before is passed over.
Dealt(cands) ==
    IF step = 0 THEN cands
    ELSE {x \in cands : \A y \in cands : y[1] = x[1] => x[2] <= y[2]}

\* The bodies of the two loops over the decoders.
Save(k, j, src) ==
    IF j \in live THEN SeqCp(k, src[j], Scratch(j)) ELSE k

Move(k, j) ==
    IF j \in live THEN SeqRm(SeqCp(SeqRm(k, j), Scratch(j), j), Scratch(j)) ELSE k

\* Mutant: one loop over the decoders instead of two.
MoveOneByOne(src) ==
    LET moved[n \in 0 .. call.dec] ==
            IF n = 0 THEN kv ELSE Move(Save(moved[n - 1], n - 1, src), n - 1)
    IN  moved[call.dec]

\* First the histories of the chosen sources are tagged with scratch ids ...
SaveHistories(src) ==
    LET saved[n \in 0 .. call.dec] ==
            IF n = 0 THEN kv ELSE Save(saved[n - 1], n - 1, src)
    IN  saved[call.dec]

\* ... then every live decoder drops its own history for the one it was dealt.
MoveHistories(src) ==
    LET moved[n \in 0 .. call.dec] ==
            IF n = 0 THEN SaveHistories(src) ELSE Move(moved[n - 1], n - 1)
    IN  moved[call.dec]

\* How many of the candidates come before x.
Turn(cands, x) == Cardinality({y \in cands : Before(y, x)})

\* The live decoders take the candidates from the best on; when they run out,
\* from the best again.
Deal(cands) ==
    [j \in live |-> CHOOSE x \in cands : Turn(cands, x) = Rank(live, j) % Cardinality(cands)]

SampleAndDeal(offer, order) ==
    LET deal == Deal(Dealt(Candidates(offer, order))) IN
    /\ seq' = [j \in Dec |-> IF j \in live THEN order[deal[j][1]] ELSE seq[j]]
    /\ kv' = MoveHistories([j \in live |-> deal[j][2]])

\* Which of the different sequences score best, and how well each does, is
\* open; no more are dealt than there are live decoders.
Sample ==
    \E offer \in [live -> (SUBSET Tokens) \ {{}}] :
        LET seqs == Proposed(offer) IN
        \E order \in {o \in [1 .. Min({Cardinality(live), Cardinality(seqs)}) -> seqs] :
                        IsInjective(o)} :
            /\ stage = "sample"
            /\ SampleAndDeal(offer, order)
            /\ offered' = Cardinality(seqs)
            /\ stage' = "decode"
            /\ UNCHANGED <<call, live, step>>

\* Decoders end (completed or failed); the last tokens of the others are
\* decoded in one batch, at the next position.
DecodeNext(going) ==
    /\ stage = "decode"
    /\ live' = going
    /\ IF going = {}
       THEN stage' = "done" /\ UNCHANGED <<kv, step>>
       ELSE /\ Slots(kv, Cardinality(going)) # {}
            /\ kv' = Decoded(kv, going, call.prompt + step)
            /\ step' = step + 1
            /\ stage' = IF step + 1 = call.steps THEN "done" ELSE "sample"
    /\ UNCHANGED <<call, seq, offered>>

BeamNext == Sample \/ \E going \in SUBSET live : DecodeNext(going)

\* The specification.
BeamSpec == BeamInit /\ [][BeamNext]_beamVars

----------------------------------------------------------------------------
Cells == [pos : Nat, tags : SUBSET Nat, path : Seq(Tokens)]

\* Type invariant.
BeamTypeOK ==
    /\ call \in Calls
    /\ DOMAIN kv.cells \subseteq Nat /\ kv.head \in Nat
    /\ \A c \in DOMAIN kv.cells : kv.cells[c] \in Cells
    /\ seq \in [Dec -> Seq(Tokens)]
    /\ live \subseteq Dec
    /\ step \in 0 .. call.steps
    /\ stage \in {"sample", "decode", "done"}
    /\ offered \in Nat

\* The positions decoded so far.
Positions == 0 .. call.prompt + step - 1

\* The cells that decoder j attends to.
Attended(j) == {c \in DOMAIN kv.cells : j \in kv.cells[c].tags}

\* What decoder j attends to is its own history, exactly once: the cells
\* tagged with it hold the prompt and its tokens but the last, each computed
\* from the tokens before it, whoever computed it.  No scratch id is left.
OwnHistory ==
    /\ \A c \in DOMAIN kv.cells : kv.cells[c].tags \subseteq Dec
    /\ \A j \in live :
          /\ Cardinality(Attended(j)) = call.prompt + step
          /\ {[pos |-> kv.cells[c].pos, path |-> kv.cells[c].path] : c \in Attended(j)} =
                {[pos |-> p, path |-> SubSeq(seq[j], 1, p - call.prompt + 1)] : p \in Positions}

\* The cache is never too fragmented for the next batch.
SlotIsFound == stage # "done" => \A n \in 1 .. Cardinality(live) : Slots(kv, n) # {}

\* After the first step no two live decoders have the same tokens while
\* there was another candidate for one of them.
NoneDealtTwice ==
    stage = "decode" /\ step > 0 =>
        LET dealt == {seq[j] : j \in live} IN
        Cardinality(dealt) = Min({Cardinality(live), offered})
=============================================================================
