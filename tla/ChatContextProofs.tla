-------------------------- MODULE ChatContextProofs --------------------------
(***************************************************************************)
(* Proofs about ChatContext for every vocabulary, prompt length, context   *)
(* size, batch size and token budget, and about ChatServer for every set   *)
(* of clients besides.                                                     *)
(***************************************************************************)
EXTENDS ChatServer, SequenceTheorems, TLAPS

-----------------------------------------------------------------------------
(* What prepare_prompt cuts and keeps *)

\* A sequence is its prefix of any length followed by the rest.
LEMMA Cut ==
    ASSUME NEW S, NEW s \in Seq(S), NEW n \in 0 .. Len(s)
    PROVE  /\ Prefix(s, n) \in Seq(S) /\ Rest(s, n) \in Seq(S)
           /\ Len(Prefix(s, n)) = n /\ Len(Rest(s, n)) = Len(s) - n
           /\ \A i \in 1 .. n : Prefix(s, n)[i] = s[i]
           /\ Prefix(s, n) \o Rest(s, n) = s
<1>1. Len(s) \in Nat /\ Prefix(s, n) = SubSeq(s, 1, n)
  BY DEF Prefix
<1>2. \A i \in 1 .. Len(s) : s[i] \in S
  BY ElementOfSeq
<1>3. /\ Prefix(s, n) \in Seq(S) /\ Len(Prefix(s, n)) = n
      /\ \A i \in 1 .. n : Prefix(s, n)[i] = s[i]
  <2>1. \A i \in 1 .. n : s[i] \in S
    BY <1>1, <1>2
  <2>2. /\ SubSeq(s, 1, n) \in Seq(S)
        /\ Len(SubSeq(s, 1, n)) = IF 1 <= n THEN n - 1 + 1 ELSE 0
        /\ \A i \in 1 .. n - 1 + 1 : SubSeq(s, 1, n)[i] = s[1 + i - 1]
    BY <2>1, SubSeqProperties
  <2> QED BY <1>1, <2>2
<1>4. Rest(s, n) \in Seq(S) /\ Len(Rest(s, n)) = Len(s) - n
  <2>1. \A i \in n + 1 .. Len(s) : s[i] \in S
    BY <1>1, <1>2
  <2>2. /\ SubSeq(s, n + 1, Len(s)) \in Seq(S)
        /\ Len(SubSeq(s, n + 1, Len(s))) =
              IF n + 1 <= Len(s) THEN Len(s) - (n + 1) + 1 ELSE 0
    BY <1>1, <2>1, SubSeqProperties
  <2> QED BY <1>1, <2>2 DEF Rest
<1>5. Prefix(s, n) \o Rest(s, n) = s
  <2>1. SubSeq(s, 1, n) \o SubSeq(s, n + 1, Len(s)) = SubSeq(s, 1, Len(s))
    <3>1. 1 \in 1 .. Len(s) + 1 /\ n \in 1 - 1 .. Len(s) /\ Len(s) \in n .. Len(s)
      BY <1>1
    <3> QED BY <3>1, ConcatAdjacentSubSeq
  <2> QED BY <1>1, <2>1, SubSeqFull DEF Rest
<1> QED BY <1>3, <1>4, <1>5

\* Any cut of a sequence gives sequences, whatever the length asked for.
LEMMA CutTyped ==
    ASSUME NEW S, NEW s \in Seq(S), NEW n \in Nat
    PROVE  Prefix(s, n) \in Seq(S) /\ Rest(s, n) \in Seq(S)
<1>1. \A m \in 0 .. Len(s) : Prefix(s, m) \in Seq(S) /\ Rest(s, m) \in Seq(S)
  BY Cut
<1>2. CASE n \in 0 .. Len(s)
  BY <1>1, <1>2
<1>3. CASE n > Len(s)
  <2>1. Prefix(s, n) = s
    BY <1>3, SubSeqFull DEF Prefix
  <2>2. Rest(s, n) = <<>>
    <3>1. n + 1 \in Int /\ Len(s) \in Int /\ Len(s) < n + 1
      BY <1>3
    <3> QED BY <3>1, SubSeqEmpty DEF Rest
  <2> QED BY <2>1, <2>2, EmptySeq
<1> QED BY <1>2, <1>3

\* Concatenation associates (the library's fact, in the form used below).
LEMMA Regroup ==
    ASSUME NEW S, NEW s \in Seq(S), NEW t \in Seq(S), NEW u \in Seq(S)
    PROVE  (s \o t) \o u = s \o (t \o u)
BY ConcatAssociative

\* Up to their largest common prefix two sequences are cut to the same one.
LEMMA CommonCut ==
    ASSUME NEW S, NEW s \in Seq(S), NEW t \in Seq(S), NEW n \in Nat,
           IsCommon(s, t, n), NEW k \in 0 .. n
    PROVE  Prefix(s, k) = Prefix(t, k)
<1>1. k \in 0 .. Len(s) /\ k \in 0 .. Len(t)
  BY DEF IsCommon
<1>2. \A i \in 1 .. k : s[i] = t[i]
  BY DEF IsCommon
<1>3. /\ Prefix(s, k) \in Seq(S) /\ Len(Prefix(s, k)) = k
      /\ \A i \in 1 .. k : Prefix(s, k)[i] = s[i]
  BY <1>1, Cut
<1>4. /\ Prefix(t, k) \in Seq(S) /\ Len(Prefix(t, k)) = k
      /\ \A i \in 1 .. k : Prefix(t, k)[i] = t[i]
  BY <1>1, Cut
<1> QED BY <1>2, <1>3, <1>4, SeqEqual

\* Whatever the calls before have left, prepare_prompt makes sequences of it.
LEMMA PreparedTyped ==
    ASSUME TypeOK, NEW p \in Prompts, PreparePrompt(p)
    PROVE  /\ history' \in Seq(Tokens) /\ cache' \in Seq(Tokens)
           /\ logits' \in Seq(Tokens) /\ fresh' \in Seq(Tokens)
<1>1. p \in Seq(Tokens)
  BY DEF Prompts
<1>2. \A n \in Nat : /\ Prefix(history, n) \in Seq(Tokens)
                     /\ Prefix(cache, n) \in Seq(Tokens)
                     /\ Rest(p, n) \in Seq(Tokens)
  BY <1>1, CutTyped DEF TypeOK
<1>3. \A common \in 0 .. Len(history) :
          (IF common = Len(p) THEN common - 1 ELSE common) > 0 =>
             (IF common = Len(p) THEN common - 1 ELSE common) \in Nat
  BY DEF TypeOK
<1>4. \A common \in 0 .. Len(history) : common \in Nat
  BY DEF TypeOK
<1>5. <<>> \in Seq(Tokens)
  BY EmptySeq
<1> HIDE DEF Prefix, Rest
<1> QED
  BY <1>1, <1>2, <1>3, <1>4, <1>5 DEF PreparePrompt, memory, Flush, TypeOK

\* prepare_prompt leaves history and cache equal, and what it leaves of them
\* followed by prompt_new is the prompt.  When nothing is left to decode it has
\* touched nothing: the logits of the last call are those of the prompt.
LEMMA Prepared ==
    ASSUME TypeOK, history = cache, history # <<>> => logits = history,
           NEW p \in Prompts, PreparePrompt(p)
    PROVE  /\ history' \in Seq(Tokens) /\ logits' \in Seq(Tokens)
           /\ fresh' \in Seq(Tokens)
           /\ history' = cache' /\ history' \o fresh' = p
           /\ fresh' = <<>> => history' = p /\ logits' = p
<1>1. p \in Seq(Tokens) /\ p # <<>>
  BY DEF Prompts
<1>2. CASE history = <<>>
  <2>1. fresh' = p /\ history' = <<>> /\ cache' = <<>> /\ logits' = logits
    BY <1>2 DEF PreparePrompt, memory
  <2>2. <<>> \in Seq(Tokens) /\ <<>> \o p = p
    BY <1>1, EmptySeq, ConcatEmptySeq
  <2> QED BY <1>1, <2>1, <2>2 DEF TypeOK
<1>3. CASE history # <<>>
  <2>1. PICK common \in 0 .. Len(history) :
            /\ IsCommon(history, p, common)
            /\ IF common = Len(history)
               THEN fresh' = Rest(p, common) /\ UNCHANGED memory
               ELSE LET keep == IF common = Len(p) THEN common - 1 ELSE common IN
                    /\ UNCHANGED logits
                    /\ \/ /\ keep > 0 /\ TRUE \in Removal
                          /\ history' = Prefix(history, keep)
                          /\ cache' = Prefix(cache, keep)
                          /\ fresh' = Rest(p, keep)
                       \/ /\ keep = 0 \/ FALSE \in Removal
                          /\ Flush
                          /\ fresh' = p
    BY <1>3 DEF PreparePrompt
  <2>2. common \in Nat /\ common <= Len(p) /\ Len(p) \in Nat \ {0}
    BY <1>1, <2>1, EmptySeq DEF IsCommon
  <2>3. CASE common = Len(history)
    <3>1. Prefix(history, common) = Prefix(p, common)
      BY <1>1, <2>1, <2>2, CommonCut DEF TypeOK
    <3>2. Prefix(history, common) = history
      BY <2>3, SubSeqFull DEF Prefix, TypeOK
    <3>3. /\ Rest(p, common) \in Seq(Tokens) /\ history \o Rest(p, common) = p
      <4>1. common \in 0 .. Len(p)
        BY <2>2
      <4> QED BY <1>1, <4>1, <3>1, <3>2, Cut
    <3>4. UNCHANGED memory /\ fresh' = Rest(p, common)
      BY <2>1, <2>3
    <3>5. fresh' = <<>> => history = p
      BY <3>3, <3>4, ConcatEmptySeq DEF TypeOK
    <3> QED BY <1>3, <3>3, <3>4, <3>5 DEF memory, TypeOK
  <2>4. CASE common # Len(history)
    <3> DEFINE keep == IF common = Len(p) THEN common - 1 ELSE common
    <3>1. keep \in 0 .. common /\ keep < Len(p)
      BY <2>2
    <3>2. CASE /\ history' = Prefix(history, keep)
               /\ cache' = Prefix(cache, keep)
               /\ fresh' = Rest(p, keep)
      <4> HIDE DEF keep
      <4>1. keep \in 0 .. Len(history) /\ keep \in 0 .. Len(p)
        BY <2>1, <2>2, <3>1 DEF TypeOK
      <4>2. Prefix(history, keep) = Prefix(p, keep)
        BY <1>1, <2>1, <2>2, <3>1, CommonCut DEF TypeOK
      <4>3. /\ Prefix(p, keep) \in Seq(Tokens) /\ Rest(p, keep) \in Seq(Tokens)
            /\ Len(Rest(p, keep)) = Len(p) - keep
            /\ Prefix(p, keep) \o Rest(p, keep) = p
        BY <1>1, <4>1, Cut
      <4>4. Rest(p, keep) # <<>>
        BY <2>2, <3>1, <4>3, EmptySeq
      <4>5. UNCHANGED logits
        BY <2>1, <2>4
      <4> QED BY <3>2, <4>2, <4>3, <4>4, <4>5 DEF TypeOK
    <3>3. CASE Flush /\ fresh' = p
      <4>1. UNCHANGED logits
        BY <2>1, <2>4
      <4> QED BY <1>1, <3>3, <4>1, ConcatEmptySeq DEF Flush, TypeOK
    <3> QED BY <2>1, <2>4, <3>2, <3>3
  <2> QED BY <2>3, <2>4
<1> QED BY <1>2, <1>3

\* One batch of the prompt is decoded: a prefix of what is left to decode.
LEMMA Piece ==
    ASSUME TypeOK, todo # <<>>
    PROVE  LET piece == Prefix(todo, NBatch)
               rest  == Rest(todo, Len(piece)) IN
           /\ piece \in Seq(Tokens) /\ rest \in Seq(Tokens)
           /\ piece \o rest = todo
<1> DEFINE n == IF NBatch < Len(todo) THEN NBatch ELSE Len(todo)
<1>1. n \in 0 .. Len(todo) /\ todo \in Seq(Tokens)
  BY ContextAssumption DEF ContextAssumption, TypeOK
<1>2. Prefix(todo, NBatch) = Prefix(todo, n)
  BY <1>1 DEF Prefix
<1> HIDE DEF n
<1> QED BY <1>1, <1>2, Cut

-----------------------------------------------------------------------------
(* Whatever stop sequences the callers pass *)

\* Types, and that only a sampled token is decoded.
CallOK == TypeOK /\ (phase = "advance" => sampled # <<>>) /\ AbortedIsFlushed

\* A new session has neither history nor result.
LEMMA CallInitial == Init => CallOK
<1> SUFFICES ASSUME Init PROVE CallOK
  OBVIOUS
<1>1. /\ history \in Seq(Tokens) /\ cache \in Seq(Tokens)
      /\ logits \in Seq(Tokens) /\ full \in Seq(Tokens)
      /\ todo \in Seq(Tokens) /\ fresh \in Seq(Tokens)
      /\ sampled \in Seq(Tokens)
  <2>1. <<>> \in Seq(Tokens)
    BY EmptySeq
  <2>2. /\ history = <<>> /\ cache = <<>> /\ logits = <<>> /\ full = <<>>
        /\ todo = <<>> /\ fresh = <<>> /\ sampled = <<>>
    BY DEF Init
  <2> QED BY <2>1, <2>2, Zenon
<1>2. delivered \in Nat /\ kept \in 0 .. delivered
  <2>1. delivered = 0 /\ kept = 0
    BY DEF Init
  <2> QED BY <2>1
<1>3. abortable \in BOOLEAN /\ prefillOnly \in BOOLEAN /\ stops \in BOOLEAN
  BY Zenon DEF Init
<1>4. phase = "idle" /\ result = "none"
  BY DEF Init
<1> QED BY <1>1, <1>2, <1>3, <1>4 DEF CallOK, TypeOK, AbortedIsFlushed

\* One step per part of a call.
LEMMA CallInductive == CallOK /\ [Next]_vars => CallOK'
<1> SUFFICES ASSUME CallOK, [Next]_vars PROVE CallOK'
  OBVIOUS
<1> USE DEF CallOK
<1>0. <<>> \in Seq(Tokens)
  BY EmptySeq
<1>1. ASSUME Reset PROVE CallOK'
  BY <1>1, <1>0 DEF Reset, Flush, request, TypeOK, AbortedIsFlushed
<1>2. ASSUME NEW registered \in BOOLEAN, SetAbortCallback(registered)
      PROVE  CallOK'
  BY <1>2 DEF SetAbortCallback, memory, request, TypeOK, AbortedIsFlushed
<1>3. ASSUME NEW p \in Prompts, NEW only \in BOOLEAN,
             NEW withStops \in StopChoices, Begin(p, only, withStops)
      PROVE  CallOK'
  <2>1. /\ history' \in Seq(Tokens) /\ cache' \in Seq(Tokens)
        /\ logits' \in Seq(Tokens) /\ fresh' \in Seq(Tokens)
    BY <1>3, PreparedTyped DEF Begin
  <2>2. p \in Seq(Tokens) /\ withStops \in BOOLEAN
    BY ContextAssumption DEF ContextAssumption, Prompts
  <2>3. TypeOK'
    BY <1>3, <1>0, <2>1, <2>2 DEF Begin, TypeOK
  <2> QED BY <1>3, <2>3 DEF Begin, AbortedIsFlushed
<1>4. ASSUME PrefillPiece PROVE CallOK'
  <2> DEFINE piece == Prefix(todo, NBatch)
             rest  == Rest(todo, Len(piece))
  <2>1. piece \in Seq(Tokens) /\ rest \in Seq(Tokens)
    <3>1. todo \in Seq(Tokens) /\ NBatch \in Nat
      BY ContextAssumption DEF ContextAssumption, TypeOK
    <3>2. piece \in Seq(Tokens)
      BY <3>1, CutTyped
    <3>3. Len(piece) \in Nat
      BY <3>2
    <3> HIDE DEF piece
    <3> QED BY <3>1, <3>2, <3>3, CutTyped
  <2>2. cache \o piece \in Seq(Tokens) /\ history \o fresh \in Seq(Tokens)
    BY <2>1, ConcatProperties DEF TypeOK
  <2>3. UNCHANGED <<abortable, sampled, delivered, kept, request>>
    BY <1>4 DEF PrefillPiece
  <2> HIDE DEF piece, rest
  <2>4. CASE /\ Cancel \/ DecodeFails
             /\ UNCHANGED <<logits, todo>>
    BY <1>0, <2>3, <2>4
       DEF Cancel, DecodeFails, Flush, End, request, TypeOK, AbortedIsFlushed
  <2>5. CASE /\ cache' = cache \o piece
             /\ logits' = cache'
             /\ todo' = rest
             /\ \/ UNCHANGED <<history, phase, result>>
                \/ /\ history' = history \o fresh
                   /\ \/ End("ok")
                      \/ phase' = "sampler" /\ UNCHANGED result
    <3>1. phase = "prefill"
      BY <1>4 DEF PrefillPiece
    <3> QED
      BY <2>1, <2>2, <2>3, <2>5, <3>1 DEF End, request, TypeOK, AbortedIsFlushed
  <2> QED BY <1>4, <2>4, <2>5 DEF PrefillPiece, piece, rest
<1>5. ASSUME BuildSampler PROVE CallOK'
  BY <1>5 DEF BuildSampler, End, memory, request, TypeOK, AbortedIsFlushed
<1>6. ASSUME Sample PROVE CallOK'
  <2>1. UNCHANGED <<abortable, todo, request>> /\ phase = "decode"
    BY <1>6 DEF Sample
  <2>2. CASE End("ok") /\ UNCHANGED <<memory, sampled, delivered, kept>>
    BY <2>1, <2>2 DEF End, memory, request, TypeOK, AbortedIsFlushed
  <2>3. CASE Cancel /\ UNCHANGED <<logits, sampled, delivered, kept>>
    BY <1>0, <2>1, <2>3
       DEF Cancel, Flush, End, request, TypeOK, AbortedIsFlushed
  <2>4. CASE /\ \E t \in Tokens :
                   /\ sampled' = Append(sampled, t)
                   /\ history' = Append(history, t)
             /\ delivered' = delivered + 1
             /\ \/ /\ phase' = "advance"
                   /\ kept' = kept + 1
                   /\ UNCHANGED result
                \/ /\ stops
                   /\ kept' \in 0..kept
                   /\ End("ok")
             /\ UNCHANGED <<cache, logits>>
    <3>1. /\ sampled' \in Seq(Tokens) /\ sampled' # <<>>
          /\ history' \in Seq(Tokens)
      <4>1. PICK t \in Tokens :
               sampled' = Append(sampled, t) /\ history' = Append(history, t)
        BY <2>4
      <4>2. sampled \in Seq(Tokens) /\ history \in Seq(Tokens)
        BY DEF TypeOK
      <4> QED BY <4>1, <4>2, AppendProperties
    <3>2. delivered' \in Nat /\ kept' \in 0 .. delivered'
      BY <2>4 DEF TypeOK
    <3> QED
      BY <2>1, <2>4, <3>1, <3>2 DEF End, request, TypeOK, AbortedIsFlushed
  <2> QED BY <1>6, <2>2, <2>3, <2>4 DEF Sample
<1>7. ASSUME Advance PROVE CallOK'
  <2>1. /\ UNCHANGED <<abortable, todo, sampled, delivered, kept, request>>
        /\ phase = "advance"
    BY <1>7 DEF Advance
  <2>2. CASE /\ cache' = Append(cache, sampled[Len(sampled)])
             /\ logits' = cache'
             /\ phase' = "decode"
             /\ UNCHANGED <<history, result>>
    <3>1. sampled[Len(sampled)] \in Tokens
      BY <2>1, EmptySeq, ElementOfSeq DEF TypeOK
    <3>2. cache' \in Seq(Tokens)
      BY <2>2, <3>1, AppendProperties DEF TypeOK
    <3> QED BY <2>1, <2>2, <3>2 DEF request, TypeOK, AbortedIsFlushed
  <2>3. CASE DecodeFails /\ UNCHANGED logits
    BY <1>0, <2>1, <2>3
       DEF DecodeFails, Flush, End, request, TypeOK, AbortedIsFlushed
  <2> QED BY <1>7, <2>2, <2>3 DEF Advance
<1>8. CASE UNCHANGED vars
  BY <1>8 DEF vars, memory, request, TypeOK, AbortedIsFlushed
<1> QED
  BY <1>1, <1>2, <1>3, <1>4, <1>5, <1>6, <1>7, <1>8 DEF Next, Generate

\* The two facts combined.
LEMMA CallInvariance == Spec => []CallOK
BY CallInitial, CallInductive, PTL DEF Spec

\* No call leaves the session's state outside its types.
THEOREM ContextTypeCorrect == Spec => []TypeOK
<1>1. CallOK => TypeOK
  BY DEF CallOK
<1> QED BY CallInvariance, <1>1, PTL

\* An abort flushes the session, wherever it is noticed and whatever the
\* callers pass.
THEOREM ContextAbortFlushes == Spec => []AbortedIsFlushed
<1>1. CallOK => AbortedIsFlushed
  BY DEF CallOK
<1> QED BY CallInvariance, <1>1, PTL

-----------------------------------------------------------------------------
(* Without stop sequences *)

\* Callers pass none.  With them a match records a token that is not decoded.
NoStops == StopChoices \subseteq {FALSE}

\* What each part of a call has made of the context: how the history, the
\* cache and the logits relate to the prompt and to what was sampled.
ContextOK ==
    /\ ~stops
    /\ phase = "idle" => history = cache /\ (history # <<>> => logits = history)
    /\ phase = "prefill" =>
          /\ todo # <<>> /\ sampled = <<>>
          /\ cache \o todo = full /\ history \o fresh = full
    /\ phase = "sampler" =>
          sampled = <<>> /\ history = full /\ cache = full /\ logits = full
    /\ phase = "decode" =>
          /\ history = full \o sampled
          /\ cache = full \o sampled
          /\ logits = full \o sampled
    /\ phase = "advance" =>
          /\ history = full \o sampled
          /\ Append(cache, sampled[Len(sampled)]) = full \o sampled

\* The inductive invariant.
IInv == CallOK /\ ContextOK

\* A flushed session that has ended its call satisfies it trivially.
LEMMA Flushed ==
    ASSUME ContextOK, Flush, phase' = "idle", stops' = stops
    PROVE  ContextOK'
BY DEF Flush, ContextOK

\* Without stop sequences every step keeps the context what it should be.
LEMMA ContextInductive ==
    ASSUME NoStops
    PROVE  IInv /\ CallOK' /\ [Next]_vars => ContextOK'
<1> SUFFICES ASSUME IInv, CallOK', [Next]_vars PROVE ContextOK'
  OBVIOUS
<1> USE DEF IInv, CallOK
<1>0. <<>> \in Seq(Tokens)
  BY EmptySeq
<1>1. ASSUME Reset PROVE ContextOK'
  BY <1>1, Flushed DEF Reset, request
<1>2. ASSUME NEW registered \in BOOLEAN, SetAbortCallback(registered)
      PROVE  ContextOK'
  BY <1>2 DEF SetAbortCallback, memory, request, ContextOK
<1>3. ASSUME NEW p \in Prompts, NEW only \in BOOLEAN,
             NEW withStops \in StopChoices, Begin(p, only, withStops)
      PROVE  ContextOK'
  <2>1. /\ history' \in Seq(Tokens) /\ logits' \in Seq(Tokens)
        /\ fresh' \in Seq(Tokens)
        /\ history' = cache' /\ history' \o fresh' = p
        /\ fresh' = <<>> => history' = p /\ logits' = p
    BY <1>3, Prepared DEF Begin, ContextOK
  <2>2. /\ full' = p /\ todo' = fresh' /\ sampled' = <<>>
        /\ ~stops'
        /\ phase' = IF fresh' # <<>> THEN "prefill"
                    ELSE IF only THEN "idle" ELSE "sampler"
    BY <1>3 DEF Begin, NoStops
  <2>3. CASE fresh' # <<>>
    BY <2>1, <2>2, <2>3 DEF ContextOK
  <2>4. CASE fresh' = <<>>
    BY <2>1, <2>2, <2>4 DEF ContextOK
  <2> QED BY <2>3, <2>4
<1>4. ASSUME PrefillPiece PROVE ContextOK'
  <2> DEFINE piece == Prefix(todo, NBatch)
             rest  == Rest(todo, Len(piece))
  <2>1. /\ phase = "prefill"
        /\ todo # <<>> /\ sampled = <<>>
        /\ cache \o todo = full /\ history \o fresh = full
        /\ UNCHANGED <<sampled, full, fresh, stops>>
    BY <1>4 DEF PrefillPiece, ContextOK, request
  <2>2. /\ piece \in Seq(Tokens) /\ rest \in Seq(Tokens)
        /\ piece \o rest = todo
    BY <2>1, Piece
  <2> HIDE DEF piece, rest
  <2>3. (cache \o piece) \o rest = full
    <3>1. cache \in Seq(Tokens) /\ piece \in Seq(Tokens) /\ rest \in Seq(Tokens)
      BY <2>2 DEF TypeOK
    <3>2. (cache \o piece) \o rest = cache \o (piece \o rest)
      BY <3>1, Regroup
    <3> QED BY <2>1, <2>2, <3>2
  <2>4. CASE Cancel \/ DecodeFails
    BY <2>1, <2>4, Flushed DEF Cancel, DecodeFails, End
  <2>5. CASE /\ cache' = cache \o piece
             /\ logits' = cache'
             /\ todo' = rest
             /\ rest # <<>>
             /\ UNCHANGED <<history, phase, result>>
    BY <2>1, <2>3, <2>5 DEF ContextOK
  <2>6. CASE /\ cache' = cache \o piece
             /\ logits' = cache'
             /\ rest = <<>>
             /\ history' = history \o fresh
             /\ phase' \in {"idle", "sampler"}
    <3>1. cache' = full
      BY <2>2, <2>3, <2>6, ConcatProperties, ConcatEmptySeq DEF TypeOK
    <3> QED BY <2>1, <2>6, <3>1 DEF ContextOK
  <2> QED BY <1>4, <2>4, <2>5, <2>6 DEF PrefillPiece, End, piece, rest
<1>5. ASSUME BuildSampler PROVE ContextOK'
  <2>1. full \o <<>> = full
    BY ConcatEmptySeq DEF TypeOK
  <2> QED BY <1>5, <2>1 DEF BuildSampler, End, memory, request, ContextOK
<1>6. ASSUME Sample PROVE ContextOK'
  <2>1. /\ phase = "decode" /\ ~stops /\ UNCHANGED <<full, stops>>
        /\ history = full \o sampled
        /\ cache = full \o sampled
        /\ logits = full \o sampled
    BY <1>6 DEF Sample, ContextOK, request
  <2>2. CASE End("ok") /\ UNCHANGED <<memory, sampled, delivered, kept>>
    BY <2>1, <2>2 DEF End, memory, ContextOK
  <2>3. CASE Cancel
    BY <2>1, <2>3, Flushed DEF Cancel, End
  <2>4. ASSUME NEW t \in Tokens,
               sampled' = Append(sampled, t), history' = Append(history, t),
               phase' = "advance", UNCHANGED <<cache, logits>>
        PROVE  ContextOK'
    <3>1. Append(full \o sampled, t) = full \o Append(sampled, t)
      <4>1. full \o sampled \in Seq(Tokens) /\ <<t>> \in Seq(Tokens)
        BY ConcatProperties DEF TypeOK
      <4>2. /\ Append(full \o sampled, t) = (full \o sampled) \o <<t>>
            /\ Append(sampled, t) = sampled \o <<t>>
        BY <4>1, AppendIsConcat DEF TypeOK
      <4>3. sampled \in Seq(Tokens) /\ full \in Seq(Tokens)
        BY DEF TypeOK
      <4>4. (full \o sampled) \o <<t>> = full \o (sampled \o <<t>>)
        BY <4>1, <4>3, Regroup
      <4> QED BY <4>2, <4>4
    <3>2. sampled'[Len(sampled')] = t
      BY <2>4, AppendProperties DEF TypeOK
    <3> QED BY <2>1, <2>4, <3>1, <3>2 DEF ContextOK
  <2> QED BY <1>6, <2>1, <2>2, <2>3, <2>4 DEF Sample
<1>7. ASSUME Advance PROVE ContextOK'
  <2>1. /\ phase = "advance" /\ UNCHANGED <<sampled, full, stops>>
        /\ history = full \o sampled
        /\ Append(cache, sampled[Len(sampled)]) = full \o sampled
    BY <1>7 DEF Advance, ContextOK, request
  <2>2. CASE DecodeFails
    BY <2>1, <2>2, Flushed DEF DecodeFails, End
  <2>3. CASE /\ cache' = Append(cache, sampled[Len(sampled)])
             /\ logits' = cache'
             /\ phase' = "decode"
             /\ UNCHANGED history
    BY <2>1, <2>3 DEF ContextOK
  <2> QED BY <1>7, <2>2, <2>3 DEF Advance
<1>8. CASE UNCHANGED vars
  BY <1>8 DEF vars, memory, request, ContextOK
<1> QED
  BY <1>1, <1>2, <1>3, <1>4, <1>5, <1>6, <1>7, <1>8 DEF Next, Generate

\* From the empty session on.
LEMMA ContextInvariance ==
    ASSUME NoStops
    PROVE  Spec => []IInv
<1>1. Init => IInv
  BY CallInitial DEF Init, IInv, ContextOK
<1>2. IInv /\ [Next]_vars => IInv'
  BY CallInductive, ContextInductive DEF IInv
<1> QED BY <1>1, <1>2, PTL DEF Spec

\* Between two calls the history is what the cache holds, as long as callers
\* pass no stop sequences; the run of the same name shows that they must not.
THEOREM ContextHistoryIsCache ==
    ASSUME NoStops
    PROVE  Spec => []HistoryIsCache
<1>1. IInv => HistoryIsCache
  BY DEF IInv, ContextOK, HistoryIsCache
<1> QED BY ContextInvariance, <1>1, PTL

\* Every token is sampled from the logits of exactly its own context, however
\* much of that context is left over from earlier calls.
THEOREM ContextSampled ==
    ASSUME NoStops
    PROVE  Spec => []SampledInContext
<1>1. IInv => SampledInContext
  BY DEF IInv, ContextOK, SampledInContext
<1> QED BY ContextInvariance, <1>1, PTL

-----------------------------------------------------------------------------
(* The server, with stop sequences *)

\* What each part of a call that began on an empty session has made of the
\* cache and the logits; nothing is said of the history, which a stop
\* sequence leaves one token too long.
RunOK ==
    /\ phase = "prefill" => todo # <<>> /\ sampled = <<>> /\ cache \o todo = full
    /\ phase = "sampler" => sampled = <<>> /\ cache = full /\ logits = full
    /\ phase = "decode" => cache = full \o sampled /\ logits = full \o sampled
    /\ phase = "advance" => Append(cache, sampled[Len(sampled)]) = full \o sampled

\* chat_call_mutex is held by the one handler between its two calls, and the
\* session runs that handler's prompt or nothing.
HandlersOK ==
    /\ \A c \in Clients : at[c] \in {"locked", "reset", "generating"} <=> callLock = c
    /\ \A c \in Clients : at[c] \in {"parsed", "locked", "reset"} =>
          prompt[c] \in Prompts /\ stopping[c] \in StopChoices
    /\ \A c \in Clients : at[c] = "reset" => history = <<>> /\ cache = <<>>
    /\ phase # "idle" =>
          callLock \in Clients /\ at[callLock] = "generating" /\ full = prompt[callLock]

\* The inductive invariant of the server.
ServerIInv == CallOK /\ ServerTypeOK /\ HandlersOK /\ RunOK

\* A prompt has a token.
LEMMA PromptsNotEmpty == \A p \in Prompts : p \in Seq(Tokens) /\ p # <<>>
BY DEF Prompts

\* The handler that holds the lock is the only one inside its two calls.
LEMMA OneHandler ==
    ASSUME ServerTypeOK, HandlersOK, NEW c \in Clients, NEW d \in Clients,
           at[c] \in {"locked", "reset", "generating"},
           at[d] \in {"locked", "reset", "generating"}
    PROVE  c = d
BY DEF HandlersOK

\* A step of the session inside its generate call keeps the context right.
LEMMA RunInductive ==
    ASSUME TypeOK, TypeOK', RunOK, PrefillPiece \/ BuildSampler \/ Sample \/ Advance
    PROVE  RunOK' /\ UNCHANGED full /\ phase # "idle"
<1>1. UNCHANGED full /\ phase # "idle"
  BY DEF PrefillPiece, BuildSampler, Sample, Advance, request
<1>2. ASSUME phase' = "idle" PROVE RunOK'
  BY <1>2 DEF RunOK
<1>3. ASSUME PrefillPiece, phase' # "idle" PROVE RunOK'
  <2> DEFINE piece == Prefix(todo, NBatch)
             rest  == Rest(todo, Len(piece))
  <2>1. /\ phase = "prefill" /\ todo # <<>> /\ sampled = <<>>
        /\ cache \o todo = full
        /\ UNCHANGED sampled
    BY <1>3 DEF PrefillPiece, RunOK, request
  <2>2. piece \in Seq(Tokens) /\ rest \in Seq(Tokens) /\ piece \o rest = todo
    BY <2>1, Piece
  <2> HIDE DEF piece, rest
  <2>3. (cache \o piece) \o rest = full
    <3>1. cache \in Seq(Tokens) /\ piece \in Seq(Tokens) /\ rest \in Seq(Tokens)
      BY <2>2 DEF TypeOK
    <3>2. (cache \o piece) \o rest = cache \o (piece \o rest)
      BY <3>1, Regroup
    <3> QED BY <2>1, <2>2, <3>2
  <2>4. /\ cache' = cache \o piece /\ logits' = cache' /\ todo' = rest
        /\ rest # <<>> => phase' = phase
        /\ rest = <<>> => phase' = "sampler"
    BY <1>3 DEF PrefillPiece, Cancel, DecodeFails, End, piece, rest
  <2>5. CASE rest # <<>>
    BY <1>1, <2>1, <2>3, <2>4, <2>5 DEF RunOK
  <2>6. CASE rest = <<>>
    <3>1. cache' = full
      BY <2>2, <2>3, <2>4, <2>6, ConcatProperties, ConcatEmptySeq DEF TypeOK
    <3> QED BY <1>1, <2>1, <2>4, <2>6, <3>1 DEF RunOK
  <2> QED BY <2>5, <2>6
<1>4. ASSUME BuildSampler, phase' # "idle" PROVE RunOK'
  <2>1. full \o <<>> = full
    BY ConcatEmptySeq DEF TypeOK
  <2> QED BY <1>4, <2>1 DEF BuildSampler, End, memory, request, RunOK
<1>5. ASSUME Sample, phase' # "idle" PROVE RunOK'
  <2>1. PICK t \in Tokens :
           /\ sampled' = Append(sampled, t)
           /\ phase = "decode" /\ phase' = "advance" /\ UNCHANGED <<cache, full>>
    BY <1>5 DEF Sample, Cancel, End, request
  <2>2. Append(full \o sampled, t) = full \o Append(sampled, t)
    <3>1. full \in Seq(Tokens) /\ sampled \in Seq(Tokens) /\ <<t>> \in Seq(Tokens)
      BY DEF TypeOK
    <3>2. full \o sampled \in Seq(Tokens)
      BY <3>1, ConcatProperties
    <3>3. /\ Append(full \o sampled, t) = (full \o sampled) \o <<t>>
          /\ Append(sampled, t) = sampled \o <<t>>
      BY <3>1, <3>2, AppendIsConcat
    <3>4. (full \o sampled) \o <<t>> = full \o (sampled \o <<t>>)
      BY <3>1, Regroup
    <3> QED BY <3>3, <3>4
  <2>3. sampled'[Len(sampled')] = t
    BY <2>1, AppendProperties DEF TypeOK
  <2> QED BY <2>1, <2>2, <2>3 DEF RunOK
<1>6. ASSUME Advance, phase' # "idle" PROVE RunOK'
  BY <1>6 DEF Advance, DecodeFails, End, request, RunOK
<1> QED BY <1>1, <1>2, <1>3, <1>4, <1>5, <1>6

\* What a generate call on an empty session begins with.
LEMMA BeginsFromScratch ==
    ASSUME history = <<>>, cache = <<>>, TypeOK,
           NEW p \in Prompts, NEW s \in BOOLEAN, Begin(p, FALSE, s)
    PROVE  RunOK' /\ phase' = "prefill" /\ full' = p
<1>1. /\ fresh' = p /\ UNCHANGED memory /\ full' = p /\ todo' = fresh' /\ sampled' = <<>>
      /\ phase' = IF fresh' # <<>> THEN "prefill" ELSE "sampler"
  BY DEF Begin, PreparePrompt
<1>2. p \in Seq(Tokens) /\ p # <<>>
  BY PromptsNotEmpty
<1>3. <<>> \o p = p
  BY <1>2, ConcatEmptySeq
<1> QED BY <1>1, <1>2, <1>3 DEF RunOK, memory

\* The handlers' side of each step.
LEMMA ServerInductive == ServerIInv /\ [ServerNext]_allVars => ServerIInv'
<1> SUFFICES ASSUME ServerIInv, [ServerNext]_allVars PROVE ServerIInv'
  OBVIOUS
<1> USE DEF ServerIInv
<1>1. ASSUME NEW c \in Clients, Receive(c) PROVE ServerIInv'
  <2>1. UNCHANGED <<vars, callLock>> /\ at[c] = "none" /\ opened' \in BOOLEAN
    BY <1>1 DEF Receive, ServerTypeOK
  <2>2. CallOK' /\ TypeOK' /\ RunOK'
    BY <2>1, CallInductive DEF CallOK, RunOK, vars, memory, request
  <2>3. CASE UNCHANGED <<at, prompt, stopping>>
    BY <2>1, <2>2, <2>3 DEF ServerTypeOK, HandlersOK, vars, memory, request
  <2>4. ASSUME NEW p \in Prompts, NEW s \in StopChoices,
               at' = [at EXCEPT ![c] = "parsed"], prompt' = [prompt EXCEPT ![c] = p],
               stopping' = [stopping EXCEPT ![c] = s]
        PROVE  ServerIInv'
    <3>1. ServerTypeOK'
      <4>1. s \in BOOLEAN
        BY ContextAssumption DEF ContextAssumption
      <4>2. stopping' \in [Clients -> BOOLEAN]
        BY <2>4, <4>1 DEF ServerTypeOK
      <4>3. prompt' \in [Clients -> Prompts \cup {<<>>}] /\ at' \in [Clients -> Stages]
        BY <2>4 DEF ServerTypeOK, Stages
      <4> QED BY <2>1, <2>2, <4>2, <4>3 DEF ServerTypeOK
    <3>2. HandlersOK'
      <4>1. \A d \in Clients : d # c =>
               at'[d] = at[d] /\ prompt'[d] = prompt[d] /\ stopping'[d] = stopping[d]
        BY <2>4 DEF ServerTypeOK
      <4>2. at'[c] = "parsed" /\ prompt'[c] = p /\ stopping'[c] = s /\ callLock # c
        BY <2>1, <2>4 DEF ServerTypeOK, HandlersOK
      <4> QED BY <2>1, <4>1, <4>2 DEF HandlersOK, vars, memory, request
    <3> QED BY <2>2, <3>1, <3>2
  <2> QED BY <1>1, <2>3, <2>4 DEF Receive
<1>2. ASSUME NEW c \in Clients, Lock(c) PROVE ServerIInv'
  <2>1. UNCHANGED <<vars, opened, prompt, stopping>> /\ at[c] = "parsed"
        /\ callLock = Nobody /\ callLock' = c /\ at' = [at EXCEPT ![c] = "locked"]
    BY <1>2 DEF Lock
  <2>2. CallOK' /\ TypeOK' /\ RunOK'
    BY <2>1, CallInductive DEF CallOK, RunOK, vars, memory, request
  <2>3. ServerTypeOK'
    BY <2>1, <2>2 DEF ServerTypeOK, Stages
  <2>4. \A d \in Clients : callLock # d
    BY <2>1, ServerAssumption DEF ServerAssumption
  <2>5. HandlersOK'
    BY <2>1, <2>4 DEF ServerTypeOK, HandlersOK, vars, memory, request
  <2> QED BY <2>2, <2>3, <2>5
<1>3. ASSUME NEW c \in Clients, CallReset(c) PROVE ServerIInv'
  <2>1. Reset /\ UNCHANGED <<opened, callLock, prompt, stopping>> /\ at[c] = "locked"
        /\ at' = [at EXCEPT ![c] = "reset"]
    BY <1>3 DEF CallReset
  <2>2. CallOK' /\ TypeOK'
    BY <2>1, CallInductive DEF CallOK, Next
  <2>3. phase = "idle" /\ phase' = "idle" /\ history' = <<>> /\ cache' = <<>>
    BY <2>1 DEF Reset, Flush
  <2>4. RunOK'
    BY <2>3 DEF RunOK
  <2>5. ServerTypeOK'
    BY <2>1, <2>2 DEF ServerTypeOK, Stages
  <2>6. HandlersOK'
    BY <2>1, <2>3 DEF ServerTypeOK, HandlersOK
  <2> QED BY <2>2, <2>4, <2>5, <2>6
<1>4. ASSUME NEW c \in Clients, CallGenerate(c) PROVE ServerIInv'
  <2>1. /\ Begin(prompt[c], FALSE, stopping[c]) \/ UNCHANGED vars
        /\ UNCHANGED <<opened, callLock, prompt, stopping>> /\ at[c] = "reset"
        /\ at' = [at EXCEPT ![c] = "generating"]
    BY <1>4 DEF CallGenerate
  <2>2. /\ prompt[c] \in Prompts /\ stopping[c] \in StopChoices /\ callLock = c
        /\ history = <<>> /\ cache = <<>>
        /\ \A d \in Clients : at[d] \in {"locked", "reset", "generating"} => d = c
        /\ phase = "idle"
    BY <2>1 DEF HandlersOK
  <2>3. stopping[c] \in BOOLEAN
    BY DEF ServerTypeOK
  <2>4. CallOK' /\ TypeOK'
    BY <2>1, <2>2, CallInductive DEF CallOK, Next, Generate
  <2>5. RunOK' /\ (phase' # "idle" => full' = prompt[c])
    <3>1. CASE Begin(prompt[c], FALSE, stopping[c])
      BY <2>2, <2>3, <3>1, BeginsFromScratch DEF CallOK
    <3>2. CASE UNCHANGED vars
      BY <2>2, <3>2 DEF RunOK, vars
    <3> QED BY <2>1, <3>1, <3>2
  <2>6. ServerTypeOK'
    BY <2>1, <2>4 DEF ServerTypeOK, Stages
  <2>7. HandlersOK'
    BY <2>1, <2>2, <2>5 DEF ServerTypeOK, HandlersOK
  <2> QED BY <2>4, <2>5, <2>6, <2>7
<1>5. ASSUME Generating PROVE ServerIInv'
  <2>1. PICK c \in Clients : at[c] = "generating"
    BY <1>5 DEF Generating
  <2>2. PrefillPiece \/ BuildSampler \/ Sample \/ Advance
    BY <1>5 DEF Generating
  <2>3. UNCHANGED <<opened, callLock, at, prompt, stopping>>
    BY <1>5 DEF Generating, handler
  <2>4. CallOK' /\ TypeOK'
    BY <2>2, CallInductive DEF CallOK, Next
  <2>5. RunOK' /\ UNCHANGED full /\ phase # "idle"
    BY <2>2, <2>4, RunInductive DEF CallOK
  <2>6. \A d \in Clients : at[d] # "reset"
    BY <2>1, OneHandler
  <2>7. ServerTypeOK'
    BY <2>3, <2>4 DEF ServerTypeOK
  <2>8. HandlersOK'
    BY <2>3, <2>5, <2>6 DEF HandlersOK
  <2> QED BY <2>4, <2>5, <2>7, <2>8
<1>6. ASSUME NEW c \in Clients, Respond(c) PROVE ServerIInv'
  <2>1. /\ UNCHANGED <<vars, opened>> /\ at[c] = "generating" /\ phase = "idle"
        /\ callLock' = Nobody /\ at' = [at EXCEPT ![c] = "none"]
        /\ prompt' = [prompt EXCEPT ![c] = <<>>]
        /\ stopping' = [stopping EXCEPT ![c] = FALSE]
    BY <1>6 DEF Respond
  <2>2. CallOK' /\ TypeOK' /\ RunOK' /\ phase' = "idle"
    BY <2>1, CallInductive DEF CallOK, RunOK, vars, memory, request
  <2>3. ServerTypeOK'
    <3>1. prompt' \in [Clients -> Prompts \cup {<<>>}] /\ at' \in [Clients -> Stages]
      BY <2>1 DEF ServerTypeOK, Stages
    <3>2. stopping' \in [Clients -> BOOLEAN]
      BY <2>1 DEF ServerTypeOK
    <3> QED BY <2>1, <2>2, <3>1, <3>2 DEF ServerTypeOK
  <2>4. \A d \in Clients : at[d] \in {"locked", "reset", "generating"} => d = c
    BY <2>1, OneHandler
  <2>5. \A d \in Clients : d # c =>
           at'[d] = at[d] /\ prompt'[d] = prompt[d] /\ stopping'[d] = stopping[d]
    BY <2>1 DEF ServerTypeOK
  <2>6. at'[c] = "none" /\ \A d \in Clients : callLock' # d
    BY <2>1, ServerAssumption DEF ServerAssumption, ServerTypeOK
  <2>7. HandlersOK'
    BY <2>2, <2>4, <2>5, <2>6 DEF HandlersOK
  <2> QED BY <2>2, <2>3, <2>7
<1>7. CASE UNCHANGED allVars
  <2>1. UNCHANGED vars /\ UNCHANGED <<opened, callLock, at, prompt, stopping>>
    BY <1>7 DEF allVars, handler
  <2>2. CallOK' /\ TypeOK' /\ RunOK'
    BY <2>1, CallInductive DEF CallOK, RunOK, vars, memory, request
  <2> QED BY <2>1, <2>2 DEF ServerTypeOK, HandlersOK, vars, memory, request
<1> QED BY <1>1, <1>2, <1>3, <1>4, <1>5, <1>6, <1>7 DEF ServerNext

LEMMA ServerInitial == ServerInit => ServerIInv
<1> SUFFICES ASSUME ServerInit PROVE ServerIInv
  OBVIOUS
<1>1. CallOK /\ TypeOK /\ phase = "idle"
  BY CallInitial DEF ServerInit, CallOK, Init
<1>2. /\ opened = FALSE /\ callLock = Nobody
      /\ at = [c \in Clients |-> "none"]
      /\ prompt = [c \in Clients |-> <<>>]
      /\ stopping = [c \in Clients |-> FALSE]
  BY DEF ServerInit
<1>3. stopping \in [Clients -> BOOLEAN] /\ opened \in BOOLEAN
  BY <1>2, Zenon
<1>4. ServerTypeOK
  BY <1>1, <1>2, <1>3 DEF ServerTypeOK, Stages
<1>5. HandlersOK /\ RunOK
  BY <1>1, <1>2, ServerAssumption DEF HandlersOK, RunOK, ServerAssumption
<1> QED BY <1>1, <1>4, <1>5 DEF ServerIInv

LEMMA ServerInvariance == ServerSpec => []ServerIInv
BY ServerInitial, ServerInductive, PTL DEF ServerSpec

\* The handlers and the session keep their types.
THEOREM ChatServerTypeCorrect == ServerSpec => []ServerTypeOK
<1>1. ServerIInv => ServerTypeOK
  BY DEF ServerIInv
<1> QED BY ServerInvariance, <1>1, PTL

\* Whatever the number of clients, the session runs no prompt but that of the
\* handler that holds chat_call_mutex.
THEOREM ServerAnswersItsOwnPrompt == ServerSpec => []AnswersItsOwnPrompt
<1>1. ServerIInv => AnswersItsOwnPrompt
  BY ServerAssumption DEF ServerIInv, HandlersOK, AnswersItsOwnPrompt, ServerAssumption
<1> QED BY ServerInvariance, <1>1, PTL

\* With or without stop sequences, every token the server answers is sampled
\* from the logits of exactly its own prompt and answer: the reset makes up
\* for the history that a stop sequence leaves one token too long.
THEOREM ServerSampled == ServerSpec => []SampledInContext
<1>1. ServerIInv => SampledInContext
  BY DEF ServerIInv, RunOK, SampledInContext
<1> QED BY ServerInvariance, <1>1, PTL
=============================================================================
