--------------------------- MODULE DecodingProofs ---------------------------
(***************************************************************************)
(* Proofs about the two ways the engine saves forward passes.              *)
(* SpeculativeDecoding, for any vocabulary, prompts, number of proposed    *)
(* tokens and max_tokens, and a draft model whose only state is its KV     *)
(* cache: during a round every sequence of interest (text, target cache,   *)
(* contexts of the predictions) is a prefix of the draft's cache.  And     *)
(* PrefixMap, the abstract prefix cache, for any keys and limits.          *)
(***************************************************************************)
EXTENDS SpeculativeDecoding, QueueAndSumProofs

----------------------------------------------------------------------------
(* Prefixes. *)

First(s, n) == SubSeq(s, 1, n)

(* The first n elements, position by position. *)
LEMMA FirstFacts ==
    ASSUME NEW S, NEW s \in Seq(S), NEW n \in 0..Len(s)
    PROVE  /\ First(s, n) \in Seq(S) /\ Len(First(s, n)) = n
           /\ \A i \in 1..n : First(s, n)[i] = s[i]
<1>1. Len(s) \in Nat /\ \A i \in 1..n : s[i] \in S
  BY LenProperties, ElementOfSeq
<1>2. /\ SubSeq(s, 1, n) \in Seq(S)
      /\ Len(SubSeq(s, 1, n)) = IF 1 <= n THEN n - 1 + 1 ELSE 0
      /\ \A i \in 1..(n - 1 + 1) : SubSeq(s, 1, n)[i] = s[1 + i - 1]
  BY <1>1, SubSeqProperties
<1> QED
  BY <1>1, <1>2 DEF First

(* Sequences with equal lengths and elements are equal. *)
LEMMA SameSeq ==
    ASSUME NEW S, NEW s \in Seq(S), NEW u \in Seq(S), Len(s) = Len(u),
           \A i \in 1..Len(s) : s[i] = u[i]
    PROVE  s = u
BY SeqEqual

LEMMA FirstWhole ==
    ASSUME NEW S, NEW s \in Seq(S)
    PROVE  First(s, Len(s)) = s
<1>1. Len(s) \in 0..Len(s)
  BY LenProperties
<1> QED
  BY <1>1, FirstFacts, SameSeq

LEMMA FirstExtends ==
    ASSUME NEW S, NEW s \in Seq(S), NEW n \in Nat, n + 1 <= Len(s)
    PROVE  Append(First(s, n), s[n + 1]) = First(s, n + 1)
<1>1. n \in 0..Len(s) /\ n + 1 \in 0..Len(s) /\ n + 1 \in 1..Len(s) /\ Len(s) \in Nat
  BY LenProperties
<1>2. s[n + 1] \in S
  BY <1>1, ElementOfSeq
<1> DEFINE f == First(s, n)
           g == First(s, n + 1)
           a == Append(f, s[n + 1])
<1>3. f \in Seq(S) /\ Len(f) = n /\ \A i \in 1..n : f[i] = s[i]
  BY <1>1, FirstFacts
<1>4. g \in Seq(S) /\ Len(g) = n + 1 /\ \A i \in 1..(n + 1) : g[i] = s[i]
  BY <1>1, FirstFacts
<1> HIDE DEF f, g
<1>5. /\ a \in Seq(S) /\ Len(a) = Len(f) + 1
      /\ \A i \in 1..Len(f) : a[i] = f[i]
      /\ a[Len(f) + 1] = s[n + 1]
  BY <1>2, <1>3, AppendProperties
<1> HIDE DEF a
<1>6. \A i \in 1..Len(a) : a[i] = g[i]
  <2> SUFFICES ASSUME NEW i \in 1..(n + 1) PROVE a[i] = g[i]
    BY <1>3, <1>5
  <2>1. CASE i = n + 1
    BY <2>1, <1>3, <1>4, <1>5
  <2>2. CASE i # n + 1
    <3>1. i \in 1..n
      BY <2>2
    <3> QED
      BY <3>1, <1>3, <1>4, <1>5
  <2> QED
    BY <2>1, <2>2
<1>7. a = g
  BY <1>3, <1>4, <1>5, <1>6, SameSeq
<1> QED
  BY <1>7 DEF a, f, g

LEMMA FirstOfAppend ==
    ASSUME NEW S, NEW s \in Seq(S), NEW x \in S, NEW n \in 0..Len(s)
    PROVE  First(Append(s, x), n) = First(s, n)
<1> DEFINE a == Append(s, x)
<1>1. a \in Seq(S) /\ Len(a) = Len(s) + 1 /\ (\A i \in 1..Len(s) : a[i] = s[i]) /\ Len(s) \in Nat
  BY AppendProperties, LenProperties
<1> HIDE DEF a
<1>2. n \in 0..Len(a)
  BY <1>1
<1>3. First(a, n) \in Seq(S) /\ Len(First(a, n)) = n /\ \A i \in 1..n : First(a, n)[i] = a[i]
  BY <1>1, <1>2, FirstFacts
<1>4. First(s, n) \in Seq(S) /\ Len(First(s, n)) = n /\ \A i \in 1..n : First(s, n)[i] = s[i]
  BY FirstFacts
<1>5. \A i \in 1..n : i \in 1..Len(s)
  BY <1>1
<1>6. \A i \in 1..Len(First(a, n)) : First(a, n)[i] = First(s, n)[i]
  BY <1>1, <1>3, <1>4, <1>5
<1>7. First(a, n) = First(s, n)
  BY <1>3, <1>4, <1>6, SameSeq
<1> QED
  BY <1>7 DEF a

LEMMA ConcatAppend ==
    ASSUME NEW S, NEW s \in Seq(S), NEW u \in Seq(S), NEW x \in S
    PROVE  s \o Append(u, x) = Append(s \o u, x)
<1> DEFINE v == Append(u, x)
           c == s \o u
           l == s \o v
           r == Append(c, x)
<1>1. Len(s) \in Nat /\ Len(u) \in Nat
  BY LenProperties
<1>2. /\ v \in Seq(S) /\ Len(v) = Len(u) + 1 /\ v[Len(u) + 1] = x
      /\ \A i \in 1..Len(u) : v[i] = u[i]
  BY AppendProperties
<1> HIDE DEF v
<1>3. /\ c \in Seq(S) /\ Len(c) = Len(s) + Len(u)
      /\ \A i \in 1..(Len(s) + Len(u)) : c[i] = IF i <= Len(s) THEN s[i] ELSE u[i - Len(s)]
  BY ConcatProperties
<1> HIDE DEF c
<1>4. /\ l \in Seq(S) /\ Len(l) = Len(s) + Len(v)
      /\ \A i \in 1..(Len(s) + Len(v)) : l[i] = IF i <= Len(s) THEN s[i] ELSE v[i - Len(s)]
  BY <1>2, ConcatProperties
<1>5. /\ r \in Seq(S) /\ Len(r) = Len(c) + 1 /\ r[Len(c) + 1] = x
      /\ \A i \in 1..Len(c) : r[i] = c[i]
  BY <1>3, AppendProperties
<1> HIDE DEF l, r
<1>6. ASSUME NEW i \in 1..Len(l) PROVE l[i] = r[i]
  <2>0. i \in 1..(Len(s) + Len(u) + 1)
    BY <1>1, <1>2, <1>4
  <2>1. CASE i = Len(s) + Len(u) + 1
    <3>1. ~(i <= Len(s)) /\ i - Len(s) = Len(u) + 1 /\ i \in 1..(Len(s) + Len(v))
      BY <2>1, <1>1, <1>2
    <3>2. l[i] = x
      BY <3>1, <1>2, <1>4
    <3> QED
      BY <3>2, <2>1, <1>3, <1>5
  <2>2. CASE i # Len(s) + Len(u) + 1
    <3>1. i \in 1..(Len(s) + Len(u)) /\ i \in 1..(Len(s) + Len(v))
      BY <2>0, <2>2, <1>1, <1>2
    <3>2. r[i] = IF i <= Len(s) THEN s[i] ELSE u[i - Len(s)]
      BY <3>1, <1>3, <1>5
    <3>3. l[i] = IF i <= Len(s) THEN s[i] ELSE v[i - Len(s)]
      BY <3>1, <1>4
    <3>4. ~(i <= Len(s)) => i - Len(s) \in 1..Len(u)
      BY <3>1, <1>1
    <3> QED
      BY <3>2, <3>3, <3>4, <1>2
  <2> QED
    BY <2>1, <2>2
<1>7. Len(l) = Len(r)
  BY <1>1, <1>2, <1>3, <1>4, <1>5
<1>8. l = r
  BY <1>4, <1>5, <1>6, <1>7, SameSeq
<1> QED
  BY <1>8 DEF l, r, v, c

----------------------------------------------------------------------------
(* The inductive invariant.                                                *)

Text == prompt \o out

Rounds == {"propose", "verify", "commit"}

(* While a round is under way the draft's cache is the text at its start   *)
(* followed by the proposal, and everything else is a prefix of it.        *)
RoundInv ==
    /\ Len(draft) = committed + Len(proposal)
    /\ \A i \in 1..Len(proposal) : draft[committed + i] = proposal[i]
    /\ target = First(draft, committed + accepted) /\ targetNext = target
    /\ Len(judged) = accepted
    /\ \A n \in 1..accepted : judged[n] = First(draft, committed + n - 1)
    /\ Text = First(draft, Len(prompt) + Len(out))
    /\ committed <= Len(prompt) + Len(out)
    /\ Len(prompt) + Len(out) <= committed + accepted
    /\ committed + Len(proposal) <= Len(prompt) + MaxTokens
    /\ pc # "commit" => committed = Len(prompt) + Len(out) /\ bonus = None
    /\ pc = "propose" => accepted = 0

BonusInv ==
    /\ committed = Len(prompt) + Len(out) /\ Len(out) < MaxTokens
    /\ committed <= Len(draft) /\ First(draft, committed) = Text
    /\ target = Text /\ targetNext = target

EmitInv ==
    /\ committed = Len(prompt) + Len(out) /\ Len(out) < MaxTokens
    /\ committed <= Len(draft) /\ First(draft, committed) = Text
    /\ bonus \in Tokens
    /\ target = Append(Text, bonus) /\ targetNext = target
    /\ Len(judged) >= 1 /\ judged[Len(judged)] = Text

SyncInv ==
    /\ committed = Len(prompt) + Len(out) /\ committed >= 1
    /\ committed - 1 <= Len(draft) /\ bonus \in Tokens
    /\ Append(First(draft, committed - 1), bonus) = Text
    /\ target = Text /\ targetNext = target

IInv ==
    /\ TypeOK
    /\ pc = "prefill" => draft = <<>> /\ target = <<>> /\ out = <<>>
    /\ Aligned
    /\ pc \in Rounds => RoundInv
    /\ pc = "bonus" => BonusInv
    /\ pc = "emit" => EmitInv
    /\ pc = "sync" => SyncInv

(* What a step may use of the type invariant. *)
LEMMA TypeFacts ==
    ASSUME TypeOK
    PROVE  /\ prompt \in Seq(Tokens) /\ out \in Seq(Tokens)
           /\ draft \in Seq(Tokens) /\ target \in Seq(Tokens) /\ proposal \in Seq(Tokens)
           /\ Text \in Seq(Tokens) /\ Len(Text) = Len(prompt) + Len(out)
           /\ Len(prompt) \in Nat /\ Len(out) \in Nat /\ Len(draft) \in Nat
           /\ Len(proposal) \in Nat /\ accepted \in Nat /\ accepted <= Len(proposal)
           /\ committed \in Nat /\ MaxTokens \in Nat /\ Len(out) <= MaxTokens
           /\ judged \in Seq(Contexts) /\ Len(judged) \in Nat /\ seen \in Seq(Contexts)
           /\ \A n \in 1..Len(judged) : judged[n] \in Contexts
<1>1. /\ prompt \in Seq(Tokens) /\ out \in Seq(Tokens)
      /\ draft \in Seq(Tokens) /\ target \in Seq(Tokens) /\ proposal \in Seq(Tokens)
      /\ judged \in Seq(Contexts) /\ seen \in Seq(Contexts)
      /\ accepted \in 0..Len(proposal) /\ committed \in Nat /\ Len(out) <= MaxTokens
  BY DEF TypeOK
<1>2. /\ Len(prompt) \in Nat /\ Len(out) \in Nat /\ Len(draft) \in Nat
      /\ Len(proposal) \in Nat /\ Len(judged) \in Nat
  BY <1>1, LenProperties
<1>3. Text \in Seq(Tokens) /\ Len(Text) = Len(prompt) + Len(out)
  BY <1>1, ConcatProperties DEF Text
<1>4. \A n \in 1..Len(judged) : judged[n] \in Contexts
  BY <1>1, ElementOfSeq
<1>5. MaxTokens \in Nat
  BY SpeculationAssumption
<1> QED
  BY <1>1, <1>2, <1>3, <1>4, <1>5

(* Emitting one more token appends it to the text. *)
LEMMA TextGrows ==
    ASSUME TypeOK, NEW t \in Tokens, out' = Append(out, t), prompt' = prompt
    PROVE  Text' = Append(Text, t) /\ out' \in Seq(Tokens) /\ Len(out') = Len(out) + 1
<1>1. prompt \in Seq(Tokens) /\ out \in Seq(Tokens)
  BY TypeFacts
<1>2. prompt \o Append(out, t) = Append(prompt \o out, t)
  BY <1>1, ConcatAppend
<1>3. Append(out, t) \in Seq(Tokens) /\ Len(Append(out, t)) = Len(out) + 1
  BY <1>1, AppendProperties
<1> QED
  BY <1>2, <1>3 DEF Text

LEMMA InitIInv == Init => IInv
<1> SUFFICES ASSUME Init PROVE IInv
  OBVIOUS
<1>1. /\ <<>> \in Seq(Tokens) /\ Len(<<>>) = 0 /\ <<>> \in Seq(Contexts) /\ 0 \in 0..Len(<<>>)
      /\ None \in Contexts
  BY EmptySeq DEF Contexts
<1>2. 0 <= MaxTokens /\ 0 \in 0..MaxFaults
  BY SpeculationAssumption
<1>3. TypeOK
  BY <1>1, <1>2 DEF Init, TypeOK
<1> QED
  BY <1>3 DEF Init, IInv, Aligned, Rounds

----------------------------------------------------------------------------
(* One lemma for each action.                                              *)

LEMMA CallStep ==
    ASSUME IInv, NEW p \in Prompts, Call(p)
    PROVE  IInv'
<1>1. /\ <<>> \in Seq(Tokens) /\ Len(<<>>) = 0 /\ <<>> \in Seq(Contexts) /\ 0 \in 0..Len(<<>>)
      /\ None \in Contexts
  BY EmptySeq DEF Contexts
<1>2. 0 <= MaxTokens /\ p \in Seq(Tokens)
  BY SpeculationAssumption
<1>3. TypeOK'
  BY <1>1, <1>2 DEF IInv, TypeOK, Call, NewRound
<1> QED
  BY <1>3 DEF IInv, Call, Aligned, Rounds

LEMMA PrefillStep ==
    ASSUME IInv, Prefill
    PROVE  IInv'
<1>1. /\ draft = <<>> /\ target = <<>> /\ out = <<>> /\ prompt \in Seq(Tokens)
      /\ Len(prompt) \in Nat
  BY TypeFacts DEF IInv, Prefill, Goto
<1>2. <<>> \o prompt = prompt /\ prompt \o <<>> = prompt /\ Len(<<>>) = 0
  BY <1>1, ConcatEmptySeq, EmptySeq
<1>3. /\ draft' = prompt /\ target' = prompt /\ draftNext' = prompt /\ targetNext' = prompt
      /\ committed' = Len(prompt) /\ pc' = "loop" /\ prompt' = prompt /\ out' = <<>>
      /\ UNCHANGED <<seen, proposal, accepted, bonus, eos, judged, faults>>
  BY <1>1, <1>2 DEF Prefill, Goto, roundVars
<1>4. TypeOK'
  BY <1>1, <1>3 DEF IInv, TypeOK, Contexts
<1>5. Aligned'
  BY <1>1, <1>2, <1>3 DEF Aligned
<1> QED
  BY <1>3, <1>4, <1>5 DEF IInv, Rounds

LEMMA RoundStep ==
    ASSUME IInv, Round
    PROVE  IInv'
<1>1. /\ pc = "loop" /\ pc' \in {"propose", "return"} /\ UNCHANGED <<outVars, engineVars, faults>>
      /\ proposal' = <<>> /\ accepted' = 0 /\ bonus' = None /\ eos' = FALSE /\ judged' = <<>>
      /\ pc' = "propose" => Len(out) < MaxTokens
  BY DEF Round, NewRound
<1>2. <<>> \in Seq(Tokens) /\ Len(<<>>) = 0 /\ <<>> \in Seq(Contexts) /\ 0 \in 0..Len(<<>>)
  BY EmptySeq
<1>3. TypeOK'
  BY <1>1, <1>2 DEF IInv, TypeOK, outVars, engineVars
<1>4. /\ committed = Len(prompt) + Len(out) /\ draft = Text /\ target = Text /\ targetNext = target
  BY <1>1 DEF IInv, Aligned, Text
<1>5. /\ Text \in Seq(Tokens) /\ Len(Text) = Len(prompt) + Len(out) /\ Len(out) \in Nat
      /\ Len(prompt) \in Nat /\ MaxTokens \in Nat /\ Len(out) <= MaxTokens
  BY TypeFacts DEF IInv
<1>6. First(Text, Len(prompt) + Len(out)) = Text
  BY <1>5, FirstWhole
<1>7. Text' = Text
  BY <1>1 DEF Text, outVars
<1>8. RoundInv'
  <2>1. /\ draft' = Text /\ target' = Text /\ targetNext' = Text
        /\ committed' = Len(prompt) + Len(out) /\ prompt' = prompt /\ out' = out
    BY <1>1, <1>4 DEF outVars, engineVars
  <2>2. committed' + 0 = Len(prompt) + Len(out) /\ committed' <= Len(prompt) + MaxTokens
    BY <2>1, <1>5
  <2> QED
    BY <1>1, <1>2, <1>5, <1>6, <1>7, <2>1, <2>2 DEF RoundInv
<1> QED
  BY <1>1, <1>3, <1>8 DEF IInv, Aligned, Rounds

LEMMA ProposeStep ==
    ASSUME IInv, NEW t \in Tokens, Propose(t)
    PROVE  IInv'
<1>1. /\ pc = "propose" /\ pc' = pc /\ Len(proposal) < K
      /\ proposal' = Append(proposal, t)
      /\ draft' = Append(draft, t) /\ draftNext' = draft'
      /\ UNCHANGED <<prompt, out, seen, committed, target, targetNext, accepted, bonus, eos,
                     judged, faults>>
  BY DEF Propose, outVars
<1>2. RoundInv
  BY <1>1 DEF IInv, Rounds
<1>3. /\ proposal \in Seq(Tokens) /\ draft \in Seq(Tokens) /\ Len(proposal) \in Nat
      /\ Len(draft) \in Nat /\ accepted = 0 /\ committed = Len(prompt) + Len(out)
      /\ Len(prompt) \in Nat /\ Len(out) \in Nat /\ MaxTokens \in Nat /\ Len(out) <= MaxTokens
      /\ committed \in Nat /\ Len(draft) = committed + Len(proposal)
  BY <1>1, <1>2, TypeFacts DEF IInv, RoundInv
<1>4. /\ proposal' \in Seq(Tokens) /\ Len(proposal') = Len(proposal) + 1
      /\ \A i \in 1..Len(proposal) : proposal'[i] = proposal[i]
      /\ proposal'[Len(proposal) + 1] = t
  BY <1>1, <1>3, AppendProperties
<1>5. /\ draft' \in Seq(Tokens) /\ Len(draft') = Len(draft) + 1
      /\ \A i \in 1..Len(draft) : draft'[i] = draft[i]
      /\ draft'[Len(draft) + 1] = t
  <2>1. /\ Append(draft, t) \in Seq(Tokens) /\ Len(Append(draft, t)) = Len(draft) + 1
        /\ \A i \in 1..Len(draft) : Append(draft, t)[i] = draft[i]
        /\ Append(draft, t)[Len(draft) + 1] = t
    BY <1>3, AppendProperties
  <2> QED
    BY <1>1, <2>1
<1>6. Len(proposal) < MaxTokens - Len(out)
  BY <1>1, <1>3, SpeculationAssumption DEF K
<1>7. TypeOK'
  BY <1>1, <1>3, <1>4, <1>5 DEF IInv, TypeOK, Contexts
<1>8. \A i \in 1..Len(proposal') : draft'[committed + i] = proposal'[i]
  <2> SUFFICES ASSUME NEW i \in 1..(Len(proposal) + 1)
               PROVE  draft'[committed + i] = proposal'[i]
    BY <1>4
  <2>1. CASE i = Len(proposal) + 1
    <3>1. committed + i = Len(draft) + 1
      BY <2>1, <1>3
    <3> QED
      BY <3>1, <2>1, <1>4, <1>5
  <2>2. CASE i # Len(proposal) + 1
    <3>1. i \in 1..Len(proposal) /\ committed + i \in 1..Len(draft)
      BY <2>2, <1>3
    <3>2. draft[committed + i] = proposal[i]
      BY <3>1, <1>2 DEF RoundInv
    <3> QED
      BY <3>1, <3>2, <1>4, <1>5
  <2> QED
    BY <2>1, <2>2
<1>9. First(draft', committed) = First(draft, committed)
  BY <1>1, <1>3, FirstOfAppend
<1>10. target = First(draft, committed) /\ Text = First(draft, committed) /\ targetNext = target
  <2>1. committed + 0 = committed
    BY <1>3
  <2> QED
    BY <2>1, <1>2, <1>3 DEF RoundInv
<1>11. RoundInv'
  <2>1. Text' = Text
    BY <1>1 DEF Text
  <2>2. Len(draft') = committed + Len(proposal')
    BY <1>3, <1>4, <1>5
  <2>3. committed + Len(proposal') <= Len(prompt) + MaxTokens
    BY <1>3, <1>4, <1>6
  <2>4. Len(judged) = 0 /\ bonus = None
    BY <1>1, <1>2, <1>3 DEF RoundInv
  <2>5. /\ target' = First(draft', committed' + accepted') /\ Text' = First(draft', Len(prompt') + Len(out'))
        /\ Len(prompt') + Len(out') <= committed' + accepted'
    BY <1>1, <1>3, <1>9, <1>10, <2>1
  <2> QED
    BY <1>1, <1>3, <1>8, <1>10, <2>2, <2>3, <2>4, <2>5, SMTT(30) DEF RoundInv
<1> QED
  BY <1>1, <1>7, <1>11 DEF IInv, Aligned, Rounds

(* These move the control and leave what the round is about alone. *)
LEMMA ProposeDoneStep ==
    ASSUME IInv, ProposeDone
    PROVE  IInv'
<1>1. /\ pc = "propose" /\ pc' = "verify" /\ draftNext' = None
      /\ UNCHANGED <<prompt, out, seen, committed, draft, target, targetNext, proposal, accepted,
                     bonus, eos, judged, faults>>
  BY DEF ProposeDone, Goto, outVars, roundVars
<1>2. TypeOK'
  BY <1>1 DEF IInv, TypeOK, Contexts
<1>3. RoundInv'
  BY <1>1 DEF IInv, Rounds, RoundInv, Text
<1> QED
  BY <1>1, <1>2, <1>3 DEF IInv, Aligned, Rounds

LEMMA VerifyEndStep ==
    ASSUME IInv, VerifyDone \/ \E t \in Tokens : Reject(t)
    PROVE  IInv'
<1>1. /\ pc = "verify" /\ pc' = "commit" /\ bonus' \in Tokens \cup {None}
      /\ UNCHANGED <<prompt, out, seen, committed, draft, target, draftNext, targetNext, proposal,
                     accepted, eos, judged, faults>>
  BY DEF IInv, TypeOK, VerifyDone, Reject, Goto, outVars, engineVars, roundVars
<1>2. TypeOK'
  BY <1>1 DEF IInv, TypeOK
<1>3. RoundInv'
  BY <1>1 DEF IInv, Rounds, RoundInv, Text
<1> QED
  BY <1>1, <1>2, <1>3 DEF IInv, Aligned, Rounds

LEMMA AcceptStep ==
    ASSUME IInv, Accept
    PROVE  IInv'
<1> DEFINE t == proposal[accepted + 1]
<1>1. pc = "verify" /\ accepted < Len(proposal) /\ RoundInv
  BY DEF IInv, Rounds, Accept
<1>2. /\ proposal \in Seq(Tokens) /\ draft \in Seq(Tokens) /\ Len(proposal) \in Nat
      /\ accepted \in Nat /\ committed \in Nat /\ Len(prompt) \in Nat /\ Len(out) \in Nat
      /\ committed = Len(prompt) + Len(out) /\ Len(draft) = committed + Len(proposal)
      /\ target \in Seq(Tokens) /\ judged \in Seq(Contexts) /\ Len(judged) = accepted
  BY <1>1, TypeFacts DEF IInv, RoundInv
<1>3. t \in Tokens /\ t = draft[committed + accepted + 1]
  <2>1. accepted + 1 \in 1..Len(proposal) /\ committed + (accepted + 1) = committed + accepted + 1
    BY <1>1, <1>2
  <2> QED
    BY <2>1, <1>1, <1>2, ElementOfSeq DEF RoundInv
<1>4. CASE t \in TargetEos
  <2>1. /\ eos' = TRUE /\ pc' = "commit"
        /\ UNCHANGED <<prompt, out, seen, committed, draft, target, draftNext, targetNext, proposal,
                       accepted, bonus, judged, faults>>
    BY <1>4 DEF Accept, outVars
  <2>2. TypeOK'
    BY <2>1 DEF IInv, TypeOK
  <2>3. RoundInv'
    BY <2>1, <1>1 DEF RoundInv, Text
  <2> QED
    BY <2>1, <2>2, <2>3 DEF IInv, Aligned, Rounds
<1>5. CASE t \notin TargetEos
  <2>1. /\ accepted' = accepted + 1 /\ judged' = Append(judged, targetNext)
        /\ target' = Append(target, t) /\ targetNext' = target' /\ pc' = "verify"
        /\ UNCHANGED <<prompt, out, seen, committed, draft, draftNext, proposal, eos, bonus,
                       faults>>
    BY <1>1, <1>5 DEF Accept, outVars
  <2> HIDE DEF t
  <2>2. target' \in Seq(Tokens)
    BY <2>1, <1>2, <1>3, AppendProperties
  <2>3. targetNext \in Contexts
    BY DEF IInv, TypeOK
  <2>4. /\ judged' \in Seq(Contexts) /\ Len(judged') = accepted + 1
        /\ \A n \in 1..accepted : judged'[n] = judged[n]
        /\ judged'[accepted + 1] = targetNext
    BY <2>1, <2>3, <1>2, AppendProperties
  <2>5. accepted' \in 0..Len(proposal)
    BY <2>1, <1>1, <1>2
  <2>6. TypeOK'
    BY <2>1, <2>2, <2>4, <2>5 DEF IInv, TypeOK, Contexts
  <2>7. target' = First(draft, committed + accepted')
    <3>1. committed + accepted \in Nat /\ committed + accepted + 1 <= Len(draft)
      BY <1>1, <1>2
    <3>2. target' = Append(First(draft, committed + accepted), draft[committed + accepted + 1])
      BY <2>1, <1>1, <1>3 DEF RoundInv
    <3>3. target' = First(draft, committed + accepted + 1)
      BY <3>1, <3>2, <1>2, FirstExtends
    <3>4. committed + accepted + 1 = committed + accepted'
      BY <2>1, <1>2
    <3> QED
      BY <3>3, <3>4
  <2>8. \A n \in 1..accepted' : judged'[n] = First(draft, committed + n - 1)
    <3> SUFFICES ASSUME NEW n \in 1..(accepted + 1)
                 PROVE  judged'[n] = First(draft, committed + n - 1)
      BY <2>1
    <3>1. CASE n = accepted + 1
      <4>1. committed + n - 1 = committed + accepted
        BY <3>1, <1>2
      <4> QED
        BY <3>1, <4>1, <2>4, <1>1 DEF RoundInv
    <3>2. CASE n # accepted + 1
      <4>1. n \in 1..accepted
        BY <3>2, <1>2
      <4> QED
        BY <4>1, <2>4, <1>1 DEF RoundInv
    <3> QED
      BY <3>1, <3>2
  <2>9. RoundInv'
    <3>1. Text' = Text /\ Len(judged') = accepted'
      BY <2>1, <2>4 DEF Text
    <3>2. Len(prompt) + Len(out) <= committed + accepted'
      BY <2>1, <1>2
    <3> QED
      BY <2>1, <2>7, <2>8, <3>1, <3>2, <1>1 DEF RoundInv
  <2> QED
    BY <2>1, <2>6, <2>9, <1>1 DEF IInv, Aligned, Rounds
<1> QED
  BY <1>4, <1>5

(* The position of the next accepted token in the proposal.                *)
Pos == Len(prompt) + Len(out) - committed + 1

LEMMA EmitFacts ==
    ASSUME IInv, EmitAccepted
    PROVE  /\ RoundInv /\ pc = "commit" /\ Pos \in 1..accepted
           /\ out' = Append(out, proposal[Pos]) /\ seen' = Append(seen, judged[Pos])
           /\ proposal[Pos] \in Tokens /\ proposal[Pos] = draft[Len(prompt) + Len(out) + 1]
           /\ judged[Pos] = Text /\ Len(out) < MaxTokens
<1>1. /\ pc = "commit" /\ Pos <= accepted
      /\ out' = Append(out, proposal[Pos]) /\ seen' = Append(seen, judged[Pos])
  BY DEF EmitAccepted, Pos
<1>2. RoundInv
  BY <1>1 DEF IInv, Rounds
<1>3. /\ proposal \in Seq(Tokens) /\ Len(proposal) \in Nat /\ accepted <= Len(proposal)
      /\ accepted \in Nat /\ committed \in Nat /\ Len(prompt) \in Nat /\ Len(out) \in Nat
      /\ MaxTokens \in Nat
  BY TypeFacts DEF IInv
<1>4. committed <= Len(prompt) + Len(out) /\ committed + Len(proposal) <= Len(prompt) + MaxTokens
  BY <1>2 DEF RoundInv
<1>5. /\ Pos \in 1..accepted /\ Pos \in 1..Len(proposal)
      /\ committed + Pos = Len(prompt) + Len(out) + 1
      /\ committed + Pos - 1 = Len(prompt) + Len(out) /\ Len(out) < MaxTokens
  BY <1>1, <1>3, <1>4 DEF Pos
<1> HIDE DEF Pos
<1>6. proposal[Pos] \in Tokens /\ proposal[Pos] = draft[Len(prompt) + Len(out) + 1]
  BY <1>2, <1>3, <1>5, ElementOfSeq DEF RoundInv
<1>7. judged[Pos] = Text
  BY <1>2, <1>5 DEF RoundInv
<1> QED
  BY <1>1, <1>2, <1>5, <1>6, <1>7

LEMMA EmitAcceptedStep ==
    ASSUME IInv, EmitAccepted
    PROVE  IInv'
<1> DEFINE t == proposal[Pos]
<1>1. /\ RoundInv /\ pc = "commit" /\ Pos \in 1..accepted
      /\ out' = Append(out, t) /\ seen' = Append(seen, judged[Pos])
      /\ t \in Tokens /\ t = draft[Len(prompt) + Len(out) + 1]
      /\ judged[Pos] = Text /\ Len(out) < MaxTokens
  BY EmitFacts
<1>2. UNCHANGED <<pc, prompt, committed, draft, target, draftNext, targetNext, proposal, accepted,
                  bonus, eos, judged, faults>>
  BY DEF EmitAccepted, engineVars, roundVars
<1>3. /\ Len(prompt) \in Nat /\ Len(out) \in Nat /\ committed \in Nat /\ accepted \in Nat
      /\ MaxTokens \in Nat /\ draft \in Seq(Tokens) /\ seen \in Seq(Contexts)
      /\ Len(proposal) \in Nat /\ accepted <= Len(proposal) /\ Text \in Seq(Tokens)
  BY TypeFacts DEF IInv
<1>4. Len(prompt) + Len(out) + 1 <= committed + accepted
  BY <1>1, <1>3 DEF Pos
<1>5. Text' = Append(Text, t) /\ out' \in Seq(Tokens) /\ Len(out') = Len(out) + 1
  BY <1>1, <1>2, TextGrows DEF IInv
<1>6. seen' \in Seq(Contexts)
  BY <1>1, <1>3, AppendProperties DEF Contexts
<1>7. TypeOK'
  BY <1>1, <1>2, <1>3, <1>5, <1>6 DEF IInv, TypeOK
<1>8. Text' = First(draft, Len(prompt) + Len(out'))
  <2>0. Len(draft) = committed + Len(proposal)
    BY <1>1 DEF RoundInv
  <2>1. Len(prompt) + Len(out) \in Nat /\ Len(prompt) + Len(out) + 1 <= Len(draft)
    <3> DEFINE n == Len(prompt) + Len(out) + 1
    <3>1. n <= committed + accepted /\ n \in Nat
      BY <1>3, <1>4
    <3> HIDE DEF n
    <3>2. n <= Len(draft)
      BY <2>0, <3>1, <1>3
    <3> QED
      BY <3>2, <1>3 DEF n
  <2>2. Text' = Append(First(draft, Len(prompt) + Len(out)), draft[Len(prompt) + Len(out) + 1])
    BY <1>1, <1>5 DEF RoundInv
  <2>3. Text' = First(draft, Len(prompt) + Len(out) + 1)
    BY <2>1, <2>2, <1>3, FirstExtends
  <2>4. Len(prompt) + Len(out) + 1 = Len(prompt) + Len(out')
    BY <1>3, <1>5
  <2> QED
    BY <2>3, <2>4
<1>9. committed <= Len(prompt) + Len(out') /\ Len(prompt) + Len(out') <= committed + accepted
  BY <1>1, <1>3, <1>4, <1>5 DEF RoundInv
<1>10. RoundInv'
  BY <1>1, <1>2, <1>8, <1>9 DEF RoundInv
<1> QED
  BY <1>1, <1>2, <1>7, <1>10 DEF IInv, Aligned, Rounds

LEMMA CommitStep ==
    ASSUME IInv, Commit
    PROVE  IInv'
<1>1. /\ pc = "commit" /\ Len(prompt) + Len(out) - committed = accepted
      /\ committed' = committed + accepted /\ pc' \in {"return", "bonus"}
      /\ pc' = "bonus" => ~(Len(out) >= MaxTokens)
      /\ UNCHANGED <<prompt, out, seen, draft, target, draftNext, targetNext, proposal, accepted,
                     bonus, eos, judged, faults>>
  BY DEF Commit, engineVars, roundVars
<1>2. RoundInv
  BY <1>1 DEF IInv, Rounds
<1>3. /\ Len(prompt) \in Nat /\ Len(out) \in Nat /\ committed \in Nat /\ accepted \in Nat
      /\ MaxTokens \in Nat /\ Len(proposal) \in Nat /\ accepted <= Len(proposal)
  BY TypeFacts DEF IInv
<1>4. committed + accepted = Len(prompt) + Len(out) /\ committed + accepted \in Nat
  BY <1>1, <1>3
<1>5. TypeOK'
  BY <1>1, <1>4 DEF IInv, TypeOK
<1>6. Text' = Text /\ committed + accepted <= Len(draft)
  BY <1>1, <1>2, <1>3 DEF Text, RoundInv
<1>7. pc' = "bonus" => BonusInv'
  BY <1>1, <1>2, <1>3, <1>4, <1>6 DEF BonusInv, RoundInv
<1> QED
  BY <1>1, <1>5, <1>7 DEF IInv, Aligned, Rounds

LEMMA BonusStep ==
    ASSUME IInv, NEW t \in Tokens, Bonus(t)
    PROVE  IInv'
<1>1. pc = "bonus" /\ BonusInv
  BY DEF IInv, Bonus
<1>2. CASE t \in TargetEos
  <2>1. /\ pc' = "return"
        /\ UNCHANGED <<prompt, out, seen, committed, draft, target, draftNext, targetNext, proposal,
                       accepted, bonus, eos, judged, faults>>
    BY <1>2 DEF Bonus, outVars
  <2>2. TypeOK'
    BY <2>1 DEF IInv, TypeOK
  <2> QED
    BY <2>1, <2>2 DEF IInv, Aligned, Rounds
<1>3. CASE t \notin TargetEos
  <2>1. /\ pc' = "emit" /\ bonus' = t /\ judged' = Append(judged, targetNext)
        /\ target' = Append(target, t) /\ targetNext' = target'
        /\ UNCHANGED <<prompt, out, seen, committed, draft, draftNext, proposal, accepted, eos,
                       faults>>
    BY <1>3 DEF Bonus, outVars
  <2>2. /\ target \in Seq(Tokens) /\ judged \in Seq(Contexts) /\ targetNext \in Contexts
        /\ Len(judged) \in Nat
    BY TypeFacts DEF IInv, TypeOK
  <2>3. target' \in Seq(Tokens)
    BY <2>1, <2>2, AppendProperties
  <2>4. /\ judged' \in Seq(Contexts) /\ Len(judged') = Len(judged) + 1
        /\ judged'[Len(judged) + 1] = targetNext
    BY <2>1, <2>2, AppendProperties
  <2>5. TypeOK'
    BY <2>1, <2>3, <2>4 DEF IInv, TypeOK, Contexts
  <2>6. Text' = Text
    BY <2>1 DEF Text
  <2>7. Len(judged') >= 1 /\ judged'[Len(judged')] = Text
    BY <2>2, <2>4, <1>1 DEF BonusInv
  <2>8. EmitInv'
    BY <2>1, <2>6, <2>7, <1>1 DEF EmitInv, BonusInv
  <2> QED
    BY <2>1, <2>5, <2>8 DEF IInv, Aligned, Rounds
<1> QED
  BY <1>2, <1>3

LEMMA EmitBonusStep ==
    ASSUME IInv, EmitBonus
    PROVE  IInv'
<1>1. /\ pc = "emit" /\ pc' = "sync" /\ EmitInv
      /\ out' = Append(out, bonus) /\ seen' = Append(seen, judged[Len(judged)])
      /\ committed' = committed + 1
      /\ UNCHANGED <<prompt, draft, target, draftNext, targetNext, proposal, accepted, bonus, eos,
                     judged, faults>>
  BY DEF IInv, EmitBonus, Goto, engineVars, roundVars
<1>2. /\ Len(prompt) \in Nat /\ Len(out) \in Nat /\ committed \in Nat /\ MaxTokens \in Nat
      /\ Text \in Seq(Tokens) /\ seen \in Seq(Contexts) /\ Len(draft) \in Nat
  BY TypeFacts DEF IInv
<1>3. Text' = Append(Text, bonus) /\ out' \in Seq(Tokens) /\ Len(out') = Len(out) + 1
  BY <1>1, TextGrows DEF IInv, EmitInv
<1>4. seen' \in Seq(Contexts)
  BY <1>1, <1>2, AppendProperties DEF EmitInv, Contexts
<1>5. TypeOK'
  BY <1>1, <1>2, <1>3, <1>4, SMTT(30) DEF IInv, TypeOK, EmitInv
<1>6. committed' - 1 = committed /\ committed' >= 1 /\ committed' = Len(prompt) + Len(out')
  BY <1>1, <1>2, <1>3 DEF EmitInv
<1>7. SyncInv'
  BY <1>1, <1>2, <1>3, <1>6 DEF SyncInv, EmitInv
<1> QED
  BY <1>1, <1>5, <1>7 DEF IInv, Aligned, Rounds

(* The roll back leaves exactly what was committed before the bonus token. *)
LEMMA SyncStep ==
    ASSUME ~Recurrent, IInv, Sync
    PROVE  IInv'
<1>1. /\ pc = "sync" /\ pc' = "loop" /\ SyncInv
      /\ draft' = Append(Truncate(draft, committed - 1), bonus) /\ draftNext' = draft'
      /\ UNCHANGED <<prompt, out, seen, committed, target, targetNext, proposal, accepted, bonus,
                     eos, judged, faults>>
  BY DEF IInv, Sync, Goto, outVars, roundVars
<1>2. draft \in Seq(Tokens) /\ Len(draft) \in Nat /\ committed \in Nat /\ Text \in Seq(Tokens)
  BY TypeFacts DEF IInv
<1>3. Truncate(draft, committed - 1) = First(draft, committed - 1)
  <2>1. CASE Len(draft) <= committed - 1
    <3>1. Len(draft) = committed - 1
      BY <2>1, <1>1, <1>2 DEF SyncInv
    <3> QED
      BY <2>1, <3>1, <1>2, FirstWhole DEF Truncate
  <2>2. CASE ~(Len(draft) <= committed - 1)
    BY <2>2 DEF Truncate, First
  <2> QED
    BY <2>1, <2>2
<1>4. draft' = Text
  BY <1>1, <1>3 DEF SyncInv
<1>5. TypeOK'
  BY <1>1, <1>2, <1>4 DEF IInv, TypeOK, Contexts
<1>6. Aligned'
  BY <1>1, <1>4 DEF Aligned, SyncInv, Text
<1> QED
  BY <1>1, <1>5, <1>6 DEF IInv, Rounds

LEMMA ReturnStep ==
    ASSUME IInv, Return
    PROVE  IInv'
<1>1. /\ pc' = "idle"
      /\ UNCHANGED <<prompt, out, seen, committed, draft, target, draftNext, targetNext, proposal,
                     accepted, bonus, eos, judged, faults>>
  BY DEF Return, Goto, outVars, engineVars, roundVars
<1>2. TypeOK'
  BY <1>1 DEF IInv, TypeOK
<1> QED
  BY <1>1, <1>2 DEF IInv, Aligned, Rounds

LEMMA FailStep ==
    ASSUME IInv, Fail
    PROVE  IInv'
<1>1. /\ faults < MaxFaults /\ faults' = faults + 1 /\ pc' = "idle"
      /\ UNCHANGED <<prompt, out, seen, committed, draftNext, targetNext, proposal,
                     accepted, bonus, eos, judged>>
  BY DEF Fail, outVars, roundVars
<1>2. faults' \in 0..MaxFaults
  BY <1>1, SpeculationAssumption DEF IInv, TypeOK
<1>3. draft' \in Seq(Tokens) /\ target' \in Seq(Tokens)
  <2>1. CASE pc = "prefill"
    <3>1. PICK i, j \in 0..Len(prompt) :
             draft' = SubSeq(prompt, 1, i) /\ target' = SubSeq(prompt, 1, j)
      BY <2>1 DEF Fail
    <3>2. prompt \in Seq(Tokens)
      BY TypeFacts DEF IInv
    <3> QED
      BY <3>1, <3>2, FirstFacts DEF First
  <2>2. CASE pc # "prefill"
    BY <2>2 DEF Fail, IInv, TypeOK
  <2> QED
    BY <2>1, <2>2
<1>4. TypeOK'
  BY <1>1, <1>2, <1>3 DEF IInv, TypeOK
<1> QED
  BY <1>1, <1>4 DEF IInv, Aligned, Rounds

LEMMA StutterStep ==
    ASSUME IInv, UNCHANGED vars
    PROVE  IInv'
<1>1. UNCHANGED <<pc, prompt, out, seen, committed, draft, target, draftNext, targetNext, proposal,
                  accepted, bonus, eos, judged, faults>>
  BY DEF vars, outVars, engineVars, roundVars
<1>2. TypeOK'
  BY <1>1 DEF IInv, TypeOK
<1>3. Aligned'
  BY <1>1 DEF IInv, Aligned
<1>4. (pc' \in Rounds => RoundInv') /\ (pc' = "bonus" => BonusInv')
  BY <1>1 DEF IInv, RoundInv, BonusInv, Text
<1>5. (pc' = "emit" => EmitInv') /\ (pc' = "sync" => SyncInv')
  BY <1>1 DEF IInv, EmitInv, SyncInv, Text
<1> QED
  BY <1>1, <1>2, <1>3, <1>4, <1>5 DEF IInv

LEMMA StepIInv ==
    ASSUME ~Recurrent, IInv, [Next]_vars
    PROVE  IInv'
<1>1. CASE \E p \in Prompts : Call(p)
  BY <1>1, CallStep
<1>2. CASE Prefill
  BY <1>2, PrefillStep
<1>3. CASE Round
  BY <1>3, RoundStep
<1>4. CASE \E t \in Tokens : Propose(t)
  BY <1>4, ProposeStep
<1>5. CASE ProposeDone
  BY <1>5, ProposeDoneStep
<1>6. CASE VerifyDone \/ \E t \in Tokens : Reject(t)
  BY <1>6, VerifyEndStep
<1>7. CASE Accept
  BY <1>7, AcceptStep
<1>8. CASE EmitAccepted
  BY <1>8, EmitAcceptedStep
<1>9. CASE Commit
  BY <1>9, CommitStep
<1>10. CASE \E t \in Tokens : Bonus(t)
  BY <1>10, BonusStep
<1>11. CASE EmitBonus
  BY <1>11, EmitBonusStep
<1>12. CASE Sync
  BY <1>12, SyncStep
<1>13. CASE Return
  BY <1>13, ReturnStep
<1>14. CASE Fail
  BY <1>14, FailStep
<1>15. CASE UNCHANGED vars
  BY <1>15, StutterStep
<1> QED
  BY <1>1, <1>2, <1>3, <1>4, <1>5, <1>6, <1>7, <1>8, <1>9, <1>10, <1>11, <1>12, <1>13, <1>14,
     <1>15 DEF Next, Generate

----------------------------------------------------------------------------
(* The theorems.                                                           *)

(* Every variable keeps its type, and a call never emits more than         *)
(* max_tokens.                                                             *)
THEOREM TypeCorrect == ASSUME ~Recurrent PROVE Spec => []TypeOK
<1>1. Init => IInv
  BY InitIInv
<1>2. IInv /\ [Next]_vars => IInv'
  BY StepIInv
<1>3. IInv => TypeOK
  BY DEF IInv
<1> QED
  BY <1>1, <1>2, <1>3, PTL DEF Spec

(* The delta sync is right: with a draft model that has no state besides   *)
(* its KV cache, both caches hold exactly the prompt and the output at the *)
(* top of every round, whatever was proposed and accepted before.          *)
THEOREM CachesAreAligned == ASSUME ~Recurrent PROVE Spec => []Aligned
<1>1. Init => IInv
  BY InitIInv
<1>2. IInv /\ [Next]_vars => IInv'
  BY StepIInv
<1>3. IInv => Aligned
  BY DEF IInv
<1> QED
  BY <1>1, <1>2, <1>3, PTL DEF Spec

(* Where a call stands is all the refinement needs of a silent step.       *)
LEMMA SilentStep ==
    ASSUME UNCHANGED <<prompt, out, seen>>, (pc' # "idle") <=> (pc # "idle")
    PROVE  UNCHANGED Decoding!vars
BY DEF Decoding!vars

(* Emitting is only ever done with the prediction after the text.          *)
LEMMA EmitRefines ==
    ASSUME IInv, EmitAccepted \/ EmitBonus
    PROVE  \E t \in Tokens : Decoding!Emit(t)
<1>1. CASE EmitAccepted
  <2>1. /\ pc = "commit" /\ out' = Append(out, proposal[Pos]) /\ seen' = Append(seen, judged[Pos])
        /\ proposal[Pos] \in Tokens /\ judged[Pos] = Text /\ Len(out) < MaxTokens
    BY <1>1, EmitFacts
  <2>2. pc' = pc /\ prompt' = prompt
    BY <1>1 DEF EmitAccepted
  <2> QED
    BY <2>1, <2>2 DEF Decoding!Emit, Text
<1>2. CASE EmitBonus
  <2>1. /\ pc = "emit" /\ pc' = "sync" /\ EmitInv /\ prompt' = prompt
        /\ out' = Append(out, bonus) /\ seen' = Append(seen, judged[Len(judged)])
    BY <1>2 DEF IInv, EmitBonus, Goto
  <2>2. bonus \in Tokens /\ judged[Len(judged)] = Text /\ Len(out) < MaxTokens
    BY <2>1 DEF EmitInv
  <2> QED
    BY <2>1, <2>2 DEF Decoding!Emit, Text
<1> QED
  BY <1>1, <1>2

(* Speculative decoding implements decoding with the target model alone:   *)
(* each token is chosen by the target's prediction after exactly the text  *)
(* before it, and no more than max_tokens are.                             *)
THEOREM SpeculationRefinesDecoding == ASSUME ~Recurrent PROVE Spec => ImplementsDecoding
<1>1. Init => IInv
  BY InitIInv
<1>2. IInv /\ [Next]_vars => IInv'
  BY StepIInv
<1>3. Init => Decoding!Init
  BY DEF Init, Decoding!Init
<1>4. IInv /\ [Next]_vars => [Decoding!Next]_(Decoding!vars)
  <2> SUFFICES ASSUME IInv, [Next]_vars PROVE Decoding!Next \/ UNCHANGED Decoding!vars
    OBVIOUS
  <2>1. CASE \E p \in Prompts : Call(p)
    <3>1. PICK p \in Prompts : Call(p)
      BY <2>1
    <3>2. Decoding!Call(p)
      BY <3>1 DEF Call, Decoding!Call
    <3> QED
      BY <3>2 DEF Decoding!Next
  <2>2. CASE EmitAccepted \/ EmitBonus
    BY <2>2, EmitRefines DEF Decoding!Next
  <2>3. CASE Return
    <3>1. Decoding!Return
      BY <2>3 DEF Return, Goto, outVars, Decoding!Return
    <3> QED
      BY <3>1 DEF Decoding!Next
  <2>4. CASE Fail
    <3>1. Decoding!Return
      BY <2>4 DEF Fail, outVars, Decoding!Return
    <3> QED
      BY <3>1 DEF Decoding!Next
  <2>5. CASE Prefill \/ Round \/ ProposeDone \/ Sync \/ VerifyDone
    BY <2>5, SilentStep DEF Prefill, Round, ProposeDone, Sync, VerifyDone, Goto, outVars
  <2>6. CASE Accept \/ Commit
    BY <2>6, SilentStep DEF Accept, Commit, outVars
  <2>7. CASE \E t \in Tokens : Propose(t) \/ Reject(t) \/ Bonus(t)
    <3>1. PICK t \in Tokens : Propose(t) \/ Reject(t) \/ Bonus(t)
      BY <2>7
    <3>2. CASE Propose(t)
      BY <3>2, SilentStep DEF Propose, outVars
    <3>3. CASE Reject(t)
      BY <3>3, SilentStep DEF Reject, Goto, outVars
    <3>4. CASE Bonus(t)
      BY <3>4, SilentStep DEF Bonus, outVars
    <3> QED
      BY <3>1, <3>2, <3>3, <3>4
  <2>8. CASE UNCHANGED vars
    BY <2>8, SilentStep DEF vars, outVars
  <2> QED
    BY <2>1, <2>2, <2>3, <2>4, <2>5, <2>6, <2>7, <2>8 DEF Next, Generate
<1> QED
  BY <1>1, <1>2, <1>3, <1>4, PTL DEF Spec, ImplementsDecoding, Decoding!Spec

----------------------------------------------------------------------------
(* PrefixMap, the abstract prefix cache, for any keys and limits.  Its     *)
(* Kept and its Lookup choose a set and a key; the choices exist because   *)
(* keys last used at the same time are prefixes of one query, so that      *)
(* Before orders any two keys.                                             *)

CONSTANTS Keys, MaxEntries, MaxMemory, MinPrefix, MaxOps
VARIABLES entries, answer, clock

Snapshots == INSTANCE PrefixMap

(* The keys are token sequences, and the limits are numbers. *)
CacheAssumption ==
    Keys \subseteq Seq(Tokens) /\ MaxEntries \in Nat /\ MaxMemory \in Nat

(* What is stored can be ordered by its last use. *)
Timed(e) ==
    /\ IsFiniteSet(DOMAIN e) /\ DOMAIN e \subseteq Keys
    /\ \A k \in DOMAIN e : e[k] \in [kv : Nat, at : Nat]
    /\ \A j, k \in DOMAIN e : e[j].at = e[k].at /\ Len(j) = Len(k) => j = k

(* Times lie in the past, and what is stored fits. *)
CacheInv ==
    /\ clock \in Nat
    /\ Timed(entries) /\ \A k \in DOMAIN entries : entries[k].at < clock
    /\ Snapshots!Fits(DOMAIN entries)

(* A key has a length. *)
LEMMA KeyLengths ==
    ASSUME CacheAssumption
    PROVE  \A k \in Keys : Len(k) \in Nat
BY LenProperties DEF CacheAssumption

(* Two keys of one length that are prefixes of one query are the same.     *)
LEMMA SamePrefix ==
    ASSUME NEW p, NEW r, NEW q, Snapshots!IsPrefix(p, q), Snapshots!IsPrefix(r, q),
           Len(p) = Len(r)
    PROVE  p = r
BY DEF Snapshots!IsPrefix

(* Of two keys one was used less recently. *)
LEMMA BeforeTotal ==
    ASSUME CacheAssumption, NEW e, Timed(e), NEW j \in DOMAIN e, NEW k \in DOMAIN e, j # k
    PROVE  Snapshots!Before(e, j, k) \/ Snapshots!Before(e, k, j)
<1>1. /\ e[j].at \in Nat /\ e[k].at \in Nat /\ Len(j) \in Nat /\ Len(k) \in Nat
      /\ ~(e[j].at = e[k].at /\ Len(j) = Len(k))
  BY KeyLengths DEF Timed
<1> QED
  BY <1>1 DEF Snapshots!Before

(* The sets of keys that fit and hold whatever was used more recently.     *)
Recent(e) ==
    {kept \in SUBSET DOMAIN e :
        /\ Snapshots!Fits(kept)
        /\ \A k \in kept : \A j \in DOMAIN e : Snapshots!Before(e, k, j) => j \in kept}

(* What Fits counts. *)
LEMMA FitsMeans ==
    \A kept : Snapshots!Fits(kept) <=>
               /\ Cardinality(kept) <= MaxEntries
               /\ Weight(Snapshots!Lengths, kept) <= MaxMemory
<1>1. \A kept : Snapshots!Memory(kept) = Weight(Snapshots!Lengths, kept)
  BY DEF Snapshots!Memory, Weight, Snapshots!MapThenSumSet, MapThenSumSet,
         Snapshots!MapThenFoldSet, MapThenFoldSet
<1>2. \A kept : Snapshots!Cardinality(kept) = Cardinality(kept)
  BY DEF Snapshots!Cardinality, Cardinality
<1> QED
  BY <1>1, <1>2 DEF Snapshots!Fits

(* The empty cache is within any limits. *)
LEMMA NothingFits ==
    ASSUME CacheAssumption
    PROVE  Snapshots!Fits({})
<1>1. Weight(Snapshots!Lengths, {}) = 0 /\ Cardinality({}) = 0
  BY WeightRec, FS_EmptySet
<1> QED
  BY <1>1, FitsMeans DEF CacheAssumption

(* Any two of them are nested, so one holds all others: Kept is that one.  *)
LEMMA KeptFacts ==
    ASSUME CacheAssumption, NEW e, Timed(e)
    PROVE  /\ Snapshots!Kept(e) \in Recent(e)
           /\ \A L \in Recent(e) : L \subseteq Snapshots!Kept(e)
<1>1. Snapshots!Kept(e) = CHOOSE kept \in Recent(e) : \A L \in Recent(e) : L \subseteq kept
  BY DEF Snapshots!Kept, Recent
<1>2. {} \in Recent(e)
  BY NothingFits DEF Recent
<1>3. ASSUME NEW kept \in Recent(e)
      PROVE  IsFiniteSet(kept) /\ Cardinality(kept) \in 0..MaxEntries
  <2>1. IsFiniteSet(kept)
    BY FS_Subset DEF Recent, Timed
  <2>2. Cardinality(kept) \in Nat /\ Cardinality(kept) <= MaxEntries
    BY <2>1, FS_CardinalityType, FitsMeans DEF Recent
  <2> QED
    BY <2>1, <2>2 DEF CacheAssumption
<1>4. ASSUME NEW kept \in Recent(e), NEW L \in Recent(e), ~(kept \subseteq L)
      PROVE  L \subseteq kept
  <2>1. PICK k \in kept : k \notin L
    BY <1>4
  <2>2. ASSUME NEW l \in L, l \notin kept PROVE FALSE
    <3>1. k \in DOMAIN e /\ l \in DOMAIN e /\ k # l
      BY <2>1, <2>2 DEF Recent
    <3>2. Snapshots!Before(e, k, l) \/ Snapshots!Before(e, l, k)
      BY <3>1, BeforeTotal
    <3> QED
      BY <3>1, <3>2, <2>1, <2>2 DEF Recent
  <2> QED
    BY <2>2
<1> DEFINE C == {Cardinality(kept) : kept \in Recent(e)}
<1>5. C \in SUBSET (0..MaxEntries) /\ C # {}
  BY <1>2, <1>3
<1>6. PICK kept \in Recent(e) : \A L \in Recent(e) : Cardinality(kept) >= Cardinality(L)
  <2> HIDE DEF C
  <2>1. Max(C) \in C /\ \A y \in C : Max(C) >= y
    BY <1>5, MaxNat DEF CacheAssumption
  <2> QED
    BY <2>1 DEF C
<1>7. ASSUME NEW L \in Recent(e) PROVE L \subseteq kept
  <2>1. CASE L \subseteq kept
    BY <2>1
  <2>2. CASE ~(L \subseteq kept)
    <3>1. kept \subseteq L
      BY <1>4, <2>2
    <3>2. Cardinality(kept) < Cardinality(L)
      BY <3>1, <2>2, <1>3, FS_Subset
    <3>3. Cardinality(kept) >= Cardinality(L)
      BY <1>6
    <3> QED
      BY <3>2, <3>3, <1>3
  <2> QED
    BY <2>1, <2>2
<1> QED
  BY <1>1, <1>6, <1>7

(* The longest of the stored keys that are prefixes of a query exists.     *)
LEMMA LongestFacts ==
    ASSUME CacheAssumption, CacheInv, NEW q \in Keys,
           NEW hits \in SUBSET DOMAIN entries, hits # {},
           \A k \in hits : Snapshots!IsPrefix(k, q)
    PROVE  LET longest == CHOOSE k \in hits : \A j \in hits : Len(j) <= Len(k)
           IN  longest \in hits /\ \A j \in hits : Len(j) <= Len(longest)
<1> DEFINE L == {Len(k) : k \in hits}
<1>1. Len(q) \in Nat /\ \A k \in hits : Len(k) \in 0..Len(q)
  BY KeyLengths DEF CacheInv, Timed, Snapshots!IsPrefix
<1>2. L \in SUBSET (0..Len(q)) /\ L # {}
  BY <1>1
<1>3. PICK k \in hits : \A j \in hits : Len(j) <= Len(k)
  <2> HIDE DEF L
  <2>1. Max(L) \in L /\ \A y \in L : Max(L) >= y
    BY <1>1, <1>2, MaxNat
  <2> QED
    BY <2>1, <1>1 DEF L
<1> QED
  BY <1>3

(* The invariant holds of an empty cache. *)
LEMMA CacheStarts == CacheAssumption /\ Snapshots!Init => CacheInv
<1> SUFFICES ASSUME CacheAssumption, Snapshots!Init PROVE CacheInv
  OBVIOUS
<1>1. DOMAIN entries = {} /\ clock = 0
  BY DEF Snapshots!Init
<1>2. Timed(entries)
  BY <1>1, FS_EmptySet DEF Timed
<1> QED
  BY <1>1, <1>2, NothingFits DEF CacheInv

(* The keys a lookup passes all get its time; they are prefixes of its     *)
(* query, so their lengths tell them apart.                                *)
LEMMA LookupStep ==
    ASSUME CacheAssumption, CacheInv, NEW q \in Keys, Snapshots!Lookup(q)
    PROVE  CacheInv'
<1> DEFINE hits == {k \in DOMAIN entries : q # <<>> /\ Snapshots!IsPrefix(k, q)}
<1>1. /\ clock' = clock + 1 /\ clock \in Nat
      /\ entries' = [k \in DOMAIN entries |->
                       IF k \in hits THEN [entries[k] EXCEPT !.at = clock] ELSE entries[k]]
  BY DEF Snapshots!Lookup, Snapshots!Tick, CacheInv
<1>2. \A j, k \in hits : Len(j) = Len(k) => j = k
  BY SamePrefix
<1>3. \A k \in DOMAIN entries : /\ entries[k] \in [kv : Nat, at : Nat]
                                /\ entries[k].at \in Nat /\ entries[k].at < clock
  BY DEF CacheInv, Timed
<1>4. hits \subseteq DOMAIN entries
  OBVIOUS
<1> HIDE DEF hits
<1>5. \A k \in DOMAIN entries :
        /\ entries'[k] \in [kv : Nat, at : Nat]
        /\ entries'[k].at = IF k \in hits THEN clock ELSE entries[k].at
  BY <1>1, <1>3
<1>6. DOMAIN entries' = DOMAIN entries
  BY <1>1
<1>7. \A j, k \in DOMAIN entries : entries'[j].at = entries'[k].at /\ Len(j) = Len(k) => j = k
  BY <1>2, <1>3, <1>5, <1>1 DEF CacheInv, Timed
<1>8. Timed(entries')
  BY <1>5, <1>6, <1>7 DEF CacheInv, Timed
<1>9. \A k \in DOMAIN entries' : entries'[k].at < clock'
  BY <1>1, <1>3, <1>5, <1>6
<1> QED
  BY <1>1, <1>6, <1>8, <1>9, FitsMeans DEF CacheInv

(* The entries with k stored now, before any is dropped. *)
WithStored(k) ==
    [j \in DOMAIN entries \cup {k} |->
        IF j = k THEN [kv |-> clock, at |-> clock] ELSE entries[j]]

(* Only the key just stored has the time of the store. *)
LEMMA StoredTimed ==
    ASSUME CacheAssumption, CacheInv, NEW k \in Keys
    PROVE  /\ Timed(WithStored(k))
           /\ \A j \in DOMAIN WithStored(k) : WithStored(k)[j].at <= clock
<1> DEFINE e == WithStored(k)
<1>1. DOMAIN e = DOMAIN entries \cup {k} /\ e[k] = [kv |-> clock, at |-> clock]
      /\ \A j \in DOMAIN entries : j # k => e[j] = entries[j]
  BY DEF WithStored
<1>2. /\ clock \in Nat
      /\ \A j \in DOMAIN entries : /\ entries[j] \in [kv : Nat, at : Nat]
                                   /\ entries[j].at \in Nat /\ entries[j].at < clock
  BY DEF CacheInv, Timed
<1> HIDE DEF e
<1>3. IsFiniteSet(DOMAIN e) /\ DOMAIN e \subseteq Keys
  BY <1>1, FS_AddElement DEF CacheInv, Timed
<1>4. \A j \in DOMAIN e : e[j] \in [kv : Nat, at : Nat] /\ e[j].at <= clock
  BY <1>1, <1>2
<1>5. \A i, j \in DOMAIN e : e[i].at = e[j].at /\ Len(i) = Len(j) => i = j
  BY <1>1, <1>2 DEF CacheInv, Timed
<1> QED
  BY <1>3, <1>4, <1>5 DEF Timed, e

(* What a store leaves was chosen to fit. *)
LEMMA StoreStep ==
    ASSUME CacheAssumption, CacheInv, NEW k \in Keys, Snapshots!Store(k)
    PROVE  CacheInv'
<1> DEFINE e == WithStored(k)
           kept == Snapshots!Kept(e)
<1>1. /\ clock' = clock + 1 /\ clock \in Nat
      /\ entries' = [j \in kept |-> e[j]]
  BY DEF Snapshots!Store, Snapshots!Tick, CacheInv, WithStored
<1>2. Timed(e) /\ \A j \in DOMAIN e : e[j].at <= clock
  BY StoredTimed
<1> HIDE DEF e
<1>3. kept \subseteq DOMAIN e /\ Snapshots!Fits(kept)
  BY <1>2, KeptFacts DEF Recent
<1> HIDE DEF kept
<1>4. Timed(entries')
  BY <1>1, <1>2, <1>3, FS_Subset DEF Timed
<1>5. \A j \in DOMAIN entries' : entries'[j].at < clock'
  BY <1>1, <1>2, <1>3 DEF Timed
<1>6. Snapshots!Fits(DOMAIN entries)'
  BY <1>1, <1>3, FitsMeans
<1> QED
  BY <1>1, <1>4, <1>5, <1>6 DEF CacheInv

(* Every step keeps the invariant. *)
LEMMA CacheStep ==
    ASSUME CacheAssumption, CacheInv, [Snapshots!Next]_(Snapshots!vars)
    PROVE  CacheInv'
<1>1. CASE Snapshots!Clear
  <2>1. DOMAIN entries' = {} /\ clock' = clock + 1 /\ clock \in Nat
    BY <1>1 DEF Snapshots!Clear, Snapshots!Tick, CacheInv
  <2>2. Timed(entries')
    BY <2>1, FS_EmptySet DEF Timed
  <2> QED
    BY <2>1, <2>2, NothingFits, FitsMeans DEF CacheInv
<1>2. CASE UNCHANGED Snapshots!vars
  BY <1>2, FitsMeans DEF Snapshots!vars, CacheInv, Timed
<1> QED
  BY <1>1, <1>2, LookupStep, StoreStep DEF Snapshots!Next

(* A store drops the least recently used keys only, and none that would    *)
(* have fitted with all that were used more recently.                      *)
DropsOldest ==
    \A k \in Keys : Snapshots!Store(k) =>
        /\ \A j \in DOMAIN entries \ DOMAIN entries', i \in DOMAIN entries \cap DOMAIN entries' :
              i # k => Snapshots!Before(entries, j, i)
        /\ \A L \in Recent(WithStored(k)) : L \subseteq DOMAIN entries'

(* A hit is the snapshot of the longest stored prefix of the query. *)
HitsLongest ==
    \A q \in Keys : Snapshots!Lookup(q) /\ answer'.op = "hit" =>
        \E k \in DOMAIN entries :
            /\ Snapshots!IsPrefix(k, q) /\ answer'.len = Len(k) /\ answer'.kv = entries[k].kv
            /\ \A j \in DOMAIN entries : Snapshots!IsPrefix(j, q) => Len(j) <= Len(k)

(* What Kept leaves out was used less recently than what it keeps. *)
LEMMA StoreDropsOldest ==
    ASSUME CacheAssumption, CacheInv
    PROVE  DropsOldest
<1> SUFFICES ASSUME NEW k \in Keys, Snapshots!Store(k)
             PROVE  /\ \A j \in DOMAIN entries \ DOMAIN entries',
                          i \in DOMAIN entries \cap DOMAIN entries' :
                          i # k => Snapshots!Before(entries, j, i)
                    /\ \A L \in Recent(WithStored(k)) : L \subseteq DOMAIN entries'
  BY DEF DropsOldest
<1> DEFINE e == WithStored(k)
           kept == Snapshots!Kept(e)
<1>1. DOMAIN entries' = kept
  BY DEF Snapshots!Store, WithStored
<1>2. Timed(e)
  BY StoredTimed
<1>3. /\ DOMAIN e = DOMAIN entries \cup {k} /\ e[k].at = clock
      /\ \A j \in DOMAIN entries : j # k => e[j] = entries[j]
  BY DEF WithStored
<1>4. clock \in Nat /\ \A j \in DOMAIN entries : entries[j].at \in Nat /\ entries[j].at < clock
  BY DEF CacheInv, Timed
<1> HIDE DEF e
<1>5. kept \in Recent(e) /\ \A L \in Recent(e) : L \subseteq kept
  BY <1>2, KeptFacts
<1>6. \A i \in kept, j \in DOMAIN e : Snapshots!Before(e, i, j) => j \in kept
  BY <1>5 DEF Recent
<1> HIDE DEF kept
<1>7. ASSUME NEW j \in DOMAIN entries \ kept, NEW i \in DOMAIN entries \cap kept, i # k
      PROVE  Snapshots!Before(entries, j, i)
  <2>1. Snapshots!Before(e, i, k)
    BY <1>3, <1>4, <1>7 DEF Snapshots!Before
  <2>2. j # k
    BY <2>1, <1>3, <1>6
  <2>3. Snapshots!Before(e, j, i)
    BY <1>2, <1>3, <1>6, BeforeTotal
  <2> QED
    BY <2>2, <2>3, <1>3, <1>7 DEF Snapshots!Before
<1> QED
  BY <1>1, <1>5, <1>7 DEF e

(* Lookup answers with the key it chooses. *)
LEMMA LookupHitsLongest ==
    ASSUME CacheAssumption, CacheInv
    PROVE  HitsLongest
<1> SUFFICES ASSUME NEW q \in Keys, Snapshots!Lookup(q), answer'.op = "hit"
             PROVE  \E k \in DOMAIN entries :
                      /\ Snapshots!IsPrefix(k, q) /\ answer'.len = Len(k)
                      /\ answer'.kv = entries[k].kv
                      /\ \A j \in DOMAIN entries : Snapshots!IsPrefix(j, q) => Len(j) <= Len(k)
  BY DEF HitsLongest
<1> DEFINE hits == {k \in DOMAIN entries : q # <<>> /\ Snapshots!IsPrefix(k, q)}
           longest == CHOOSE k \in hits : \A j \in hits : Len(j) <= Len(k)
<1>1. answer' = IF hits # {} /\ Len(longest) >= MinPrefix
                THEN Snapshots!Reply("hit", Len(longest), entries[longest].kv)
                ELSE Snapshots!Reply("miss", 0, None)
  BY DEF Snapshots!Lookup
<1>2. hits # {} /\ answer' = Snapshots!Reply("hit", Len(longest), entries[longest].kv)
  <2> HIDE DEF hits, longest
  <2> QED
    BY <1>1 DEF Snapshots!Reply
<1>3. longest \in hits /\ \A j \in hits : Len(j) <= Len(longest)
  <2> HIDE DEF hits
  <2>1. hits \in SUBSET DOMAIN entries /\ \A k \in hits : Snapshots!IsPrefix(k, q)
    BY DEF hits
  <2> QED
    BY <1>2, <2>1, LongestFacts
<1>4. answer'.len = Len(longest) /\ answer'.kv = entries[longest].kv
  BY <1>2 DEF Snapshots!Reply
<1> HIDE DEF longest
<1> QED
  BY <1>3, <1>4

(* The abstract cache never holds more than its limits. *)
THEOREM SnapshotsFit ==
    ASSUME CacheAssumption
    PROVE  Snapshots!Spec => []Snapshots!Fits(DOMAIN entries)
<1>1. Snapshots!Init => CacheInv
  BY CacheStarts
<1>2. CacheInv /\ [Snapshots!Next]_(Snapshots!vars) => CacheInv'
  BY CacheStep
<1>3. CacheInv => Snapshots!Fits(DOMAIN entries)
  BY DEF CacheInv
<1> QED
  BY <1>1, <1>2, <1>3, PTL DEF Snapshots!Spec

(* Eviction is by last use, and lookup by the longest prefix: the choices  *)
(* of PrefixMap are what evict_lru and lookup are written for.             *)
THEOREM SnapshotsAreLru ==
    ASSUME CacheAssumption
    PROVE  Snapshots!Spec => [][DropsOldest /\ HitsLongest]_(Snapshots!vars)
<1>1. Snapshots!Init => CacheInv
  BY CacheStarts
<1>2. CacheInv /\ [Snapshots!Next]_(Snapshots!vars) => CacheInv'
  BY CacheStep
<1>3. CacheInv => DropsOldest /\ HitsLongest
  BY StoreDropsOldest, LookupHitsLongest
<1> QED
  BY <1>1, <1>2, <1>3, PTL DEF Snapshots!Spec
=============================================================================
