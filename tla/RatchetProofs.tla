--------------------------- MODULE RatchetProofs ---------------------------
(***************************************************************************)
(* What Ratchet keeps true for any skip bound, expiry and number of        *)
(* envelopes.  The two ends take turns stepping the DH ratchet, so         *)
(* everything there is to know of a session is how far each end is: the    *)
(* chains, the key pairs and which chain an envelope is of all follow from *)
(* it.  RatchetInv says so, and accounts for every message key that was    *)
(* passed over: it is kept, it had no room, it is too old or it was used.  *)
(***************************************************************************)
EXTENDS Ratchet, FiniteSetTheorems, TLAPS

\* The key pairs take turns: the j-th step of the session is its sender's j-th chain.
SenderOf(j) == IF j % 2 = 1 THEN "initiator" ELSE "responder"
DhOf(j) == <<SenderOf(j), (j + 1) \div 2>>
Chain(j) == [l \in 1 .. j |-> {DhOf(l), DhOf(l - 1)}]

\* How far an end is, and which chain a message key is of.
At(p) == Len(st[p].rk)
Of(mk) == Len(mk[1])

Stored(p) == Range(st[p].skipped)

Placed ==
  \A p \in End :
    /\ At(p) \in Nat /\ SenderOf(At(p)) = p
    /\ st[p] \in RatchetState
    /\ st[p].rk = Chain(At(p)) /\ st[p].cks = Chain(At(p)) /\ st[p].dhs = DhOf(At(p))
    /\ At(p) = 0 => st[p].dhr = NoKey /\ st[p].ckr = NoChain
    /\ At(p) > 0 => st[p].dhr = DhOf(At(p) - 1) /\ st[p].ckr = Chain(At(p) - 1)

InStep ==
  \/ At("initiator") = At("responder") + 1
  \/ At("responder") = At("initiator") + 1

Sealed(m) ==
  /\ m \in Envelope /\ Of(m.mk) \in Nat \ {0}
  /\ m.mk = <<Chain(Of(m.mk)), m.n>> /\ m.dh = DhOf(Of(m.mk))
  /\ m.to = Other(SenderOf(Of(m.mk)))
  /\ m.at <= day

SentBy(p) == {m \in net : m.to = Other(p)}

\* What was sent is numbered below what is to be sent.
Numbered ==
  \A p \in End : \A m \in SentBy(p) :
    /\ Of(m.mk) <= At(p)
    /\ Of(m.mk) = At(p) => m.n < st[p].ns /\ m.pn = st[p].pn
    /\ Of(m.mk) = At(p) - 2 => m.n < st[p].pn

\* A header says how long the chain before was.
Counted ==
  \A m1, m2 \in net :
    /\ Of(m2.mk) = Of(m1.mk) + 2 => m1.n < m2.pn
    /\ Of(m2.mk) = Of(m1.mk) /\ m1.n = m2.n => m1 = m2

Drafted ==
  \A p \in End : \A d \in draft[p] :
    /\ draft[p] = {d} /\ Sealed(d.env)
    /\ d = [state |-> [st[p] EXCEPT !.ns = d.env.n + 1], env |-> d.env]
    /\ Of(d.env.mk) = At(p) /\ d.env.to = Other(p) /\ d.env.pn = st[p].pn
    /\ st[p].ns \in {d.env.n, d.env.n + 1}
    /\ \A m \in net : Of(m.mk) = At(p) => m.n < d.env.n

\* No end has received further than the other has sent.
Behind ==
  \A p \in End :
    At(p) = At(Other(p)) + 1 =>
      /\ st[p].nr <= st[Other(p)].ns
      /\ \A d \in draft[Other(p)] : st[p].nr <= d.env.n

KeyKept(p, k) ==
  /\ Of(k.mk) \in Nat \ {0} /\ Of(k.mk) < At(p)
  /\ k.mk = <<Chain(Of(k.mk)), k.n>> /\ k.dh = DhOf(Of(k.mk))
  /\ k.ts <= day
  /\ Of(k.mk) = At(p) - 1 => k.n < st[p].nr

KeysKept == \A p \in End : Len(st[p].skipped) <= MaxSkip /\ \A k \in Stored(p) : KeyKept(p, k)

Passed(p, m) ==
  \/ Of(m.mk) < At(p) - 1
  \/ Of(m.mk) = At(p) - 1 /\ m.n < st[p].nr

\* What was passed over has its key kept, or had no room, or is too old.
NotOpened ==
  \A p \in End : \A m \in SentBy(Other(p)) \ opened[p] :
    Passed(p, m) =>
      \/ \E k \in Stored(p) : k.mk = m.mk /\ k.ts >= m.at
      \/ m.mk \in overrun
      \/ day - m.at > KeyExpiry

OpenedIsPassed ==
  \A p \in End : \A m \in opened[p] :
    /\ m \in SentBy(Other(p)) /\ Passed(p, m)
    /\ \A k \in Stored(p) : k.mk # m.mk

Kinds ==
  /\ st \in [End -> RatchetState]
  /\ draft \in [End -> SUBSET [state : RatchetState, env : Envelope]]
  /\ day \in 0 .. MaxDay /\ count \in [End -> Nat]
  /\ opened \in [End -> SUBSET net] /\ overrun \subseteq (Roots \X Nat)
  /\ \A m \in net : Sealed(m)

RatchetInv ==
  /\ Kinds /\ Placed /\ InStep
  /\ Numbered /\ Counted /\ Drafted /\ Behind
  /\ KeysKept /\ NotOpened /\ OpenedIsPassed

-----------------------------------------------------------------------------
\* Each step of the session has its own key pair, the ends in turn.
LEMMA DhIs ==
  /\ \A j \in Nat : DhOf(j) \in End \X Nat /\ SenderOf(j) \in End
  /\ \A j, l \in Nat : DhOf(j) = DhOf(l) => j = l
  /\ \A j \in Nat : DhOf(j)[1] = SenderOf(j) /\ DhOf(j + 2) = <<SenderOf(j), DhOf(j)[2] + 1>>
  /\ \A j \in Nat : SenderOf(j + 2) = SenderOf(j) /\ SenderOf(j + 1) = Other(SenderOf(j))
  /\ DhOf(0) = <<"responder", 0>> /\ DhOf(1) = <<"initiator", 1>>
<1>1. \A j \in Nat : DhOf(j) \in End \X Nat /\ SenderOf(j) \in End
  BY DEF DhOf, SenderOf, End
<1>2. \A j, l \in Nat : DhOf(j) = DhOf(l) => j = l
  <2> SUFFICES ASSUME NEW j \in Nat, NEW l \in Nat, DhOf(j) = DhOf(l) PROVE j = l
    OBVIOUS
  <2>1. (j % 2 = 1) <=> (l % 2 = 1)
    BY DEF DhOf, SenderOf
  <2>2. (j + 1) \div 2 = (l + 1) \div 2
    BY DEF DhOf
  <2> QED
    BY <2>1, <2>2
<1>3. \A j \in Nat : SenderOf(j + 2) = SenderOf(j) /\ SenderOf(j + 1) = Other(SenderOf(j))
  BY DEF SenderOf, Other
<1>4. \A j \in Nat : DhOf(j)[1] = SenderOf(j) /\ DhOf(j + 2) = <<SenderOf(j), DhOf(j)[2] + 1>>
  BY <1>3 DEF DhOf
<1>5. DhOf(0) = <<"responder", 0>> /\ DhOf(1) = <<"initiator", 1>>
  BY DEF DhOf, SenderOf
<1> QED
  BY <1>1, <1>2, <1>3, <1>4, <1>5

\* Each step has its own chain, and mixing in the next key pair gives the next chain.
LEMMA ChainIs ==
  /\ \A j \in Nat : Chain(j) \in Roots /\ Len(Chain(j)) = j
  /\ \A j, l \in Nat : Chain(j) = Chain(l) => j = l
  /\ Chain(0) = <<>>
  /\ \A j \in Nat : /\ KdfRk(Chain(j), DhOf(j), DhOf(j + 1)) = Chain(j + 1)
                    /\ KdfRk(Chain(j), DhOf(j + 1), DhOf(j)) = Chain(j + 1)
<1>1. \A j \in Nat : Chain(j) \in Roots /\ Len(Chain(j)) = j
  <2> SUFFICES ASSUME NEW j \in Nat PROVE Chain(j) \in Roots /\ Len(Chain(j)) = j
    OBVIOUS
  <2>1. \A l \in 1 .. j : DhOf(l) \in End \X Nat /\ DhOf(l - 1) \in End \X Nat
    BY DhIs
  <2>2. \A l \in 1 .. j : {DhOf(l), DhOf(l - 1)} \in SUBSET (End \X Nat)
    BY <2>1
  <2> QED
    BY <2>2 DEF Chain, Roots
<1>2. \A j \in Nat : Append(Chain(j), {DhOf(j + 1), DhOf(j)}) = Chain(j + 1)
  <2> SUFFICES ASSUME NEW j \in Nat
               PROVE  Append(Chain(j), {DhOf(j + 1), DhOf(j)}) = Chain(j + 1)
    OBVIOUS
  <2> DEFINE longer == Append(Chain(j), {DhOf(j + 1), DhOf(j)})
  <2>0. {DhOf(j + 1), DhOf(j)} \in SUBSET (End \X Nat)
    BY DhIs
  <2>1. longer \in Roots /\ Len(longer) = j + 1
    BY SMTT(60), <1>1, <2>0 DEF Roots
  <2>2. \A l \in 1 .. j + 1 : longer[l] = Chain(j + 1)[l]
    BY <1>1, <2>0 DEF Chain
  <2>3. Chain(j + 1) \in Roots /\ Len(Chain(j + 1)) = j + 1
    BY <1>1
  <2> QED
    BY <2>1, <2>2, <2>3 DEF Roots
<1> QED
  BY <1>1, <1>2 DEF Chain, KdfRk

\* Remaining drops what is given up and nothing else (SelectSeq cannot be reasoned about).
LEMMA RemainingIs ==
  ASSUME NEW S, NEW keys \in Seq(S), NEW gone
  PROVE  /\ Remaining(keys, gone) \in Seq(S)
         /\ Len(Remaining(keys, gone)) <= Len(keys)
         /\ Range(Remaining(keys, gone)) = Range(keys) \ gone
         /\ Range(keys) \cap gone # {} => Len(Remaining(keys, gone)) < Len(keys)
         /\ \E g \in [DOMAIN Remaining(keys, gone) -> DOMAIN keys] :
              \A j, k \in DOMAIN Remaining(keys, gone) :
                 Remaining(keys, gone)[j] = keys[g[j]] /\ (g[j] = g[k] => j = k)
<1> DEFINE left == {i \in DOMAIN keys : keys[i] \notin gone}
           upTo(i) == left \cap 1 .. i
           rank == [i \in left |-> Cardinality(upTo(i))]
           size == Cardinality(left)
           Nth(j) == CHOOSE i \in left : Cardinality(left \cap 1 .. i) = j
<1>1. IsFiniteSet(1 .. Len(keys)) /\ Cardinality(1 .. Len(keys)) = Len(keys)
  <2>1. Len(keys) \in Nat /\ 1 \in Int
    OBVIOUS
  <2> QED
    BY <2>1, FS_Interval
<1>2. IsFiniteSet(left) /\ size \in Nat /\ size <= Len(keys) /\ left \subseteq 1 .. Len(keys)
  <2>1. left \in SUBSET (1 .. Len(keys))
    OBVIOUS
  <2>2. IsFiniteSet(left) /\ Cardinality(left) <= Len(keys)
    BY <1>1, <2>1, FS_Subset
  <2> QED
    BY <2>1, <2>2, FS_CardinalityType
<1>3. \A i \in left : IsFiniteSet(upTo(i)) /\ Cardinality(upTo(i)) \in 1 .. size
  <2> SUFFICES ASSUME NEW i \in left
               PROVE  IsFiniteSet(upTo(i)) /\ Cardinality(upTo(i)) \in 1 .. size
    OBVIOUS
  <2>1. upTo(i) \in SUBSET left /\ i \in upTo(i)
    BY <1>2
  <2>2. IsFiniteSet(upTo(i)) /\ Cardinality(upTo(i)) <= size
    BY <2>1, <1>2, FS_Subset
  <2>3. Cardinality(upTo(i)) \in Nat /\ Cardinality(upTo(i)) # 0
    BY <2>1, <2>2, FS_CardinalityType, FS_EmptySet
  <2> QED
    BY <2>2, <2>3, <1>2
<1>4. \A i, j \in left : i < j => Cardinality(upTo(i)) # Cardinality(upTo(j))
  <2> SUFFICES ASSUME NEW i \in left, NEW j \in left, i < j,
                      Cardinality(upTo(i)) = Cardinality(upTo(j))
               PROVE  FALSE
    OBVIOUS
  <2>1. upTo(i) \in SUBSET upTo(j) /\ j \in upTo(j) /\ j \notin upTo(i)
    BY <1>2
  <2>2. IsFiniteSet(upTo(j))
    BY <1>3
  <2> HIDE DEF upTo
  <2>3. upTo(j) = upTo(i)
    BY <2>1, <2>2, FS_Subset
  <2> QED
    BY <2>1, <2>3
<1>5. rank \in Injection(left, 1 .. size)
  <2>1. rank \in [left -> 1 .. size]
    BY <1>3
  <2>2. \A i, j \in left : rank[i] = rank[j] => i = j
    <3> SUFFICES ASSUME NEW i \in left, NEW j \in left, rank[i] = rank[j] PROVE i = j
      OBVIOUS
    <3>1. i \in Int /\ j \in Int
      BY <1>2
    <3>2. Cardinality(upTo(i)) = Cardinality(upTo(j))
      OBVIOUS
    <3> HIDE DEF upTo, left
    <3> QED
      BY <1>4, <3>1, <3>2
  <2> HIDE DEF rank, left, size
  <2> QED
    BY <2>1, <2>2 DEF Injection, IsInjective
<1>6. \A j \in 1 .. size : \E i \in left : rank[i] = j
  <2>1. IsFiniteSet(1 .. size) /\ Cardinality(1 .. size) = size
    BY <1>2, FS_Interval
  <2> HIDE DEF rank
  <2>2. rank \in Surjection(left, 1 .. size)
    BY <1>5, <2>1, FS_Injection
  <2> QED
    BY <2>2 DEF Surjection
<1>7. \A j \in 1 .. size : Nth(j) \in left /\ rank[Nth(j)] = j
  <2> SUFFICES ASSUME NEW j \in 1 .. size PROVE Nth(j) \in left /\ rank[Nth(j)] = j
    OBVIOUS
  <2>1. \E i \in left : Cardinality(left \cap 1 .. i) = j
    BY <1>6
  <2> HIDE DEF left
  <2>2. Nth(j) \in left /\ Cardinality(left \cap 1 .. Nth(j)) = j
    BY <2>1
  <2> QED
    BY <2>2
<1>8. Remaining(keys, gone) = [j \in 1 .. size |-> keys[Nth(j)]]
  BY DEF Remaining
<1>9. Remaining(keys, gone) \in Seq(S) /\ Len(Remaining(keys, gone)) = size
  <2>1. \A j \in 1 .. size : keys[Nth(j)] \in S
    <3> SUFFICES ASSUME NEW j \in 1 .. size PROVE keys[Nth(j)] \in S
      OBVIOUS
    <3>1. Nth(j) \in 1 .. Len(keys)
      BY <1>7, <1>2
    <3> HIDE DEF Nth
    <3> QED
      BY <3>1
  <2> HIDE DEF Nth, size
  <2> QED
    BY <2>1, <1>2, <1>8
<1>10. Range(Remaining(keys, gone)) = {keys[Nth(j)] : j \in 1 .. size}
  <2> HIDE DEF Nth, size
  <2> QED
    BY <1>8 DEF Range
<1>11. {keys[Nth(j)] : j \in 1 .. size} = Range(keys) \ gone
  <2>1. \A j \in 1 .. size : keys[Nth(j)] \in Range(keys) \ gone
    BY <1>7 DEF Range
  <2>2. ASSUME NEW k \in Range(keys) \ gone PROVE \E j \in 1 .. size : k = keys[Nth(j)]
    <3>1. PICK i \in DOMAIN keys : k = keys[i]
      BY <2>2 DEF Range
    <3>2. i \in left /\ rank[i] \in 1 .. size
      BY <3>1, <2>2, <1>3
    <3>3. rank[Nth(rank[i])] = rank[i] /\ Nth(rank[i]) \in left
      BY <3>2, <1>7
    <3> HIDE DEF rank, Nth, left, size
    <3>4. Nth(rank[i]) = i
      <4>1. rank \in [left -> 1 .. size] /\ \A a, b \in DOMAIN rank : rank[a] = rank[b] => a = b
        BY <1>5 DEF Injection, IsInjective
      <4>2. DOMAIN rank = left
        BY <4>1
      <4> QED
        BY <3>2, <3>3, <4>1, <4>2
    <3> QED
      BY <3>1, <3>2, <3>4
  <2> HIDE DEF Nth, size
  <2> QED
    BY <2>1, <2>2
<1>12. Range(keys) \cap gone # {} => size < Len(keys)
  <2> SUFFICES ASSUME NEW i \in DOMAIN keys, keys[i] \in gone PROVE size < Len(keys)
    BY DEF Range
  <2>1. left \in SUBSET ((1 .. Len(keys)) \ {i}) /\ i \in 1 .. Len(keys)
    OBVIOUS
  <2>2. /\ IsFiniteSet((1 .. Len(keys)) \ {i})
        /\ Cardinality((1 .. Len(keys)) \ {i}) = Len(keys) - 1
    BY <1>1, <2>1, FS_RemoveElement
  <2>3. size <= Len(keys) - 1
    BY <2>1, <2>2, FS_Subset
  <2> HIDE DEF left, size
  <2> QED
    BY <1>2, <2>3
<1>13. \E g \in [1 .. size -> DOMAIN keys] :
         \A j, k \in 1 .. size : Remaining(keys, gone)[j] = keys[g[j]] /\ (g[j] = g[k] => j = k)
  <2> DEFINE g == [j \in 1 .. size |-> Nth(j)]
  <2>1. \A j \in 1 .. size : g[j] = Nth(j)
    OBVIOUS
  <2>2. left \subseteq DOMAIN keys
    OBVIOUS
  <2> HIDE DEF Nth, rank, size, left
  <2>3. g \in [1 .. size -> DOMAIN keys]
    BY <1>7, <2>2
  <2> HIDE DEF g
  <2>4. \A j, k \in 1 .. size : Remaining(keys, gone)[j] = keys[g[j]] /\ (g[j] = g[k] => j = k)
    BY <1>7, <1>8, <2>1
  <2> QED
    BY <2>3, <2>4
<1>14. DOMAIN Remaining(keys, gone) = 1 .. size
  BY <1>8
<1>15. Range(keys) \cap gone # {} => Len(Remaining(keys, gone)) < Len(keys)
  <2> HIDE DEF size
  <2> QED
    BY <1>9, <1>12
<1>16. \E g \in [DOMAIN Remaining(keys, gone) -> DOMAIN keys] :
         \A j, k \in DOMAIN Remaining(keys, gone) :
           Remaining(keys, gone)[j] = keys[g[j]] /\ (g[j] = g[k] => j = k)
  <2> HIDE DEF size
  <2>1. PICK g \in [1 .. size -> DOMAIN keys] :
          \A j, k \in 1 .. size : Remaining(keys, gone)[j] = keys[g[j]] /\ (g[j] = g[k] => j = k)
    BY <1>13
  <2> DEFINE R == Remaining(keys, gone)
  <2>2. g \in [DOMAIN R -> DOMAIN keys]
    BY <1>14
  <2>3. \A j, k \in DOMAIN R : R[j] = keys[g[j]] /\ (g[j] = g[k] => j = k)
    BY <2>1, <1>14
  <2> HIDE DEF R
  <2>4. \E h \in [DOMAIN R -> DOMAIN keys] :
          \A j, k \in DOMAIN R : R[j] = keys[h[j]] /\ (h[j] = h[k] => j = k)
    BY <2>2, <2>3
  <2> QED
    BY <2>4 DEF R
<1> HIDE DEF size
<1>17. /\ Remaining(keys, gone) \in Seq(S) /\ Len(Remaining(keys, gone)) <= Len(keys)
       /\ Range(Remaining(keys, gone)) = Range(keys) \ gone
  BY <1>2, <1>9, <1>10, <1>11
<1> QED
  BY <1>15, <1>16, <1>17

Key == [dh : End \X Nat, n : Nat, mk : Roots \X Nat, ts : Nat]

\* A full store loses its oldest keys only.
LEMMA NewestIs ==
  ASSUME NEW S, NEW keys \in Seq(S)
  PROVE  /\ Newest(keys) \in Seq(S) /\ Len(Newest(keys)) <= MaxSkip
         /\ Len(Newest(keys)) = IF Len(keys) <= MaxSkip THEN Len(keys) ELSE MaxSkip
         /\ \A i \in 1 .. Len(Newest(keys)) :
              Newest(keys)[i] = keys[Len(keys) - Len(Newest(keys)) + i]
         /\ Len(keys) <= MaxSkip => Newest(keys) = keys
         /\ Range(Newest(keys)) \subseteq Range(keys)
         /\ \A i \in 1 .. Len(keys) : i > Len(keys) - MaxSkip => keys[i] \in Range(Newest(keys))
<1>1. MaxSkip \in Nat \ {0} /\ Len(keys) \in Nat
  BY RatchetAssumption
<1>2. CASE Len(keys) <= MaxSkip
  BY <1>1, <1>2 DEF Newest, Range
<1>3. CASE Len(keys) > MaxSkip
  <2> DEFINE kept == SubSeq(keys, Len(keys) - MaxSkip + 1, Len(keys))
  <2>1. Newest(keys) = kept
    BY <1>1, <1>3 DEF Newest
  <2>2. kept \in Seq(S) /\ Len(kept) = MaxSkip
    BY <1>1, <1>3
  <2>3. \A i \in 1 .. MaxSkip : kept[i] = keys[Len(keys) - MaxSkip + i]
    BY <1>1, <1>3
  <2> HIDE DEF kept
  <2>4. Range(kept) \subseteq Range(keys)
    BY <1>1, <1>3, <2>2, <2>3 DEF Range
  <2>5. ASSUME NEW i \in 1 .. Len(keys), i > Len(keys) - MaxSkip PROVE keys[i] \in Range(kept)
    <3>1. i - (Len(keys) - MaxSkip) \in 1 .. MaxSkip
      BY <1>1, <1>3, <2>5
    <3>2. kept[i - (Len(keys) - MaxSkip)] = keys[i]
      BY <1>1, <2>3, <3>1
    <3> QED
      BY <2>2, <3>1, <3>2 DEF Range
  <2> QED
    BY <1>1, <1>3, <2>1, <2>2, <2>3, <2>4, <2>5
<1> QED
  BY <1>1, <1>2, <1>3

\* Storing one batch after another is storing them together.
LEMMA NewestTwice ==
  ASSUME NEW S, NEW a \in Seq(S), NEW b \in Seq(S)
  PROVE  Newest(Newest(a) \o b) = Newest(a \o b)
<1> DEFINE na == Newest(a)
<1>0. MaxSkip \in Nat \ {0} /\ Len(a) \in Nat /\ Len(b) \in Nat
  BY RatchetAssumption
<1>1. /\ na \in Seq(S) /\ Len(na) = IF Len(a) <= MaxSkip THEN Len(a) ELSE MaxSkip
      /\ \A i \in 1 .. Len(na) : na[i] = a[Len(a) - Len(na) + i]
  BY NewestIs
<1> HIDE DEF na
<1>2. PICK ab : ab = a \o b
  OBVIOUS
<1>3. PICK nab : nab = na \o b
  OBVIOUS
<1>4. /\ ab \in Seq(S) /\ Len(ab) = Len(a) + Len(b)
      /\ nab \in Seq(S) /\ Len(nab) = Len(na) + Len(b)
  <2>1. ab \in Seq(S)
    BY <1>2
  <2>2. Len(ab) = Len(a) + Len(b)
    BY <1>2
  <2> DEFINE x == na
  <2>3. x \in Seq(S)
    BY <1>1
  <2> HIDE DEF x
  <2>4. x \o b \in Seq(S)
    BY <2>3
  <2>5. Len(x \o b) = Len(x) + Len(b)
    BY <2>3
  <2>6. nab = x \o b
    BY <1>3 DEF x
  <2>7. nab \in Seq(S) /\ Len(nab) = Len(na) + Len(b)
    BY <2>4, <2>5, <2>6 DEF x
  <2> QED
    BY <2>1, <2>2, <2>7
<1>5. /\ Newest(ab) \in Seq(S) /\ Newest(nab) \in Seq(S)
      /\ Len(Newest(ab)) = IF Len(ab) <= MaxSkip THEN Len(ab) ELSE MaxSkip
      /\ Len(Newest(nab)) = IF Len(nab) <= MaxSkip THEN Len(nab) ELSE MaxSkip
      /\ \A i \in 1 .. Len(Newest(ab)) : Newest(ab)[i] = ab[Len(ab) - Len(Newest(ab)) + i]
      /\ \A i \in 1 .. Len(Newest(nab)) : Newest(nab)[i] = nab[Len(nab) - Len(Newest(nab)) + i]
  <2>1. /\ Newest(ab) \in Seq(S)
        /\ Len(Newest(ab)) = IF Len(ab) <= MaxSkip THEN Len(ab) ELSE MaxSkip
        /\ \A i \in 1 .. Len(Newest(ab)) : Newest(ab)[i] = ab[Len(ab) - Len(Newest(ab)) + i]
    BY ZenonT(60), <1>4, NewestIs
  <2>2. /\ Newest(nab) \in Seq(S)
        /\ Len(Newest(nab)) = IF Len(nab) <= MaxSkip THEN Len(nab) ELSE MaxSkip
        /\ \A i \in 1 .. Len(Newest(nab)) : Newest(nab)[i] = nab[Len(nab) - Len(Newest(nab)) + i]
    BY ZenonT(60), <1>4, NewestIs
  <2> QED
    BY <2>1, <2>2
<1> DEFINE once == Newest(ab)
           twice == Newest(nab)
<1> HIDE DEF once, twice
<1>6. Len(once) = Len(twice) /\ Len(na) \in Nat /\ Len(once) \in Nat /\ Len(na) <= Len(a)
  BY <1>0, <1>1, <1>4, <1>5 DEF once, twice
<1>7. ASSUME NEW i \in 1 .. Len(once) PROVE once[i] = twice[i]
  <2> DEFINE j == Len(a) + Len(b) - Len(once) + i
             l == Len(na) + Len(b) - Len(twice) + i
  <2>1. j \in 1 .. Len(a) + Len(b) /\ l \in 1 .. Len(na) + Len(b)
    <3>1. Len(once) <= Len(ab) /\ Len(twice) <= Len(nab)
      BY <1>0, <1>4, <1>5 DEF once, twice
    <3>2. i \in 1 .. Len(twice)
      BY <1>6
    <3> QED
      BY <1>0, <1>4, <1>6, <3>1, <3>2
  <2>2. j - Len(a) = l - Len(na)
    BY <1>6
  <2>3. once[i] = (a \o b)[j] /\ twice[i] = (na \o b)[l]
    <3>1. once[i] = ab[j]
      <4>1. \A x \in 1 .. Len(once) : once[x] = ab[Len(ab) - Len(once) + x]
        BY <1>5 DEF once
      <4>2. Len(ab) - Len(once) + i = j
        BY <1>4
      <4> HIDE DEF j
      <4> QED
        BY <4>1, <4>2
    <3>2. twice[i] = nab[l]
      BY SMTT(60), <1>4, <1>5, <1>6 DEF twice
    <3> QED
      BY <1>2, <1>3, <3>1, <3>2
  <2> HIDE DEF j, l
  <2>4. CASE j > Len(a)
    <3>1. (a \o b)[j] = b[j - Len(a)]
      BY <1>0, <2>1, <2>4
    <3>2. (na \o b)[l] = b[l - Len(na)]
      <4>1. na \in Seq(S) /\ b \in Seq(S)
        BY <1>0, <1>1
      <4>2. l \in Len(na) + 1 .. Len(na) + Len(b)
        <5>1. Len(na) \in Nat /\ Len(a) \in Nat /\ Len(b) \in Nat
          BY <1>0, <4>1
        <5> QED
          BY <2>1, <2>2, <2>4, <5>1
      <4> HIDE DEF na
      <4> QED
        BY ONLY <4>1, <4>2
    <3> QED
      BY <2>2, <2>3, <3>1, <3>2
  <2>5. CASE j <= Len(a)
    <3>1. (a \o b)[j] = a[j]
      BY <1>0, <2>1, <2>5
    <3>2. l \in 1 .. Len(na) /\ Len(a) - Len(na) + l = j
      BY <1>0, <1>6, <2>1, <2>2, <2>5
    <3>3. (na \o b)[l] = na[l]
      BY <1>0, <1>1, <3>2
    <3>4. na[l] = a[j]
      BY <1>1, <3>2
    <3> QED
      BY <2>3, <3>1, <3>3, <3>4
  <2> QED
    BY <1>0, <2>1, <2>4, <2>5
<1>8. once = twice
  <2>1. once \in Seq(S) /\ twice \in Seq(S)
    BY <1>5 DEF once, twice
  <2> QED
    BY <2>1, <1>6, <1>7
<1> QED
  BY <1>2, <1>3, <1>8 DEF once, twice, na

\* The keys of a chain that a receiver stores when it skips from one number to another.
FreshKeys(dh, chain, from, until, now) ==
  {[dh |-> dh, n |-> n, mk |-> <<chain, n>>, ts |-> now] : n \in from .. until - 1}

\* skipMessageKeys stores one key for each number skipped.
LEMMA SkippedToIs ==
  ASSUME NEW s \in RatchetState, NEW until \in Nat, NEW now \in Nat,
         s.ckr # NoChain => s.dhr \in End \X Nat
  PROVE  /\ SkippedTo(s, until, now) \in Seq(Key)
         /\ Len(SkippedTo(s, until, now)) =
              IF s.ckr = NoChain \/ until <= s.nr THEN 0 ELSE until - s.nr
         /\ s.ckr # NoChain =>
              Range(SkippedTo(s, until, now)) = FreshKeys(s.dhr, s.ckr, s.nr, until, now)
         /\ s.ckr = NoChain => SkippedTo(s, until, now) = <<>>
<1>0. s.nr \in Nat /\ s.ckr \in Roots
  BY DEF RatchetState
<1> DEFINE fresh == SkippedTo(s, until, now)
<1>1. CASE s.ckr = NoChain \/ until <= s.nr
  <2>1. fresh = <<>>
    BY <1>1 DEF SkippedTo
  <2>2. s.ckr # NoChain => FreshKeys(s.dhr, s.ckr, s.nr, until, now) = {}
    BY <1>0, <1>1 DEF FreshKeys
  <2> QED
    BY <1>1, <2>1, <2>2 DEF Range
<1>2. CASE s.ckr # NoChain /\ until > s.nr
  <2>0. until - s.nr \in Nat
    BY <1>0, <1>2
  <2>1. fresh = [i \in 1 .. until - s.nr |->
                   [dh |-> s.dhr, n |-> s.nr + i - 1, mk |-> <<s.ckr, s.nr + i - 1>>, ts |-> now]]
    BY <1>0, <1>2 DEF SkippedTo, MessageKey
  <2>2. \A i \in 1 .. until - s.nr :
          [dh |-> s.dhr, n |-> s.nr + i - 1, mk |-> <<s.ckr, s.nr + i - 1>>, ts |-> now] \in Key
    BY <1>0, <1>2, <2>0 DEF Key
  <2>3. fresh \in Seq(Key) /\ Len(fresh) = until - s.nr
    BY <2>0, <2>1, <2>2
  <2>4. \A k \in Range(fresh) : k \in FreshKeys(s.dhr, s.ckr, s.nr, until, now)
    BY <1>0, <2>0, <2>1 DEF Range, FreshKeys
  <2>5. ASSUME NEW n \in s.nr .. until - 1
        PROVE  [dh |-> s.dhr, n |-> n, mk |-> <<s.ckr, n>>, ts |-> now] \in Range(fresh)
    <3>1. n - s.nr + 1 \in 1 .. until - s.nr /\ s.nr + (n - s.nr + 1) - 1 = n
      BY <1>0
    <3>2. fresh[n - s.nr + 1] = [dh |-> s.dhr, n |-> n, mk |-> <<s.ckr, n>>, ts |-> now]
      BY <2>1, <3>1
    <3> QED
      BY <2>1, <3>1, <3>2 DEF Range
  <2> HIDE DEF fresh
  <2>6. Range(fresh) = FreshKeys(s.dhr, s.ckr, s.nr, until, now)
    BY <2>4, <2>5 DEF FreshKeys
  <2> QED
    BY <1>0, <1>2, <2>3, <2>6 DEF fresh
<1> QED
  BY <1>0, <1>1, <1>2

LEMMA SkipMessageKeysIs ==
  ASSUME NEW s \in RatchetState, NEW until \in Nat, NEW now \in Nat,
         s.ckr # NoChain => s.dhr \in End \X Nat, Len(s.skipped) <= MaxSkip
  PROVE  /\ SkipMessageKeys(s, until, now) =
              [s EXCEPT !.skipped = Newest(s.skipped \o SkippedTo(s, until, now)),
                        !.nr = IF s.ckr = NoChain \/ until <= s.nr THEN s.nr ELSE until]
         /\ SkipMessageKeys(s, until, now) \in RatchetState
         /\ Newest(s.skipped \o SkippedTo(s, until, now)) \in Seq(Key)
<1> DEFINE fresh == SkippedTo(s, until, now)
<1>1. s.nr \in Nat /\ s.skipped \in Seq(Key)
  BY DEF RatchetState, Key
<1>2. fresh \in Seq(Key) /\ Len(fresh) = IF s.ckr = NoChain \/ until <= s.nr THEN 0 ELSE until - s.nr
  BY SkippedToIs
<1> HIDE DEF fresh
<1>3. s.skipped \o fresh \in Seq(Key)
  BY <1>1, <1>2
<1>4. Newest(s.skipped \o fresh) \in Seq(Key)
  BY <1>3, NewestIs
<1>5. (IF fresh = <<>> THEN s.skipped ELSE Newest(s.skipped \o fresh)) = Newest(s.skipped \o fresh)
  <2>1. fresh = <<>> => s.skipped \o fresh = s.skipped
    BY <1>1
  <2>2. Newest(s.skipped) = s.skipped
    BY <1>1, NewestIs
  <2> QED
    BY <2>1, <2>2
<1>6. s.nr + Len(fresh) = IF s.ckr = NoChain \/ until <= s.nr THEN s.nr ELSE until
  BY <1>1, <1>2
<1>7. SkipMessageKeys(s, until, now) =
        [s EXCEPT !.skipped = IF fresh = <<>> THEN @ ELSE Newest(@ \o fresh),
                  !.nr = @ + Len(fresh)]
  BY DEF SkipMessageKeys, fresh
<1>8. SkipMessageKeys(s, until, now) =
        [s EXCEPT !.skipped = Newest(s.skipped \o fresh),
                  !.nr = IF s.ckr = NoChain \/ until <= s.nr THEN s.nr ELSE until]
  BY <1>5, <1>6, <1>7 DEF RatchetState
<1>9. SkipMessageKeys(s, until, now) \in RatchetState
  BY <1>1, <1>4, <1>8 DEF RatchetState, Key
<1> QED
  BY <1>4, <1>8, <1>9 DEF fresh

LEMMA RangeOfBoth ==
  ASSUME NEW S, NEW a \in Seq(S), NEW b \in Seq(S)
  PROVE  a \o b \in Seq(S) /\ Range(a \o b) = Range(a) \union Range(b)
<1>1. PICK ab : ab = a \o b
  OBVIOUS
<1>2. ab \in Seq(S)
  BY <1>1
<1>3. Len(ab) = Len(a) + Len(b) /\ Len(a) \in Nat /\ Len(b) \in Nat
  BY <1>1
<1>4. \A i \in 1 .. Len(a) : ab[i] = a[i]
  BY <1>1
<1>5. \A i \in 1 .. Len(b) : ab[Len(a) + i] = b[i]
  BY <1>1
<1>6. \A k \in Range(ab) : k \in Range(a) \union Range(b)
  <2> SUFFICES ASSUME NEW k \in Range(ab) PROVE k \in Range(a) \union Range(b)
    OBVIOUS
  <2>1. PICK i \in 1 .. Len(ab) : k = ab[i]
    BY <1>2 DEF Range
  <2>2. CASE i <= Len(a)
    BY <1>3, <1>4, <2>1, <2>2 DEF Range
  <2>3. CASE i > Len(a)
    <3>1. i - Len(a) \in 1 .. Len(b) /\ Len(a) + (i - Len(a)) = i
      BY <1>3, <2>3
    <3>2. ab[i] = b[i - Len(a)]
      BY <1>5, <3>1
    <3> QED
      BY <2>1, <3>1, <3>2 DEF Range
  <2> QED
    BY <1>3, <2>2, <2>3
<1>7. \A k \in Range(a) \union Range(b) : k \in Range(ab)
  <2>1. \A i \in 1 .. Len(a) : a[i] \in Range(ab)
    BY <1>2, <1>3, <1>4 DEF Range
  <2>2. \A i \in 1 .. Len(b) : b[i] \in Range(ab)
    <3> SUFFICES ASSUME NEW i \in 1 .. Len(b) PROVE b[i] \in Range(ab)
      OBVIOUS
    <3>1. Len(a) + i \in 1 .. Len(ab)
      BY <1>3
    <3> QED
      BY <1>2, <1>5, <3>1 DEF Range
  <2> QED
    BY <2>1, <2>2 DEF Range
<1> QED
  BY <1>1, <1>2, <1>6, <1>7

\* What a full store gave up for what came in.
PushedOut(keys) ==
  IF Len(keys) - MaxSkip <= 0 THEN {} ELSE {keys[i].mk : i \in 1 .. Len(keys) - MaxSkip}

-----------------------------------------------------------------------------
(* The store.                                                              *)

\* A key put into the store is in it or was pushed out of it.
LEMMA NothingLost ==
  ASSUME NEW keys \in Seq(Key)
  PROVE  /\ PushedOut(keys) \subseteq (Roots \X Nat)
         /\ \A k \in Range(keys) : k \in Range(Newest(keys)) \/ k.mk \in PushedOut(keys)
<1>1. Len(keys) \in Nat /\ MaxSkip \in Nat
  BY RatchetAssumption
<1>2. \A i \in 1 .. Len(keys) : i > Len(keys) - MaxSkip => keys[i] \in Range(Newest(keys))
  BY NewestIs
<1>3. \A i \in 1 .. Len(keys) : keys[i].mk \in Roots \X Nat
  <2>1. \A i \in 1 .. Len(keys) : keys[i] \in Key
    OBVIOUS
  <2>2. \A k \in Key : k.mk \in Roots \X Nat
    BY DEF Key
  <2> QED
    BY <2>1, <2>2
<1>4. PushedOut(keys) \subseteq (Roots \X Nat)
  BY <1>1, <1>3 DEF PushedOut
<1>5. ASSUME NEW k \in Range(keys) PROVE k \in Range(Newest(keys)) \/ k.mk \in PushedOut(keys)
  <2>1. PICK i \in 1 .. Len(keys) : k = keys[i]
    BY DEF Range
  <2>2. CASE i > Len(keys) - MaxSkip
    BY <1>2, <2>1, <2>2
  <2>3. CASE i <= Len(keys) - MaxSkip
    BY <1>1, <2>1, <2>3 DEF PushedOut
  <2> QED
    BY <1>1, <2>1, <2>2, <2>3
<1> QED
  BY <1>4, <1>5

LEMMA GivenUp ==
  ASSUME NEW s \in RatchetState, NEW gone
  PROVE  /\ Remaining(s.skipped, gone) \in Seq(Key)
         /\ Len(Remaining(s.skipped, gone)) <= Len(s.skipped)
         /\ Range(Remaining(s.skipped, gone)) = Range(s.skipped) \ gone
         /\ [s EXCEPT !.skipped = Remaining(s.skipped, gone)] \in RatchetState
<1>1. s.skipped \in Seq(Key)
  BY DEF RatchetState, Key
<1>2. /\ Remaining(s.skipped, gone) \in Seq(Key)
      /\ Len(Remaining(s.skipped, gone)) <= Len(s.skipped)
      /\ Range(Remaining(s.skipped, gone)) = Range(s.skipped) \ gone
  BY <1>1, RemainingIs
<1> QED
  BY <1>2 DEF RatchetState, Key

Expired(keys) == {k \in keys : day - k.ts > KeyExpiry}

\* pruneSkippedKeys drops the expired keys only.
LEMMA PruneIs ==
  ASSUME NEW s \in RatchetState
  PROVE  /\ PruneSkippedKeys(s, day) \in RatchetState
         /\ PruneSkippedKeys(s, day) = [s EXCEPT !.skipped = PruneSkippedKeys(s, day).skipped]
         /\ Len(PruneSkippedKeys(s, day).skipped) <= Len(s.skipped)
         /\ Range(PruneSkippedKeys(s, day).skipped) = Range(s.skipped) \ Expired(Range(s.skipped))
<1> DEFINE gone == Expired(Range(s.skipped))
<1>1. PruneSkippedKeys(s, day) = [s EXCEPT !.skipped = Remaining(s.skipped, gone)]
  BY DEF PruneSkippedKeys, Expired
<1> HIDE DEF gone
<1>2. PruneSkippedKeys(s, day).skipped = Remaining(s.skipped, gone)
  BY <1>1 DEF RatchetState
<1>3. Range(Remaining(s.skipped, gone)) = Range(s.skipped) \ gone
  BY GivenUp
<1> QED
  BY <1>1, <1>2, <1>3, GivenUp DEF gone

\* dhRatchet, on a state whose old chain was skipped to its end.
LEMMA SteppedIs ==
  ASSUME NEW s \in RatchetState, NEW m \in Envelope, NEW p \in End, day \in Nat,
         s.ckr # NoChain => s.dhr \in End \X Nat, Len(s.skipped) <= MaxSkip
  PROVE  LET before == SkippedTo(s, m.pn, day)
             stepped == DhRatchet(SkipMessageKeys(s, m.pn, day), p, m.dh)
             recv == KdfRk(s.rk, s.dhs, m.dh)
             send == KdfRk(recv, <<p, s.dhs[2] + 1>>, m.dh)
         IN  /\ stepped = [dhs |-> <<p, s.dhs[2] + 1>>, dhr |-> m.dh, rk |-> send, cks |-> send,
                           ckr |-> recv, ns |-> 0, nr |-> 0, pn |-> s.ns,
                           skipped |-> Newest(s.skipped \o before)]
             /\ stepped \in RatchetState /\ Len(stepped.skipped) <= MaxSkip
             /\ recv # NoChain
<1> DEFINE before == SkippedTo(s, m.pn, day)
           stepped == DhRatchet(SkipMessageKeys(s, m.pn, day), p, m.dh)
           recv == KdfRk(s.rk, s.dhs, m.dh)
           send == KdfRk(recv, <<p, s.dhs[2] + 1>>, m.dh)
           skip == SkipMessageKeys(s, m.pn, day)
<1>1. /\ s.dhs \in End \X Nat /\ s.rk \in Roots /\ s.skipped \in Seq(Key)
      /\ s.ns \in Nat /\ s.nr \in Nat /\ s.pn \in Nat
      /\ m.dh \in End \X Nat /\ m.pn \in Nat
  BY DEF RatchetState, Envelope, Key
<1>2. /\ skip = [s EXCEPT !.skipped = Newest(s.skipped \o before),
                          !.nr = IF s.ckr = NoChain \/ m.pn <= s.nr THEN s.nr ELSE m.pn]
      /\ skip \in RatchetState /\ Newest(s.skipped \o before) \in Seq(Key)
  BY <1>1, SkipMessageKeysIs
<1>3. Len(Newest(s.skipped \o before)) <= MaxSkip
  <2>1. before \in Seq(Key)
    BY <1>1, SkippedToIs
  <2> HIDE DEF before
  <2>2. s.skipped \o before \in Seq(Key)
    BY <1>1, <2>1
  <2> QED
    BY <2>2, NewestIs
<1>4. recv \in Roots /\ send \in Roots /\ recv # <<>> /\ <<p, s.dhs[2] + 1>> \in End \X Nat
  <2>1. s.dhs[2] + 1 \in Nat
    BY <1>1
  <2>2. {s.dhs, m.dh} \in SUBSET (End \X Nat) /\ {<<p, s.dhs[2] + 1>>, m.dh} \in SUBSET (End \X Nat)
    BY <1>1, <2>1
  <2>3. recv \in Roots /\ recv # <<>>
    <3> DEFINE step == {s.dhs, m.dh}
    <3>1. s.rk \in Seq(SUBSET (End \X Nat)) /\ step \in SUBSET (End \X Nat)
      BY <1>1, <2>2 DEF Roots
    <3> HIDE DEF step
    <3>2. Append(s.rk, step) \in Seq(SUBSET (End \X Nat)) /\ Len(Append(s.rk, step)) = Len(s.rk) + 1
      BY <3>1
    <3>3. Append(s.rk, step) # <<>>
      BY <3>1, <3>2
    <3> QED
      BY <3>2, <3>3 DEF KdfRk, Roots, step
  <2> HIDE DEF recv
  <2>4. send \in Roots
    BY <2>2, <2>3 DEF KdfRk, Roots
  <2> QED
    BY <1>1, <2>1, <2>3, <2>4
<1> DEFINE kept == Newest(s.skipped \o before)
           mine == <<p, s.dhs[2] + 1>>
<1>5. stepped = [skip EXCEPT !.pn = skip.ns, !.ns = 0, !.nr = 0, !.dhr = m.dh, !.dhs = <<p, skip.dhs[2] + 1>>,
                  !.rk = KdfRk(KdfRk(skip.rk, skip.dhs, m.dh), <<p, skip.dhs[2] + 1>>, m.dh),
                  !.ckr = KdfRk(skip.rk, skip.dhs, m.dh),
                  !.cks = KdfRk(KdfRk(skip.rk, skip.dhs, m.dh), <<p, skip.dhs[2] + 1>>, m.dh)]
  BY DEF DhRatchet
<1> HIDE DEF stepped, skip, before, kept
<1>6. skip.ns = s.ns /\ skip.dhs = s.dhs /\ skip.rk = s.rk /\ skip.skipped = kept
  BY <1>2 DEF RatchetState, kept
<1>7. stepped = [skip EXCEPT !.pn = s.ns, !.ns = 0, !.nr = 0, !.dhr = m.dh, !.dhs = mine,
                             !.rk = send, !.ckr = recv, !.cks = send]
  BY <1>5, <1>6
<1> HIDE DEF send, recv, mine
<1>8. stepped = [dhs |-> mine, dhr |-> m.dh, rk |-> send, cks |-> send,
                 ckr |-> recv, ns |-> 0, nr |-> 0, pn |-> s.ns, skipped |-> kept]
  BY <1>2, <1>6, <1>7 DEF RatchetState
<1>9. kept \in Seq(Key) /\ Len(kept) <= MaxSkip /\ mine \in End \X Nat
  BY <1>2, <1>3, <1>4 DEF kept, mine
<1>10. stepped \in RatchetState /\ Len(stepped.skipped) <= MaxSkip
  BY <1>1, <1>4, <1>8, <1>9 DEF RatchetState, Key
<1> QED
  BY <1>4, <1>8, <1>10 DEF NoChain, stepped, skip, before, kept, send, recv, mine

-----------------------------------------------------------------------------
(* What the invariant says of an end and of an envelope.                   *)

LEMMA EndIs ==
  ASSUME Kinds, Placed, KeysKept, NEW p \in End
  PROVE  /\ At(p) \in Nat /\ SenderOf(At(p)) = p /\ st[p] \in RatchetState /\ day \in Nat
         /\ st[p].skipped \in Seq(Key) /\ Len(st[p].skipped) <= MaxSkip
         /\ st[p].ns \in Nat /\ st[p].nr \in Nat /\ st[p].pn \in Nat
         /\ At(p) >= 2 => st[p].ckr # NoChain
         /\ st[p].ckr # NoChain => At(p) >= 2 /\ st[p].dhr \in End \X Nat
         /\ Other(p) \in End /\ Other(p) # p /\ Other(Other(p)) = p
<1>1. /\ At(p) \in Nat /\ SenderOf(At(p)) = p /\ st[p] \in RatchetState /\ day \in Nat
      /\ Len(st[p].skipped) <= MaxSkip
  BY DEF Kinds, Placed, KeysKept
<1>2. /\ st[p].skipped \in Seq(Key) /\ st[p].ns \in Nat /\ st[p].nr \in Nat /\ st[p].pn \in Nat
  BY <1>1 DEF RatchetState, Key
<1>3. At(p) = 0 => st[p].ckr = NoChain
  BY DEF Placed
<1>4. At(p) > 0 => st[p].dhr = DhOf(At(p) - 1) /\ st[p].ckr = Chain(At(p) - 1)
  BY DEF Placed
<1>5. At(p) > 0 => At(p) - 1 \in Nat /\ DhOf(At(p) - 1) \in End \X Nat
  <2>1. \A j \in Nat : DhOf(j) \in End \X Nat
    BY DhIs
  <2>2. At(p) > 0 => At(p) - 1 \in Nat
    BY <1>1
  <2> QED
    BY <2>1, <2>2
<1>6. \A j \in Nat : Chain(j) = NoChain => j = 0
  BY ChainIs DEF NoChain
<1>7. Chain(0) = NoChain
  BY ChainIs DEF NoChain
<1>8. /\ At(p) >= 2 => st[p].ckr # NoChain
      /\ st[p].ckr # NoChain => At(p) >= 2 /\ st[p].dhr \in End \X Nat
  BY <1>1, <1>3, <1>4, <1>5, <1>6, <1>7
<1>9. Other(p) \in End /\ Other(p) # p /\ Other(Other(p)) = p
  BY DEF Other, End
<1> QED
  BY <1>1, <1>2, <1>8, <1>9

\* No envelope is more than one step ahead of the end it is for.
LEMMA MailIs ==
  ASSUME Kinds, Placed, InStep, Numbered, NEW m \in net
  PROVE  /\ m \in Envelope /\ m.to \in End /\ Of(m.mk) \in Nat \ {0}
         /\ m.mk = <<Chain(Of(m.mk)), m.n>> /\ m.dh = DhOf(Of(m.mk))
         /\ m.n \in Nat /\ m.pn \in Nat /\ m.at \in Nat /\ m.at <= day
         /\ m \in SentBy(Other(m.to))
         /\ Of(m.mk) <= At(Other(m.to))
         /\ Of(m.mk) # At(m.to) /\ Of(m.mk) <= At(m.to) + 1
<1>1. Sealed(m)
  BY DEF Kinds
<1>2. /\ m \in Envelope /\ m.to \in End /\ m.n \in Nat /\ m.pn \in Nat /\ m.at \in Nat /\ m.at <= day
      /\ Of(m.mk) \in Nat \ {0} /\ m.mk = <<Chain(Of(m.mk)), m.n>> /\ m.dh = DhOf(Of(m.mk))
  BY <1>1 DEF Sealed, Envelope
<1>3. m \in SentBy(Other(m.to)) /\ Other(m.to) \in End
  BY <1>2 DEF SentBy, Other, End
<1>4. Of(m.mk) <= At(Other(m.to))
  BY <1>3 DEF Numbered
<1>5. SenderOf(Of(m.mk)) # m.to
  BY <1>1, <1>2 DEF Sealed, SenderOf, Other
<1>6. SenderOf(At(m.to)) = m.to /\ At(m.to) \in Nat /\ At(Other(m.to)) \in Nat
  BY <1>2, <1>3 DEF Placed
<1>7. At(Other(m.to)) <= At(m.to) + 1
  BY <1>2, <1>6 DEF InStep, Other, End
<1> QED
  BY <1>2, <1>3, <1>4, <1>5, <1>6, <1>7

\* The keys kept under an envelope's header are those of its message key, which was passed.
LEMMA StoredAre ==
  ASSUME Kinds, Placed, InStep, Numbered, KeysKept, NEW m \in net
  PROVE  /\ StoredKeys(st[m.to], m) = {k \in Stored(m.to) : k.mk = m.mk}
         /\ \A k \in Stored(m.to) : k.mk = m.mk => Passed(m.to, m)
<1>0. m.to \in End
  BY MailIs
<1>1. ASSUME NEW k \in Stored(m.to) PROVE (k.dh = m.dh /\ k.n = m.n) <=> k.mk = m.mk
  <2>1. KeyKept(m.to, k)
    BY <1>0 DEF KeysKept
  <2>2. /\ Of(k.mk) \in Nat \ {0} /\ Of(m.mk) \in Nat \ {0}
        /\ k.mk = <<Chain(Of(k.mk)), k.n>> /\ k.dh = DhOf(Of(k.mk))
        /\ m.mk = <<Chain(Of(m.mk)), m.n>> /\ m.dh = DhOf(Of(m.mk))
    BY <2>1, MailIs DEF KeyKept
  <2>3. k.dh = m.dh => Of(k.mk) = Of(m.mk)
    <3>1. \A j, l \in Nat : DhOf(j) = DhOf(l) => j = l
      BY DhIs
    <3> QED
      BY <2>2, <3>1
  <2>4. k.mk = m.mk => k.n = m.n
    <3>1. k.mk = m.mk => k.mk[2] = m.mk[2]
      OBVIOUS
    <3> QED
      BY <2>2, <3>1
  <2> QED
    BY <2>2, <2>3, <2>4
<1>2. ASSUME NEW k \in Stored(m.to), k.mk = m.mk PROVE Passed(m.to, m)
  <2>1. KeyKept(m.to, k) /\ k.n = m.n
    BY <1>0, <1>1, <1>2 DEF KeysKept
  <2>2. At(m.to) \in Nat /\ Of(m.mk) \in Nat
    BY <1>0, EndIs, MailIs
  <2> QED
    BY <1>2, <2>1, <2>2 DEF KeyKept, Passed
<1> QED
  BY <1>1, <1>2 DEF StoredKeys, Stored

\* The chain an envelope finds when the receiver caught up with it.
LEMMA CaughtIs ==
  ASSUME Kinds, Placed, InStep, Numbered, KeysKept, NEW m \in net
  PROVE  LET p == m.to
             s == st[p]
             caught == CaughtUp(s, p, m, day)
             stepped == DhRatchet(SkipMessageKeys(s, m.pn, day), p, m.dh)
         IN  /\ Of(m.mk) = At(p) - 1 =>
                  /\ m.dh = s.dhr /\ caught = SkipMessageKeys(s, m.n, day)
                  /\ caught.ckr = Chain(Of(m.mk)) /\ caught.ckr # NoChain
                  /\ caught.nr = IF m.n <= s.nr THEN s.nr ELSE m.n
             /\ Of(m.mk) # At(p) - 1 =>
                  /\ m.dh # s.dhr /\ caught = SkipMessageKeys(stepped, m.n, day)
                  /\ stepped.dhr \in End \X Nat
                  /\ caught.ckr = KdfRk(Chain(At(p)), DhOf(At(p)), m.dh) /\ caught.ckr # NoChain
                  /\ caught.nr = m.n
             /\ caught \in RatchetState
<1> DEFINE p == m.to
           s == st[p]
           stepped == DhRatchet(SkipMessageKeys(s, m.pn, day), p, m.dh)
           caught == CaughtUp(s, p, m, day)
<1>1. /\ p \in End /\ m \in Envelope /\ m.n \in Nat /\ m.pn \in Nat
      /\ Of(m.mk) \in Nat \ {0} /\ m.dh = DhOf(Of(m.mk)) /\ m.dh \in End \X Nat
  <2>1. /\ p \in End /\ m \in Envelope /\ m.n \in Nat /\ m.pn \in Nat
        /\ Of(m.mk) \in Nat \ {0} /\ m.dh = DhOf(Of(m.mk))
    BY MailIs
  <2>2. m.dh \in End \X Nat
    BY <2>1 DEF Envelope
  <2> QED
    BY <2>1, <2>2
<1>2. /\ At(p) \in Nat /\ s \in RatchetState /\ day \in Nat /\ Len(s.skipped) <= MaxSkip
      /\ s.ckr # NoChain => s.dhr \in End \X Nat
      /\ At(p) >= 2 => s.ckr # NoChain
  BY <1>1, EndIs
<1>3. /\ At(p) = 0 => s.dhr = NoKey
      /\ At(p) > 0 => s.dhr = DhOf(At(p) - 1) /\ s.ckr = Chain(At(p) - 1)
      /\ s.rk = Chain(At(p)) /\ s.dhs = DhOf(At(p))
  BY <1>1 DEF Placed
<1> HIDE DEF p, stepped, s, caught
<1>4. m.dh = s.dhr <=> Of(m.mk) = At(p) - 1
  <2>1. m.dh # NoKey
    BY <1>1 DEF NoKey, DhOf
  <2>2. At(p) > 0 => (m.dh = s.dhr <=> Of(m.mk) = At(p) - 1)
    <3>1. At(p) > 0 => At(p) - 1 \in Nat
      BY <1>2
    <3> QED
      BY <1>1, <1>3, <3>1, DhIs
  <2> QED
    BY <1>1, <1>2, <1>3, <2>1, <2>2
<1>5. CASE Of(m.mk) = At(p) - 1
  <2>0. At(p) >= 2 /\ s.ckr = Chain(Of(m.mk))
    BY <1>1, <1>2, <1>3, <1>5
  <2>1. caught = SkipMessageKeys(s, m.n, day)
    BY <1>4, <1>5 DEF CaughtUp, caught
  <2>2. /\ caught = [s EXCEPT !.skipped = Newest(s.skipped \o SkippedTo(s, m.n, day)),
                              !.nr = IF s.ckr = NoChain \/ m.n <= s.nr THEN s.nr ELSE m.n]
        /\ caught \in RatchetState
    BY <1>1, <1>2, <2>1, SkipMessageKeysIs
  <2>3. caught.ckr = s.ckr /\ caught.nr = IF m.n <= s.nr THEN s.nr ELSE m.n
    BY <1>2, <2>0, <2>2 DEF RatchetState
  <2> QED
    BY <1>2, <1>4, <1>5, <2>0, <2>1, <2>2, <2>3 DEF p, stepped, s, caught
<1>6. CASE Of(m.mk) # At(p) - 1
  <2>1. caught = SkipMessageKeys(stepped, m.n, day)
    BY <1>4, <1>6 DEF CaughtUp, caught, stepped
  <2>2. /\ stepped \in RatchetState /\ Len(stepped.skipped) <= MaxSkip
        /\ stepped.dhr = m.dh /\ stepped.nr = 0
        /\ stepped.ckr = KdfRk(s.rk, s.dhs, m.dh) /\ stepped.ckr # NoChain
    <3> DEFINE recv == KdfRk(s.rk, s.dhs, m.dh)
               mine == <<p, s.dhs[2] + 1>>
               kept == Newest(s.skipped \o SkippedTo(s, m.pn, day))
    <3>1. /\ stepped = [dhs |-> mine, dhr |-> m.dh, rk |-> KdfRk(recv, mine, m.dh),
                        cks |-> KdfRk(recv, mine, m.dh), ckr |-> recv, ns |-> 0, nr |-> 0,
                        pn |-> s.ns, skipped |-> kept]
          /\ stepped \in RatchetState /\ Len(stepped.skipped) <= MaxSkip /\ recv # NoChain
      BY <1>1, <1>2, SteppedIs DEF stepped
    <3> HIDE DEF recv, mine, kept
    <3>2. stepped.dhr = m.dh /\ stepped.nr = 0 /\ stepped.ckr = recv
      BY <3>1
    <3> QED
      BY <3>1, <3>2 DEF recv
  <2>3. /\ caught = [stepped EXCEPT !.skipped = Newest(stepped.skipped \o SkippedTo(stepped, m.n, day)),
                       !.nr = IF stepped.ckr = NoChain \/ m.n <= stepped.nr THEN stepped.nr ELSE m.n]
        /\ caught \in RatchetState
    BY <1>1, <1>2, <2>1, <2>2, SkipMessageKeysIs
  <2>4. caught.ckr = stepped.ckr /\ caught.nr = m.n
    BY <1>1, <2>2, <2>3 DEF RatchetState
  <2> QED
    BY <1>1, <1>3, <1>4, <1>6, <2>1, <2>2, <2>3, <2>4 DEF p, stepped, s, caught
<1> QED
  BY <1>5, <1>6

\* An envelope opens if its key is kept, or is yet to come on the receiving chain, or on
\* the one that the next step of the ratchet gives.
LEMMA OpensIff ==
  ASSUME Kinds, Placed, InStep, Numbered, KeysKept, NEW m \in net
  PROVE  LET p == m.to
         IN  /\ RatchetDecrypt(st[p], p, m, day).ok <=>
                  /\ WithinSkipBound(st[p], m)
                  /\ \/ StoredKeys(st[p], m) # {}
                     \/ Of(m.mk) = At(p) + 1
                     \/ Of(m.mk) = At(p) - 1 /\ m.n >= st[p].nr
             /\ RatchetDecrypt(st[p], p, m, day).ok \in BOOLEAN
<1> DEFINE p == m.to
           s == st[p]
           caught == CaughtUp(s, p, m, day)
<1>1. /\ p \in End /\ m.n \in Nat /\ Of(m.mk) \in Nat \ {0}
      /\ m.mk = <<Chain(Of(m.mk)), m.n>> /\ m.dh = DhOf(Of(m.mk))
  BY MailIs
<1>2. At(p) \in Nat /\ s.nr \in Nat
  BY <1>1, EndIs
<1>3. StoredKeys(s, m) # {} => \E k \in StoredKeys(s, m) : k.mk = m.mk
  BY StoredAre
<1>4. (caught.ckr # NoChain /\ MessageKey(caught.ckr, caught.nr) = m.mk) <=>
        \/ Of(m.mk) = At(p) + 1
        \/ Of(m.mk) = At(p) - 1 /\ m.n >= s.nr
  <2> DEFINE ckr == caught.ckr
             nr == caught.nr
  <2>1. <<ckr, nr>> = m.mk <=> ckr = Chain(Of(m.mk)) /\ nr = m.n
    <3> HIDE DEF ckr, nr
    <3> DEFINE chain == Chain(Of(m.mk))
    <3>1. m.mk = <<chain, m.n>>
      BY <1>1
    <3> HIDE DEF chain
    <3>2. <<ckr, nr>> = <<chain, m.n>> <=> ckr = chain /\ nr = m.n
      OBVIOUS
    <3> QED
      BY <3>1, <3>2 DEF chain
  <2>2. CASE Of(m.mk) = At(p) - 1
    <3>1. ckr = Chain(Of(m.mk)) /\ ckr # NoChain /\ nr = IF m.n <= s.nr THEN s.nr ELSE m.n
      BY <2>2, CaughtIs
    <3>2. nr = m.n <=> m.n >= s.nr
      BY <1>1, <1>2, <3>1
    <3> QED
      BY <1>1, <1>2, <2>1, <2>2, <3>1, <3>2 DEF MessageKey
  <2>3. CASE Of(m.mk) # At(p) - 1
    <3>1. ckr = KdfRk(Chain(At(p)), DhOf(At(p)), m.dh) /\ ckr # NoChain /\ nr = m.n
      BY <2>3, CaughtIs
    <3>2. ckr = Chain(Of(m.mk)) <=> Of(m.mk) = At(p) + 1
      <4>1. Of(m.mk) = At(p) + 1 => ckr = Chain(Of(m.mk))
        BY <1>1, <1>2, <3>1, ChainIs
      <4>2. Len(ckr) = At(p) + 1
        <5>1. Chain(At(p)) \in Roots /\ Len(Chain(At(p))) = At(p)
          BY <1>2, ChainIs
        <5>2. {DhOf(At(p)), m.dh} \in SUBSET (End \X Nat)
          BY <1>1, <1>2, DhIs
        <5> QED
          BY <3>1, <5>1, <5>2 DEF KdfRk, Roots
      <4>3. Len(Chain(Of(m.mk))) = Of(m.mk)
        BY <1>1, ChainIs
      <4> QED
        BY <4>1, <4>2, <4>3
    <3> QED
      BY <2>1, <2>3, <3>1, <3>2 DEF MessageKey
  <2> QED
    BY <2>2, <2>3
<1> HIDE DEF s, p, caught
<1>5. CASE ~WithinSkipBound(s, m)
  BY <1>5 DEF RatchetDecrypt, s, p
<1>6. CASE WithinSkipBound(s, m) /\ StoredKeys(s, m) # {}
  <2>1. RatchetDecrypt(s, p, m, day) = [ok |-> TRUE, state |-> Forget(s, m)]
    BY <1>3, <1>6 DEF RatchetDecrypt
  <2>2. RatchetDecrypt(s, p, m, day).ok = TRUE
    BY <2>1
  <2> QED
    BY <1>6, <2>2 DEF s, p
<1>7. CASE WithinSkipBound(s, m) /\ StoredKeys(s, m) = {}
  <2>1. RatchetDecrypt(s, p, m, day) =
          IF caught.ckr # NoChain /\ MessageKey(caught.ckr, caught.nr) = m.mk
          THEN [ok |-> TRUE, state |-> [caught EXCEPT !.nr = @ + 1]]
          ELSE [ok |-> FALSE, state |-> s]
    BY <1>7 DEF RatchetDecrypt, caught
  <2>2. CASE caught.ckr # NoChain /\ MessageKey(caught.ckr, caught.nr) = m.mk
    <3>1. RatchetDecrypt(s, p, m, day).ok = TRUE
      BY <2>1, <2>2
    <3> QED
      BY <1>4, <1>7, <2>2, <3>1 DEF s, p
  <2>3. CASE ~(caught.ckr # NoChain /\ MessageKey(caught.ckr, caught.nr) = m.mk)
    <3>1. RatchetDecrypt(s, p, m, day).ok = FALSE
      BY <2>1, <2>3
    <3> QED
      BY <1>4, <1>7, <2>3, <3>1 DEF s, p
  <2> QED
    BY <2>2, <2>3
<1> QED
  BY <1>5, <1>6, <1>7 DEF s, p

LEMMA InvOpensOnce == RatchetInv => KeysUsedOnce /\ UnopenedOpens /\ OpenedIsForgotten
<1> SUFFICES ASSUME RatchetInv PROVE KeysUsedOnce /\ UnopenedOpens /\ OpenedIsForgotten
  OBVIOUS
<1>0. /\ Kinds /\ Placed /\ InStep /\ Numbered /\ KeysKept
      /\ Counted /\ NotOpened /\ OpenedIsPassed
  BY DEF RatchetInv
<1>1. KeysUsedOnce
  <2> SUFFICES ASSUME NEW m1 \in net, NEW m2 \in net, m1.mk = m2.mk PROVE m1 = m2
    BY DEF KeysUsedOnce
  <2>1. m1.mk[2] = m1.n /\ m2.mk[2] = m2.n
    <3>1. m1.mk = <<Chain(Of(m1.mk)), m1.n>> /\ m2.mk = <<Chain(Of(m2.mk)), m2.n>>
      BY <1>0, MailIs
    <3> QED
      BY <3>1
  <2> QED
    BY <1>0, <2>1 DEF Counted
<1>2. UnopenedOpens
  <2> SUFFICES ASSUME NEW m \in net, m \notin opened["initiator"], m \notin opened["responder"]
               PROVE  \/ RatchetDecrypt(st[m.to], m.to, m, day).ok
                      \/ ~WithinSkipBound(st[m.to], m)
                      \/ m.mk \in overrun
                      \/ day - m.at > KeyExpiry
    BY DEF UnopenedOpens
  <2>1. /\ m.to \in End /\ m \in SentBy(Other(m.to)) /\ Of(m.mk) \in Nat /\ m.n \in Nat
        /\ Of(m.mk) # At(m.to) /\ Of(m.mk) <= At(m.to) + 1
    BY <1>0, MailIs, EndIs
  <2>2. Other(Other(m.to)) = m.to /\ At(m.to) \in Nat /\ st[m.to].nr \in Nat /\ m \notin opened[m.to]
    BY <1>0, <2>1, EndIs DEF End
  <2>3. CASE Passed(m.to, m)
    <3>1. \/ \E k \in Stored(m.to) : k.mk = m.mk /\ k.ts >= m.at
          \/ m.mk \in overrun
          \/ day - m.at > KeyExpiry
      BY <1>0, <2>1, <2>2, <2>3 DEF NotOpened
    <3>2. (\E k \in Stored(m.to) : k.mk = m.mk) => StoredKeys(st[m.to], m) # {}
      BY <1>0, StoredAre
    <3> QED
      BY <1>0, <3>1, <3>2, OpensIff
  <2>4. CASE ~Passed(m.to, m)
    <3>1. Of(m.mk) = At(m.to) + 1 \/ (Of(m.mk) = At(m.to) - 1 /\ m.n >= st[m.to].nr)
      BY <2>1, <2>2, <2>4 DEF Passed
    <3> QED
      BY <1>0, <3>1, OpensIff
  <2> QED
    BY <2>3, <2>4
<1>3. OpenedIsForgotten
  <2> SUFFICES ASSUME NEW p \in End, NEW m \in opened[p]
               PROVE  /\ ~RatchetDecrypt(st[p], p, m, day).ok
                      /\ \A k \in Range(st[p].skipped) : k.mk # m.mk
                      /\ ~(st[p].ckr = m.mk[1] /\ st[p].nr <= m.mk[2])
    BY DEF OpenedIsForgotten
  <2>1. m \in net /\ m.to = p /\ Passed(p, m) /\ \A k \in Stored(p) : k.mk # m.mk
    BY <1>0, EndIs DEF OpenedIsPassed, SentBy
  <2>2. /\ Of(m.mk) \in Nat \ {0} /\ m.n \in Nat /\ m.mk = <<Chain(Of(m.mk)), m.n>>
        /\ At(p) \in Nat /\ st[p].nr \in Nat
    BY <1>0, <2>1, MailIs, EndIs
  <2>3. StoredKeys(st[p], m) = {}
    BY <1>0, <2>1, StoredAre
  <2>4. ~RatchetDecrypt(st[p], p, m, day).ok
    BY <1>0, <2>1, <2>2, <2>3, OpensIff DEF Passed
  <2>5. m.mk[1] = Chain(Of(m.mk)) /\ m.mk[2] = m.n
    BY <2>2
  <2>6. st[p].ckr = Chain(Of(m.mk)) => Of(m.mk) = At(p) - 1
    <3>1. At(p) > 0 /\ At(p) - 1 \in Nat
      BY <2>1, <2>2 DEF Passed
    <3>2. st[p].ckr = Chain(At(p) - 1)
      BY <1>0, <3>1 DEF Placed
    <3> QED
      BY <2>2, <3>1, <3>2, ChainIs
  <2> QED
    BY <2>1, <2>2, <2>4, <2>5, <2>6 DEF Passed, Stored
<1> QED
  BY <1>1, <1>2, <1>3

-----------------------------------------------------------------------------
(* An envelope opens.                                                      *)

\* What an end keeps of the keys it had and the keys it skipped, once it opened an envelope.
Keeps(p, m, t, fresh) ==
  /\ Len(t.skipped) <= MaxSkip
  /\ Range(t.skipped) \subseteq Stored(p) \union fresh
  /\ \A k \in Range(t.skipped) : k.mk # m.mk
  /\ \A k \in Stored(p) \union fresh :
       \/ k \in Range(t.skipped)
       \/ k.mk \in overrun'
       \/ day - k.ts > KeyExpiry
       \/ k.mk = m.mk

FromStore(m, t) ==
  /\ Passed(m.to, m)
  /\ t = [st[m.to] EXCEPT !.skipped = t.skipped]
  /\ Keeps(m.to, m, t, {})

OnChain(m, t) ==
  LET s == st[m.to]
  IN  /\ Of(m.mk) = At(m.to) - 1 /\ m.n >= s.nr
      /\ t = [s EXCEPT !.nr = m.n + 1, !.skipped = t.skipped]
      /\ Keeps(m.to, m, t, FreshKeys(m.dh, Chain(Of(m.mk)), s.nr, m.n, day))

\* The keys left of the chain before.
Remainder(p, m) ==
  IF At(p) < 2 THEN {}
  ELSE FreshKeys(DhOf(At(p) - 1), Chain(At(p) - 1), st[p].nr, m.pn, day)

OnNextChain(m, t) ==
  LET p == m.to
  IN  /\ Of(m.mk) = At(p) + 1
      /\ t = [dhs |-> DhOf(At(p) + 2), dhr |-> m.dh, rk |-> Chain(At(p) + 2),
              cks |-> Chain(At(p) + 2), ckr |-> Chain(At(p) + 1), ns |-> 0, nr |-> m.n + 1,
              pn |-> st[p].ns, skipped |-> t.skipped]
      /\ Keeps(p, m, t, Remainder(p, m) \union FreshKeys(m.dh, Chain(Of(m.mk)), 0, m.n, day))

LEMMA KeepsIs ==
  ASSUME NEW p \in End, NEW m, NEW keys \in Seq(Key), NEW fresh, NEW c \in RatchetState,
         c.skipped = Newest(keys), Range(keys) = Stored(p) \union fresh,
         \A k \in Range(keys) : k.mk # m.mk,
         overrun' = overrun \union PushedOut(keys)
  PROVE  Keeps(p, m, PruneSkippedKeys(c, day), fresh)
<1> DEFINE t == PruneSkippedKeys(c, day)
<1>1. /\ Len(t.skipped) <= Len(c.skipped)
      /\ Range(t.skipped) = Range(c.skipped) \ Expired(Range(c.skipped))
      /\ t \in RatchetState
  BY PruneIs
<1>2. Len(Newest(keys)) <= MaxSkip /\ Range(Newest(keys)) \subseteq Range(keys)
  BY NewestIs
<1>3. \A k \in Range(keys) : k \in Range(Newest(keys)) \/ k.mk \in PushedOut(keys)
  BY NothingLost
<1> HIDE DEF t
<1>4. Len(t.skipped) <= MaxSkip
  <2>1. Len(t.skipped) \in Nat /\ Len(Newest(keys)) \in Nat /\ MaxSkip \in Nat
    BY SMTT(60), <1>1, NewestIs, RatchetAssumption DEF RatchetState
  <2> QED
    BY <1>1, <1>2, <2>1
<1>5. \A k \in Range(c.skipped) : k \in Range(t.skipped) \/ day - k.ts > KeyExpiry
  BY <1>1 DEF Expired
<1> QED
  BY <1>1, <1>2, <1>3, <1>4, <1>5 DEF Keeps, t

LEMMA DecryptIs ==
  ASSUME Kinds, Placed, InStep, Numbered, KeysKept, NEW m \in net
  PROVE  LET s == st[m.to]
             d == RatchetDecrypt(s, m.to, m, day)
         IN  /\ ~d.ok => d.state = s
             /\ d.ok /\ StoredKeys(s, m) # {} => d.state = Forget(s, m)
             /\ d.ok /\ StoredKeys(s, m) = {} =>
                  d.state = [CaughtUp(s, m.to, m, day) EXCEPT !.nr = @ + 1]
<1> DEFINE s == st[m.to]
           d == RatchetDecrypt(s, m.to, m, day)
           caught == CaughtUp(s, m.to, m, day)
           advanced == [caught EXCEPT !.nr = @ + 1]
           forgotten == Forget(s, m)
<1>1. StoredKeys(s, m) # {} => \E k \in StoredKeys(s, m) : k.mk = m.mk
  BY StoredAre
<1>2. d = IF ~WithinSkipBound(s, m) THEN [ok |-> FALSE, state |-> s]
          ELSE IF StoredKeys(s, m) # {}
          THEN IF \E k \in StoredKeys(s, m) : k.mk = m.mk
               THEN [ok |-> TRUE, state |-> forgotten]
               ELSE [ok |-> FALSE, state |-> s]
          ELSE IF caught.ckr # NoChain /\ MessageKey(caught.ckr, caught.nr) = m.mk
          THEN [ok |-> TRUE, state |-> advanced]
          ELSE [ok |-> FALSE, state |-> s]
  BY DEF RatchetDecrypt
<1> HIDE DEF s, d, caught, advanced, forgotten
<1>3. \/ d = [ok |-> FALSE, state |-> s]
      \/ d = [ok |-> TRUE, state |-> forgotten] /\ StoredKeys(s, m) # {}
      \/ d = [ok |-> TRUE, state |-> advanced] /\ StoredKeys(s, m) = {}
  BY <1>1, <1>2
<1>4. /\ ~d.ok => d.state = s
      /\ d.ok /\ StoredKeys(s, m) # {} => d.state = forgotten
      /\ d.ok /\ StoredKeys(s, m) = {} => d.state = advanced
  BY <1>3
<1> QED
  BY <1>4 DEF s, d, caught, advanced, forgotten

LEMMA StoreIs ==
  ASSUME NEW s \in RatchetState
  PROVE  s.skipped \in Seq(Key) /\ Len(s.skipped) \in Nat
<1>1. s.skipped \in Seq(Key)
  BY DEF RatchetState, Key
<1> QED
  BY <1>1

LEMMA FreshOf ==
  ASSUME NEW dh, NEW chain, NEW from \in Nat, NEW until \in Nat,
         NEW k \in FreshKeys(dh, chain, from, until, day)
  PROVE  /\ k.dh = dh /\ k.n \in from .. until - 1 /\ k.mk = <<chain, k.n>> /\ k.ts = day
BY DEF FreshKeys

\* Opened with a stored key: the key is gone, the rest stays.
LEMMA OpensFromStore ==
  ASSUME Kinds, Placed, InStep, Numbered, KeysKept, NEW m \in net, Receive(m.to, m),
         RatchetDecrypt(st[m.to], m.to, m, day).ok, StoredKeys(st[m.to], m) # {}
  PROVE  LET t == PruneSkippedKeys(RatchetDecrypt(st[m.to], m.to, m, day).state, day)
         IN  t \in RatchetState /\ FromStore(m, t) /\ overrun' = overrun
<1> DEFINE p == m.to
           s == st[p]
           gone == StoredKeys(s, m)
           left == Forget(s, m)
           t == PruneSkippedKeys(left, day)
<1>1. p \in End /\ s \in RatchetState /\ day \in Nat /\ Len(s.skipped) <= MaxSkip
  BY MailIs, EndIs
<1>2. RatchetDecrypt(s, p, m, day).state = left
  BY DecryptIs
<1>3. gone = {k \in Stored(p) : k.mk = m.mk} /\ Passed(p, m)
  <2>1. gone = {k \in Stored(p) : k.mk = m.mk} /\ \A k \in Stored(p) : k.mk = m.mk => Passed(p, m)
    BY StoredAre
  <2> QED
    BY <2>1
<1>4. overrun' = overrun
  <2>1. Overrun(s, p, m) = {}
    BY DEF Overrun
  <2> QED
    BY <2>1 DEF Receive
<1>5. /\ left = [s EXCEPT !.skipped = Remaining(s.skipped, gone)]
      /\ left \in RatchetState
      /\ Len(Remaining(s.skipped, gone)) <= Len(s.skipped)
      /\ Range(Remaining(s.skipped, gone)) = Stored(p) \ gone
  <2>1. left = [s EXCEPT !.skipped = Remaining(s.skipped, gone)]
    BY DEF Forget
  <2> HIDE DEF gone, left, s
  <2> QED
    BY <1>1, <2>1, GivenUp DEF Stored, s
<1> HIDE DEF gone, left, s
<1>6. left.skipped = Remaining(s.skipped, gone)
  BY <1>1, <1>5 DEF RatchetState
<1>7. /\ t \in RatchetState /\ t = [left EXCEPT !.skipped = t.skipped]
      /\ Len(t.skipped) <= Len(left.skipped)
      /\ Range(t.skipped) = Range(left.skipped) \ Expired(Range(left.skipped))
  BY <1>5, PruneIs
<1> HIDE DEF t
<1>8. t = [s EXCEPT !.skipped = t.skipped]
  BY <1>1, <1>5, <1>7 DEF RatchetState
<1>9. Len(t.skipped) <= MaxSkip
  <2>1. Len(t.skipped) \in Nat /\ Len(left.skipped) \in Nat /\ Len(s.skipped) \in Nat /\ MaxSkip \in Nat
    BY <1>1, <1>5, <1>7, RatchetAssumption, StoreIs
  <2> QED
    BY <1>1, <1>5, <1>6, <1>7, <2>1
<1>10. Range(t.skipped) = (Stored(p) \ gone) \ Expired(Stored(p) \ gone)
  BY <1>5, <1>6, <1>7
<1>11. Keeps(p, m, t, {})
  BY <1>3, <1>9, <1>10 DEF Keeps, Expired
<1> QED
  BY <1>2, <1>3, <1>4, <1>7, <1>8, <1>11 DEF FromStore, t, left, s

\* Opened on the current receiving chain.
LEMMA OpensOnChain ==
  ASSUME Kinds, Placed, InStep, Numbered, KeysKept, NEW m \in net, Receive(m.to, m),
         RatchetDecrypt(st[m.to], m.to, m, day).ok, StoredKeys(st[m.to], m) = {},
         Of(m.mk) = At(m.to) - 1
  PROVE  LET t == PruneSkippedKeys(RatchetDecrypt(st[m.to], m.to, m, day).state, day)
         IN  /\ t \in RatchetState /\ OnChain(m, t)
             /\ \E keys \in Seq(Key) : overrun' = overrun \union PushedOut(keys)
<1> DEFINE p == m.to
           s == st[p]
           caught == CaughtUp(s, p, m, day)
           c == [caught EXCEPT !.nr = @ + 1]
           fresh == SkippedTo(s, m.n, day)
           t == PruneSkippedKeys(c, day)
<1>1. /\ p \in End /\ m.n \in Nat /\ Of(m.mk) \in Nat \ {0} /\ m.mk = <<Chain(Of(m.mk)), m.n>>
  BY MailIs
<1>2. /\ s \in RatchetState /\ day \in Nat /\ Len(s.skipped) <= MaxSkip /\ s.nr \in Nat
      /\ At(p) \in Nat /\ s.skipped \in Seq(Key)
      /\ s.ckr # NoChain => s.dhr \in End \X Nat
      /\ At(p) >= 2 => s.ckr # NoChain
  BY <1>1, EndIs
<1>3. /\ m.dh = s.dhr /\ caught = SkipMessageKeys(s, m.n, day)
      /\ caught.nr = IF m.n <= s.nr THEN s.nr ELSE m.n
  BY CaughtIs
<1>4. m.n >= s.nr
  BY <1>1, <1>2, OpensIff
<1>5. s.ckr = Chain(Of(m.mk)) /\ s.ckr # NoChain /\ s.dhr \in End \X Nat
  BY <1>1, <1>2 DEF Placed
<1>6. /\ fresh \in Seq(Key)
      /\ Range(fresh) = FreshKeys(m.dh, Chain(Of(m.mk)), s.nr, m.n, day)
  <2> HIDE DEF s
  <2>1. /\ SkippedTo(s, m.n, day) \in Seq(Key)
        /\ Range(SkippedTo(s, m.n, day)) = FreshKeys(s.dhr, s.ckr, s.nr, m.n, day)
    BY <1>1, <1>2, <1>5, SkippedToIs
  <2> QED
    BY <1>3, <1>5, <2>1
<1>7. PICK keys : keys = s.skipped \o fresh
  OBVIOUS
<1>8. keys \in Seq(Key) /\ Range(keys) = Stored(p) \union Range(fresh)
  <2> HIDE DEF fresh, s
  <2> QED
    BY <1>2, <1>6, <1>7, RangeOfBoth DEF Stored, s
<1>9. /\ caught = [s EXCEPT !.skipped = Newest(keys), !.nr = m.n]
      /\ caught \in RatchetState
  <2>1. /\ SkipMessageKeys(s, m.n, day) =
              [s EXCEPT !.skipped = Newest(s.skipped \o fresh),
                        !.nr = IF s.ckr = NoChain \/ m.n <= s.nr THEN s.nr ELSE m.n]
        /\ SkipMessageKeys(s, m.n, day) \in RatchetState
    BY <1>1, <1>2, SkipMessageKeysIs
  <2>2. (IF s.ckr = NoChain \/ m.n <= s.nr THEN s.nr ELSE m.n) = m.n
    BY <1>1, <1>2, <1>4, <1>5
  <2> HIDE DEF s, fresh, caught
  <2> QED
    BY <1>3, <1>7, <2>1, <2>2
<1>10. overrun' = overrun \union PushedOut(keys)
  <2>1. Overrun(s, p, m) = PushedOut(s.skipped \o fresh)
    BY <1>3 DEF Overrun, PushedOut
  <2> QED
    BY <1>7, <2>1 DEF Receive
<1>11. \A k \in Range(keys) : k.mk # m.mk
  <2>1. \A k \in Stored(p) : k.mk # m.mk
    BY StoredAre
  <2>2. ASSUME NEW k \in Range(fresh) PROVE k.mk # m.mk
    <3> HIDE DEF s, fresh
    <3>0. k \in FreshKeys(m.dh, Chain(Of(m.mk)), s.nr, m.n, day)
      BY <1>6
    <3>1. k.n \in s.nr .. m.n - 1 /\ k.mk = <<Chain(Of(m.mk)), k.n>>
      BY <1>1, <1>2, <3>0 DEF FreshKeys
    <3>2. k.mk[2] = k.n /\ m.mk[2] = m.n
      BY <1>1, <3>1
    <3> QED
      BY <1>1, <1>2, <3>1, <3>2
  <2> QED
    BY <1>8, <2>1, <2>2
<1>12. RatchetDecrypt(s, p, m, day).state = c
  BY DecryptIs
<1> HIDE DEF caught, fresh, s
<1>13. c \in RatchetState /\ c.skipped = Newest(keys) /\ c = [s EXCEPT !.skipped = Newest(keys), !.nr = m.n + 1]
  <2>1. Newest(keys) \in Seq(Key)
    BY <1>8, NewestIs
  <2>2. caught.nr = m.n
    BY <1>2, <1>9 DEF RatchetState
  <2>3. c = [caught EXCEPT !.nr = m.n + 1]
    BY <2>2
  <2>4. c = [s EXCEPT !.skipped = Newest(keys), !.nr = m.n + 1]
    BY <1>2, <1>9, <2>3 DEF RatchetState
  <2> HIDE DEF c
  <2>5. PICK store \in Seq(Key) : store = Newest(keys)
    BY <2>1
  <2>6. PICK next \in Nat : next = m.n + 1
    BY <1>1
  <2>7. c = [s EXCEPT !.skipped = store, !.nr = next]
    BY <2>4, <2>5, <2>6
  <2>8. c \in RatchetState /\ c.skipped = store
    BY <1>2, <2>7 DEF RatchetState, Key
  <2> QED
    BY <2>4, <2>5, <2>8
<1> HIDE DEF c, p
<1>14. Keeps(p, m, t, Range(fresh))
  BY <1>1, <1>8, <1>10, <1>11, <1>13, KeepsIs
<1>15. t \in RatchetState /\ t = [c EXCEPT !.skipped = t.skipped]
  BY <1>13, PruneIs
<1> HIDE DEF t
<1>16. t = [s EXCEPT !.nr = m.n + 1, !.skipped = t.skipped]
  BY <1>2, <1>13, <1>15 DEF RatchetState
<1>17. OnChain(m, t)
  BY <1>4, <1>6, <1>14, <1>16 DEF OnChain, s, p
<1> QED
  BY <1>8, <1>10, <1>12, <1>15, <1>17 DEF t, s, p

LEMMA NextChainIs ==
  ASSUME Kinds, Placed, InStep, Numbered, KeysKept, NEW m \in net, Of(m.mk) = At(m.to) + 1
  PROVE  LET p == m.to
             kept == Newest(st[p].skipped \o SkippedTo(st[p], m.pn, day))
             stepped == DhRatchet(SkipMessageKeys(st[p], m.pn, day), p, m.dh)
         IN  /\ stepped = [dhs |-> DhOf(At(p) + 2), dhr |-> m.dh, rk |-> Chain(At(p) + 2),
                           cks |-> Chain(At(p) + 2), ckr |-> Chain(At(p) + 1), ns |-> 0, nr |-> 0,
                           pn |-> st[p].ns, skipped |-> kept]
             /\ stepped \in RatchetState /\ Len(stepped.skipped) <= MaxSkip
             /\ Chain(At(p) + 1) # NoChain
<1> DEFINE p == m.to
           s == st[p]
           kept == Newest(s.skipped \o SkippedTo(s, m.pn, day))
           stepped == DhRatchet(SkipMessageKeys(s, m.pn, day), p, m.dh)
           recv == KdfRk(s.rk, s.dhs, m.dh)
           mine == <<p, s.dhs[2] + 1>>
           send == KdfRk(recv, mine, m.dh)
<1>1. p \in End /\ m \in Envelope /\ m.dh = DhOf(At(p) + 1)
  BY MailIs
<1>2. /\ s \in RatchetState /\ day \in Nat /\ Len(s.skipped) <= MaxSkip /\ At(p) \in Nat
      /\ s.ckr # NoChain => s.dhr \in End \X Nat
      /\ SenderOf(At(p)) = p
  BY <1>1, EndIs
<1>3. s.rk = Chain(At(p)) /\ s.dhs = DhOf(At(p))
  BY <1>1 DEF Placed
<1>4. recv = Chain(At(p) + 1)
  BY <1>1, <1>2, <1>3, ChainIs
<1>5. mine = DhOf(At(p) + 2)
  <2>1. \A j \in Nat : DhOf(j + 2) = <<SenderOf(j), DhOf(j)[2] + 1>>
    BY DhIs
  <2>2. DhOf(At(p) + 2) = <<SenderOf(At(p)), DhOf(At(p))[2] + 1>>
    BY <1>2, <2>1
  <2> QED
    BY <1>2, <1>3, <2>2
<1> HIDE DEF s, p
<1>6. /\ stepped = [dhs |-> mine, dhr |-> m.dh, rk |-> send, cks |-> send, ckr |-> recv,
                    ns |-> 0, nr |-> 0, pn |-> s.ns, skipped |-> kept]
      /\ stepped \in RatchetState /\ Len(stepped.skipped) <= MaxSkip /\ recv # NoChain
  BY <1>1, <1>2, SteppedIs
<1> HIDE DEF recv, mine, stepped
<1>7. send = Chain(At(p) + 2)
  <2>1. PICK j : j = At(p) + 1 /\ j \in Nat /\ j + 1 = At(p) + 2
    BY <1>2
  <2>2. KdfRk(Chain(j), DhOf(j + 1), DhOf(j)) = Chain(j + 1)
    BY <2>1, ChainIs
  <2> QED
    BY <1>1, <1>4, <1>5, <2>1, <2>2
<1> HIDE DEF send
<1> QED
  BY <1>4, <1>5, <1>6, <1>7 DEF s, p, stepped

\* Opened by a DH step: the end is two further, on a chain of its own.
LEMMA OpensOnNextChain ==
  ASSUME Kinds, Placed, InStep, Numbered, KeysKept, NEW m \in net, Receive(m.to, m),
         RatchetDecrypt(st[m.to], m.to, m, day).ok, StoredKeys(st[m.to], m) = {},
         Of(m.mk) # At(m.to) - 1
  PROVE  LET t == PruneSkippedKeys(RatchetDecrypt(st[m.to], m.to, m, day).state, day)
         IN  /\ t \in RatchetState /\ OnNextChain(m, t)
             /\ \E keys \in Seq(Key) : overrun' = overrun \union PushedOut(keys)
<1> DEFINE p == m.to
           s == st[p]
           before == SkippedTo(s, m.pn, day)
           kept == Newest(s.skipped \o before)
           stepped == DhRatchet(SkipMessageKeys(s, m.pn, day), p, m.dh)
           after == SkippedTo(stepped, m.n, day)
           caught == CaughtUp(s, p, m, day)
           c == [caught EXCEPT !.nr = @ + 1]
           t == PruneSkippedKeys(c, day)
<1>0. Of(m.mk) = At(p) + 1
  BY OpensIff
<1>1. /\ p \in End /\ m.n \in Nat /\ m.pn \in Nat /\ m.mk = <<Chain(At(p) + 1), m.n>>
  BY <1>0, MailIs
<1>2. /\ s \in RatchetState /\ day \in Nat /\ Len(s.skipped) <= MaxSkip /\ s.nr \in Nat /\ s.ns \in Nat
      /\ At(p) \in Nat /\ s.skipped \in Seq(Key)
      /\ s.ckr # NoChain => At(p) >= 2 /\ s.dhr \in End \X Nat
      /\ At(p) >= 2 => s.ckr # NoChain
  BY <1>1, EndIs
<1>3. /\ m.dh # s.dhr /\ caught = SkipMessageKeys(stepped, m.n, day)
      /\ stepped.dhr \in End \X Nat
  BY CaughtIs
<1>4. /\ stepped = [dhs |-> DhOf(At(p) + 2), dhr |-> m.dh, rk |-> Chain(At(p) + 2),
                    cks |-> Chain(At(p) + 2), ckr |-> Chain(At(p) + 1), ns |-> 0, nr |-> 0,
                    pn |-> s.ns, skipped |-> kept]
      /\ stepped \in RatchetState /\ Len(stepped.skipped) <= MaxSkip
      /\ Chain(At(p) + 1) # NoChain
  BY <1>0, NextChainIs
<1>5. before \in Seq(Key) /\ Range(before) = Remainder(p, m)
  <2>1. At(p) >= 2 => s.ckr = Chain(At(p) - 1) /\ s.dhr = DhOf(At(p) - 1)
    BY <1>1, <1>2 DEF Placed
  <2>2. Remainder(p, m) = IF At(p) < 2 THEN {}
                          ELSE FreshKeys(DhOf(At(p) - 1), Chain(At(p) - 1), s.nr, m.pn, day)
    BY DEF Remainder
  <2> HIDE DEF s, p
  <2>3. /\ SkippedTo(s, m.pn, day) \in Seq(Key)
        /\ s.ckr # NoChain =>
             Range(SkippedTo(s, m.pn, day)) = FreshKeys(s.dhr, s.ckr, s.nr, m.pn, day)
        /\ s.ckr = NoChain => SkippedTo(s, m.pn, day) = <<>>
    BY <1>1, <1>2, SkippedToIs
  <2>4. s.ckr = NoChain => Range(SkippedTo(s, m.pn, day)) = {}
    BY <2>3 DEF Range
  <2>5. CASE At(p) >= 2
    <3>1. Remainder(p, m) = FreshKeys(DhOf(At(p) - 1), Chain(At(p) - 1), s.nr, m.pn, day)
      BY <1>2, <2>2, <2>5
    <3>2. Range(SkippedTo(s, m.pn, day)) = FreshKeys(s.dhr, s.ckr, s.nr, m.pn, day)
      BY <1>2, <2>3, <2>5
    <3> QED
      BY <2>1, <2>3, <2>5, <3>1, <3>2
  <2>6. CASE At(p) < 2
    <3>1. Remainder(p, m) = {} /\ s.ckr = NoChain
      BY <1>2, <2>2, <2>6
    <3> QED
      BY <2>3, <2>4, <3>1
  <2> QED
    BY <1>2, <2>5, <2>6
<1> HIDE DEF s, p, stepped, before, after, kept, caught, c, t
<1>6. stepped \in RatchetState /\ Len(stepped.skipped) <= MaxSkip
  BY <1>4
<1>7. stepped.dhr = m.dh /\ stepped.ckr = Chain(At(p) + 1) /\ stepped.nr = 0 /\ stepped.skipped = kept
  BY <1>4
<1>8. after \in Seq(Key) /\ Range(after) = FreshKeys(m.dh, Chain(At(p) + 1), 0, m.n, day)
  <2>1. /\ SkippedTo(stepped, m.n, day) \in Seq(Key)
        /\ stepped.ckr # NoChain => Range(SkippedTo(stepped, m.n, day)) =
             FreshKeys(stepped.dhr, stepped.ckr, stepped.nr, m.n, day)
    BY ZenonT(60), <1>1, <1>2, <1>3, <1>6, SkippedToIs
  <2> QED
    BY <1>4, <1>7, <2>1 DEF after
<1>9. PICK old : old = s.skipped \o before
  OBVIOUS
<1>10. old \in Seq(Key) /\ Range(old) = Stored(p) \union Remainder(p, m)
  BY <1>2, <1>5, <1>9, RangeOfBoth DEF Stored, s
<1>11. PICK keys : keys = old \o after
  OBVIOUS
<1>12. /\ keys \in Seq(Key)
       /\ Range(keys) =
            Stored(p) \union (Remainder(p, m) \union FreshKeys(m.dh, Chain(At(p) + 1), 0, m.n, day))
  <2>1. keys \in Seq(Key) /\ Range(keys) = Range(old) \union Range(after)
    BY <1>8, <1>10, <1>11, RangeOfBoth
  <2> QED
    BY <1>8, <1>10, <2>1
<1>13. Newest(kept \o after) = Newest(keys)
  BY <1>8, <1>9, <1>10, <1>11, NewestTwice DEF kept
<1>14. /\ caught = [stepped EXCEPT !.skipped = Newest(keys), !.nr = m.n]
       /\ caught \in RatchetState
  <2>1. /\ SkipMessageKeys(stepped, m.n, day) =
              [stepped EXCEPT !.skipped = Newest(stepped.skipped \o after),
                 !.nr = IF stepped.ckr = NoChain \/ m.n <= stepped.nr THEN stepped.nr ELSE m.n]
        /\ SkipMessageKeys(stepped, m.n, day) \in RatchetState
    BY <1>1, <1>2, <1>3, <1>6, SkipMessageKeysIs DEF after
  <2>2. (IF stepped.ckr = NoChain \/ m.n <= stepped.nr THEN stepped.nr ELSE m.n) = m.n
    BY <1>1, <1>4, <1>7
  <2>3. Newest(stepped.skipped \o after) = Newest(keys)
    BY <1>7, <1>13
  <2> QED
    BY <1>3, <2>1, <2>2, <2>3
<1>15. overrun' = overrun \union PushedOut(keys)
  <2>1. Overrun(s, p, m) = PushedOut(s.skipped \o before \o after)
    BY <1>3 DEF Overrun, PushedOut, s, p, before, after, stepped
  <2> QED
    BY SMTT(60), <1>9, <1>11, <2>1 DEF Receive, s, p
<1>16. \A k \in Range(keys) : k.mk # m.mk
  <2>1. \A k \in Stored(p) : k.mk # m.mk
    BY StoredAre DEF s, p
  <2>2. ASSUME NEW k \in FreshKeys(m.dh, Chain(At(p) + 1), 0, m.n, day) PROVE k.mk # m.mk
    <3>1. k.n \in 0 .. m.n - 1 /\ k.mk = <<Chain(At(p) + 1), k.n>>
      BY DEF FreshKeys
    <3>2. k.mk[2] = k.n /\ m.mk[2] = m.n
      BY <1>1, <3>1
    <3> QED
      BY <1>1, <3>1, <3>2
  <2>3. ASSUME NEW k \in Remainder(p, m) PROVE k.mk # m.mk
    <3>1. At(p) >= 2 /\ k.mk[1] = Chain(At(p) - 1)
      BY <1>2 DEF Remainder, FreshKeys
    <3>2. m.mk[1] = Chain(At(p) + 1)
      BY <1>1
    <3>3. Chain(At(p) - 1) # Chain(At(p) + 1)
      <4>1. At(p) - 1 \in Nat /\ At(p) + 1 \in Nat /\ At(p) - 1 # At(p) + 1
        BY <1>2, <3>1
      <4> QED
        BY <4>1, ChainIs
    <3> QED
      BY <3>1, <3>2, <3>3
  <2> QED
    BY <1>12, <2>1, <2>2, <2>3
<1>17. RatchetDecrypt(s, p, m, day).state = c
  BY DecryptIs DEF s, p, c, caught
<1>18. /\ c \in RatchetState /\ c.skipped = Newest(keys)
       /\ c = [stepped EXCEPT !.skipped = Newest(keys), !.nr = m.n + 1]
  <2>1. Newest(keys) \in Seq(Key)
    BY <1>12, NewestIs
  <2>2. caught.nr = m.n
    BY <1>4, <1>14 DEF RatchetState
  <2>3. c = [caught EXCEPT !.nr = m.n + 1]
    BY <2>2 DEF c
  <2>4. c = [stepped EXCEPT !.skipped = Newest(keys), !.nr = m.n + 1]
    BY <1>4, <1>14, <2>3 DEF RatchetState
  <2>5. PICK store \in Seq(Key) : store = Newest(keys)
    BY <2>1
  <2>6. PICK next \in Nat : next = m.n + 1
    BY <1>1
  <2>7. c = [stepped EXCEPT !.skipped = store, !.nr = next]
    BY <2>4, <2>5, <2>6
  <2>8. c \in RatchetState /\ c.skipped = store
    BY <1>4, <2>7 DEF RatchetState, Key
  <2> QED
    BY <2>4, <2>5, <2>8
<1>19. Keeps(p, m, t, Remainder(p, m) \union FreshKeys(m.dh, Chain(At(p) + 1), 0, m.n, day))
  BY <1>1, <1>12, <1>15, <1>16, <1>18, KeepsIs DEF t
<1>20. t \in RatchetState /\ t = [c EXCEPT !.skipped = t.skipped]
  BY <1>18, PruneIs DEF t
<1>21. t = [dhs |-> DhOf(At(p) + 2), dhr |-> m.dh, rk |-> Chain(At(p) + 2),
            cks |-> Chain(At(p) + 2), ckr |-> Chain(At(p) + 1), ns |-> 0, nr |-> m.n + 1,
            pn |-> s.ns, skipped |-> t.skipped]
  BY <1>4, <1>18, <1>20
<1>22. OnNextChain(m, t)
  BY <1>0, <1>19, <1>21 DEF OnNextChain, s, p
<1> QED
  BY <1>12, <1>15, <1>17, <1>20, <1>22 DEF t, s, p

Taken(m, t) ==
  /\ st' = [st EXCEPT ![m.to] = t] /\ t \in RatchetState
  /\ opened' = [opened EXCEPT ![m.to] = @ \union {m}]
  /\ overrun \subseteq overrun' /\ overrun' \subseteq (Roots \X Nat)
  /\ FromStore(m, t) \/ OnChain(m, t) \/ OnNextChain(m, t)

\* A delivery changes nothing or opens its envelope in one of the three ways.
LEMMA ReceiveIs ==
  ASSUME Kinds, Placed, InStep, Numbered, KeysKept, NEW m \in net, Receive(m.to, m)
  PROVE  /\ draft[m.to] = {} /\ UNCHANGED <<draft, net, day, count>>
         /\ UNCHANGED <<st, opened, overrun>> \/ \E t \in RatchetState : Taken(m, t)
<1> DEFINE p == m.to
           d == RatchetDecrypt(st[p], p, m, day)
           t == PruneSkippedKeys(d.state, day)
<1>0. /\ p \in End /\ draft[p] = {} /\ UNCHANGED <<draft, net, day, count>>
      /\ st \in [End -> RatchetState] /\ opened \in [End -> SUBSET net]
      /\ overrun \subseteq (Roots \X Nat)
  BY MailIs DEF Receive, Kinds
<1>1. /\ st' = [st EXCEPT ![p] = IF d.ok THEN t ELSE d.state]
      /\ opened' = [opened EXCEPT ![p] = IF d.ok THEN @ \union {m} ELSE @]
      /\ overrun' = IF d.ok THEN overrun \union Overrun(st[p], p, m) ELSE overrun
  BY DEF Receive
<1>2. CASE ~d.ok
  <2>1. d.state = st[p]
    BY <1>2, DecryptIs
  <2> HIDE DEF d
  <2> QED
    BY <1>0, <1>1, <1>2, <2>1
<1>3. CASE d.ok
  <2>1. t \in RatchetState /\ (FromStore(m, t) \/ OnChain(m, t) \/ OnNextChain(m, t))
    <3>1. CASE StoredKeys(st[p], m) # {}
      BY <1>3, <3>1, OpensFromStore
    <3>2. CASE StoredKeys(st[p], m) = {} /\ Of(m.mk) = At(p) - 1
      BY <1>3, <3>2, OpensOnChain
    <3>3. CASE StoredKeys(st[p], m) = {} /\ Of(m.mk) # At(p) - 1
      BY <1>3, <3>3, OpensOnNextChain
    <3> QED
      BY <3>1, <3>2, <3>3
  <2>2. overrun' = overrun \/ \E keys \in Seq(Key) : overrun' = overrun \union PushedOut(keys)
    <3>1. CASE StoredKeys(st[p], m) # {}
      BY <1>3, <3>1, OpensFromStore
    <3>2. CASE StoredKeys(st[p], m) = {} /\ Of(m.mk) = At(p) - 1
      BY <1>3, <3>2, OpensOnChain
    <3>3. CASE StoredKeys(st[p], m) = {} /\ Of(m.mk) # At(p) - 1
      BY <1>3, <3>3, OpensOnNextChain
    <3> QED
      BY <3>1, <3>2, <3>3
  <2>3. overrun \subseteq overrun' /\ overrun' \subseteq (Roots \X Nat)
    BY <1>0, <2>2, NothingLost
  <2> HIDE DEF d, t
  <2>4. Taken(m, t)
    BY <1>1, <1>3, <2>1, <2>3 DEF Taken
  <2> QED
    BY <1>0, <2>1, <2>4
<1> QED
  BY <1>2, <1>3

LEMMA Senders ==
  ASSUME Kinds, NEW m \in net, NEW p \in End
  PROVE  m \in SentBy(p) <=> SenderOf(Of(m.mk)) = p
BY DEF Kinds, Sealed, SentBy, SenderOf, Other, End

\* Where the two ends are once one of them opened an envelope.
LEMMA TakenIs ==
  ASSUME Kinds, Placed, InStep, Numbered, KeysKept, NEW m \in net, NEW t, Taken(m, t)
  PROVE  LET p == m.to
             q == Other(p)
         IN  /\ p \in End /\ q \in End /\ p # q /\ End = {p, q} /\ Other(q) = p
             /\ st'[p] = t /\ st'[q] = st[q] /\ At(q)' = At(q) /\ At(q) \in Nat /\ At(p) \in Nat
             /\ t.ns \in Nat /\ t.nr \in Nat /\ t.pn \in Nat
             /\ st[p].ns \in Nat /\ st[p].nr \in Nat /\ st[p].pn \in Nat
             /\ \/ /\ At(p)' = At(p) /\ t.ns = st[p].ns /\ t.pn = st[p].pn
                   /\ t.rk = st[p].rk /\ t.cks = st[p].cks /\ t.dhs = st[p].dhs
                   /\ t.dhr = st[p].dhr /\ t.ckr = st[p].ckr
                   /\ \/ FromStore(m, t) /\ t.nr = st[p].nr
                      \/ /\ OnChain(m, t) /\ Of(m.mk) = At(p) - 1
                         /\ t.nr = m.n + 1 /\ st[p].nr <= m.n
                \/ /\ OnNextChain(m, t) /\ At(p)' = At(p) + 2
                   /\ Of(m.mk) = At(p) + 1 /\ At(q) = At(p) + 1
                   /\ t.nr = m.n + 1 /\ t.pn = st[p].ns
                   /\ t.rk = Chain(At(p) + 2) /\ t.cks = Chain(At(p) + 2)
                   /\ t.dhs = DhOf(At(p) + 2) /\ t.dhr = DhOf(At(p) + 1)
                   /\ t.ckr = Chain(At(p) + 1)
<1> DEFINE p == m.to
           q == Other(p)
<1>1. /\ p \in End /\ q \in End /\ p # q /\ End = {p, q} /\ Other(q) = p
      /\ m.n \in Nat /\ m.dh = DhOf(Of(m.mk)) /\ Of(m.mk) \in Nat /\ Of(m.mk) <= At(q)
  BY MailIs DEF Other, End
<1>2. /\ At(p) \in Nat /\ At(q) \in Nat /\ st[p] \in RatchetState /\ st \in [End -> RatchetState]
      /\ st[p].ns \in Nat /\ st[p].nr \in Nat /\ st[p].pn \in Nat
  BY <1>1, EndIs DEF Kinds
<1>3. st'[p] = t /\ st'[q] = st[q] /\ t \in RatchetState
  BY <1>1, <1>2 DEF Taken
<1>4. At(q)' = At(q)
  BY <1>1, <1>3 DEF At
<1>5. t.ns \in Nat /\ t.nr \in Nat /\ t.pn \in Nat
  BY <1>3 DEF RatchetState
<1>6. At(p)' = Len(t.rk)
  BY <1>1, <1>3 DEF At
<1> DEFINE s == st[p]
<1>7. CASE FromStore(m, t)
  <2>1. t = [s EXCEPT !.skipped = t.skipped]
    BY <1>7 DEF FromStore
  <2> HIDE DEF s, p, q
  <2>2. /\ t.ns = s.ns /\ t.pn = s.pn /\ t.nr = s.nr /\ t.rk = s.rk /\ t.cks = s.cks
        /\ t.dhs = s.dhs /\ t.dhr = s.dhr /\ t.ckr = s.ckr
    BY <1>2, <2>1 DEF RatchetState, s
  <2>3. At(p)' = At(p)
    BY <1>6, <2>2 DEF At, s
  <2> QED
    BY <1>1, <1>2, <1>3, <1>4, <1>5, <1>7, <2>2, <2>3 DEF s, p, q
<1>8. CASE OnChain(m, t)
  <2>1. /\ t = [s EXCEPT !.nr = m.n + 1, !.skipped = t.skipped]
        /\ Of(m.mk) = At(p) - 1 /\ m.n >= s.nr
    BY <1>8 DEF OnChain
  <2> HIDE DEF s, p, q
  <2>2. /\ t.ns = s.ns /\ t.pn = s.pn /\ t.nr = m.n + 1 /\ t.rk = s.rk /\ t.cks = s.cks
        /\ t.dhs = s.dhs /\ t.dhr = s.dhr /\ t.ckr = s.ckr
    BY <1>2, <2>1 DEF RatchetState, s
  <2>3. At(p)' = At(p)
    BY <1>6, <2>2 DEF At, s
  <2> QED
    BY <1>1, <1>2, <1>3, <1>4, <1>5, <1>8, <2>1, <2>2, <2>3 DEF s, p, q
<1>9. CASE OnNextChain(m, t)
  <2>1. /\ t = [dhs |-> DhOf(At(p) + 2), dhr |-> m.dh, rk |-> Chain(At(p) + 2),
                cks |-> Chain(At(p) + 2), ckr |-> Chain(At(p) + 1), ns |-> 0, nr |-> m.n + 1,
                pn |-> s.ns, skipped |-> t.skipped]
        /\ Of(m.mk) = At(p) + 1
    BY <1>9 DEF OnNextChain
  <2> HIDE DEF s
  <2>2. /\ t.nr = m.n + 1 /\ t.pn = s.ns /\ t.rk = Chain(At(p) + 2) /\ t.cks = Chain(At(p) + 2)
        /\ t.dhs = DhOf(At(p) + 2) /\ t.dhr = m.dh /\ t.ckr = Chain(At(p) + 1)
    BY <2>1
  <2>3. At(p)' = At(p) + 2
    BY <1>2, <1>6, <2>2, ChainIs
  <2>4. At(q) = At(p) + 1
    BY <1>1, <1>2, <2>1 DEF InStep, End
  <2> QED
    BY <1>1, <1>2, <1>3, <1>4, <1>5, <1>9, <2>1, <2>2, <2>3, <2>4 DEF s
<1> QED
  BY <1>7, <1>8, <1>9 DEF Taken

LEMMA EndsAfterTaking ==
  ASSUME RatchetInv, NEW m \in net, NEW t, Taken(m, t), UNCHANGED <<draft, net, day, count>>,
         draft[m.to] = {}
  PROVE  Kinds' /\ Placed' /\ InStep' /\ Drafted'
<1> USE DEF RatchetInv
<1>0. /\ t \in RatchetState /\ st' = [st EXCEPT ![m.to] = t]
      /\ opened' = [opened EXCEPT ![m.to] = @ \union {m}] /\ overrun' \subseteq (Roots \X Nat)
  BY DEF Taken
<1>1. PICK p \in End : p = m.to
  BY MailIs
<1>2. PICK q \in End : q = Other(p)
  BY <1>1 DEF Other, End
<1>3. /\ p # q /\ End = {p, q} /\ Other(q) = p
      /\ st'[p] = t /\ st'[q] = st[q] /\ At(q)' = At(q) /\ At(p) \in Nat /\ At(q) \in Nat
  BY <1>1, <1>2, TakenIs
<1>4. Kinds'
  <2>1. st' \in [End -> RatchetState]
    BY <1>0 DEF Kinds
  <2>2. opened' \in [End -> SUBSET net']
    BY <1>0 DEF Kinds
  <2>3. \A x \in net' : Sealed(x)'
    BY DEF Kinds, Sealed
  <2> QED
    BY <1>0, <2>1, <2>2, <2>3 DEF Kinds
<1>5. Placed'
  <2>1. (/\ At(q) \in Nat /\ SenderOf(At(q)) = q
         /\ st[q] \in RatchetState
         /\ st[q].rk = Chain(At(q)) /\ st[q].cks = Chain(At(q)) /\ st[q].dhs = DhOf(At(q))
         /\ At(q) = 0 => st[q].dhr = NoKey /\ st[q].ckr = NoChain
         /\ At(q) > 0 => st[q].dhr = DhOf(At(q) - 1) /\ st[q].ckr = Chain(At(q) - 1))'
    BY <1>3 DEF Placed
  <2>2. /\ At(p) \in Nat /\ SenderOf(At(p)) = p
        /\ st[p].rk = Chain(At(p)) /\ st[p].cks = Chain(At(p)) /\ st[p].dhs = DhOf(At(p))
        /\ At(p) = 0 => st[p].dhr = NoKey /\ st[p].ckr = NoChain
        /\ At(p) > 0 => st[p].dhr = DhOf(At(p) - 1) /\ st[p].ckr = Chain(At(p) - 1)
    BY DEF Placed
  <2>3. /\ At(p)' \in Nat /\ SenderOf(At(p)') = p
        /\ t.rk = Chain(At(p)') /\ t.cks = Chain(At(p)') /\ t.dhs = DhOf(At(p)')
        /\ At(p)' = 0 => t.dhr = NoKey /\ t.ckr = NoChain
        /\ At(p)' > 0 => t.dhr = DhOf(At(p)' - 1) /\ t.ckr = Chain(At(p)' - 1)
    <3>1. CASE /\ At(p)' = At(p) /\ t.rk = st[p].rk /\ t.cks = st[p].cks /\ t.dhs = st[p].dhs
               /\ t.dhr = st[p].dhr /\ t.ckr = st[p].ckr
      BY <2>2, <3>1
    <3>2. CASE /\ At(p)' = At(p) + 2 /\ t.rk = Chain(At(p) + 2) /\ t.cks = Chain(At(p) + 2)
               /\ t.dhs = DhOf(At(p) + 2) /\ t.dhr = DhOf(At(p) + 1) /\ t.ckr = Chain(At(p) + 1)
      <4>1. SenderOf(At(p) + 2) = p
        BY <2>2, DhIs
      <4>2. At(p)' \in Nat /\ At(p)' > 0 /\ At(p)' - 1 = At(p) + 1
        BY <1>3, <3>2
      <4> QED
        BY <3>2, <4>1, <4>2
    <3> QED
      BY <1>1, <3>1, <3>2, TakenIs
  <2>4. (/\ At(p) \in Nat /\ SenderOf(At(p)) = p
         /\ st[p] \in RatchetState
         /\ st[p].rk = Chain(At(p)) /\ st[p].cks = Chain(At(p)) /\ st[p].dhs = DhOf(At(p))
         /\ At(p) = 0 => st[p].dhr = NoKey /\ st[p].ckr = NoChain
         /\ At(p) > 0 => st[p].dhr = DhOf(At(p) - 1) /\ st[p].ckr = Chain(At(p) - 1))'
    BY <1>0, <1>3, <2>3
  <2> QED
    BY <1>3, <2>1, <2>4 DEF Placed
<1>6. InStep'
  <2>1. At(p)' = At(p) \/ (At(p)' = At(p) + 2 /\ At(q) = At(p) + 1)
    BY <1>1, <1>2, TakenIs
  <2>2. At(p) = At(q) + 1 \/ At(q) = At(p) + 1
    BY <1>3 DEF InStep, End
  <2>3. At(p)' = At(q)' + 1 \/ At(q)' = At(p)' + 1
    BY <1>3, <2>1, <2>2
  <2>4. (p = "initiator" /\ q = "responder") \/ (p = "responder" /\ q = "initiator")
    BY <1>3 DEF End
  <2> QED
    BY <2>3, <2>4 DEF InStep
<1>7. Drafted'
  <2> SUFFICES ASSUME NEW d \in draft[q]
               PROVE  (/\ draft[q] = {d} /\ Sealed(d.env)
                       /\ d = [state |-> [st[q] EXCEPT !.ns = d.env.n + 1], env |-> d.env]
                       /\ Of(d.env.mk) = At(q) /\ d.env.to = Other(q) /\ d.env.pn = st[q].pn
                       /\ st[q].ns \in {d.env.n, d.env.n + 1}
                       /\ \A x \in net : Of(x.mk) = At(q) => x.n < d.env.n)'
    BY <1>1, <1>3 DEF Drafted
  <2>1. (/\ draft[q] = {d} /\ Sealed(d.env)
         /\ d = [state |-> [st[q] EXCEPT !.ns = d.env.n + 1], env |-> d.env]
         /\ Of(d.env.mk) = At(q) /\ d.env.to = Other(q) /\ d.env.pn = st[q].pn
         /\ st[q].ns \in {d.env.n, d.env.n + 1}
         /\ \A x \in net : Of(x.mk) = At(q) => x.n < d.env.n)
    BY DEF Drafted
  <2>2. Sealed(d.env)'
    BY <2>1 DEF Sealed
  <2> QED
    BY <1>3, <2>1, <2>2
<1> QED
  BY <1>4, <1>5, <1>6, <1>7

LEMMA CountsAfterTaking ==
  ASSUME RatchetInv, NEW m \in net, NEW t, Taken(m, t), UNCHANGED <<draft, net, day, count>>,
         draft[m.to] = {}
  PROVE  Numbered' /\ Counted' /\ Behind'
<1> USE DEF RatchetInv
<1>1. PICK p \in End : p = m.to
  BY MailIs
<1>2. PICK q \in End : q = Other(p)
  BY <1>1 DEF Other, End
<1>3. /\ p # q /\ End = {p, q} /\ Other(q) = p
      /\ st'[p] = t /\ st'[q] = st[q] /\ At(q)' = At(q) /\ At(p) \in Nat /\ At(q) \in Nat
      /\ t.ns \in Nat /\ t.nr \in Nat /\ t.pn \in Nat
      /\ st[p].ns \in Nat /\ st[p].nr \in Nat /\ st[p].pn \in Nat
  BY <1>1, <1>2, TakenIs
<1>4. \/ At(p)' = At(p) /\ t.ns = st[p].ns /\ t.pn = st[p].pn
      \/ At(p)' = At(p) + 2 /\ At(q) = At(p) + 1 /\ t.pn = st[p].ns
  BY <1>1, <1>2, TakenIs
<1>5. /\ m \in SentBy(q) /\ m.n \in Nat /\ Of(m.mk) \in Nat
  BY <1>1, <1>2, MailIs
<1>6. \A x \in net : Of(x.mk) \in Nat /\ x.n \in Nat
  BY MailIs
<1>7. Numbered'
  <2> SUFFICES ASSUME NEW e \in End, NEW x \in SentBy(e)
               PROVE  (/\ Of(x.mk) <= At(e)
                       /\ Of(x.mk) = At(e) => x.n < st[e].ns /\ x.pn = st[e].pn
                       /\ Of(x.mk) = At(e) - 2 => x.n < st[e].pn)'
    BY DEF Numbered, SentBy
  <2>1. /\ Of(x.mk) <= At(e)
        /\ Of(x.mk) = At(e) => x.n < st[e].ns /\ x.pn = st[e].pn
        /\ Of(x.mk) = At(e) - 2 => x.n < st[e].pn
        /\ Of(x.mk) \in Nat /\ x.n \in Nat
    BY <1>6 DEF Numbered, SentBy
  <2>2. CASE e = q
    BY <1>3, <2>1, <2>2
  <2>3. CASE e = p
    BY <1>3, <1>4, <2>1, <2>3
  <2> QED
    BY <1>3, <2>2, <2>3
<1>8. Counted'
  BY DEF Counted
<1>9. Behind'
  <2> SUFFICES ASSUME NEW e \in End, At(e)' = At(Other(e))' + 1
               PROVE  (/\ st[e].nr <= st[Other(e)].ns
                       /\ \A d \in draft[Other(e)] : st[e].nr <= d.env.n)'
    BY DEF Behind
  <2>1. CASE e = q
    <3>1. At(p)' = At(p) /\ t.ns = st[p].ns /\ At(q) = At(p) + 1
      BY <1>3, <1>4, <2>1
    <3>2. st[q].nr <= st[p].ns
      BY <1>3, <3>1 DEF Behind
    <3>3. st[q]'.nr <= st[p]'.ns /\ draft'[p] = {}
      BY <1>1, <1>3, <3>1, <3>2
    <3> QED
      BY <1>3, <2>1, <3>3
  <2>2. CASE e = p
    <3>1. /\ t.nr <= st[q].ns
          /\ \A d \in draft[q] : t.nr <= d.env.n
      <4>1. CASE FromStore(m, t) /\ At(p)' = At(p) /\ t.nr = st[p].nr
        <5>1. At(p) = At(q) + 1
          BY <1>2, <1>3, <2>2, <4>1
        <5> QED
          BY <1>2, <4>1, <5>1 DEF Behind
      <4>2. CASE Of(m.mk) = At(q) /\ t.nr = m.n + 1
        <5>1. m.n < st[q].ns
          BY <1>5, <4>2 DEF Numbered
        <5>2. \A d \in draft[q] : m.n < d.env.n /\ d.env.n \in Nat
          BY <4>2 DEF Drafted, Sealed, Envelope
        <5>3. st[q].ns \in Nat
          BY EndIs
        <5> QED
          BY <1>5, <4>2, <5>1, <5>2, <5>3
      <4>3. \/ FromStore(m, t) /\ At(p)' = At(p) /\ t.nr = st[p].nr
            \/ Of(m.mk) = At(q) /\ t.nr = m.n + 1
        <5>1. \/ FromStore(m, t) /\ At(p)' = At(p) /\ t.nr = st[p].nr
              \/ At(p)' = At(p) /\ Of(m.mk) = At(p) - 1 /\ t.nr = m.n + 1
              \/ At(q) = At(p) + 1 /\ Of(m.mk) = At(p) + 1 /\ t.nr = m.n + 1
          BY <1>1, <1>2, TakenIs
        <5>2. At(p)' = At(q) + 1
          BY <1>2, <1>3, <2>2
        <5> QED
          BY <1>3, <5>1, <5>2
      <4> QED
        BY <4>1, <4>2, <4>3
    <3> QED
      BY <1>2, <1>3, <2>2, <3>1
  <2> QED
    BY <1>3, <2>1, <2>2
<1> QED
  BY <1>7, <1>8, <1>9

LEMMA OfIs ==
  ASSUME NEW j \in Nat, NEW n
  PROVE  Of(<<Chain(j), n>>) = j
BY ChainIs DEF Of

\* What an end skips when it opens an envelope.
Skipped(m) ==
  LET p == m.to
  IN  IF Passed(p, m) THEN {}
      ELSE IF Of(m.mk) = At(p) - 1
      THEN FreshKeys(m.dh, Chain(Of(m.mk)), st[p].nr, m.n, day)
      ELSE Remainder(p, m) \union FreshKeys(m.dh, Chain(Of(m.mk)), 0, m.n, day)

\* What is skipped is of the chain opened or of the one before, and was not passed before.
LEMMA SkippedIs ==
  ASSUME Kinds, Placed, InStep, Numbered, KeysKept, NEW m \in net, NEW k \in Skipped(m),
         Of(m.mk) = At(m.to) - 1 \/ Of(m.mk) = At(m.to) + 1
  PROVE  /\ Of(k.mk) \in Nat \ {0} /\ k.mk = <<Chain(Of(k.mk)), k.n>> /\ k.dh = DhOf(Of(k.mk))
         /\ k.n \in Nat /\ k.ts = day
         /\ \/ Of(k.mk) = Of(m.mk) /\ k.n < m.n
            \/ Of(m.mk) = At(m.to) + 1 /\ Of(k.mk) = At(m.to) - 1
         /\ Of(k.mk) = At(m.to) - 1 => k.n >= st[m.to].nr
<1>1. /\ m.to \in End /\ m.n \in Nat /\ m.pn \in Nat /\ Of(m.mk) \in Nat \ {0}
      /\ m.dh = DhOf(Of(m.mk))
  BY MailIs
<1>2. PICK r \in Nat : r = At(m.to)
  BY <1>1, EndIs
<1>3. PICK nr \in Nat : nr = st[m.to].nr
  BY <1>1, EndIs
<1>4. PICK j \in Nat \ {0} : j = Of(m.mk)
  BY <1>1
<1>5. PICK n \in Nat : n = m.n
  BY <1>1
<1>6. PICK pn \in Nat : pn = m.pn
  BY <1>1
<1>7. ASSUME k \in FreshKeys(m.dh, Chain(j), nr, n, day)
       PROVE  /\ k.dh = m.dh /\ k.n \in nr .. n - 1 /\ k.mk = <<Chain(j), k.n>>
              /\ Of(k.mk) = j /\ k.ts = day
  <2>1. k.dh = m.dh /\ k.n \in nr .. n - 1 /\ k.mk = <<Chain(j), k.n>> /\ k.ts = day
    BY <1>7 DEF FreshKeys
  <2>2. Of(k.mk) = j
    BY <2>1, OfIs
  <2> QED
    BY <2>1, <2>2
<1>8. ASSUME k \in FreshKeys(m.dh, Chain(j), 0, n, day)
       PROVE  /\ k.dh = m.dh /\ k.n \in 0 .. n - 1 /\ k.mk = <<Chain(j), k.n>>
              /\ Of(k.mk) = j /\ k.ts = day
  <2>1. k.dh = m.dh /\ k.n \in 0 .. n - 1 /\ k.mk = <<Chain(j), k.n>> /\ k.ts = day
    BY <1>8 DEF FreshKeys
  <2>2. Of(k.mk) = j
    BY <2>1, OfIs
  <2> QED
    BY <2>1, <2>2
<1>9. CASE Of(m.mk) = r - 1
  <2>1. k \in FreshKeys(m.dh, Chain(Of(m.mk)), nr, m.n, day)
    BY <1>2, <1>3, <1>9 DEF Skipped
  <2>2. /\ k.dh = m.dh /\ k.n \in nr .. m.n - 1 /\ k.mk = <<Chain(Of(m.mk)), k.n>>
        /\ Of(k.mk) = Of(m.mk) /\ k.ts = day
    BY <1>4, <1>5, <1>7, <2>1
  <2> QED
    BY <1>1, <1>2, <1>3, <1>9, <2>2
<1>10. CASE Of(m.mk) = r + 1 /\ k \in FreshKeys(m.dh, Chain(Of(m.mk)), 0, m.n, day)
  <2>1. /\ k.dh = m.dh /\ k.n \in 0 .. m.n - 1 /\ k.mk = <<Chain(Of(m.mk)), k.n>>
        /\ Of(k.mk) = Of(m.mk) /\ k.ts = day
    BY <1>10, <1>4, <1>5, <1>8
  <2> QED
    BY <1>1, <1>2, <1>3, <1>10, <2>1
<1>11. CASE Of(m.mk) = r + 1 /\ k \in Remainder(m.to, m)
  <2>1. r >= 2 /\ k \in FreshKeys(DhOf(r - 1), Chain(r - 1), nr, m.pn, day)
    BY <1>2, <1>3, <1>11 DEF Remainder
  <2>2. PICK l \in Nat \ {0} : l = r - 1
    BY <2>1
  <2>3. k \in FreshKeys(DhOf(l), Chain(l), nr, pn, day)
    BY <1>6, <2>1, <2>2
  <2>4. /\ k.dh = DhOf(l) /\ k.n \in nr .. pn - 1 /\ k.mk = <<Chain(l), k.n>>
        /\ Of(k.mk) = l /\ k.ts = day
    <3>1. k.dh = DhOf(l) /\ k.n \in nr .. pn - 1 /\ k.mk = <<Chain(l), k.n>> /\ k.ts = day
      BY <2>3 DEF FreshKeys
    <3>2. Of(k.mk) = l
      BY <3>1, OfIs
    <3> QED
      BY <3>1, <3>2
  <2> QED
    BY <1>1, <1>2, <1>3, <1>11, <2>2, <2>4
<1> QED
  BY <1>1, <1>2, <1>9, <1>10, <1>11 DEF Skipped

\* Opening an envelope passes over what is skipped, and nothing else that is on its way.
LEMMA PassedIs ==
  ASSUME RatchetInv, NEW m \in net, NEW t, Taken(m, t),
         UNCHANGED net, NEW x \in net, x.to = m.to
  PROVE  /\ Passed(m.to, x) => Passed(m.to, x)'
         /\ Passed(m.to, x)' =>
              \/ Passed(m.to, x)
              \/ x = m
              \/ \E k \in Skipped(m) : k.mk = x.mk /\ k.ts = day
<1> USE DEF RatchetInv
<1>1. /\ m.to \in End /\ m.n \in Nat /\ m.pn \in Nat /\ Of(m.mk) \in Nat \ {0}
  BY MailIs
<1>2. /\ x.n \in Nat /\ Of(x.mk) \in Nat \ {0} /\ x.mk = <<Chain(Of(x.mk)), x.n>>
      /\ Of(x.mk) # At(m.to)
  BY MailIs
<1>3. PICK p \in End : p = m.to
  BY <1>1
<1>4. PICK r \in Nat : r = At(p)
  BY EndIs
<1>5. PICK nr \in Nat : nr = st[p].nr
  BY EndIs
<1>6. Of(x.mk) = Of(m.mk) /\ x.n = m.n => x = m
  BY DEF Counted
<1>7. Of(m.mk) = Of(x.mk) + 2 => x.n < m.pn
  BY DEF Counted
<1>8. st'[p] = t /\ t.nr \in Nat
  BY <1>3, TakenIs
<1>9. PICK j \in Nat \ {0} : j = Of(m.mk)
  BY <1>1
<1>10. PICK n \in Nat : n = m.n
  BY <1>1
<1>11. PICK pn \in Nat : pn = m.pn
  BY <1>1
<1>12. PICK i \in Nat : i = x.n
  BY <1>2
<1>13. CASE FromStore(m, t) /\ At(p)' = r /\ t.nr = nr
  BY <1>2, <1>3, <1>4, <1>5, <1>8, <1>13 DEF Passed
<1>14. CASE At(p)' = r /\ Of(m.mk) = r - 1 /\ t.nr = m.n + 1 /\ nr <= m.n
  <2>1. Passed(p, x)' <=> Of(x.mk) < r - 1 \/ (Of(x.mk) = r - 1 /\ x.n < m.n + 1)
    BY <1>8, <1>14 DEF Passed
  <2>2. Passed(p, x) <=> Of(x.mk) < r - 1 \/ (Of(x.mk) = r - 1 /\ x.n < nr)
    BY <1>4, <1>5 DEF Passed
  <2>3. CASE Of(x.mk) = r - 1 /\ nr <= x.n /\ x.n < m.n
    <3>1. Skipped(m) = FreshKeys(m.dh, Chain(Of(m.mk)), nr, m.n, day)
      BY <1>1, <1>3, <1>4, <1>5, <1>14 DEF Skipped, Passed
    <3>2. i \in nr .. n - 1
      BY <1>10, <1>12, <2>3
    <3>3. \E k \in FreshKeys(m.dh, Chain(j), nr, n, day) : k.mk = <<Chain(j), i>> /\ k.ts = day
      <4> DEFINE k == [dh |-> m.dh, n |-> i, mk |-> <<Chain(j), i>>, ts |-> day]
      <4>1. k \in FreshKeys(m.dh, Chain(j), nr, n, day)
        BY <3>2 DEF FreshKeys
      <4>2. k.mk = <<Chain(j), i>> /\ k.ts = day
        OBVIOUS
      <4> QED
        BY <4>1, <4>2
    <3>4. \E k \in Skipped(m) : k.mk = <<Chain(Of(m.mk)), x.n>> /\ k.ts = day
      BY <1>9, <1>10, <1>12, <3>1, <3>3
    <3>5. Of(m.mk) = Of(x.mk)
      BY <1>14, <2>3
    <3>6. \E k \in Skipped(m) : k.mk = x.mk /\ k.ts = day
      BY <1>2, <3>4, <3>5
    <3>7. Passed(p, x)'
      BY <1>1, <1>2, <2>1, <2>3
    <3> QED
      BY <1>3, <3>6, <3>7
  <2>4. CASE ~(Of(x.mk) = r - 1 /\ nr <= x.n /\ x.n < m.n)
    BY <1>1, <1>2, <1>3, <1>6, <1>14, <2>1, <2>2, <2>4
  <2> QED
    BY <2>3, <2>4
<1>15. CASE At(p)' = r + 2 /\ Of(m.mk) = r + 1 /\ t.nr = m.n + 1
  <2>1. Passed(p, x)' <=> Of(x.mk) < r + 1 \/ (Of(x.mk) = r + 1 /\ x.n < m.n + 1)
    BY <1>8, <1>15 DEF Passed
  <2>2. Passed(p, x) <=> Of(x.mk) < r - 1 \/ (Of(x.mk) = r - 1 /\ x.n < nr)
    BY <1>4, <1>5 DEF Passed
  <2>3. Skipped(m) = Remainder(p, m) \union FreshKeys(m.dh, Chain(Of(m.mk)), 0, m.n, day)
    BY <1>1, <1>3, <1>4, <1>15 DEF Skipped, Passed
  <2>4. CASE Of(x.mk) = r + 1 /\ x.n < m.n
    <3>1. i \in 0 .. n - 1
      BY <1>10, <1>12, <2>4
    <3>3. \E k \in FreshKeys(m.dh, Chain(j), 0, n, day) : k.mk = <<Chain(j), i>> /\ k.ts = day
      <4> DEFINE k == [dh |-> m.dh, n |-> i, mk |-> <<Chain(j), i>>, ts |-> day]
      <4>1. k \in FreshKeys(m.dh, Chain(j), 0, n, day)
        BY <3>1 DEF FreshKeys
      <4>2. k.mk = <<Chain(j), i>> /\ k.ts = day
        OBVIOUS
      <4> QED
        BY <4>1, <4>2
    <3>2. \E k \in FreshKeys(m.dh, Chain(Of(m.mk)), 0, m.n, day) :
            k.mk = <<Chain(Of(m.mk)), x.n>> /\ k.ts = day
      BY <1>9, <1>10, <1>12, <3>3
    <3> QED
      BY <1>2, <1>3, <1>4, <1>15, <2>1, <2>2, <2>3, <2>4, <3>2
  <2>5. CASE Of(x.mk) = r - 1 /\ x.n >= nr
    <3>1. PICK l \in Nat \ {0} : l = r - 1 /\ l = Of(x.mk)
      BY <1>2, <2>5
    <3>2. Remainder(p, m) = FreshKeys(DhOf(l), Chain(l), nr, pn, day)
      BY <1>4, <1>5, <1>11, <3>1 DEF Remainder
    <3>3. i \in nr .. pn - 1
      BY <1>7, <1>15, <1>11, <1>12, <2>5
    <3>4. \E k \in FreshKeys(DhOf(l), Chain(l), nr, pn, day) : k.mk = <<Chain(l), i>> /\ k.ts = day
      <4> DEFINE k == [dh |-> DhOf(l), n |-> i, mk |-> <<Chain(l), i>>, ts |-> day]
      <4>1. k \in FreshKeys(DhOf(l), Chain(l), nr, pn, day)
        BY <3>3 DEF FreshKeys
      <4>2. k.mk = <<Chain(l), i>> /\ k.ts = day
        OBVIOUS
      <4> QED
        BY <4>1, <4>2
    <3>5. \E k \in Remainder(p, m) : k.mk = x.mk /\ k.ts = day
      BY <1>2, <1>12, <3>1, <3>2, <3>4
    <3>6. Passed(p, x)'
      BY <1>2, <2>1, <2>5
    <3> QED
      BY <1>3, <2>3, <3>5, <3>6
  <2>6. CASE ~(Of(x.mk) = r + 1 /\ x.n < m.n) /\ ~(Of(x.mk) = r - 1 /\ x.n >= nr)
    BY <1>1, <1>2, <1>3, <1>4, <1>6, <1>15, <2>1, <2>2, <2>6
  <2> QED
    BY <2>4, <2>5, <2>6
<1>16. \/ FromStore(m, t) /\ At(p)' = r /\ t.nr = nr
       \/ At(p)' = r /\ Of(m.mk) = r - 1 /\ t.nr = m.n + 1 /\ nr <= m.n
       \/ At(p)' = r + 2 /\ Of(m.mk) = r + 1 /\ t.nr = m.n + 1
  BY <1>3, <1>4, <1>5, TakenIs
<1> QED
  BY <1>13, <1>14, <1>15, <1>16

\* Whatever way an envelope opened, the store is what it was and what was skipped.
LEMMA KeptIs ==
  ASSUME RatchetInv, NEW m \in net, NEW t, Taken(m, t)
  PROVE  /\ Keeps(m.to, m, t, Skipped(m))
         /\ Skipped(m) # {} => Of(m.mk) = At(m.to) - 1 \/ Of(m.mk) = At(m.to) + 1
<1> USE DEF RatchetInv
<1>1. m.to \in End /\ m.n \in Nat /\ Of(m.mk) \in Nat
  BY MailIs
<1>2. PICK r \in Nat : r = At(m.to)
  BY <1>1, EndIs
<1>3. PICK nr \in Nat : nr = st[m.to].nr
  BY <1>1, EndIs
<1>4. CASE FromStore(m, t)
  BY <1>4 DEF FromStore, Skipped
<1>5. CASE OnChain(m, t)
  <2>1. Of(m.mk) = r - 1 /\ m.n >= nr
    BY <1>2, <1>3, <1>5 DEF OnChain
  <2>2. ~Passed(m.to, m)
    BY <1>1, <1>2, <1>3, <2>1 DEF Passed
  <2>3. Skipped(m) = FreshKeys(m.dh, Chain(Of(m.mk)), st[m.to].nr, m.n, day)
    BY <1>2, <2>1, <2>2 DEF Skipped
  <2>4. Keeps(m.to, m, t, FreshKeys(m.dh, Chain(Of(m.mk)), st[m.to].nr, m.n, day))
    BY <1>5 DEF OnChain
  <2> QED
    BY <1>2, <2>1, <2>3, <2>4
<1>6. CASE OnNextChain(m, t)
  <2>1. Of(m.mk) = r + 1
    BY <1>2, <1>6 DEF OnNextChain
  <2>2. ~Passed(m.to, m)
    BY <1>1, <1>2, <2>1 DEF Passed
  <2>3. Skipped(m) = Remainder(m.to, m) \union FreshKeys(m.dh, Chain(Of(m.mk)), 0, m.n, day)
    BY <1>2, <2>1, <2>2 DEF Skipped
  <2>4. Keeps(m.to, m, t, Remainder(m.to, m) \union FreshKeys(m.dh, Chain(Of(m.mk)), 0, m.n, day))
    BY <1>6 DEF OnNextChain
  <2> QED
    BY <1>2, <2>1, <2>3, <2>4
<1> QED
  BY <1>4, <1>5, <1>6 DEF Taken

LEMMA KeysOf ==
  ASSUME NEW p, st[p].skipped \in Seq(Key), NEW k \in Stored(p)
  PROVE  k.n \in Nat /\ k.ts \in Nat /\ k.mk \in Roots \X Nat
<1>1. PICK i \in DOMAIN st[p].skipped : k = st[p].skipped[i]
  BY DEF Stored, Range
<1>2. PICK keys \in Seq(Key) : keys = st[p].skipped
  OBVIOUS
<1>3. k \in Key
  BY <1>1, <1>2
<1> QED
  BY <1>3 DEF Key

\* The keys in the store after an envelope opened are of chains and numbers passed over.
LEMMA KeysAfterTaking ==
  ASSUME RatchetInv, NEW m \in net, NEW t, Taken(m, t), UNCHANGED <<draft, net, day, count>>
  PROVE  KeysKept'
<1> USE DEF RatchetInv
<1>1. PICK p \in End : p = m.to
  BY MailIs
<1>2. PICK q \in End : q = Other(p)
  BY <1>1 DEF Other, End
<1>3. /\ End = {p, q} /\ st'[p] = t /\ st'[q] = st[q] /\ At(q)' = At(q)
      /\ t.nr \in Nat
  BY <1>1, <1>2, TakenIs
<1>4. PICK r \in Nat : r = At(p)
  BY EndIs
<1>5. PICK nr \in Nat : nr = st[p].nr
  BY EndIs
<1>6. m.n \in Nat /\ Of(m.mk) \in Nat
  BY MailIs
<1>7. \/ At(p)' = r /\ t.nr = nr
      \/ At(p)' = r /\ Of(m.mk) = r - 1 /\ t.nr = m.n + 1 /\ nr <= m.n
      \/ At(p)' = r + 2 /\ Of(m.mk) = r + 1 /\ t.nr = m.n + 1
  BY <1>1, <1>4, <1>5, TakenIs
<1>8. Keeps(p, m, t, Skipped(m))
  BY <1>1, KeptIs
<1>9. ASSUME NEW k \in Range(t.skipped) PROVE KeyKept(p, k)'
  <2>1. CASE k \in Stored(p)
    <3>1. /\ Of(k.mk) \in Nat \ {0} /\ Of(k.mk) < r
          /\ k.mk = <<Chain(Of(k.mk)), k.n>> /\ k.dh = DhOf(Of(k.mk))
          /\ k.ts <= day
          /\ Of(k.mk) = r - 1 => k.n < nr
      BY <1>4, <1>5, <2>1 DEF KeysKept, KeyKept
    <3>2. k.n \in Nat
      <4>1. st[p] \in RatchetState
        BY EndIs
      <4>2. st[p].skipped \in Seq(Key)
        BY <4>1, StoreIs
      <4> QED
        BY <2>1, <4>2, KeysOf
    <3>3. Of(k.mk) < At(p)' /\ (Of(k.mk) = At(p)' - 1 => k.n < t.nr)
      BY <1>3, <1>4, <1>5, <1>6, <1>7, <3>1, <3>2
    <3> QED
      BY <1>3, <3>1, <3>3 DEF KeyKept
  <2>2. CASE k \in Skipped(m)
    <3>1. /\ Of(k.mk) \in Nat \ {0} /\ k.mk = <<Chain(Of(k.mk)), k.n>> /\ k.dh = DhOf(Of(k.mk))
          /\ k.n \in Nat /\ k.ts = day
          /\ \/ Of(k.mk) = Of(m.mk) /\ k.n < m.n
             \/ Of(m.mk) = r + 1 /\ Of(k.mk) = r - 1
      BY <1>1, <1>4, <2>2, KeptIs, SkippedIs
    <3>2. \/ At(p)' = r /\ Of(m.mk) = r - 1 /\ t.nr = m.n + 1
          \/ At(p)' = r + 2 /\ Of(m.mk) = r + 1 /\ t.nr = m.n + 1
      <4>1. Of(m.mk) = r - 1 \/ Of(m.mk) = r + 1
        BY <1>1, <1>4, <2>2, KeptIs
      <4>2. ~Passed(p, m)
        BY <1>1, <2>2 DEF Skipped
      <4>3. ~FromStore(m, t)
        BY <1>1, <4>2 DEF FromStore
      <4> QED
        BY <1>1, <1>4, <4>3, TakenIs
    <3>3. Of(k.mk) < At(p)' /\ (Of(k.mk) = At(p)' - 1 => k.n < t.nr)
      BY <1>3, <1>4, <1>6, <3>1, <3>2
    <3>4. day \in Nat
      BY <1>1, EndIs
    <3> QED
      BY <1>3, <3>1, <3>3, <3>4 DEF KeyKept
  <2> QED
    BY <1>8, <2>1, <2>2 DEF Keeps
<1>10. ASSUME NEW k \in Stored(q) PROVE KeyKept(q, k)'
  BY <1>3 DEF KeysKept, KeyKept
<1> QED
  <2>1. Stored(p)' = Range(t.skipped) /\ Stored(q)' = Stored(q)
    BY <1>3 DEF Stored
  <2>2. Len(st[q].skipped) <= MaxSkip /\ Len(t.skipped) <= MaxSkip
    BY <1>8 DEF KeysKept, Keeps
  <2> QED
    BY <1>3, <1>9, <1>10, <2>1, <2>2 DEF KeysKept

\* What was passed over and not opened can still be accounted for.
LEMMA NotOpenedAfterTaking ==
  ASSUME RatchetInv, NEW m \in net, NEW t, Taken(m, t), UNCHANGED <<draft, net, day, count>>
  PROVE  NotOpened'
<1> USE DEF RatchetInv
<1>1. PICK p \in End : p = m.to
  BY MailIs
<1>2. PICK q \in End : q = Other(p)
  BY <1>1 DEF Other, End
<1>3. /\ End = {p, q} /\ p # q /\ Other(q) = p /\ st'[p] = t /\ st'[q] = st[q] /\ At(q)' = At(q)
  BY <1>1, <1>2, TakenIs
<1>4. /\ opened \in [End -> SUBSET net] /\ opened' = [opened EXCEPT ![p] = @ \union {m}]
      /\ overrun \subseteq overrun'
  BY <1>1 DEF Taken, Kinds
<1>5. Stored(p)' = Range(t.skipped) /\ Stored(q)' = Stored(q)
  BY <1>3 DEF Stored
<1>6. ASSUME NEW x \in SentBy(p) \ opened[q], Passed(q, x)'
      PROVE  \/ \E k \in Stored(q) : k.mk = x.mk /\ k.ts >= x.at
             \/ x.mk \in overrun
             \/ day - x.at > KeyExpiry
  <2>1. Passed(q, x)
    BY <1>3, <1>6 DEF Passed
  <2> QED
    BY <1>2, <1>3, <1>6, <2>1 DEF NotOpened
<1>7. ASSUME NEW x \in SentBy(q) \ (opened[p] \union {m}), Passed(p, x)'
      PROVE  \/ \E k \in Range(t.skipped) : k.mk = x.mk /\ k.ts >= x.at
             \/ x.mk \in overrun'
             \/ day - x.at > KeyExpiry
  <2>1. x \in net /\ x.to = p /\ x.at \in Nat /\ x.at <= day /\ x.mk # m.mk
    <3>1. x \in net /\ x.to = p
      BY <1>3 DEF SentBy
    <3>2. x.at \in Nat /\ x.at <= day
      BY <3>1 DEF Kinds, Sealed, Envelope
    <3>3. x.mk # m.mk
      BY <1>7, <3>1, InvOpensOnce DEF KeysUsedOnce
    <3> QED
      BY <3>1, <3>2, <3>3
  <2>2. \/ \E k \in Stored(p) \union Skipped(m) : k.mk = x.mk /\ k.ts >= x.at /\ k.ts \in Nat
        \/ x.mk \in overrun
        \/ day - x.at > KeyExpiry
    <3>1. CASE Passed(p, x)
      <4>1. \/ \E k \in Stored(p) : k.mk = x.mk /\ k.ts >= x.at
            \/ x.mk \in overrun
            \/ day - x.at > KeyExpiry
        BY <1>2, <3>1 DEF NotOpened
      <4>2. st[p].skipped \in Seq(Key)
        <5>1. st[p] \in RatchetState
          BY EndIs
        <5> QED
          BY <5>1, StoreIs
      <4>3. \A k \in Stored(p) : k.ts \in Nat
        BY <4>2, KeysOf
      <4> QED
        BY <4>1, <4>3
    <3>2. CASE ~Passed(p, x)
      <4>1. \E k \in Skipped(m) : k.mk = x.mk /\ k.ts = day
        BY <1>1, <1>7, <2>1, <3>2, PassedIs
      <4>2. day \in Nat
        BY EndIs
      <4> QED
        BY <2>1, <4>1, <4>2
    <3> QED
      BY <3>1, <3>2
  <2>3. CASE \E k \in Stored(p) \union Skipped(m) : k.mk = x.mk /\ k.ts >= x.at /\ k.ts \in Nat
    <3>1. PICK k \in Stored(p) \union Skipped(m) : k.mk = x.mk /\ k.ts >= x.at /\ k.ts \in Nat
      BY <2>3
    <3>2. \/ k \in Range(t.skipped)
          \/ k.mk \in overrun'
          \/ day - k.ts > KeyExpiry
          \/ k.mk = m.mk
      BY <1>1, KeptIs DEF Keeps
    <3>3. day \in Nat /\ KeyExpiry \in Nat
      BY EndIs, RatchetAssumption
    <3>4. day - k.ts > KeyExpiry => day - x.at > KeyExpiry
      BY <2>1, <3>1, <3>3
    <3> QED
      BY <2>1, <3>1, <3>2, <3>4
  <2> QED
    BY <1>4, <2>2, <2>3
<1> QED
  <2> SUFFICES ASSUME NEW e \in End, NEW x \in SentBy(Other(e)) \ opened'[e], Passed(e, x)'
               PROVE  (\/ \E k \in Stored(e) : k.mk = x.mk /\ k.ts >= x.at
                       \/ x.mk \in overrun
                       \/ day - x.at > KeyExpiry)'
    BY DEF NotOpened, SentBy
  <2>1. CASE e = p
    <3>1. x \in SentBy(q) \ (opened[p] \union {m}) /\ Passed(p, x)'
      BY <1>2, <1>4, <2>1
    <3> QED
      BY <1>5, <1>7, <2>1, <3>1
  <2>2. CASE e = q
    <3>1. x \in SentBy(p) \ opened[q] /\ Passed(q, x)'
      BY <1>3, <1>4, <2>2
    <3> QED
      BY <1>4, <1>5, <1>6, <2>2, <3>1
  <2> QED
    BY <1>3, <2>1, <2>2

\* What was opened was passed over, and no key of it is left.
LEMMA OpenedAfterTaking ==
  ASSUME RatchetInv, NEW m \in net, NEW t, Taken(m, t), UNCHANGED <<draft, net, day, count>>
  PROVE  OpenedIsPassed'
<1> USE DEF RatchetInv
<1>1. PICK p \in End : p = m.to
  BY MailIs
<1>2. PICK q \in End : q = Other(p)
  BY <1>1 DEF Other, End
<1>3. /\ End = {p, q} /\ p # q /\ Other(q) = p /\ st'[p] = t /\ st'[q] = st[q] /\ At(q)' = At(q)
  BY <1>1, <1>2, TakenIs
<1>4. opened \in [End -> SUBSET net] /\ opened' = [opened EXCEPT ![p] = @ \union {m}]
  BY <1>1 DEF Taken, Kinds
<1>5. Stored(p)' = Range(t.skipped) /\ Stored(q)' = Stored(q)
  BY <1>3 DEF Stored
<1>6. PICK r \in Nat : r = At(p)
  BY EndIs
<1>7. PICK nr \in Nat : nr = st[p].nr
  BY EndIs
<1>8. m.n \in Nat /\ Of(m.mk) \in Nat /\ m \in SentBy(q)
  BY <1>1, <1>2, MailIs
<1>9. ASSUME NEW x \in opened[q]
      PROVE  x \in SentBy(p) /\ Passed(q, x)' /\ \A k \in Stored(q) : k.mk # x.mk
  <2>1. x \in SentBy(p) /\ Passed(q, x) /\ \A k \in Stored(q) : k.mk # x.mk
    BY <1>3 DEF OpenedIsPassed
  <2> QED
    BY <1>3, <2>1 DEF Passed
<1>10. Passed(p, m)'
  <2>1. CASE FromStore(m, t)
    <3>1. Passed(p, m)
      BY <1>1, <2>1 DEF FromStore
    <3> QED
      BY <1>1, <3>1, PassedIs
  <2>2. CASE At(p)' = r /\ Of(m.mk) = r - 1 /\ t.nr = m.n + 1
    BY <1>3, <1>8, <2>2 DEF Passed
  <2>3. CASE At(p)' = r + 2 /\ Of(m.mk) = r + 1 /\ t.nr = m.n + 1
    BY <1>3, <1>8, <2>3 DEF Passed
  <2> QED
    BY <1>1, <1>6, <2>1, <2>2, <2>3, TakenIs
<1>11. ASSUME NEW x \in opened[p]
       PROVE  x \in SentBy(q) /\ Passed(p, x)' /\ \A k \in Range(t.skipped) : k.mk # x.mk
  <2>1. x \in SentBy(q) /\ Passed(p, x) /\ \A k \in Stored(p) : k.mk # x.mk
    BY <1>2 DEF OpenedIsPassed
  <2>2. x \in net /\ x.to = p
    BY <1>3, <2>1 DEF SentBy
  <2>3. Passed(p, x)'
    BY <1>1, <2>1, <2>2, PassedIs
  <2>4. x.n \in Nat /\ Of(x.mk) \in Nat /\ x.mk = <<Chain(Of(x.mk)), x.n>>
    BY <2>2, MailIs
  <2>5. Of(x.mk) < r - 1 \/ (Of(x.mk) = r - 1 /\ x.n < nr)
    BY <1>6, <1>7, <2>1 DEF Passed
  <2>6. ASSUME NEW k \in Skipped(m), k.mk = x.mk PROVE FALSE
    <3>1. Of(m.mk) = r - 1 \/ Of(m.mk) = r + 1
      BY <1>1, <1>6, <2>6, KeptIs
    <3>2. /\ k.mk = <<Chain(Of(k.mk)), k.n>> /\ k.n \in Nat
          /\ \/ Of(k.mk) = Of(m.mk)
             \/ Of(m.mk) = r + 1 /\ Of(k.mk) = r - 1
          /\ Of(k.mk) = r - 1 => k.n >= nr
      BY <1>1, <1>6, <1>7, <3>1, SkippedIs
    <3>3. k.n = x.n
      <4>1. k.mk[2] = k.n /\ x.mk[2] = x.n
        BY <2>4, <3>2
      <4> QED
        BY <2>6, <4>1
    <3> QED
      BY <2>4, <2>5, <2>6, <3>1, <3>2, <3>3
  <2>7. Range(t.skipped) \subseteq Stored(p) \union Skipped(m)
    BY <1>1, KeptIs DEF Keeps
  <2> QED
    BY <2>1, <2>3, <2>6, <2>7
<1>12. \A k \in Range(t.skipped) : k.mk # m.mk
  BY <1>1, KeptIs DEF Keeps
<1> QED
  <2> SUFFICES ASSUME NEW e \in End, NEW x \in opened'[e]
               PROVE  x \in SentBy(Other(e)) /\ Passed(e, x)' /\ \A k \in Stored(e)' : k.mk # x.mk
    BY DEF OpenedIsPassed, SentBy
  <2>1. CASE e = q
    BY <1>3, <1>4, <1>5, <1>9, <2>1
  <2>2. CASE e = p /\ x = m
    BY <1>2, <1>5, <1>8, <1>10, <1>12, <2>2
  <2>3. CASE e = p /\ x # m
    BY <1>2, <1>4, <1>5, <1>11, <2>3
  <2> QED
    BY <1>3, <2>1, <2>2, <2>3

-----------------------------------------------------------------------------
(* The other steps.                                                        *)

LEMMA SealedStays ==
  ASSUME NEW m, Sealed(m), day' = day PROVE Sealed(m)'
BY DEF Sealed

LEMMA KindsHold ==
  ASSUME Kinds, UNCHANGED <<st, net, day, opened, overrun>>,
         draft' \in [End -> SUBSET [state : RatchetState, env : Envelope]], count' \in [End -> Nat]
  PROVE  Kinds'
<1>1. \A m \in net : Sealed(m)'
  BY SealedStays DEF Kinds
<1> QED
  BY <1>1 DEF Kinds

\* What depends neither on the drafts nor on how many envelopes were composed.
LEMMA OthersHold ==
  ASSUME RatchetInv, UNCHANGED <<st, net, day, opened, overrun>>
  PROVE  Placed' /\ InStep' /\ Numbered' /\ Counted' /\ KeysKept' /\ NotOpened' /\ OpenedIsPassed'
<1>1. Placed' /\ InStep' /\ Numbered' /\ Counted'
  BY DEF RatchetInv, Placed, InStep, At, Numbered, SentBy, Counted
<1>2. KeysKept'
  BY DEF RatchetInv, KeysKept, KeyKept, Stored, At
<1>3. NotOpened'
  BY DEF RatchetInv, NotOpened, SentBy, Stored, Passed, At
<1>4. OpenedIsPassed'
  BY DEF RatchetInv, OpenedIsPassed, SentBy, Stored, Passed, At
<1> QED
  BY <1>1, <1>2, <1>3, <1>4

\* The envelope an end computes is the next of its chain.
LEMMA EncryptIs ==
  ASSUME RatchetInv, NEW p \in End, CanEncrypt(st[p]),
         NEW d, d = RatchetEncrypt(st[p], p, count[p], day)
  PROVE  /\ d = [state |-> [st[p] EXCEPT !.ns = d.env.n + 1], env |-> d.env]
         /\ d \in [state : RatchetState, env : Envelope]
         /\ Sealed(d.env) /\ Of(d.env.mk) = At(p) /\ d.env.to = Other(p)
         /\ d.env.pn = st[p].pn /\ d.env.n = st[p].ns
<1> USE DEF RatchetInv
<1>1. PICK s \in RatchetState : s = st[p]
  BY EndIs
<1>2. PICK r \in Nat : r = At(p)
  BY EndIs
<1>3. s.cks = Chain(r) /\ s.dhs = DhOf(r) /\ SenderOf(r) = p
  BY <1>1, <1>2 DEF Placed
<1>4. r # 0
  BY <1>1, <1>3, ChainIs DEF CanEncrypt, NoChain
<1>5. PICK id \in Nat : id = count[p]
  BY DEF Kinds
<1>6. PICK ns \in Nat : ns = s.ns
  BY <1>1 DEF RatchetState
<1>7. PICK pn \in Nat : pn = s.pn
  BY <1>1 DEF RatchetState
<1>8. PICK at \in Nat : at = day
  BY EndIs
<1>9. PICK mk \in Roots \X Nat : mk = <<Chain(r), ns>>
  BY ChainIs
<1>10. PICK env : env = [to |-> Other(p), id |-> id, at |-> at, dh |-> DhOf(r),
                         pn |-> pn, n |-> ns, mk |-> mk]
  OBVIOUS
<1>11. d = [state |-> [s EXCEPT !.ns = ns + 1], env |-> env]
  BY <1>1, <1>3, <1>5, <1>6, <1>7, <1>8, <1>9, <1>10 DEF RatchetEncrypt, MessageKey
<1>12. DhOf(r) \in End \X Nat /\ Other(p) \in End
  BY DhIs DEF Other, End
<1>13. env \in Envelope
  BY <1>10, <1>12 DEF Envelope
<1>14. [s EXCEPT !.ns = ns + 1] \in RatchetState
  <2>1. PICK next \in Nat : next = ns + 1
    OBVIOUS
  <2>2. [s EXCEPT !.ns = next] \in RatchetState
    BY DEF RatchetState
  <2> QED
    BY <2>1, <2>2
<1>15. d.env = env /\ env.n = ns /\ env.mk = mk /\ env.dh = DhOf(r) /\ env.to = Other(p) /\ env.at = at
       /\ env.pn = pn
  BY <1>10, <1>11
<1>16. Of(mk) = r
  BY <1>9, ChainIs DEF Of
<1>17. Sealed(env)
  BY <1>3, <1>4, <1>8, <1>9, <1>13, <1>15, <1>16 DEF Sealed
<1> QED
  BY <1>1, <1>2, <1>6, <1>7, <1>11, <1>13, <1>14, <1>15, <1>16, <1>17

LEMMA ComputeKeeps ==
  ASSUME RatchetInv, NEW p \in End, Compute(p)
  PROVE  RatchetInv'
<1> USE DEF RatchetInv
<1>1. PICK d : d = RatchetEncrypt(st[p], p, count[p], day)
  OBVIOUS
<1>2. /\ CanEncrypt(st[p]) /\ draft' = [draft EXCEPT ![p] = {d}]
      /\ count' = [count EXCEPT ![p] = @ + 1]
      /\ UNCHANGED <<st, net, day, opened, overrun>>
  BY <1>1 DEF Compute
<1>3. /\ d = [state |-> [st[p] EXCEPT !.ns = d.env.n + 1], env |-> d.env]
      /\ d \in [state : RatchetState, env : Envelope]
      /\ Sealed(d.env) /\ Of(d.env.mk) = At(p) /\ d.env.to = Other(p)
      /\ d.env.pn = st[p].pn /\ d.env.n = st[p].ns
  BY <1>1, <1>2, EncryptIs
<1>4. draft \in [End -> SUBSET [state : RatchetState, env : Envelope]] /\ count \in [End -> Nat]
  BY DEF Kinds
<1>5. Kinds'
  <2>1. draft' \in [End -> SUBSET [state : RatchetState, env : Envelope]]
    BY <1>2, <1>3, <1>4
  <2>2. count' \in [End -> Nat]
    BY <1>2, <1>4
  <2> QED
    BY <1>2, <2>1, <2>2, KindsHold
<1>6. draft'[p] = {d} /\ \A e \in End \ {p} : draft'[e] = draft[e]
  BY <1>2, <1>4
<1>7. At(p)' = At(p) /\ Sealed(d.env)'
  BY <1>2, <1>3, SealedStays DEF At
<1>8. Drafted'
  <2>1. \A m \in net : Of(m.mk) = At(p) => m.n < d.env.n
    <3> SUFFICES ASSUME NEW m \in net, Of(m.mk) = At(p) PROVE m.n < st[p].ns
      BY <1>3
    <3>1. m \in SentBy(p)
      BY EndIs, Senders
    <3> QED
      BY <3>1 DEF Numbered
  <2>2. st[p].ns \in {d.env.n, d.env.n + 1}
    BY <1>3
  <2>3. ASSUME NEW e \in End, NEW x \in draft'[e]
        PROVE  (/\ draft[e] = {x} /\ Sealed(x.env)
                /\ x = [state |-> [st[e] EXCEPT !.ns = x.env.n + 1], env |-> x.env]
                /\ Of(x.env.mk) = At(e) /\ x.env.to = Other(e) /\ x.env.pn = st[e].pn
                /\ st[e].ns \in {x.env.n, x.env.n + 1}
                /\ \A m \in net : Of(m.mk) = At(e) => m.n < x.env.n)'
    <3>1. CASE e = p
      <4>1. x = d
        BY <1>6, <2>3, <3>1
      <4> QED
        BY <1>2, <1>3, <1>6, <1>7, <2>1, <2>2, <3>1, <4>1
    <3>2. CASE e # p
      <4>1. x \in draft[e] /\ draft'[e] = draft[e]
        BY <1>6, <2>3, <3>2
      <4>2. /\ draft[e] = {x} /\ Sealed(x.env)
            /\ x = [state |-> [st[e] EXCEPT !.ns = x.env.n + 1], env |-> x.env]
            /\ Of(x.env.mk) = At(e) /\ x.env.to = Other(e) /\ x.env.pn = st[e].pn
            /\ st[e].ns \in {x.env.n, x.env.n + 1}
            /\ \A m \in net : Of(m.mk) = At(e) => m.n < x.env.n
        BY <4>1 DEF Drafted
      <4>3. At(e)' = At(e) /\ Sealed(x.env)'
        BY <1>2, <4>2, SealedStays DEF At
      <4> QED
        BY <1>2, <4>1, <4>2, <4>3
    <3> QED
      BY <3>1, <3>2
  <2> QED
    BY <2>3 DEF Drafted
<1>9. Behind'
  <2> SUFFICES ASSUME NEW e \in End, At(e) = At(Other(e)) + 1, NEW x \in draft'[Other(e)]
               PROVE  st[e].nr <= st[Other(e)].ns /\ st[e].nr <= x.env.n
    BY <1>2 DEF Behind, At
  <2>1. st[e].nr <= st[Other(e)].ns
    BY DEF Behind
  <2>2. CASE Other(e) = p
    BY <1>3, <1>6, <2>1, <2>2
  <2>3. CASE Other(e) # p
    <3>1. x \in draft[Other(e)]
      BY <1>6, <2>3 DEF Other, End
    <3> QED
      BY <2>1, <3>1 DEF Behind
  <2> QED
    BY <2>2, <2>3
<1> QED
  BY <1>2, <1>5, <1>8, <1>9, OthersHold

LEMMA CrashKeeps ==
  ASSUME RatchetInv, NEW p \in End, Crash(p)
  PROVE  RatchetInv'
<1> USE DEF RatchetInv
<1>1. draft' = [draft EXCEPT ![p] = {}] /\ UNCHANGED <<st, net, day, opened, overrun, count>>
  BY DEF Crash
<1>2. draft \in [End -> SUBSET [state : RatchetState, env : Envelope]] /\ count \in [End -> Nat]
  BY DEF Kinds
<1>3. Kinds'
  BY <1>1, <1>2, KindsHold
<1>4. \A e \in End : draft'[e] = {} \/ draft'[e] = draft[e]
  BY <1>1, <1>2
<1>5. Drafted'
  BY <1>1, <1>4 DEF Drafted, Sealed, At
<1>6. Behind'
  <2>1. \A e \in End : Other(e) \in End
    BY DEF Other, End
  <2> QED
    BY <1>1, <1>4, <2>1 DEF Behind, At
<1> QED
  BY <1>1, <1>3, <1>5, <1>6, OthersHold

\* Saving a draft is what makes its number used.
LEMMA SaveKeeps ==
  ASSUME RatchetInv, NEW p \in End, Save(p)
  PROVE  RatchetInv'
<1> USE DEF RatchetInv
<1>1. PICK d \in draft[p] : /\ st[p] # d.state /\ st' = [st EXCEPT ![p] = d.state]
                           /\ UNCHANGED <<draft, net, day, count, opened, overrun>>
  BY DEF Save
<1>2. /\ draft[p] = {d} /\ Sealed(d.env)
      /\ d = [state |-> [st[p] EXCEPT !.ns = d.env.n + 1], env |-> d.env]
      /\ Of(d.env.mk) = At(p) /\ d.env.to = Other(p) /\ d.env.pn = st[p].pn
      /\ st[p].ns \in {d.env.n, d.env.n + 1}
      /\ \A m \in net : Of(m.mk) = At(p) => m.n < d.env.n
  BY DEF Drafted
<1>3. PICK s \in RatchetState : s = st[p]
  BY EndIs
<1>4. PICK n \in Nat : n = d.env.n
  BY <1>2 DEF Sealed, Envelope
<1>5. PICK q \in End : q = Other(p)
  BY DEF Other, End
<1>6. p # q /\ End = {p, q} /\ Other(q) = p
  BY <1>5 DEF Other, End
<1>7. PICK t : t = [s EXCEPT !.ns = n + 1]
  OBVIOUS
<1>8. d.state = t
  BY <1>2, <1>3, <1>4, <1>7
<1>9. PICK next \in Nat : next = n + 1
  OBVIOUS
<1>10. /\ t \in RatchetState /\ t.ns = next /\ t.nr = s.nr /\ t.pn = s.pn /\ t.rk = s.rk
       /\ t.cks = s.cks /\ t.ckr = s.ckr /\ t.dhs = s.dhs /\ t.dhr = s.dhr /\ t.skipped = s.skipped
       /\ t = [t EXCEPT !.ns = next]
  BY <1>7, <1>9 DEF RatchetState
<1>11. st \in [End -> RatchetState]
  BY DEF Kinds
<1>12. st' = [st EXCEPT ![p] = t] /\ st'[p] = t /\ st'[q] = st[q] /\ UNCHANGED <<draft, net, day, count, opened, overrun>>
  BY <1>1, <1>6, <1>8, <1>11
<1>13. s.ns = n
  <2>1. s.ns \in {n, n + 1}
    BY <1>2, <1>3, <1>4
  <2>2. s.ns = n + 1 => s = t
    BY <1>7 DEF RatchetState
  <2> QED
    BY <1>1, <1>3, <1>8, <2>1, <2>2
<1>14. At(p)' = At(p) /\ At(q)' = At(q)
  BY <1>3, <1>10, <1>12 DEF At
<1>15. Kinds'
  <2>1. st' \in [End -> RatchetState]
    BY <1>10, <1>11, <1>12
  <2>2. \A m \in net : Sealed(m)'
    BY <1>12, SealedStays DEF Kinds
  <2> QED
    BY <1>12, <2>1, <2>2 DEF Kinds
<1>16. Placed' /\ InStep'
  <2>1. InStep'
    BY <1>6, <1>14 DEF InStep, End
  <2>2. \A e \in End : /\ At(e)' = At(e) /\ st'[e].rk = st[e].rk /\ st'[e].cks = st[e].cks
                       /\ st'[e].ckr = st[e].ckr /\ st'[e].dhs = st[e].dhs /\ st'[e].dhr = st[e].dhr
                       /\ st'[e] \in RatchetState
    BY <1>3, <1>6, <1>10, <1>11, <1>12, <1>14
  <2>3. Placed'
    BY <2>2 DEF Placed
  <2> QED
    BY <2>1, <2>3
<1>17. \A e \in End : /\ At(e)' = At(e) /\ st'[e].nr = st[e].nr /\ st'[e].pn = st[e].pn
                      /\ st'[e].skipped = st[e].skipped /\ Stored(e)' = Stored(e)
  BY <1>3, <1>6, <1>10, <1>12, <1>14 DEF Stored
<1>18. st[q].ns \in Nat /\ st[q].nr \in Nat /\ st[p].nr \in Nat
  BY EndIs
<1>19. Numbered'
  <2> SUFFICES ASSUME NEW e \in End, NEW x \in SentBy(e)
               PROVE  (/\ Of(x.mk) <= At(e)
                       /\ Of(x.mk) = At(e) => x.n < st[e].ns /\ x.pn = st[e].pn
                       /\ Of(x.mk) = At(e) - 2 => x.n < st[e].pn)'
    BY <1>12 DEF Numbered, SentBy
  <2>1. /\ Of(x.mk) <= At(e)
        /\ Of(x.mk) = At(e) => x.n < st[e].ns /\ x.pn = st[e].pn
        /\ Of(x.mk) = At(e) - 2 => x.n < st[e].pn
        /\ x.n \in Nat
    BY MailIs DEF Numbered, SentBy
  <2>2. CASE e = q
    BY <1>12, <1>14, <2>1, <2>2
  <2>3. CASE e = p
    BY <1>3, <1>9, <1>10, <1>12, <1>13, <1>14, <2>1, <2>3
  <2> QED
    BY <1>6, <2>2, <2>3
<1>20. Counted'
  BY <1>12 DEF Counted
<1>21. Drafted'
  <2> SUFFICES ASSUME NEW e \in End, NEW x \in draft[e]
               PROVE  (/\ draft[e] = {x} /\ Sealed(x.env)
                       /\ x = [state |-> [st[e] EXCEPT !.ns = x.env.n + 1], env |-> x.env]
                       /\ Of(x.env.mk) = At(e) /\ x.env.to = Other(e) /\ x.env.pn = st[e].pn
                       /\ st[e].ns \in {x.env.n, x.env.n + 1}
                       /\ \A m \in net : Of(m.mk) = At(e) => m.n < x.env.n)'
    BY <1>12 DEF Drafted
  <2>1. /\ draft[e] = {x} /\ Sealed(x.env)
        /\ x = [state |-> [st[e] EXCEPT !.ns = x.env.n + 1], env |-> x.env]
        /\ Of(x.env.mk) = At(e) /\ x.env.to = Other(e) /\ x.env.pn = st[e].pn
        /\ st[e].ns \in {x.env.n, x.env.n + 1}
        /\ \A m \in net : Of(m.mk) = At(e) => m.n < x.env.n
    BY DEF Drafted
  <2>2. Sealed(x.env)'
    BY <1>12, <2>1, SealedStays
  <2>3. CASE e = q
    BY <1>12, <1>14, <2>1, <2>2, <2>3
  <2>4. CASE e = p
    <3>1. x = d
      BY <1>2, <2>4
    <3>2. d = [state |-> t, env |-> d.env]
      BY <1>2, <1>8
    <3>3. d = [state |-> [t EXCEPT !.ns = d.env.n + 1], env |-> d.env]
      BY <1>4, <1>9, <1>10, <3>2
    <3>4. t.ns \in {d.env.n, d.env.n + 1} /\ d.env.pn = t.pn
      BY <1>2, <1>3, <1>4, <1>9, <1>10
    <3> QED
      BY <1>12, <1>14, <2>1, <2>2, <2>4, <3>1, <3>3, <3>4
  <2> QED
    BY <1>6, <2>3, <2>4
<1>22. Behind'
  <2> SUFFICES ASSUME NEW e \in End, At(e)' = At(Other(e))' + 1
               PROVE  (/\ st[e].nr <= st[Other(e)].ns
                       /\ \A x \in draft[Other(e)] : st[e].nr <= x.env.n)'
    BY DEF Behind
  <2>1. /\ st[e].nr <= st[Other(e)].ns
        /\ \A x \in draft[Other(e)] : st[e].nr <= x.env.n
    <3>1. PICK f \in End : f = Other(e)
      BY DEF Other, End
    <3>2. At(e) = At(f) + 1
      BY <1>17, <3>1
    <3> QED
      BY <3>1, <3>2 DEF Behind
  <2>2. CASE e = q
    BY <1>3, <1>6, <1>9, <1>10, <1>12, <1>13, <1>18, <2>1, <2>2
  <2>3. CASE e = p
    BY <1>3, <1>5, <1>10, <1>12, <2>1, <2>3
  <2> QED
    BY <1>6, <2>2, <2>3
<1>23. KeysKept'
  <2>1. ASSUME NEW e \in End, NEW k \in Stored(e), KeyKept(e, k) PROVE KeyKept(e, k)'
    BY <1>12, <1>17, <2>1 DEF KeyKept
  <2> QED
    BY <1>17, <2>1 DEF KeysKept
<1>24. NotOpened' /\ OpenedIsPassed'
  <2>1. \A e \in End : \A x \in net : Passed(e, x)' <=> Passed(e, x)
    BY <1>12, <1>17 DEF Passed
  <2>2. \A e \in End : SentBy(e)' = SentBy(e) /\ Other(e) \in End
    BY <1>12 DEF SentBy, Other, End
  <2>3. \A e \in End : SentBy(e) \subseteq net /\ opened[e] \subseteq net
    BY DEF SentBy, Kinds
  <2>4. NotOpened'
    BY <1>12, <1>17, <2>1, <2>2, <2>3 DEF NotOpened
  <2>5. OpenedIsPassed'
    BY <1>12, <1>17, <2>1, <2>2, <2>3 DEF OpenedIsPassed
  <2> QED
    BY <2>4, <2>5
<1> QED
  BY <1>15, <1>16, <1>19, <1>20, <1>21, <1>22, <1>23, <1>24

\* What is released was not passed over by the other end, and has a number of its own.
LEMMA ReleaseKeeps ==
  ASSUME RatchetInv, NEW p \in End, Release(p)
  PROVE  RatchetInv'
<1> USE DEF RatchetInv
<1>1. PICK d \in draft[p] : /\ st[p] = d.state /\ net' = net \union {d.env}
                           /\ draft' = [draft EXCEPT ![p] = {}]
                           /\ UNCHANGED <<st, day, count, opened, overrun>>
  BY DEF Release
<1>2. PICK env : env = d.env
  OBVIOUS
<1>3. /\ Sealed(env) /\ d = [state |-> [st[p] EXCEPT !.ns = env.n + 1], env |-> env]
      /\ Of(env.mk) = At(p) /\ env.to = Other(p) /\ env.pn = st[p].pn
      /\ \A m \in net : Of(m.mk) = At(p) => m.n < env.n
  BY <1>2 DEF Drafted
<1>4. PICK q \in End : q = Other(p)
  BY DEF Other, End
<1>5. p # q /\ End = {p, q} /\ Other(q) = p
  BY <1>4 DEF Other, End
<1>6. env.n \in Nat /\ env \in Envelope /\ st[p].ns \in Nat /\ st[q].nr \in Nat
      /\ At(p) \in Nat /\ At(q) \in Nat
  BY <1>3, EndIs DEF Sealed, Envelope
<1>7. st[p].ns = env.n + 1
  <2>1. PICK next \in Nat : next = env.n + 1
    BY <1>6
  <2>2. st[p] = [st[p] EXCEPT !.ns = next] /\ st[p] \in RatchetState
    BY <1>1, <1>3, <2>1, EndIs
  <2> QED
    BY <2>1, <2>2 DEF RatchetState
<1>8. \A e \in End : draft'[e] = {} \/ (draft'[e] = draft[e] /\ e = q)
  <2>1. draft \in [End -> SUBSET [state : RatchetState, env : Envelope]]
    BY DEF Kinds
  <2> QED
    BY <1>1, <1>5, <2>1
<1>9. net' = net \union {env} /\ UNCHANGED <<st, day, count, opened, overrun>>
  BY <1>1, <1>2
<1>10. \A e \in End : At(e)' = At(e) /\ Stored(e)' = Stored(e)
  BY <1>9 DEF At, Stored
<1>11. SentBy(p)' = SentBy(p) \union {env} /\ SentBy(q)' = SentBy(q)
  BY <1>3, <1>4, <1>5, <1>9 DEF SentBy
<1>12. Kinds'
  <2>1. \A m \in net' : Sealed(m)'
    BY <1>3, <1>9, SealedStays DEF Kinds
  <2>2. draft' \in [End -> SUBSET [state : RatchetState, env : Envelope]]
    BY <1>1 DEF Kinds
  <2> QED
    BY <1>9, <2>1, <2>2 DEF Kinds
<1>13. Placed' /\ InStep'
  BY <1>9 DEF Placed, InStep, At
<1>14. Numbered'
  <2>1. ASSUME NEW e \in End, NEW x \in SentBy(e)
        PROVE  /\ Of(x.mk) <= At(e)
               /\ Of(x.mk) = At(e) => x.n < st[e].ns /\ x.pn = st[e].pn
               /\ Of(x.mk) = At(e) - 2 => x.n < st[e].pn
    BY DEF Numbered
  <2>2. /\ Of(env.mk) <= At(p)
        /\ Of(env.mk) = At(p) => env.n < st[p].ns /\ env.pn = st[p].pn
        /\ Of(env.mk) = At(p) - 2 => env.n < st[p].pn
    BY <1>3, <1>6, <1>7
  <2>3. ASSUME NEW e \in End, NEW x \in SentBy(e)'
        PROVE  /\ Of(x.mk) <= At(e)
               /\ Of(x.mk) = At(e) => x.n < st[e].ns /\ x.pn = st[e].pn
               /\ Of(x.mk) = At(e) - 2 => x.n < st[e].pn
    <3>1. x \in SentBy(e) \/ (x = env /\ e = p)
      BY <1>5, <1>11, <2>3
    <3> QED
      BY <2>1, <2>2, <3>1
  <2> QED
    BY <1>9, <1>10, <2>3 DEF Numbered
<1>15. Counted'
  <2>1. ASSUME NEW m \in net, Of(m.mk) = Of(env.mk) \/ Of(env.mk) = Of(m.mk) + 2 \/ Of(m.mk) = Of(env.mk) + 2
        PROVE  m \in SentBy(p) /\ m.n \in Nat /\ Of(m.mk) \in Nat
    <3>1. m.n \in Nat /\ Of(m.mk) \in Nat
      BY MailIs
    <3>2. SenderOf(At(p)) = p
      BY EndIs
    <3>3. SenderOf(Of(m.mk)) = SenderOf(Of(env.mk))
      <4>1. \A j \in Nat : SenderOf(j + 2) = SenderOf(j)
        BY DhIs
      <4> QED
        BY <1>3, <1>6, <2>1, <3>1, <4>1
    <3> QED
      BY <1>3, <3>1, <3>2, <3>3, Senders
  <2>2. ASSUME NEW m \in net
        PROVE  /\ Of(env.mk) = Of(m.mk) + 2 => m.n < env.pn
               /\ ~(Of(m.mk) = Of(env.mk) + 2)
               /\ Of(env.mk) = Of(m.mk) => m.n # env.n
    <3>1. ASSUME Of(env.mk) = Of(m.mk) + 2 PROVE m.n < env.pn
      <4>1. m \in SentBy(p) /\ Of(m.mk) \in Nat
        BY <2>1, <3>1
      <4>2. Of(m.mk) = At(p) - 2
        BY <1>3, <1>6, <3>1, <4>1
      <4> QED
        BY <1>3, <4>1, <4>2 DEF Numbered
    <3>2. ~(Of(m.mk) = Of(env.mk) + 2)
      <4>1. Of(m.mk) = Of(env.mk) + 2 => Of(m.mk) <= At(p)
        BY <2>1 DEF Numbered
      <4> QED
        BY <1>3, <1>6, <4>1
    <3>3. Of(env.mk) = Of(m.mk) => m.n < env.n /\ m.n \in Nat
      BY <1>3, <2>1
    <3> QED
      BY <1>6, <3>1, <3>2, <3>3
  <2>3. ~(Of(env.mk) = Of(env.mk) + 2)
    BY <1>3, <1>6
  <2> SUFFICES ASSUME NEW m1 \in net', NEW m2 \in net'
               PROVE  /\ Of(m2.mk) = Of(m1.mk) + 2 => m1.n < m2.pn
                      /\ Of(m2.mk) = Of(m1.mk) /\ m1.n = m2.n => m1 = m2
    BY DEF Counted
  <2>4. (m1 \in net \/ m1 = env) /\ (m2 \in net \/ m2 = env)
    BY <1>9
  <2>5. CASE m1 \in net /\ m2 \in net
    BY <2>5 DEF Counted
  <2>6. CASE m1 \in net /\ m2 = env
    BY <2>2, <2>6
  <2>7. CASE m1 = env /\ m2 \in net
    BY <2>2, <2>7
  <2>8. CASE m1 = env /\ m2 = env
    BY <2>3, <2>8
  <2> QED
    BY <2>4, <2>5, <2>6, <2>7, <2>8
<1>16. Drafted'
  <2> SUFFICES ASSUME NEW x \in draft[q], draft'[q] = draft[q]
               PROVE  (/\ draft[q] = {x} /\ Sealed(x.env)
                       /\ x = [state |-> [st[q] EXCEPT !.ns = x.env.n + 1], env |-> x.env]
                       /\ Of(x.env.mk) = At(q) /\ x.env.to = Other(q) /\ x.env.pn = st[q].pn
                       /\ st[q].ns \in {x.env.n, x.env.n + 1}
                       /\ \A m \in net : Of(m.mk) = At(q) => m.n < x.env.n)'
    BY <1>5, <1>8 DEF Drafted
  <2>1. /\ draft[q] = {x} /\ Sealed(x.env)
        /\ x = [state |-> [st[q] EXCEPT !.ns = x.env.n + 1], env |-> x.env]
        /\ Of(x.env.mk) = At(q) /\ x.env.to = Other(q) /\ x.env.pn = st[q].pn
        /\ st[q].ns \in {x.env.n, x.env.n + 1}
        /\ \A m \in net : Of(m.mk) = At(q) => m.n < x.env.n
    BY DEF Drafted
  <2>2. Sealed(x.env)'
    BY <1>9, <2>1, SealedStays
  <2>3. Of(env.mk) # At(q)
    BY <1>3, <1>5, <1>6 DEF InStep, End
  <2> QED
    BY <1>9, <1>10, <2>1, <2>2, <2>3
<1>17. Behind'
  <2>1. \A e \in End : Other(e) \in End
    BY DEF Other, End
  <2> QED
    BY <1>8, <1>9, <2>1 DEF Behind, At
<1>18. KeysKept'
  BY <1>9 DEF KeysKept, KeyKept, Stored, At
<1>19. \A e \in End : \A x \in net' : Passed(e, x)' <=> Passed(e, x)
  BY <1>9, <1>10 DEF Passed
<1>20. ~Passed(q, env)
  <2>1. CASE At(q) = At(p) + 1
    <3>1. st[q].nr <= env.n
      BY <1>2, <1>5, <2>1 DEF Behind
    <3> QED
      BY <1>3, <1>6, <2>1, <3>1 DEF Passed
  <2>2. CASE At(p) = At(q) + 1
    BY <1>3, <1>6, <2>2 DEF Passed
  <2> QED
    BY <1>5, <2>1, <2>2 DEF InStep, End
<1>21. \A e \in End : SentBy(e) \subseteq net /\ SentBy(e) \subseteq SentBy(e)' /\ SentBy(e)' \subseteq net'
  BY <1>9 DEF SentBy
<1>22. NotOpened'
  <2> SUFFICES ASSUME NEW e \in End, NEW x \in SentBy(Other(e))' \ opened[e], Passed(e, x)'
               PROVE  \/ \E k \in Stored(e) : k.mk = x.mk /\ k.ts >= x.at
                      \/ x.mk \in overrun
                      \/ day - x.at > KeyExpiry
    BY <1>9, <1>10 DEF NotOpened, SentBy
  <2>1. PICK f \in End : f = Other(e)
    BY DEF Other, End
  <2>2. x \in SentBy(f)' /\ x \in net'
    BY <1>21, <2>1
  <2>3. Passed(e, x)
    BY <1>19, <2>2
  <2>4. x # env \/ e # q
    BY <1>20, <2>3
  <2>5. x \in SentBy(f)
    <3>1. CASE f = p
      <4>1. e = q
        BY <1>4, <1>5, <2>1, <3>1
      <4> QED
        BY <1>11, <2>2, <2>4, <3>1, <4>1
    <3>2. CASE f = q
      BY <1>11, <2>2, <3>2
    <3> QED
      BY <1>5, <3>1, <3>2
  <2> QED
    BY <2>1, <2>3, <2>5 DEF NotOpened
<1>23. OpenedIsPassed'
  <2> SUFFICES ASSUME NEW e \in End, NEW x \in opened[e]
               PROVE  x \in SentBy(Other(e))' /\ Passed(e, x)' /\ \A k \in Stored(e)' : k.mk # x.mk
    BY <1>9 DEF OpenedIsPassed, SentBy
  <2>1. x \in SentBy(Other(e)) /\ Passed(e, x) /\ \A k \in Stored(e) : k.mk # x.mk
    BY DEF OpenedIsPassed
  <2>2. x \in SentBy(Other(e))' /\ x \in net'
    BY <1>9, <2>1 DEF SentBy
  <2> QED
    BY <1>10, <1>19, <2>1, <2>2
<1> QED
  BY <1>12, <1>13, <1>14, <1>15, <1>16, <1>17, <1>18, <1>22, <1>23

LEMMA TickKeeps ==
  ASSUME RatchetInv, Tick
  PROVE  RatchetInv'
<1> USE DEF RatchetInv
<1>1. day' = day + 1 /\ day' \in 0 .. MaxDay /\ UNCHANGED <<st, draft, net, count, opened, overrun>>
  BY RatchetAssumption DEF Tick, Kinds
<1>2. day \in Nat /\ KeyExpiry \in Nat
  BY RatchetAssumption DEF Kinds
<1>3. ASSUME NEW m, Sealed(m) PROVE Sealed(m)'
  <2>1. m.at \in Nat
    BY <1>3 DEF Sealed, Envelope
  <2> QED
    BY <1>1, <1>2, <1>3, <2>1 DEF Sealed
<1>4. Kinds'
  <2>1. \A m \in net : Sealed(m)'
    BY <1>3 DEF Kinds
  <2> QED
    BY <1>1, <2>1 DEF Kinds
<1>5. Placed' /\ InStep' /\ Numbered' /\ Counted' /\ Behind'
  BY <1>1 DEF Placed, InStep, Numbered, SentBy, Counted, Behind, At
<1>6. Drafted'
  BY <1>1, <1>3 DEF Drafted, At
<1>7. KeysKept'
  <2>1. ASSUME NEW p \in End, NEW k \in Stored(p) PROVE KeyKept(p, k)'
    <3>1. KeyKept(p, k)
      BY DEF KeysKept
    <3>2. k.ts \in Nat
      BY EndIs, KeysOf
    <3> QED
      BY <1>1, <1>2, <3>1, <3>2 DEF KeyKept, At
  <2> QED
    BY <1>1, <2>1 DEF KeysKept, Stored
<1>8. NotOpened'
  <2>1. \A p \in End : \A m \in net : Passed(p, m)' <=> Passed(p, m)
    BY <1>1 DEF Passed, At
  <2>2. \A p \in End : SentBy(p)' = SentBy(p) /\ Stored(p)' = Stored(p) /\ SentBy(p) \subseteq net
    BY <1>1 DEF SentBy, Stored
  <2>3. ASSUME NEW p \in End, NEW m \in SentBy(Other(p)) \ opened[p], Passed(p, m)
        PROVE  \/ \E k \in Stored(p) : k.mk = m.mk /\ k.ts >= m.at
               \/ m.mk \in overrun
               \/ day' - m.at > KeyExpiry
    <3>1. \/ \E k \in Stored(p) : k.mk = m.mk /\ k.ts >= m.at
          \/ m.mk \in overrun
          \/ day - m.at > KeyExpiry
      BY <2>3 DEF NotOpened
    <3>2. m.at \in Nat
      BY MailIs DEF SentBy
    <3> QED
      BY <1>1, <1>2, <3>1, <3>2
  <2>4. \A p \in End : Other(p) \in End
    BY DEF Other, End
  <2> QED
    BY <1>1, <2>1, <2>2, <2>3, <2>4 DEF NotOpened
<1>9. OpenedIsPassed'
  BY <1>1 DEF OpenedIsPassed, SentBy, Stored, Passed, At
<1> QED
  BY <1>4, <1>5, <1>6, <1>7, <1>8, <1>9

LEMMA ReceiveKeeps ==
  ASSUME RatchetInv, NEW m \in net, Receive(m.to, m)
  PROVE  RatchetInv'
<1>1. /\ draft[m.to] = {} /\ UNCHANGED <<draft, net, day, count>>
      /\ UNCHANGED <<st, opened, overrun>> \/ \E t \in RatchetState : Taken(m, t)
  BY ReceiveIs DEF RatchetInv
<1>2. CASE UNCHANGED <<st, opened, overrun>>
  <2>1. UNCHANGED <<st, net, day, opened, overrun>> /\ UNCHANGED <<draft, count>>
    BY <1>1, <1>2
  <2>2. Kinds'
    BY <2>1, KindsHold DEF RatchetInv, Kinds
  <2>3. Drafted' /\ Behind'
    BY <2>1 DEF RatchetInv, Drafted, Sealed, Behind, At
  <2> QED
    BY <2>1, <2>2, <2>3, OthersHold DEF RatchetInv
<1>3. ASSUME NEW t \in RatchetState, Taken(m, t) PROVE RatchetInv'
  <2>1. Kinds' /\ Placed' /\ InStep' /\ Drafted'
    BY <1>1, <1>3, EndsAfterTaking
  <2>2. Numbered' /\ Counted' /\ Behind'
    BY <1>1, <1>3, CountsAfterTaking
  <2>3. KeysKept'
    BY <1>1, <1>3, KeysAfterTaking
  <2>4. NotOpened'
    BY <1>1, <1>3, NotOpenedAfterTaking
  <2>5. OpenedIsPassed'
    BY <1>1, <1>3, OpenedAfterTaking
  <2> QED
    BY <2>1, <2>2, <2>3, <2>4, <2>5 DEF RatchetInv
<1> QED
  BY <1>1, <1>2, <1>3

LEMMA RatchetStarts == RatchetInit => RatchetInv
<1> SUFFICES ASSUME RatchetInit PROVE RatchetInv
  OBVIOUS
<1>1. /\ st["initiator"] = InitRatchetInitiator /\ st["responder"] = InitRatchetResponder
      /\ draft = [p \in End |-> {}] /\ net = {} /\ day = 0 /\ count = [p \in End |-> 0]
      /\ opened = [p \in End |-> {}] /\ overrun = {} /\ End = {"initiator", "responder"}
      /\ DOMAIN st = End /\ st = [p \in End |-> st[p]]
  BY DEF RatchetInit, End
<1>2. /\ Chain(1) = KdfRk(<<>>, <<"initiator", 1>>, <<"responder", 0>>) /\ Chain(0) = <<>>
      /\ Chain(1) \in Roots /\ Chain(0) \in Roots
      /\ DhOf(0) = <<"responder", 0>> /\ DhOf(1) = <<"initiator", 1>>
  <2>1. /\ DhOf(0) = <<"responder", 0>> /\ DhOf(1) = <<"initiator", 1>>
        /\ Chain(0) = <<>> /\ Chain(1) \in Roots /\ Chain(0) \in Roots
    BY DhIs, ChainIs
  <2>2. KdfRk(Chain(0), DhOf(0 + 1), DhOf(0)) = Chain(0 + 1)
    BY ChainIs
  <2> QED
    BY <2>1, <2>2
<1>3. st["initiator"] = [dhs |-> DhOf(1), dhr |-> DhOf(0), rk |-> Chain(1), cks |-> Chain(1),
                         ckr |-> Chain(0), ns |-> 0, nr |-> 0, pn |-> 0, skipped |-> <<>>]
  BY <1>1, <1>2 DEF InitRatchetInitiator, NoChain
<1>4. st["responder"] = [dhs |-> DhOf(0), dhr |-> NoKey, rk |-> Chain(0), cks |-> Chain(0),
                         ckr |-> Chain(0), ns |-> 0, nr |-> 0, pn |-> 0, skipped |-> <<>>]
  BY <1>1, <1>2 DEF InitRatchetResponder, NoChain
<1>5. DhOf(0) \in End \X Nat /\ DhOf(1) \in End \X Nat
  BY DhIs
<1>6. At("initiator") = 1 /\ At("responder") = 0
  <2>1. Len(Chain(1)) = 1 /\ Len(Chain(0)) = 0
    BY ChainIs
  <2>2. st["initiator"].rk = Chain(1) /\ st["responder"].rk = Chain(0)
    BY <1>3, <1>4
  <2> QED
    BY <2>1, <2>2 DEF At
<1>7. st["initiator"] \in RatchetState /\ st["responder"] \in RatchetState
  <2>1. <<>> \in Seq([dh : End \X Nat, n : Nat, mk : Roots \X Nat, ts : Nat])
    OBVIOUS
  <2> HIDE DEF Chain, DhOf, Roots
  <2> QED
    BY <1>2, <1>3, <1>4, <1>5, <2>1 DEF RatchetState
<1>8. \A p \in End : Stored(p) = {} /\ Len(st[p].skipped) = 0
  BY <1>1, <1>3, <1>4 DEF Stored, Range
<1>9. Kinds
  <2>1. st \in [End -> RatchetState]
    BY <1>1, <1>7
  <2> QED
    BY <1>1, <2>1, RatchetAssumption DEF Kinds
<1>10. Placed
  <2>1. SenderOf(0) = "responder" /\ SenderOf(1) = "initiator"
    BY DEF SenderOf
  <2> QED
    BY <1>1, <1>2, <1>3, <1>4, <1>6, <1>7, <2>1 DEF Placed, NoChain
<1>11. InStep
  BY <1>6 DEF InStep
<1>12. Numbered /\ Counted /\ Drafted
  BY <1>1 DEF Numbered, SentBy, Counted, Drafted
<1>13. Behind
  BY <1>1, <1>3, <1>4, <1>6 DEF Behind, Other
<1>14. KeysKept /\ NotOpened /\ OpenedIsPassed
  BY <1>1, <1>8, RatchetAssumption DEF KeysKept, NotOpened, SentBy, OpenedIsPassed
<1> QED
  BY <1>9, <1>10, <1>11, <1>12, <1>13, <1>14 DEF RatchetInv

LEMMA RatchetKeeps == RatchetInv /\ [RatchetNext]_ratchetVars => RatchetInv'
<1> SUFFICES ASSUME RatchetInv, [RatchetNext]_ratchetVars PROVE RatchetInv'
  OBVIOUS
<1>1. ASSUME NEW p \in End, Compute(p) \/ Save(p) \/ Release(p) \/ Crash(p) PROVE RatchetInv'
  BY <1>1, ComputeKeeps, SaveKeeps, ReleaseKeeps, CrashKeeps
<1>2. ASSUME NEW m \in net, Receive(m.to, m) PROVE RatchetInv'
  BY <1>2, ReceiveKeeps
<1>3. CASE Tick
  BY <1>3, TickKeeps
<1>4. CASE UNCHANGED ratchetVars
  <2>1. UNCHANGED <<st, net, day, opened, overrun>> /\ UNCHANGED <<draft, count>>
    BY <1>4 DEF ratchetVars
  <2>2. Kinds'
    BY <2>1, KindsHold DEF RatchetInv, Kinds
  <2>3. Drafted' /\ Behind'
    BY <2>1 DEF RatchetInv, Drafted, Sealed, Behind, At
  <2> QED
    BY <2>1, <2>2, <2>3, OthersHold DEF RatchetInv
<1> QED
  BY <1>1, <1>2, <1>3, <1>4 DEF RatchetNext

LEMMA RatchetInvHolds == RatchetSpec => []RatchetInv
<1> QED
  BY RatchetStarts, RatchetKeeps, PTL DEF RatchetSpec

LEMMA TypesAre == RatchetInv => RatchetTypeOK
<1> SUFFICES ASSUME RatchetInv PROVE RatchetTypeOK
  OBVIOUS
<1>1. \A p \in End : Len(st[p].skipped) <= MaxSkip
  BY DEF RatchetInv, KeysKept
<1>2. net \subseteq Envelope
  BY DEF RatchetInv, Kinds, Sealed
<1> QED
  BY <1>1, <1>2 DEF RatchetInv, Kinds, RatchetTypeOK

\* Type correctness, and no skipped store grows past MAX_SKIP (skipMessageKeys).
THEOREM RatchetTypesHold == RatchetSpec => []RatchetTypeOK
<1> QED
  BY RatchetInvHolds, TypesAre, PTL

\* No message key seals two envelopes, an envelope passed over opens while its key is
\* due to be kept, and one that opened never opens again (ratchetDecrypt,
\* skipMessageKeys, dhRatchet, the encrypt of ratchetSession.ts).
THEOREM OpenedOnce == RatchetSpec => [](KeysUsedOnce /\ UnopenedOpens /\ OpenedIsForgotten)
<1> QED
  BY RatchetInvHolds, InvOpensOnce, PTL
=============================================================================
