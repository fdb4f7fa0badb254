---------------------------- MODULE TrustProofs ----------------------------
(***************************************************************************)
(* What one device keeps true of the people it knows, for any number of    *)
(* them and any times to live: the ledgers keep their types and bounds, a  *)
(* level of trust is earned, and a person the user deleted is not brought  *)
(* back by the relay.                                                      *)
(***************************************************************************)
EXTENDS Trust, FiniteSetTheorems, SequenceTheorems, TLAPS

-----------------------------------------------------------------------------
(* What the helpers keep.                                                  *)

\* A set of moments has an earliest.
LEMMA Earliest ==
  ASSUME NEW S \in SUBSET Nat, S # {}
  PROVE  \E m \in S : \A n \in S : m <= n
<1> DEFINE R == OpToRel(<, Nat)
<1>1. IsWellFoundedOn(R, Nat)
  BY NatLessThanWellFounded
<1>2. \A x \in Nat, y \in Nat : y < x => <<y, x>> \in R
  BY DEF OpToRel
<1> HIDE DEF R
<1>3. PICK x \in S : \A y \in S : ~(<<y, x>> \in R)
  BY <1>1, WFMin
<1>4. \A y \in S : ~(y < x)
  BY <1>2, <1>3
<1> QED
  BY <1>4

Marks == [Person -> [at : Nat, auto : BOOLEAN]]

\* No two marks are of the same moment.
Apart(marks) == \A p, q \in Person : p # q /\ marks[p].at = marks[q].at => marks[p].at = 0

\* Every mark is one of the newest.
AllNew(marks) == \A p \in Person : marks[p].at # 0 => Cardinality(Newer(marks, p)) < MaxDismissals

LEMMA NewerFinite ==
  ASSUME NEW marks, NEW p
  PROVE  IsFiniteSet(Newer(marks, p)) /\ Cardinality(Newer(marks, p)) \in Nat
BY TrustAssumption, FS_Subset, FS_CardinalityType DEF Newer

\* As few marks as can all be among the newest (contactStore.ts mutateWithDismissals).
LEMMA FewMarks ==
  ASSUME NEW marks \in Marks, Apart(marks), AllNew(marks)
  PROVE  Cardinality({p \in Person : marks[p].at # 0}) <= MaxDismissals
<1> DEFINE S == {p \in Person : marks[p].at # 0}
<1> USE TrustAssumption
<1>1. CASE S = {}
  <2>1. Cardinality(S) = 0
    BY <1>1, FS_EmptySet
  <2>2. MaxDismissals \in Nat
    OBVIOUS
  <2> QED
    BY <2>1, <2>2
<1>2. CASE S # {}
  <2> DEFINE Ats == {marks[p].at : p \in S}
  <2>1. Ats \in SUBSET Nat /\ Ats # {}
    <3>1. \A p \in Person : marks[p].at \in Nat
      BY DEF Marks
    <3> QED
      BY <1>2, <3>1
  <2>2. PICK m \in Ats : \A n \in Ats : m <= n
    BY <2>1, Earliest
  <2>3. PICK o \in S : \A p \in S : marks[o].at <= marks[p].at
    BY <2>2
  <2>4. S \ {o} \subseteq Newer(marks, o)
    BY <2>3 DEF Newer, Apart, Marks
  <2>5. Cardinality(S \ {o}) <= Cardinality(Newer(marks, o))
    BY <2>4, NewerFinite, FS_Subset
  <2>6. IsFiniteSet(S)
    BY FS_Subset
  <2>7. Cardinality(S) \in Nat /\ Cardinality(S \ {o}) = Cardinality(S) - 1
    BY <2>6, FS_RemoveElement, FS_CardinalityType
  <2> QED
    BY <2>5, <2>7, NewerFinite DEF AllNew
<1> QED
  BY <1>1, <1>2

\* What mutateWithDismissals keeps is a part of the marks, all of them new.
LEMMA TrimmedKeeps ==
  ASSUME NEW marks \in Marks, Apart(marks), clock \in Nat
  PROVE  /\ Trimmed(marks) \in Marks
         /\ Apart(Trimmed(marks)) /\ AllNew(Trimmed(marks))
         /\ \A p \in Person : Trimmed(marks)[p].at \in {0, marks[p].at}
<1> USE TrustAssumption
<1>1. \A p \in Person : Trimmed(marks)[p] \in {[at |-> 0, auto |-> FALSE], marks[p]}
  BY DEF Trimmed
<1>2. Trimmed(marks) \in Marks
  BY <1>1 DEF Trimmed, Marks
<1>3. \A p \in Person : Trimmed(marks)[p].at \in {0, marks[p].at}
  BY <1>1
<1>4. Apart(Trimmed(marks))
  BY <1>3 DEF Apart
<1>5. ASSUME NEW p \in Person, Trimmed(marks)[p].at # 0
      PROVE  Cardinality(Newer(Trimmed(marks), p)) < MaxDismissals
  <2>1. Trimmed(marks)[p].at = marks[p].at /\ ~(Cardinality(Newer(marks, p)) >= MaxDismissals)
    BY <1>5 DEF Trimmed
  <2>2. Newer(Trimmed(marks), p) \subseteq Newer(marks, p)
    BY <1>3, <2>1 DEF Newer, Marks
  <2>3. Cardinality(Newer(Trimmed(marks), p)) <= Cardinality(Newer(marks, p))
    BY <2>2, NewerFinite, FS_Subset
  <2> QED
    BY <2>1, <2>3, NewerFinite
<1> QED
  BY <1>2, <1>3, <1>4, <1>5 DEF AllNew

MoveMark(marks, p, q) == [marks EXCEPT ![q] = IF @.at = 0 THEN marks[p] ELSE @,
                                       ![p] = [at |-> 0, auto |-> FALSE]]

\* A rotation moves a mark, and moves nobody else's out (contactStore.ts moveKeyed).
LEMMA MovedMark ==
  ASSUME NEW marks \in Marks, Apart(marks), AllNew(marks),
         NEW p \in Person, NEW q \in Person, p # q
  PROVE  /\ MoveMark(marks, p, q) \in Marks
         /\ Apart(MoveMark(marks, p, q)) /\ AllNew(MoveMark(marks, p, q))
         /\ \A x \in Person : MoveMark(marks, p, q)[x].at # 0 =>
               \E y \in Person : MoveMark(marks, p, q)[x].at = marks[y].at
<1> DEFINE moved == MoveMark(marks, p, q)
<1> USE DEF MoveMark
<1>1. moved \in Marks
  BY DEF Marks
<1>2. /\ moved[p].at = 0
      /\ moved[q] = IF marks[q].at = 0 THEN marks[p] ELSE marks[q]
      /\ \A x \in Person \ {p, q} : moved[x] = marks[x]
  BY DEF Marks
<1>3. Apart(moved)
  BY <1>2 DEF Apart, Marks
<1>4. ASSUME NEW x \in Person, moved[x].at # 0
      PROVE  Cardinality(Newer(moved, x)) < MaxDismissals
  <2>1. CASE marks[q].at # 0
    <3>1. marks[x] = moved[x]
      BY <1>2, <1>4, <2>1
    <3>2. Newer(moved, x) \subseteq Newer(marks, x)
      BY <1>2, <2>1, <3>1 DEF Newer, Marks
    <3>3. Cardinality(Newer(moved, x)) <= Cardinality(Newer(marks, x))
      BY <3>2, NewerFinite, FS_Subset
    <3> QED
      BY <1>4, <3>1, <3>3, NewerFinite, TrustAssumption DEF AllNew
  <2>2. CASE marks[q].at = 0 /\ x = q
    <3>1. Newer(moved, x) \subseteq Newer(marks, p)
      BY <1>2, <2>2 DEF Newer, Marks
    <3>2. Cardinality(Newer(moved, x)) <= Cardinality(Newer(marks, p))
      BY <3>1, NewerFinite, FS_Subset
    <3>3. marks[p].at # 0
      BY <1>2, <1>4, <2>2
    <3> QED
      BY <3>2, <3>3, NewerFinite, TrustAssumption DEF AllNew
  <2>3. CASE marks[q].at = 0 /\ x # q
    <3>1. x # p /\ marks[x] = moved[x]
      BY <1>2, <1>4, <2>3
    <3>2. q \notin Newer(marks, x)
      BY <1>4, <2>3, <3>1 DEF Newer, Marks
    <3>3. Newer(moved, x) \subseteq IF p \in Newer(marks, x) THEN (Newer(marks, x) \ {p}) \cup {q}
                                                           ELSE Newer(marks, x)
      BY <1>2, <2>3, <3>1 DEF Newer, Marks
    <3>4. /\ IsFiniteSet((Newer(marks, x) \ {p}) \cup {q})
          /\ p \in Newer(marks, x) =>
               Cardinality((Newer(marks, x) \ {p}) \cup {q}) = Cardinality(Newer(marks, x))
      <4>1. /\ IsFiniteSet(Newer(marks, x) \ {p})
            /\ p \in Newer(marks, x) =>
                 Cardinality(Newer(marks, x) \ {p}) = Cardinality(Newer(marks, x)) - 1
        BY NewerFinite, FS_RemoveElement
      <4>2. q \notin Newer(marks, x) \ {p}
        BY <3>2
      <4>3. /\ IsFiniteSet((Newer(marks, x) \ {p}) \cup {q})
            /\ Cardinality((Newer(marks, x) \ {p}) \cup {q}) = Cardinality(Newer(marks, x) \ {p}) + 1
        BY <4>1, <4>2, FS_AddElement
      <4> QED
        BY <4>1, <4>3, NewerFinite
    <3>5. Cardinality(Newer(moved, x)) <= Cardinality(Newer(marks, x))
      BY <3>3, <3>4, NewerFinite, FS_Subset
    <3> QED
      BY <1>4, <3>1, <3>5, NewerFinite, TrustAssumption DEF AllNew
  <2> QED
    BY <2>1, <2>2, <2>3
<1>5. \A x \in Person : moved[x].at # 0 => \E y \in Person : moved[x].at = marks[y].at
  BY <1>2
<1> QED
  BY <1>1, <1>3, <1>4, <1>5 DEF AllNew

Listing == {q \in Seq(Person) : IsInjective(q)}
In(q) == {q[i] : i \in 1 .. Len(q)}

\* What is parked: nobody twice, the newest as far as the bound (mutatePendingTrust).
LEMMA ParkedOnce ==
  ASSUME NEW q \in Listing, NEW p \in Person, ~Contains(q, p)
  PROVE  /\ Newest(Append(q, p)) \in Listing
         /\ Len(Newest(Append(q, p))) <= MaxParked
         /\ In(Newest(Append(q, p))) \subseteq In(q) \cup {p}
<1> DEFINE a == Append(q, p)
<1>1. a \in Seq(Person) /\ Len(a) = Len(q) + 1 /\ Len(q) \in Nat
  BY DEF Listing
<1>2. \A i \in 1 .. Len(a) : a[i] = IF i <= Len(q) THEN q[i] ELSE p
  BY <1>1 DEF Listing
<1>3. \A i, j \in 1 .. Len(q) : q[i] = q[j] => i = j
  BY DEF Listing, IsInjective
<1>4. \A i, j \in 1 .. Len(a) : a[i] = a[j] => i = j
  BY <1>1, <1>2, <1>3 DEF Contains
<1> HIDE DEF a
<1> DEFINE first == IF Len(a) > MaxParked THEN Len(a) - MaxParked + 1 ELSE 1
           n == SubSeq(a, first, Len(a))
<1>5. MaxParked \in Nat /\ first \in 1 .. Len(a) + 1
  BY <1>1, TrustAssumption
<1> HIDE DEF first
<1>6. /\ n \in Seq(Person)
      /\ Len(n) = Len(a) - first + 1
      /\ \A i \in 1 .. Len(n) : n[i] = a[first + i - 1]
  BY <1>1, <1>5, SubSeqProperties
<1> HIDE DEF n
<1>7. Len(n) <= MaxParked
  BY <1>1, <1>5, <1>6 DEF first
<1>8. \A i \in 1 .. Len(n) : first + i - 1 \in 1 .. Len(a)
  BY <1>1, <1>5, <1>6
<1>9. \A i, j \in 1 .. Len(n) : n[i] = n[j] => i = j
  <2> SUFFICES ASSUME NEW i \in 1 .. Len(n), NEW j \in 1 .. Len(n), n[i] = n[j]
               PROVE  i = j
    OBVIOUS
  <2>1. a[first + i - 1] = a[first + j - 1]
    BY <1>6
  <2>2. first + i - 1 = first + j - 1
    BY <1>4, <1>8, <2>1
  <2> QED
    BY <1>1, <1>5, <2>2
<1>10. In(n) \subseteq In(q) \cup {p}
  <2> SUFFICES ASSUME NEW i \in 1 .. Len(n)
               PROVE  n[i] \in In(q) \cup {p}
    BY DEF In
  <2>1. n[i] = a[first + i - 1] /\ first + i - 1 \in 1 .. Len(a)
    BY <1>6, <1>8
  <2> QED
    BY <1>1, <1>2, <2>1 DEF In
<1>11. n = Newest(Append(q, p))
  BY DEF n, first, a, Newest
<1> QED
  BY <1>6, <1>7, <1>9, <1>10, <1>11 DEF Listing, IsInjective

\* Without drops the one person it is asked to.
LEMMA WithoutOne ==
  ASSUME NEW q \in Listing, NEW p
  PROVE  /\ Without(q, p) \in Listing
         /\ Len(Without(q, p)) <= Len(q)
         /\ In(Without(q, p)) \subseteq In(q) \ {p}
<1>1. q \in Seq(Person) /\ Len(q) \in Nat /\ \A i, j \in 1 .. Len(q) : q[i] = q[j] => i = j
  BY DEF Listing, IsInjective
<1>2. CASE ~Contains(q, p)
  BY <1>1, <1>2 DEF Without, Contains, In
<1>3. CASE Contains(q, p)
  <2> DEFINE k == CHOOSE i \in DOMAIN q : q[i] = p
             l == SubSeq(q, 1, k - 1)
             r == SubSeq(q, k + 1, Len(q))
             w == l \o r
  <2>1. k \in 1 .. Len(q) /\ q[k] = p
    BY <1>1, <1>3 DEF Contains
  <2> HIDE DEF k
  <2>2. l \in Seq(Person) /\ Len(l) = k - 1 /\ \A i \in 1 .. k - 1 : l[i] = q[i]
    BY <1>1, <2>1, SubSeqProperties
  <2>3. r \in Seq(Person) /\ Len(r) = Len(q) - k /\ \A i \in 1 .. Len(q) - k : r[i] = q[k + i]
    BY <1>1, <2>1, SubSeqProperties
  <2> HIDE DEF l, r
  <2>4. /\ w \in Seq(Person) /\ Len(w) = Len(l) + Len(r)
        /\ \A i \in 1 .. Len(l) + Len(r) : w[i] = IF i <= Len(l) THEN l[i] ELSE r[i - Len(l)]
    BY <2>2, <2>3, ConcatProperties
  <2> HIDE DEF w
  <2>5. Len(w) = Len(q) - 1
    BY <1>1, <2>1, <2>2, <2>3, <2>4
  <2>6. \A i \in 1 .. Len(w) : w[i] = IF i < k THEN q[i] ELSE q[i + 1]
    <3> SUFFICES ASSUME NEW i \in 1 .. Len(w)
                 PROVE  w[i] = IF i < k THEN q[i] ELSE q[i + 1]
      OBVIOUS
    <3>1. CASE i < k
      BY <1>1, <2>1, <2>2, <2>3, <2>4, <2>5, <3>1
    <3>2. CASE ~(i < k)
      <4>1. i - Len(l) \in 1 .. Len(q) - k /\ k + (i - Len(l)) = i + 1
        BY <1>1, <2>1, <2>2, <2>5, <3>2
      <4>2. w[i] = r[i - Len(l)]
        BY <1>1, <2>1, <2>2, <2>3, <2>4, <2>5, <3>2
      <4> QED
        BY <2>3, <3>2, <4>1, <4>2
    <3> QED
      BY <3>1, <3>2
  <2> DEFINE at(i) == IF i < k THEN i ELSE i + 1
  <2>7. \A i \in 1 .. Len(w) : w[i] = q[at(i)] /\ at(i) \in 1 .. Len(q) /\ at(i) # k
    BY <1>1, <2>1, <2>5, <2>6
  <2>8. \A i, j \in 1 .. Len(w) : w[i] = w[j] => i = j
    <3> SUFFICES ASSUME NEW i \in 1 .. Len(w), NEW j \in 1 .. Len(w), w[i] = w[j]
                 PROVE  i = j
      OBVIOUS
    <3>1. at(i) = at(j)
      <4> HIDE DEF at
      <4> QED
        BY <1>1, <2>7
    <3> QED
      BY <1>1, <2>1, <2>5, <3>1
  <2>9. In(w) \subseteq In(q) \ {p}
    <3> SUFFICES ASSUME NEW i \in 1 .. Len(w)
                 PROVE  w[i] \in In(q) \ {p}
      BY DEF In
    <3> HIDE DEF at
    <3> QED
      BY <1>1, <2>1, <2>7 DEF In
  <2>10. Without(q, p) = w
    BY <1>3 DEF Without, RemoveAt, k, l, r, w
  <2> QED
    BY <1>1, <2>4, <2>5, <2>8, <2>9, <2>10 DEF Listing, IsInjective
<1> QED
  BY <1>2, <1>3

-----------------------------------------------------------------------------
(* Types and bounds.                                                       *)

\* The types, and why the marks keep their bound: they are of different moments, and
\* each is one of the newest.
Typed ==
  /\ TrustTypeOK
  /\ clock >= 1 /\ (clock <= MaxClock \/ clock = 1)
  /\ Apart(mark) /\ AllNew(mark)

LEMMA TypedFacts ==
  ASSUME Typed
  PROVE  /\ mark \in Marks /\ clock \in Nat /\ parked \in Listing
         /\ \A p \in Person : mark[p].at \in 0 .. MaxClock
BY DEF Typed, TrustTypeOK, Marks, Listing

\* What is known of the marks is known again when they were trimmed or not touched.
MarksTyped == /\ mark \in [Person -> [at : 0 .. MaxClock, auto : BOOLEAN]]
              /\ Cardinality({p \in Person : mark[p].at # 0}) <= MaxDismissals
              /\ Apart(mark) /\ AllNew(mark)

LEMMA MarksType ==
  ASSUME NEW marks \in Marks, Apart(marks), AllNew(marks),
         \A p \in Person : marks[p].at \in 0 .. MaxClock, mark' = marks
  PROVE  MarksTyped'
<1>1. mark' \in [Person -> [at : 0 .. MaxClock, auto : BOOLEAN]]
  BY DEF Marks
<1>2. Cardinality({p \in Person : marks[p].at # 0}) <= MaxDismissals
  BY FewMarks
<1>3. Apart(mark)' /\ AllNew(mark)'
  BY DEF Apart, AllNew, Newer
<1> QED
  BY <1>1, <1>2, <1>3 DEF MarksTyped

\* A record that is made keeps the marks' bound (recordFirstContact).
LEMMA RecordedTypes ==
  ASSUME Typed, NEW p, NEW trust \in {"unverified", "invite"}, NEW byRelay \in BOOLEAN,
         Recorded(p, trust, byRelay)
  PROVE  MarksTyped' /\ level' \in [Person -> Levels]
<1> DEFINE lifted == [mark EXCEPT ![p].auto = FALSE]
<1>1. lifted \in Marks /\ \A q \in Person : lifted[q].at = mark[q].at
  BY TypedFacts DEF Marks
<1>2. Apart(lifted)
  BY <1>1 DEF Typed, Apart
<1> HIDE DEF lifted
<1>3. \/ mark' = mark
      \/ mark' = Trimmed(lifted)
  BY DEF Recorded, records, lifted
<1>4. ASSUME mark' = mark
      PROVE  MarksTyped'
  BY <1>4, TypedFacts, MarksType DEF Typed
<1>5. ASSUME mark' = Trimmed(lifted)
      PROVE  MarksTyped'
  <2>1. \A q \in Person : Trimmed(lifted)[q].at \in 0 .. MaxClock
    BY <1>1, <1>2, TypedFacts, TrimmedKeeps, TrustAssumption
  <2> QED
    BY <1>1, <1>2, <1>5, <2>1, TypedFacts, TrimmedKeeps, MarksType
<1>6. level' \in [Person -> Levels]
  BY ZenonT(60) DEF Recorded, records, Raised, Levels, Typed, TrustTypeOK
<1> QED
  BY <1>3, <1>4, <1>5, <1>6

\* What a removal writes at once (removeContact).
LEMMA DismissTypes ==
  ASSUME Typed, NEW p \in Person, Distinct, Dismiss(p)
  PROVE  MarksTyped' /\ level' \in [Person -> Levels]
<1>1. Marked(p) \in Marks /\ \A q \in Person : Marked(p)[q].at = IF q = p THEN clock ELSE mark[q].at
  BY TypedFacts DEF Marks, Marked
<1>2. Apart(Marked(p))
  BY <1>1 DEF Typed, Apart, Distinct
<1>3. \A q \in Person : Trimmed(Marked(p))[q].at \in 0 .. MaxClock
  <2>1. clock \in 0 .. MaxClock
    BY DEF Distinct, Typed, TrustTypeOK
  <2> QED
    BY <1>1, <1>2, <2>1, TypedFacts, TrimmedKeeps, TrustAssumption
<1>4. MarksTyped'
  BY <1>1, <1>2, <1>3, TypedFacts, TrimmedKeeps, MarksType DEF Dismiss
<1>5. level' \in [Person -> Levels]
  BY DEF Dismiss, Levels, Typed, TrustTypeOK
<1> QED
  BY <1>4, <1>5

\* The rest of the types.
OthersTyped ==
  /\ parked \in Listing /\ Len(parked) <= MaxParked
  /\ pin \in {Inviter, Noone} /\ leaving \in Person \cup {Noone}
  /\ landing \in [busy : BOOLEAN, left : Seq(Person), landed : Person \cup {Noone},
                  pin : {Inviter, Noone}]
  /\ syncing \in [busy : BOOLEAN, left : SUBSET Joiner, fetching : Joiner \cup {Noone}]
  /\ panel \in [on : Person \cup {Noone}, verdict : Verdicts, asking : BOOLEAN]
  /\ listed \subseteq Joiner /\ theirs \subseteq Person
  /\ clock \in Nat /\ clock >= 1 /\ (clock <= MaxClock \/ clock = 1)

LEMMA TypedParts ==
  Typed <=> level \in [Person -> Levels] /\ MarksTyped /\ OthersTyped
BY DEF Typed, TrustTypeOK, MarksTyped, OthersTyped, Listing

LEMMA TypedPrime ==
  ASSUME level' \in [Person -> Levels], MarksTyped', OthersTyped'
  PROVE  Typed'
BY DEF Typed, TrustTypeOK, MarksTyped, OthersTyped, Listing

LEMMA OthersAreKept ==
  ASSUME OthersTyped, [TrustNext]_trustVars
  PROVE  OthersTyped'
<1> USE TrustAssumption DEF OthersTyped, ledger, inFlight, world, pasts, records
<1>1. CASE RemoveFromLedger
  BY <1>1, WithoutOne DEF RemoveFromLedger
<1>2. CASE Join \/ OpenFromCode
  BY <1>2 DEF Join, OpenFromCode, AddInviteContact, Invited
<1>3. CASE BeginFlush
  BY <1>3 DEF BeginFlush, Listing
<1>4. CASE LandRecord
  <2>1. Head(landing.left) \in Person /\ Tail(landing.left) \in Seq(Person)
    BY <1>4, HeadTailProperties DEF LandRecord
  <2> QED
    BY <1>4, <2>1 DEF LandRecord
<1>5. CASE Unpark
  <2>1. Tail(landing.left) \in Seq(Person)
    BY <1>5, HeadTailProperties DEF Unpark
  <2>2. parked' \in Listing /\ Len(parked') <= Len(parked)
    BY <1>5, WithoutOne DEF Unpark
  <2>3. Len(parked) \in Nat /\ Len(parked') \in Nat /\ MaxParked \in Nat
    BY <2>2 DEF Listing
  <2>4. /\ landing' = [landing EXCEPT !.left = Tail(@), !.landed = Noone]
        /\ UNCHANGED <<pin, syncing, leaving, panel, theirs, listed, clock>>
    BY <1>5 DEF Unpark
  <2>5. Len(parked') <= MaxParked
    BY <2>2, <2>3
  <2> QED
    BY <2>1, <2>2, <2>4, <2>5
<1>6. CASE LandPin \/ EndFlush
  <2>1. /\ pin' \in {pin, Noone} /\ UNCHANGED <<parked, syncing, leaving, panel, theirs, listed, clock>>
        /\ \/ landing' = NotLanding
           \/ landing.pin # Noone /\ landing' = [landing EXCEPT !.landed = landing.pin]
    BY <1>6 DEF LandPin, EndFlush
  <2>2. NotLanding \in [busy : BOOLEAN, left : Seq(Person), landed : Person \cup {Noone},
                       pin : {Inviter, Noone}]
    BY EmptySeq DEF NotLanding
  <2> QED
    BY <2>1, <2>2
<1>7. CASE BeginSync \/ EndSync \/ LandJoiner \/ \E p \in Person : PickJoiner(p)
  <2>1. UNCHANGED <<parked, pin, landing, leaving, panel, theirs, listed, clock>>
    BY <1>7 DEF BeginSync, EndSync, LandJoiner, PickJoiner
  <2>2. syncing' \in [busy : BOOLEAN, left : SUBSET Joiner, fetching : Joiner \cup {Noone}]
    <3>1. CASE BeginSync
      BY <3>1 DEF BeginSync
    <3>2. CASE EndSync
      BY <3>2 DEF EndSync, NotSyncing
    <3>3. CASE LandJoiner
      BY <3>3 DEF LandJoiner
    <3>4. ASSUME NEW p \in Person, PickJoiner(p)
          PROVE  syncing' \in [busy : BOOLEAN, left : SUBSET Joiner, fetching : Joiner \cup {Noone}]
      BY <3>4 DEF PickJoiner
    <3> QED
      BY <1>7, <3>1, <3>2, <3>3, <3>4
  <2> QED
    BY <2>1, <2>2
<1>8. CASE AskOrLeave \/ \E shown \in {"mine", "theirs"} : Scan(shown)
  <2>1. UNCHANGED <<parked, pin, landing, syncing, leaving, theirs, listed, clock>>
    BY <1>8 DEF AskOrLeave, Scan
  <2>2. panel' \in [on : Person \cup {Noone}, verdict : Verdicts, asking : BOOLEAN]
    <3>1. \A shown, p : Verdict(shown, p) \in Verdicts
      BY DEF Verdict, Verdicts
    <3>2. CASE AskOrLeave
      <4>1. \/ panel' = Shut
            \/ \E ask \in BOOLEAN : panel' = [panel EXCEPT !.asking = ask]
        BY <3>2 DEF AskOrLeave
      <4>2. CASE panel' = Shut
        BY <4>2 DEF Shut, Verdicts
      <4>3. ASSUME NEW ask \in BOOLEAN, panel' = [panel EXCEPT !.asking = ask]
            PROVE  panel' \in [on : Person \cup {Noone}, verdict : Verdicts, asking : BOOLEAN]
        BY <4>3
      <4> QED
        BY <4>1, <4>2, <4>3
    <3>3. ASSUME NEW shown \in {"mine", "theirs"}, Scan(shown)
          PROVE  panel' \in [on : Person \cup {Noone}, verdict : Verdicts, asking : BOOLEAN]
      <4>1. panel' = [panel EXCEPT !.verdict = Verdict(shown, panel.on), !.asking = FALSE]
        BY <3>3 DEF Scan
      <4>2. Verdict(shown, panel.on) \in Verdicts
        BY <3>1
      <4> QED
        BY <4>1, <4>2
    <3> QED
      BY <1>8, <3>2, <3>3
  <2> QED
    BY <2>1, <2>2
<1>9. CASE MarkVerified \/ Unverify \/ \E p \in Person : CatchUp(p)
  BY <1>9 DEF MarkVerified, Unverify, CatchUp, Verdicts
<1>10. CASE Cut
  BY <1>10, EmptySeq DEF Cut, NotLanding, NotSyncing, Shut, Verdicts
<1>11. CASE Tick
  BY <1>11 DEF Tick, Purged
<1>12. ASSUME NEW p \in Person, RemoveContact(p)
       PROVE  OthersTyped'
  BY <1>12 DEF RemoveContact, Shut, Verdicts
<1>13. ASSUME NEW p \in Person, HearInitial(p)
       PROVE  OthersTyped'
  <2>1. /\ parked' \in {parked, Newest(Append(parked, p))}
        /\ parked' # parked => ~Contains(parked, p)
        /\ UNCHANGED <<pin, landing, syncing, leaving, panel, theirs, listed, clock>>
    BY <1>13 DEF HearInitial
  <2>2. parked' \in Listing /\ Len(parked') <= MaxParked
    BY <2>1, ParkedOnce
  <2> QED
    BY <2>1, <2>2
<1>14. ASSUME NEW p \in Person, AddContact(p) \/ OpenPanel(p)
       PROVE  OthersTyped'
  BY ZenonT(60), <1>14 DEF AddContact, OpenPanel, Shut, Verdicts
<1>15. ASSUME NEW p \in Person, NEW q \in Person, RenameAccount(p, q)
       PROVE  OthersTyped'
  BY <1>15 DEF RenameAccount, Shut, Verdicts
<1>16. CASE UNCHANGED trustVars
  BY <1>16 DEF trustVars
<1> QED
  BY <1>1, <1>2, <1>3, <1>4, <1>5, <1>6, <1>7, <1>8, <1>9, <1>10, <1>11, <1>12, <1>13, <1>14,
     <1>15, <1>16 DEF TrustNext

LEMMA RecordsAreKept ==
  ASSUME Typed, [TrustNext]_trustVars
  PROVE  MarksTyped' /\ level' \in [Person -> Levels]
<1>0. level \in [Person -> Levels] /\ MarksTyped
  BY TypedParts
<1>1. ASSUME UNCHANGED records
      PROVE  MarksTyped' /\ level' \in [Person -> Levels]
  BY <1>0, <1>1 DEF records, MarksTyped, Apart, AllNew, Newer
<1>2. CASE \/ RemoveFromLedger \/ BeginFlush \/ Unpark \/ EndFlush \/ BeginSync \/ EndSync
           \/ AskOrLeave \/ Cut \/ Tick \/ UNCHANGED trustVars
           \/ \E shown \in {"mine", "theirs"} : Scan(shown)
           \/ \E p \in Person : PickJoiner(p) \/ CatchUp(p)
  <2>1. UNCHANGED records
    BY <1>2 DEF RemoveFromLedger, BeginFlush, Unpark, EndFlush, BeginSync, EndSync, AskOrLeave,
                Cut, Tick, trustVars, Scan, PickJoiner, CatchUp, records
  <2> QED
    BY <1>1, <2>1
<1>3. CASE Join \/ OpenFromCode
  <2>1. Recorded(Inviter, "invite", FALSE) \/ UNCHANGED records
    BY <1>3 DEF Join, OpenFromCode, AddInviteContact
  <2> QED
    BY <1>1, <2>1, RecordedTypes
<1>4. CASE LandRecord \/ LandPin
  <2>1. \/ \E trust \in {"unverified", "invite"}, p \in {Head(landing.left), landing.pin} :
             Recorded(p, trust, TRUE)
        \/ UNCHANGED records
    BY <1>4 DEF LandRecord, LandPin
  <2> QED
    BY <1>1, <2>1, RecordedTypes
<1>5. CASE LandJoiner
  <2>1. Recorded(syncing.fetching, "unverified", TRUE) \/ UNCHANGED records
    BY <1>5 DEF LandJoiner, ByRelay
  <2> QED
    BY <1>1, <2>1, RecordedTypes
<1>6. CASE MarkVerified \/ Unverify
  <2>1. MarksTyped'
    <3>1. UNCHANGED mark
      BY <1>6 DEF MarkVerified, Unverify
    <3> QED
      BY <1>0, <3>1 DEF MarksTyped, Apart, AllNew, Newer
  <2>2. level' \in [Person -> Levels]
    BY <1>0, <1>6 DEF MarkVerified, Unverify, Levels
  <2> QED
    BY <2>1, <2>2
<1>7. ASSUME NEW p \in Person, HearInitial(p) \/ AddContact(p) \/ OpenPanel(p)
      PROVE  MarksTyped' /\ level' \in [Person -> Levels]
  <2>1. Recorded(p, "unverified", FALSE) \/ UNCHANGED records
    BY <1>7 DEF HearInitial, AddContact, OpenPanel, EnsureContact
  <2> QED
    BY <1>1, <2>1, RecordedTypes
<1>8. ASSUME NEW p \in Person, RemoveContact(p)
      PROVE  MarksTyped' /\ level' \in [Person -> Levels]
  BY <1>8, DismissTypes DEF RemoveContact
<1>9. ASSUME NEW p \in Person, NEW q \in Person, RenameAccount(p, q)
      PROVE  MarksTyped' /\ level' \in [Person -> Levels]
  <2> DEFINE moved == MoveMark(mark, p, q)
  <2>1. p # q /\ mark' = moved
    BY <1>9 DEF RenameAccount, MoveMark
  <2>2. /\ moved \in Marks /\ Apart(moved) /\ AllNew(moved)
        /\ \A x \in Person : moved[x].at # 0 => \E y \in Person : moved[x].at = mark[y].at
    BY <2>1, TypedFacts, MovedMark DEF Typed
  <2> HIDE DEF moved
  <2>3. \A x \in Person : moved[x].at \in 0 .. MaxClock
    BY <2>2, TypedFacts, TrustAssumption DEF Marks
  <2>4. MarksTyped'
    BY <2>1, <2>2, <2>3, MarksType
  <2>5. level' \in [Person -> Levels]
    BY <1>0, <1>9 DEF RenameAccount, RenamedLevel, Levels
  <2> QED
    BY <2>4, <2>5
<1> QED
  BY <1>2, <1>3, <1>4, <1>5, <1>6, <1>7, <1>8, <1>9 DEF TrustNext

LEMMA TypedHolds == TrustSpec => []Typed
<1>1. TrustInit => Typed
  <2> SUFFICES ASSUME TrustInit
               PROVE  Typed
    OBVIOUS
  <2> USE TrustAssumption DEF TrustInit
  <2>1. MarksTyped
    <3>1. mark \in Marks /\ Apart(mark) /\ AllNew(mark) /\ \A p \in Person : mark[p].at = 0
      BY DEF Marks, Apart, AllNew
    <3>2. Cardinality({p \in Person : mark[p].at # 0}) <= MaxDismissals
      BY <3>1, FewMarks
    <3> QED
      BY <3>1, <3>2 DEF MarksTyped, Marks
  <2>2. <<>> \in Listing /\ Len(<<>>) = 0 /\ <<>> \in Seq(Person)
    BY EmptySeq DEF Listing, IsInjective
  <2>3. OthersTyped
    BY <2>2 DEF OthersTyped, NotLanding, NotSyncing, Shut, Verdicts
  <2>4. level \in [Person -> Levels]
    BY DEF Levels
  <2> QED
    BY <2>1, <2>3, <2>4, TypedParts
<1>2. Typed /\ [TrustNext]_trustVars => Typed'
  BY TypedParts, TypedPrime, RecordsAreKept, OthersAreKept
<1> QED
  BY <1>1, <1>2, PTL DEF TrustSpec

\* The contact list, the marks and the ledgers keep their types, and the marks and the
\* ledger their bounds: no more than MAX_DISMISSALS marks, whatever is deleted, rotates
\* or is recorded, and nobody is parked twice (contactStore.ts).
THEOREM TrustTypesHold == TrustSpec => []TrustTypeOK
<1>1. Typed => TrustTypeOK
  BY DEF Typed
<1> QED
  BY <1>1, TypedHolds, PTL

-----------------------------------------------------------------------------
(* A level of trust is earned.                                             *)

\* What the records, the ledger and the verify screen say of each other.  A scanned
\* match was of the number that person computes too, and a pin in the ledger, or read
\* from it by the flush, is of an invite the user used.
Earned ==
  /\ panel.on = Noone => ~panel.asking
  /\ panel.verdict = "match" => panel.on \notin theirs
  /\ pin # Noone => pin \in invited
  /\ landing.pin # Noone => landing.pin \in invited
  /\ TrustIsEarned

\* The one way a record is made or raised: to "unverified", or to "invite" of somebody
\* who was not verified (recordFirstContact).
LEMMA RecordedLevel ==
  ASSUME NEW p, NEW trust \in {"unverified", "invite"}, NEW byRelay \in BOOLEAN,
         level \in [Person -> Levels], Recorded(p, trust, byRelay)
  PROVE  /\ \A q \in Person : level'[q] = "verified" <=> level[q] = "verified"
         /\ \A q \in Person : level'[q] = "invite" =>
              level[q] = "invite" \/ (q = p /\ trust = "invite")
<1>1. CASE UNCHANGED records
  BY <1>1 DEF records
<1>2. CASE level' = [level EXCEPT ![p] = Raised(@, trust)]
  BY <1>2 DEF Raised, Levels
<1> QED
  BY <1>1, <1>2 DEF Recorded

\* A contact is shown as verified exactly when the user compared the number of that
\* very key, and as invited only if the user used an invite of theirs: through every
\* flush, rotation, deletion and cut.
THEOREM TrustIsEarnedHolds == TrustSpec => []TrustIsEarned
<1> USE TrustAssumption
<1>1. TrustInit => Earned
  BY DEF TrustInit, Earned, TrustIsEarned, Levels, Shut, NotLanding
<1>2. Typed /\ Earned /\ [TrustNext]_trustVars => Earned'
  <2> SUFFICES ASSUME Typed, Earned, [TrustNext]_trustVars
               PROVE  Earned'
    OBVIOUS
  <2>0. /\ level \in [Person -> Levels]
        /\ landing \in [busy : BOOLEAN, left : Seq(Person), landed : Person \cup {Noone},
                        pin : {Inviter, Noone}]
        /\ panel \in [on : Person \cup {Noone}, verdict : Verdicts, asking : BOOLEAN]
        /\ level' \in [Person -> Levels]
    BY RecordsAreKept DEF Typed, TrustTypeOK
  <2> USE <2>0 DEF Earned, TrustIsEarned, ledger, inFlight, world, pasts
  <2>1. CASE RemoveFromLedger
    BY <2>1 DEF RemoveFromLedger, records
  <2>2. CASE Join \/ OpenFromCode
    <3>1. \/ Recorded(Inviter, "invite", FALSE) /\ UNCHANGED pin
          \/ pin' = Inviter /\ UNCHANGED level
      BY <2>2 DEF Join, OpenFromCode, AddInviteContact, records
    <3>2. /\ invited' = invited \cup {Inviter}
          /\ UNCHANGED <<landing, panel, theirs, confirmed>>
      BY <2>2 DEF Join, OpenFromCode, Invited
    <3> QED
      BY ZenonT(60), <3>1, <3>2, RecordedLevel
  <2>3. CASE BeginFlush
    BY <2>3 DEF BeginFlush, records
  <2>4. CASE LandRecord
    <3>1. \/ Recorded(Head(landing.left), "unverified", TRUE)
          \/ UNCHANGED level
      BY <2>4 DEF LandRecord, records
    <3>2. landing'.pin = landing.pin /\ UNCHANGED <<pin, panel, theirs, confirmed, invited>>
      BY <2>4 DEF LandRecord
    <3> QED
      BY <3>1, <3>2, RecordedLevel
  <2>5. CASE Unpark \/ EndFlush
    <3>1. UNCHANGED <<level, panel, theirs, confirmed, invited>>
      BY <2>5 DEF Unpark, EndFlush, records
    <3>2. pin' \in {pin, Noone} /\ landing'.pin \in {landing.pin, Noone}
      <4>1. CASE Unpark
        BY <4>1 DEF Unpark
      <4>2. CASE EndFlush
        BY <4>2 DEF EndFlush, NotLanding
      <4> QED
        BY <2>5, <4>1, <4>2
    <3> QED
      BY <3>1, <3>2
  <2>6. CASE LandPin
    <3>1. \/ Recorded(landing.pin, "invite", TRUE)
          \/ UNCHANGED level
      BY <2>6 DEF LandPin, records
    <3>2. landing.pin # Noone /\ UNCHANGED <<pin, panel, theirs, confirmed, invited>>
      BY <2>6 DEF LandPin
    <3>3. landing'.pin \in {landing.pin, Noone}
      <4>1. landing' = NotLanding \/ landing' = [landing EXCEPT !.landed = landing.pin]
        BY <2>6 DEF LandPin
      <4> QED
        BY <4>1 DEF NotLanding
    <3>4. /\ \A q \in Person : level'[q] = "verified" <=> level[q] = "verified"
          /\ \A q \in Person : level'[q] = "invite" => level[q] = "invite" \/ q = landing.pin
      BY <3>1, RecordedLevel
    <3> QED
      BY <3>2, <3>3, <3>4
  <2>7. CASE BeginSync \/ EndSync \/ \E p \in Person : PickJoiner(p)
    BY <2>7 DEF BeginSync, EndSync, PickJoiner, records
  <2>8. CASE LandJoiner
    <3>1. \/ Recorded(syncing.fetching, "unverified", TRUE)
          \/ UNCHANGED level
      BY <2>8 DEF LandJoiner, ByRelay, records
    <3>2. UNCHANGED <<landing, pin, panel, theirs, confirmed, invited>>
      BY <2>8 DEF LandJoiner
    <3> QED
      BY <3>1, <3>2, RecordedLevel
  <2>9. CASE AskOrLeave
    BY <2>9 DEF AskOrLeave, Shut, records
  <2>10. ASSUME NEW shown \in {"mine", "theirs"}, Scan(shown)
         PROVE  Earned'
    BY <2>10 DEF Scan, Verdict, records
  <2>11. CASE MarkVerified \/ Unverify
    <3>1. panel.on \in Person
      BY <2>11 DEF MarkVerified, Unverify
    <3> QED
      BY <2>11, <3>1 DEF MarkVerified, Unverify, Levels
  <2>12. CASE Cut \/ Tick \/ \E p \in Person : CatchUp(p)
    BY <2>12 DEF Cut, Tick, CatchUp, NotLanding, Shut, records
  <2>13. ASSUME NEW p \in Person, RemoveContact(p)
         PROVE  Earned'
    BY <2>13 DEF RemoveContact, Dismiss, Levels, Shut
  <2>14. ASSUME NEW p \in Person, HearInitial(p) \/ AddContact(p)
         PROVE  Earned'
    <3>1. \/ Recorded(p, "unverified", FALSE)
          \/ UNCHANGED level
      BY <2>14 DEF HearInitial, AddContact, records
    <3>2. UNCHANGED <<landing, pin, panel, theirs, confirmed, invited>>
      BY <2>14 DEF HearInitial, AddContact
    <3> QED
      BY <3>1, <3>2, RecordedLevel
  <2>15. ASSUME NEW p \in Person, OpenPanel(p)
         PROVE  Earned'
    <3>1. \/ Recorded(p, "unverified", FALSE)
          \/ UNCHANGED level
      BY <2>15 DEF OpenPanel, EnsureContact, records
    <3>2. /\ panel' = [Shut EXCEPT !.on = p]
          /\ UNCHANGED <<landing, pin, theirs, confirmed, invited>>
      BY <2>15 DEF OpenPanel
    <3> QED
      BY <3>1, <3>2, RecordedLevel DEF Shut
  <2>16. ASSUME NEW p \in Person, NEW q \in Person, RenameAccount(p, q)
         PROVE  Earned'
    BY <2>16 DEF RenameAccount, RenamedLevel, Levels, Shut
  <2>17. CASE UNCHANGED trustVars
    BY <2>17 DEF trustVars
  <2> QED
    BY <2>1, <2>2, <2>3, <2>4, <2>5, <2>6, <2>7, <2>8, <2>9, <2>10, <2>11, <2>12, <2>13,
       <2>14, <2>15, <2>16, <2>17 DEF TrustNext
<1>3. Earned => TrustIsEarned
  BY DEF Earned
<1> QED
  BY <1>1, <1>2, <1>3, TypedHolds, PTL DEF TrustSpec

-----------------------------------------------------------------------------
(* A person the user deleted is not brought back.                          *)

Gone(p) == deletedAt[p] # 0 /\ ~PurgedLate(p)

\* The mark of somebody who is gone is there until it is too old, and by then nothing is
\* left that could bring them back.
KeptOut(p) ==
  /\ level[p] = "none"
  /\ mark[p] = [at |-> deletedAt[p], auto |-> TRUE] \/ clock >= deletedAt[p] + Ttl
  /\ leaving = p \/ (p \notin In(parked) /\ pin # p)
  /\ p \in In(landing.left) \/ landing.pin = p => clock < deletedAt[p] + Ttl
  /\ p \in syncing.left \/ syncing.fetching = p => clock < deletedAt[p] + Ttl

\* What is in flight holds the clock, and the relay's list is empty in time.
Timed ==
  /\ deletedAt \in [Person -> Nat] /\ \A p \in Person : deletedAt[p] <= clock
  /\ ~landing.busy => landing.left = <<>> /\ landing.pin = Noone
  /\ ~syncing.busy => syncing.left = {} /\ syncing.fetching = Noone
  /\ listed # {} => clock <= 1 + Ttl + PurgeDelay
  /\ leaving # Noone => deletedAt[leaving] \in {0, clock}

LEMMA TimedIsKept ==
  ASSUME Typed, Timed, [TrustNext]_trustVars
  PROVE  Timed'
<1>0. /\ landing \in [busy : BOOLEAN, left : Seq(Person), landed : Person \cup {Noone},
                      pin : {Inviter, Noone}]
      /\ syncing \in [busy : BOOLEAN, left : SUBSET Joiner, fetching : Joiner \cup {Noone}]
      /\ leaving \in Person \cup {Noone} /\ clock \in Nat
  BY DEF Typed, TrustTypeOK
<1> USE <1>0, TrustAssumption DEF Timed, ledger, inFlight, world, pasts
<1>1. CASE RemoveFromLedger
  BY <1>1 DEF RemoveFromLedger
<1>2. CASE Join \/ OpenFromCode
  <2>1. /\ deletedAt' = [deletedAt EXCEPT ![Inviter] = 0]
        /\ UNCHANGED <<inFlight, world>>
    BY <1>2 DEF Join, OpenFromCode, Invited, Welcome
  <2> QED
    BY <2>1
<1>3. CASE BeginFlush
  BY <1>3 DEF BeginFlush
<1>4. CASE LandRecord
  BY <1>4 DEF LandRecord
<1>5. CASE Unpark
  BY <1>5 DEF Unpark
<1>6. CASE LandPin \/ EndFlush
  <2>1. /\ UNCHANGED <<syncing, leaving, world, deletedAt>>
        /\ landing' = NotLanding \/ landing' = [landing EXCEPT !.landed = landing.pin]
    BY <1>6 DEF LandPin, EndFlush
  <2>2. CASE landing' = NotLanding
    BY <2>1, <2>2 DEF NotLanding
  <2>3. CASE landing' = [landing EXCEPT !.landed = landing.pin]
    BY <2>1, <2>3
  <2> QED
    BY <2>1, <2>2, <2>3
<1>7. CASE BeginSync \/ EndSync \/ LandJoiner
  <2>1. UNCHANGED <<landing, leaving, world, deletedAt>>
    BY <1>7 DEF BeginSync, EndSync, LandJoiner
  <2>2. ~syncing'.busy => syncing'.left = {} /\ syncing'.fetching = Noone
    BY SMTT(60), <1>7 DEF BeginSync, EndSync, LandJoiner, NotSyncing
  <2> QED
    BY <2>1, <2>2
<1>8. CASE AskOrLeave \/ MarkVerified \/ Unverify \/ \E shown \in {"mine", "theirs"} : Scan(shown)
  BY SMTT(60), <1>8 DEF AskOrLeave, MarkVerified, Unverify, Scan
<1>9. CASE Cut
  BY <1>9 DEF Cut, NotLanding, NotSyncing
<1>10. CASE Tick
  <2>1. /\ clock' = clock + 1 /\ listed' \in Purged(clock') /\ leaving = Noone
        /\ UNCHANGED <<deletedAt, landing, syncing, leaving>>
    BY <1>10 DEF Tick
  <2>2. listed' # {} => clock' <= 1 + Ttl + PurgeDelay
    BY <2>1 DEF Purged
  <2> QED
    BY <2>1, <2>2
<1>11. ASSUME NEW p \in Person, RemoveContact(p)
       PROVE  Timed'
  BY SMTT(60), <1>11 DEF RemoveContact, Dismiss
<1>12. ASSUME NEW p \in Person, HearInitial(p) \/ AddContact(p)
       PROVE  Timed'
  <2>1. /\ deletedAt' = [deletedAt EXCEPT ![p] = 0]
        /\ UNCHANGED <<inFlight, world>>
    BY <1>12 DEF HearInitial, AddContact, Welcome
  <2> QED
    BY SMTT(60), <2>1
<1>13. ASSUME NEW p \in Person, OpenPanel(p)
       PROVE  Timed'
  <2>1. UNCHANGED <<inFlight, world>>
    BY <1>13 DEF OpenPanel
  <2>2. CASE deletedAt' = deletedAt
    BY <2>1, <2>2
  <2>3. CASE deletedAt' = [deletedAt EXCEPT ![p] = 0]
    BY SMTT(60), <2>1, <2>3
  <2> QED
    BY <1>13, <2>2, <2>3 DEF OpenPanel, EnsureContact, Welcome
<1>14. ASSUME NEW p \in Person, PickJoiner(p) \/ CatchUp(p)
       PROVE  Timed'
  <2>1. CASE PickJoiner(p)
    <3>1. syncing'.busy = syncing.busy /\ syncing.busy
      BY <2>1 DEF PickJoiner
    <3>2. UNCHANGED <<landing, leaving, world, deletedAt>>
      BY <2>1 DEF PickJoiner
    <3> QED
      BY <3>1, <3>2
  <2>2. CASE CatchUp(p)
    <3>1. UNCHANGED <<inFlight, listed, clock, deletedAt>>
      BY <2>2 DEF CatchUp
    <3> QED
      BY <3>1
  <2> QED
    BY <1>14, <2>1, <2>2
<1>15. ASSUME NEW p \in Person, NEW q \in Person, RenameAccount(p, q)
       PROVE  Timed'
  BY SMTT(60), <1>15 DEF RenameAccount
<1>16. CASE UNCHANGED trustVars
  BY <1>16 DEF trustVars
<1> QED
  BY <1>1, <1>2, <1>3, <1>4, <1>5, <1>6, <1>7, <1>8, <1>9, <1>10, <1>11, <1>12, <1>13, <1>14,
     <1>15, <1>16 DEF TrustNext

\* A record made of somebody does not concern somebody else who is gone, and one that
\* the relay suggests does not concern those whose mark is there (recordFirstContact).
LEMMA RecordedKeepsOut ==
  ASSUME Typed, Timed, NEW p \in Person, Gone(p), KeptOut(p),
         NEW x, NEW trust \in {"unverified", "invite"}, NEW byRelay \in BOOLEAN,
         Recorded(x, trust, byRelay),
         x = p => byRelay /\ clock < deletedAt[p] + Ttl
  PROVE  /\ level'[p] = "none"
         /\ mark'[p] = [at |-> deletedAt[p], auto |-> TRUE] \/ clock >= deletedAt[p] + Ttl
<1> USE TrustAssumption
<1>0. /\ clock \in Nat /\ deletedAt[p] \in Nat \ {0} /\ mark \in Marks /\ level \in [Person -> Levels]
      /\ AllNew(mark)
  BY TypedFacts DEF Typed, TrustTypeOK, Timed, Gone
<1>1. CASE UNCHANGED records
  BY <1>1 DEF KeptOut, records
<1>2. CASE x = p
  <2>1. mark[p] = [at |-> deletedAt[p], auto |-> TRUE]
    BY <1>0, <1>2 DEF KeptOut
  <2>2. Dismissed(p) /\ mark[p].auto
    BY <1>0, <1>2, <2>1 DEF Dismissed
  <2>3. UNCHANGED records
    BY <1>2, <2>2 DEF Recorded
  <2> QED
    BY <1>1, <2>3
<1>3. CASE x # p /\ ~UNCHANGED records
  <2> DEFINE lifted == [mark EXCEPT ![x].auto = FALSE]
  <2>1. /\ level' = [level EXCEPT ![x] = Raised(@, trust)]
        /\ mark' \in {mark, Trimmed(lifted)}
    BY <1>3 DEF Recorded
  <2>2. level'[p] = "none"
    BY <1>0, <1>3, <2>1 DEF KeptOut
  <2>3. lifted[p] = mark[p] /\ Newer(lifted, p) = Newer(mark, p)
    BY <1>0, <1>3 DEF Marks, Newer
  <2> HIDE DEF lifted
  <2>4. ASSUME mark' = Trimmed(lifted), mark[p] = [at |-> deletedAt[p], auto |-> TRUE],
               ~(clock >= deletedAt[p] + Ttl)
        PROVE  mark'[p] = mark[p]
    <3>1. Cardinality(Newer(mark, p)) < MaxDismissals
      BY <1>0, <2>4 DEF AllNew
    <3>2. ~(Cardinality(Newer(lifted, p)) >= MaxDismissals)
      BY <2>3, <3>1, NewerFinite
    <3>3. ~(clock >= lifted[p].at + Ttl)
      BY <2>3, <2>4
    <3> QED
      BY <2>3, <2>4, <3>2, <3>3 DEF Trimmed
  <2> QED
    BY <2>1, <2>2, <2>4 DEF KeptOut
<1> QED
  BY <1>1, <1>2, <1>3

\* Not by what is in flight, by the ledger, by the clock.
LEMMA GoneIsKeptOut ==
  ASSUME Typed, Timed, [TrustNext]_trustVars, \A p \in Person : Gone(p) => KeptOut(p),
         NEW p \in Person, Gone(p)'
  PROVE  KeptOut(p)'
<1>0. /\ parked \in Listing /\ clock \in Nat /\ deletedAt[p] \in Nat /\ deletedAt'[p] # 0
      /\ landing \in [busy : BOOLEAN, left : Seq(Person), landed : Person \cup {Noone},
                      pin : {Inviter, Noone}]
      /\ syncing \in [busy : BOOLEAN, left : SUBSET Joiner, fetching : Joiner \cup {Noone}]
      /\ leaving \in Person \cup {Noone} /\ p # Noone
      /\ mark \in Marks /\ level \in [Person -> Levels] /\ deletedAt \in [Person -> Nat]
  BY TypedFacts, TrustAssumption DEF Typed, TrustTypeOK, Timed, Gone
<1> USE TrustAssumption
\* Most steps leave the history of this person alone.
<1>1. ASSUME deletedAt'[p] = deletedAt[p]
      PROVE  Gone(p) /\ KeptOut(p)
  BY <1>1 DEF Gone, PurgedLate
\* Their record and their mark are as they were.
<1> DEFINE OnRecord == /\ level'[p] = "none"
                       /\ \/ mark'[p] = [at |-> deletedAt[p], auto |-> TRUE]
                          \/ clock >= deletedAt[p] + Ttl
<1>2. ASSUME deletedAt'[p] = deletedAt[p], UNCHANGED records
      PROVE  OnRecord
  BY <1>1, <1>2 DEF KeptOut, records
<1>3. ASSUME deletedAt'[p] = deletedAt[p], NEW x, NEW trust \in {"unverified", "invite"},
             NEW byRelay \in BOOLEAN, Recorded(x, trust, byRelay),
             x = p => byRelay /\ clock < deletedAt[p] + Ttl
      PROVE  OnRecord
  BY <1>1, <1>3, RecordedKeepsOut
<1>4. CASE RemoveFromLedger
  <2>1. /\ parked' = Without(parked, leaving) /\ pin' = (IF pin = leaving THEN Noone ELSE pin)
        /\ leaving # Noone /\ UNCHANGED <<landing, syncing, clock, deletedAt>>
    BY <1>4 DEF RemoveFromLedger, world, pasts
  <2>2. OnRecord
    BY <1>2, <1>4, <2>1 DEF RemoveFromLedger
  <2>3. In(parked') \subseteq In(parked) \ {leaving}
    BY <1>0, <2>1, WithoutOne
  <2> QED
    BY <1>0, <1>1, <2>1, <2>2, <2>3 DEF KeptOut
<1>5. CASE Join \/ OpenFromCode
  <2>1. /\ deletedAt' = [deletedAt EXCEPT ![Inviter] = 0]
        /\ UNCHANGED <<parked, landing, syncing, leaving, clock>>
    BY <1>5 DEF Join, OpenFromCode, Invited, Welcome, inFlight, world
  <2>2. p # Inviter /\ deletedAt'[p] = deletedAt[p]
    BY <1>0, <2>1
  <2>3. \/ Recorded(Inviter, "invite", FALSE) /\ UNCHANGED pin
        \/ UNCHANGED records /\ pin' = Inviter
    BY <1>5 DEF Join, OpenFromCode, AddInviteContact
  <2>4. OnRecord
    BY <1>2, <1>3, <2>2, <2>3
  <2>5. pin' \in {pin, Inviter}
    BY <2>3
  <2> QED
    BY <1>1, <2>1, <2>2, <2>4, <2>5 DEF KeptOut
<1>6. CASE BeginFlush
  <2>1. /\ landing' = [busy |-> TRUE, left |-> parked, landed |-> Noone, pin |-> pin]
        /\ UNCHANGED <<records, ledger, syncing, leaving, clock, deletedAt>>
    BY <1>6 DEF BeginFlush, world, pasts
  <2>2. KeptOut(p)
    BY <1>1, <2>1
  <2>3. p \in In(parked) \/ pin = p => clock < deletedAt[p] + Ttl
    BY <1>0, <2>1, <2>2 DEF KeptOut, Timed
  <2> QED
    BY <2>1, <2>2, <2>3 DEF KeptOut, ledger, records
<1>7. CASE LandRecord
  <2>1. /\ landing.left # <<>> /\ UNCHANGED <<ledger, syncing, leaving, clock, deletedAt>>
        /\ \/ Recorded(Head(landing.left), "unverified", TRUE) /\ landing'.left = landing.left
           \/ UNCHANGED records /\ landing'.left = Tail(landing.left)
        /\ landing'.pin = landing.pin
    BY <1>0, <1>7 DEF LandRecord, world, pasts
  <2>2. KeptOut(p)
    BY <1>1, <2>1
  <2>3. Head(landing.left) \in In(landing.left) /\ In(Tail(landing.left)) \subseteq In(landing.left)
    <3>1. /\ landing.left[1] = Head(landing.left) /\ Len(landing.left) \in Nat \ {0}
          /\ Len(Tail(landing.left)) = Len(landing.left) - 1
          /\ \A i \in 1 .. Len(Tail(landing.left)) : Tail(landing.left)[i] = landing.left[i + 1]
      BY <1>0, <2>1, HeadTailProperties, EmptySeq, LenProperties
    <3> QED
      BY <3>1 DEF In
  <2>4. OnRecord
    BY <1>2, <1>3, <2>1, <2>2, <2>3 DEF KeptOut
  <2> QED
    BY <2>1, <2>2, <2>3, <2>4 DEF KeptOut, ledger
<1>8. CASE Unpark
  <2>1. /\ landing.left # <<>> /\ parked' = Without(parked, landing.landed)
        /\ landing'.left = Tail(landing.left) /\ landing'.pin = landing.pin
        /\ UNCHANGED <<records, pin, syncing, leaving, clock, deletedAt>>
    BY <1>0, <1>8 DEF Unpark, world, pasts
  <2>2. KeptOut(p)
    BY <1>1, <2>1
  <2>3. In(Tail(landing.left)) \subseteq In(landing.left)
    <3>1. /\ Len(landing.left) \in Nat \ {0}
          /\ Len(Tail(landing.left)) = Len(landing.left) - 1
          /\ \A i \in 1 .. Len(Tail(landing.left)) : Tail(landing.left)[i] = landing.left[i + 1]
      BY <1>0, <2>1, HeadTailProperties, EmptySeq, LenProperties
    <3> QED
      BY <3>1 DEF In
  <2>4. In(parked') \subseteq In(parked)
    BY <1>0, <2>1, WithoutOne
  <2> QED
    BY <2>1, <2>2, <2>3, <2>4 DEF KeptOut, records
<1>9. CASE LandPin
  <2>1. /\ landing.left = <<>> /\ UNCHANGED <<ledger, syncing, leaving, clock, deletedAt>>
        /\ \/ Recorded(landing.pin, "invite", TRUE)
           \/ UNCHANGED records
        /\ landing' = NotLanding \/ landing' = [landing EXCEPT !.landed = landing.pin]
    BY <1>9 DEF LandPin, world, pasts
  <2>2. KeptOut(p)
    BY <1>1, <2>1
  <2>3. landing'.left = <<>> /\ landing'.pin \in {landing.pin, Noone}
    <3>1. CASE landing' = NotLanding
      BY <3>1 DEF NotLanding
    <3>2. CASE landing' = [landing EXCEPT !.landed = landing.pin]
      BY <1>0, <2>1, <3>2
    <3> QED
      BY <2>1, <3>1, <3>2
  <2>4. OnRecord
    BY <1>2, <1>3, <2>1, <2>2 DEF KeptOut
  <2> QED
    BY <1>0, <2>1, <2>2, <2>3, <2>4 DEF KeptOut, ledger
<1>10. CASE EndFlush
  <2>1. /\ landing' = NotLanding /\ pin' \in {pin, Noone}
        /\ UNCHANGED <<records, parked, syncing, leaving, clock, deletedAt>>
    BY <1>10 DEF EndFlush, world, pasts
  <2>2. p \notin In(landing'.left) /\ landing'.pin # p
    BY <1>0, <2>1 DEF NotLanding, In
  <2> QED
    BY <1>0, <1>1, <2>1, <2>2 DEF KeptOut, records
<1>11. CASE BeginSync
  <2>1. /\ syncing' = [busy |-> TRUE, left |-> {q \in listed : level[q] = "none"},
                       fetching |-> Noone]
        /\ UNCHANGED <<records, ledger, landing, leaving, clock, deletedAt>>
    BY <1>11 DEF BeginSync, world, pasts
  <2>2. p \in listed => clock < deletedAt[p] + Ttl
    <3>1. ASSUME p \in listed
          PROVE  clock < deletedAt[p] + Ttl
      <4>1. p \in Joiner /\ clock <= 1 + Ttl + PurgeDelay
        BY <3>1 DEF Typed, TrustTypeOK, Timed
      <4>2. ~(deletedAt[p] <= 1 + PurgeDelay)
        BY <1>1, <2>1, <4>1 DEF Gone, PurgedLate
      <4> QED
        BY <1>0, <4>1, <4>2
    <3> QED
      BY <3>1
  <2> QED
    BY <1>0, <1>1, <2>1, <2>2 DEF KeptOut, ledger, records
<1>12. CASE EndSync \/ \E x \in Person : PickJoiner(x)
  <2>1. UNCHANGED <<records, ledger, landing, leaving, clock, deletedAt>>
    BY <1>12 DEF EndSync, PickJoiner, world, pasts
  <2>2. /\ syncing'.left \subseteq syncing.left
        /\ syncing'.fetching \in syncing.left \cup {Noone}
    <3>1. CASE EndSync
      BY <3>1 DEF EndSync, NotSyncing
    <3>2. ASSUME NEW x \in Person, PickJoiner(x)
          PROVE  <2>2!1 /\ <2>2!2
      BY <1>0, <3>2 DEF PickJoiner
    <3> QED
      BY <1>12, <3>1, <3>2
  <2> QED
    BY <1>0, <1>1, <2>1, <2>2 DEF KeptOut, ledger, records
<1>13. CASE LandJoiner
  <2>1. /\ \/ Recorded(syncing.fetching, "unverified", TRUE)
           \/ UNCHANGED records
        /\ syncing'.left = syncing.left /\ syncing'.fetching = Noone
        /\ UNCHANGED <<ledger, landing, leaving, clock, deletedAt>>
    BY <1>0, <1>13 DEF LandJoiner, ByRelay, world, pasts
  <2>2. KeptOut(p)
    BY <1>1, <2>1
  <2>3. OnRecord
    BY <1>2, <1>3, <2>1, <2>2 DEF KeptOut
  <2> QED
    BY <1>0, <2>1, <2>2, <2>3 DEF KeptOut, ledger
<1>14. CASE AskOrLeave \/ MarkVerified \/ Unverify \/ \E shown \in {"mine", "theirs"} : Scan(shown)
  <2>1. UNCHANGED <<mark, ledger, inFlight, clock, deletedAt>>
    BY <1>14 DEF AskOrLeave, MarkVerified, Unverify, Scan, records, world, pasts
  <2>2. KeptOut(p)
    BY <1>1, <2>1
  <2>3. level'[p] = "none"
    <3>1. CASE MarkVerified \/ Unverify
      BY <1>0, <2>2, <3>1 DEF MarkVerified, Unverify, KeptOut
    <3>2. CASE AskOrLeave \/ \E shown \in {"mine", "theirs"} : Scan(shown)
      BY <2>2, <3>2 DEF AskOrLeave, Scan, records, KeptOut
    <3> QED
      BY <1>14, <3>1, <3>2
  <2> QED
    BY <2>1, <2>2, <2>3 DEF KeptOut, ledger, inFlight
<1>15. CASE Cut
  <2>1. /\ landing' = NotLanding /\ syncing' = NotSyncing /\ p # leaving
        /\ deletedAt'[p] = deletedAt[p] /\ UNCHANGED <<records, ledger, clock>>
    BY <1>0, <1>15 DEF Cut, world
  <2>2. /\ p \notin In(landing'.left) /\ landing'.pin # p
        /\ p \notin syncing'.left /\ syncing'.fetching # p
    BY <1>0, <2>1 DEF NotLanding, NotSyncing, In
  <2> QED
    BY <1>0, <1>1, <2>1, <2>2 DEF KeptOut, ledger, records
<1>16. CASE Tick
  <2>1. /\ clock' = clock + 1 /\ UNCHANGED <<records, ledger, inFlight, deletedAt>>
        /\ ~landing.busy /\ ~syncing.busy
    BY <1>16 DEF Tick, pasts
  <2>2. /\ p \notin In(landing.left) /\ landing.pin # p
        /\ p \notin syncing.left /\ syncing.fetching # p
    BY <1>0, <2>1 DEF Timed, In
  <2> QED
    BY <1>0, <1>1, <2>1, <2>2 DEF KeptOut, ledger, records, inFlight
<1>17. ASSUME NEW x \in Person, RemoveContact(x), x # p
       PROVE  KeptOut(p)'
  <2>1. /\ leaving = Noone /\ leaving' = x /\ UNCHANGED <<ledger, landing, syncing, clock>>
        /\ Dismiss(x)
    BY <1>17 DEF RemoveContact, world
  <2>2. p \notin PushedOut(Marked(x)) /\ deletedAt'[p] = deletedAt[p]
    BY <1>0, <1>17, <2>1 DEF Dismiss
  <2>3. Marked(x)[p] = mark[p]
    BY <1>0, <1>17 DEF Marked, Marks
  <2>4. KeptOut(p) /\ Gone(p)
    BY <1>1, <2>2
  <2>5. CASE clock >= deletedAt[p] + Ttl
    BY <1>0, <1>17, <2>1, <2>2, <2>4, <2>5 DEF KeptOut, Dismiss, ledger
  <2>6. CASE ~(clock >= deletedAt[p] + Ttl)
    <3>1. mark[p] = [at |-> deletedAt[p], auto |-> TRUE] /\ deletedAt[p] # 0
      BY <2>4, <2>6 DEF KeptOut, Gone
    <3>2. ~(Cardinality(Newer(Marked(x), p)) >= MaxDismissals)
      BY <1>0, <2>2, <2>3, <2>6, <3>1 DEF PushedOut
    <3>3. mark'[p] = mark[p]
      BY <1>0, <2>1, <2>3, <2>6, <3>1, <3>2 DEF Dismiss, Trimmed
    <3> QED
      BY <1>0, <1>17, <2>1, <2>2, <2>4, <3>1, <3>3 DEF KeptOut, Dismiss, ledger
  <2> QED
    BY <2>5, <2>6
<1>18. CASE RemoveContact(p)
  <2>1. leaving' = p /\ UNCHANGED <<ledger, landing, syncing, clock>> /\ Dismiss(p) /\ clock > 1
    BY <1>18 DEF RemoveContact, world, Distinct
  <2>2. p \notin PushedOut(Marked(p)) /\ deletedAt'[p] = clock
    BY <1>0, <2>1 DEF Dismiss
  <2>3. Marked(p)[p] = [at |-> clock, auto |-> TRUE]
    BY <1>0 DEF Marked, Marks
  <2>4. clock < clock + Ttl
    BY <1>0
  <2>5. ~(Cardinality(Newer(Marked(p), p)) >= MaxDismissals)
    BY <1>0, <2>1, <2>2, <2>3, <2>4 DEF PushedOut
  <2>6. mark'[p] = [at |-> clock, auto |-> TRUE]
    BY <1>0, <2>1, <2>3, <2>4, <2>5 DEF Dismiss, Trimmed
  <2>7. level'[p] = "none"
    BY <1>0, <2>1 DEF Dismiss
  <2> QED
    BY <2>1, <2>2, <2>4, <2>6, <2>7 DEF KeptOut
<1>19. ASSUME NEW x \in Person, HearInitial(x) \/ AddContact(x)
       PROVE  KeptOut(p)'
  <2>1. /\ deletedAt' = [deletedAt EXCEPT ![x] = 0] /\ UNCHANGED <<pin, inFlight, clock>>
        /\ \/ Recorded(x, "unverified", FALSE)
           \/ UNCHANGED records
        /\ \/ parked' = parked
           \/ ~Contains(parked, x) /\ parked' = Newest(Append(parked, x))
    BY <1>19 DEF HearInitial, AddContact, Welcome, ledger, world
  <2>2. x # p /\ deletedAt'[p] = deletedAt[p]
    BY <1>0, <2>1
  <2>3. In(parked') \subseteq In(parked) \cup {x}
    BY <1>0, <2>1, ParkedOnce
  <2>4. OnRecord
    BY <1>2, <1>3, <2>1, <2>2
  <2> QED
    BY <1>1, <2>1, <2>2, <2>3, <2>4 DEF KeptOut, inFlight
<1>20. ASSUME NEW x \in Person, OpenPanel(x)
       PROVE  KeptOut(p)'
  <2>1. /\ UNCHANGED <<ledger, inFlight, clock>>
        /\ \/ UNCHANGED <<records, deletedAt>>
           \/ Recorded(x, "unverified", FALSE) /\ deletedAt' = [deletedAt EXCEPT ![x] = 0]
    BY <1>20 DEF OpenPanel, EnsureContact, Welcome, world
  <2>2. deletedAt'[p] = deletedAt[p] /\ OnRecord
    BY <1>0, <1>2, <1>3, <2>1
  <2> QED
    BY <1>1, <2>1, <2>2 DEF KeptOut, ledger, inFlight
<1>21. ASSUME NEW x \in Person, CatchUp(x)
       PROVE  KeptOut(p)'
  BY <1>1, <1>21 DEF CatchUp, KeptOut, records, ledger, inFlight, pasts
<1>22. ASSUME NEW x \in Person, NEW y \in Person, RenameAccount(x, y)
       PROVE  KeptOut(p)'
  <2>1. /\ level[x] # "none" /\ level' = [level EXCEPT ![y] = RenamedLevel(x), ![x] = "none"]
        /\ mark' = MoveMark(mark, x, y) /\ deletedAt' = [deletedAt EXCEPT ![y] = 0]
        /\ UNCHANGED <<ledger, inFlight, clock>>
    BY <1>22 DEF RenameAccount, MoveMark
  <2>2. p # y /\ deletedAt'[p] = deletedAt[p]
    BY <1>0, <2>1
  <2>3. KeptOut(p) /\ p # x
    BY <1>1, <2>1, <2>2 DEF KeptOut
  <2>4. level'[p] = level[p] /\ mark'[p] = mark[p]
    BY <1>0, <2>1, <2>2, <2>3 DEF MoveMark, Marks
  <2> QED
    BY <2>1, <2>2, <2>3, <2>4 DEF KeptOut, ledger, inFlight
<1>23. CASE UNCHANGED trustVars
  BY <1>1, <1>23 DEF trustVars, KeptOut
<1> QED
  BY <1>4, <1>5, <1>6, <1>7, <1>8, <1>9, <1>10, <1>11, <1>12, <1>13, <1>14, <1>15, <1>16, <1>17,
     <1>18, <1>19, <1>20, <1>21, <1>22, <1>23 DEF TrustNext

\* Somebody the user deleted is not brought back by the relay, whatever was under way:
\* as long as the relay drops who joined by the time the mark is too old, and for as
\* many as have a mark.
THEOREM DeletedStaysDeletedHolds == TrustSpec => []DeletedStaysDeleted
<1> DEFINE Kept == Timed /\ \A p \in Person : Gone(p) => KeptOut(p)
<1>1. TrustInit => Kept
  BY TrustAssumption DEF TrustInit, Timed, Gone, NotLanding, NotSyncing
<1>2. Typed /\ Kept /\ [TrustNext]_trustVars => Kept'
  BY TimedIsKept, GoneIsKeptOut
<1>3. Kept => DeletedStaysDeleted
  BY DEF DeletedStaysDeleted, Gone, KeptOut
<1> QED
  BY <1>1, <1>2, <1>3, TypedHolds, PTL DEF TrustSpec
=============================================================================
