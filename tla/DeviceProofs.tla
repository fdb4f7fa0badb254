---------------------------- MODULE DeviceProofs ----------------------------
(***************************************************************************)
(* What one browser keeps of a device, and what leaves and enters it, for  *)
(* any number of pages, keys, identities and messages.  What is on disk is *)
(* of one identity, under the one key its lock opens, and the relay serves *)
(* prekeys this device has the keys of, or it will publish fresh ones;     *)
(* nothing deleted comes back with an import, nothing that stays becomes   *)
(* less, and a file is not torn.  Then its connection, its wake-ups and    *)
(* the links it is joined by: one socket and one end of each request, a    *)
(* nudge for whoever is not looking, one payload joined at a time.         *)
(***************************************************************************)
EXTENDS MCDevice, SequenceTheorems, FiniteSetTheorems, TLAPS

-----------------------------------------------------------------------------
(* The invariant. *)

\* What a tab has left to do.
Left(t) == Range(tab[t].todo)
Idle(t) == tab[t].todo = <<>>

Ops == {StageSteps("backup"), StageSteps("move"), ResetSteps(TRUE), ResetSteps(FALSE), EraseSteps}
IsPlan(p) == \E op \in Ops : \E i \in 1 .. Len(op) + 1 : p = SubSeq(op, i, Len(op))

Tabs == [phase : Phase, ldk : 0 .. MaxLdks, id : Identity, file : {"none", "backup", "move"},
         shown : BOOLEAN, todo : Seq(Steps)]

\* One tab is at work, behind its lock screen, and only a page that was opened has the key.
AtWork ==
  /\ \A t, u \in Tab : ~Idle(t) /\ ~Idle(u) => t = u
  /\ \A t \in Tab :
       /\ ~Idle(t) => tab[t].phase \in {"enroll", "locked"}
       /\ Idle(t) /\ tab[t].phase \notin {"open", "error"} => tab[t].ldk = 0
       /\ tab[t].phase \notin {"closed", "evicted"} => tab[t].id # 0
       /\ {"leave",
           "enrollAgain"} \cap Left(t) # {} /\ "dropLock" \notin Left(t) => tab[t].ldk = 0

\* Whoever is open holds the key of the lock, or is told that it is gone, or will be.
KeysHeld ==
  /\ wraps.bio \in {0, wraps.pass}
  /\ \A t \in Tab :
       /\ Live(t) /\ t \notin told =>
            \/ \E u \in Tab : "tell" \in Left(u)
            \/ Configured /\ tab[t].ldk = wraps.pass
       /\ "mark" \in Left(t) => Configured /\ tab[t].ldk = wraps.pass
       /\ "dropLock" \in Left(t) /\ "tell" \notin Left(t) => \A u \in Tab : Live(u) => u \in told

\* What a reset or an erasure did already.
Wiped ==
  \A t \in Tab :
    /\ "dropLock" \in Left(t) =>
         /\ "wipeSessions" \notin Left(t) => sealed["sessions"] = {}
         /\ "wipeContacts" \notin Left(t) => sealed["contacts"] = {}
         /\ "dropPrekeys" \notin Left(t) => sealed["prekeys"] = {}
         /\ "dropAccount" \notin Left(t) => sealed["account"] = {}
    /\ "unmark" \in Left(t) =>
         /\ "dropIdentity" \notin Left(t) => identity = 0
         /\ "dropLock" \notin Left(t) => ~Configured

\* What a stage did already.
Staged ==
  \A t \in Tab : "putIdentity" \in Left(t) =>
    /\ "dropIdentity" \notin Left(t) => identity = 0
    /\ "wipeSessions" \notin Left(t) => \A x \in sealed["sessions"] : x.of = InFile
    /\ "dropPrekeys" \notin Left(t) => sealed["prekeys"] = {}
    /\ "dropAccount" \notin Left(t) => sealed["account"] = {}
    /\ "putContacts" \notin Left(t) => \A x \in sealed["contacts"] : x.of = InFile
    /\ sentinel \/ unmarked

Stores == Store \ {"markers"}

\* Everything is under the key of the lock.
UnderOneKey ==
  \A s \in Stores : \A x \in sealed[s] : Configured /\ x.ldk = wraps.pass

\* Everything is the identity's; where there is neither identity nor mark there is nothing.
OfOneIdentity ==
  ~unmarked =>
    /\ identity # 0 => sentinel
    /\ ~sentinel => \A s \in Stores : sealed[s] = {}
    /\ identity # 0 => \A s \in Stores : \A x \in sealed[s] : x.of = identity

\* Stored prekeys are served once the answer is known.
Served == confirmed => \A x \in sealed["prekeys"] : x.of \in held

\* They are those of an identity that is registered, and no new identity is.
ServedAsOwn ==
  /\ identity \in registered => \A x \in sealed["prekeys"] : x.of = identity
  /\ \A i \in registered : i # 0 /\ i <= InFile + generated

Ordinary ==
  AtWork /\ KeysHeld /\ Wiped /\ Staged /\ UnderOneKey /\ OfOneIdentity /\ ServedAsOwn

-----------------------------------------------------------------------------
(* Plans. *)

\* Each operation's steps, in order.
LEMMA BackupSteps ==
  ASSUME NEW op, op = StageSteps("backup")
  PROVE  /\ op \in Seq(Steps) /\ Len(op) = 9
         /\ op[1] = "dropIdentity" /\ op[2] = "wipeSessions" /\ op[3] = "dropPrekeys"
         /\ op[4] = "dropAccount" /\ op[5] = "flag" /\ op[6] = "putContacts"
         /\ op[7] = "putIdentity" /\ op[8] = "mark" /\ op[9] = "reload"
BY DEF StageSteps, Steps

LEMMA MoveSteps ==
  ASSUME NEW op, op = StageSteps("move")
  PROVE  /\ op \in Seq(Steps) /\ Len(op) = 10
         /\ op[1] = "dropIdentity" /\ op[2] = "wipeSessions" /\ op[3] = "dropPrekeys"
         /\ op[4] = "dropAccount" /\ op[5] = "flag" /\ op[6] = "putContacts"
         /\ op[7] = "putHistory" /\ op[8] = "putIdentity" /\ op[9] = "mark" /\ op[10] = "reload"
BY DEF StageSteps, Steps

LEMMA LinkedResetSteps ==
  ASSUME NEW op, op = ResetSteps(TRUE)
  PROVE  /\ op \in Seq(Steps) /\ Len(op) = 9
         /\ op[1] = "wipeSessions" /\ op[2] = "wipeContacts" /\ op[3] = "dropPrekeys"
         /\ op[4] = "dropAccount" /\ op[5] = "dropIdentity" /\ op[6] = "unmark"
         /\ op[7] = "dropLock" /\ op[8] = "tell" /\ op[9] = "leave"
BY DEF ResetSteps, Steps

LEMMA PlainResetSteps ==
  ASSUME NEW op, op = ResetSteps(FALSE)
  PROVE  /\ op \in Seq(Steps) /\ Len(op) = 8
         /\ op[1] = "wipeSessions" /\ op[2] = "wipeContacts" /\ op[3] = "dropPrekeys"
         /\ op[4] = "dropAccount" /\ op[5] = "flag" /\ op[6] = "dropLock" /\ op[7] = "tell"
         /\ op[8] = "enrollAgain"
BY DEF ResetSteps, Steps

LEMMA ErasureSteps ==
  ASSUME NEW op, op = EraseSteps
  PROVE  /\ op \in Seq(Steps) /\ Len(op) = 10
         /\ op[1] = "tell" /\ op[2] = "wipeSessions" /\ op[3] = "wipeContacts"
         /\ op[4] = "dropPrekeys" /\ op[5] = "unflag" /\ op[6] = "dropIdentity"
         /\ op[7] = "dropAccount" /\ op[8] = "dropLock" /\ op[9] = "unmark" /\ op[10] = "reload"
BY DEF EraseSteps, Steps

\* What is left of an operation whose steps differ.
LEMMA SuffixFacts ==
  ASSUME NEW op \in Seq(Steps), NEW i \in 1 .. Len(op),
         \A j, k \in 1 .. Len(op) : op[j] = op[k] => j = k,
         NEW p, p = SubSeq(op, i, Len(op))
  PROVE  /\ p # <<>> /\ Head(p) = op[i] /\ Tail(p) = SubSeq(op, i + 1, Len(op))
         /\ Range(p) = {op[j] : j \in i .. Len(op)}
         /\ Range(Tail(p)) = Range(p) \ {Head(p)}
<1>1. Len(op) \in Nat /\ i \in Int /\ \A j \in i .. Len(op) : op[j] \in Steps
  OBVIOUS
<1>2. /\ p \in Seq(Steps) /\ Len(p) = Len(op) - i + 1
      /\ \A j \in 1 .. Len(op) - i + 1 : p[j] = op[i + j - 1]
  <2>1. /\ SubSeq(op, i, Len(op)) \in Seq(Steps)
        /\ Len(SubSeq(op, i, Len(op))) = IF i <= Len(op) THEN Len(op) - i + 1 ELSE 0
        /\ \A j \in 1 .. Len(op) - i + 1 : SubSeq(op, i, Len(op))[j] = op[i + j - 1]
    BY <1>1, SubSeqProperties
  <2> QED
    BY <1>1, <2>1
<1>3. p # <<>> /\ Head(p) = op[i] /\ Tail(p) = SubSeq(op, i + 1, Len(op))
  BY <1>1, <1>2, HeadTailOfSubSeq
<1>4. Range(p) = {op[j] : j \in i .. Len(op)}
  <2>1. Range(p) = {p[j] : j \in 1 .. Len(p)}
    <3>1. DOMAIN p = 1 .. Len(p)
      BY <1>2
    <3> QED
      BY <3>1, Zenon DEF Range
  <2>2. ASSUME NEW x \in {p[j] : j \in 1 .. Len(p)}
        PROVE  x \in {op[j] : j \in i .. Len(op)}
    <3>1. PICK j \in 1 .. Len(p) : x = p[j]
      OBVIOUS
    <3>2. j \in 1 .. Len(op) - i + 1 /\ p[j] = op[i + j - 1]
      BY <1>2
    <3>3. i + j - 1 \in i .. Len(op)
      BY <1>1, <3>2
    <3> QED
      BY <3>1, <3>2, <3>3
  <2>3. ASSUME NEW x \in {op[j] : j \in i .. Len(op)}
        PROVE  x \in {p[j] : j \in 1 .. Len(p)}
    <3>1. PICK j \in i .. Len(op) : x = op[j]
      OBVIOUS
    <3>2. j - i + 1 \in 1 .. Len(p) /\ x = p[j - i + 1]
      BY <1>1, <1>2, <3>1
    <3> QED
      BY <3>2
  <2> QED
    BY <2>1, <2>2, <2>3
<1>5. Range(Tail(p)) = {op[j] : j \in i + 1 .. Len(op)}
  <2>1. /\ Tail(p) \in Seq(Steps) /\ Len(Tail(p)) = Len(p) - 1
        /\ \A j \in 1 .. Len(Tail(p)) : Tail(p)[j] = p[j + 1]
    BY <1>2, <1>3, HeadTailProperties
  <2>2. Range(Tail(p)) = {Tail(p)[j] : j \in 1 .. Len(Tail(p))}
    <3>1. DOMAIN Tail(p) = 1 .. Len(Tail(p))
      BY <2>1
    <3> QED
      BY <3>1, Zenon DEF Range
  <2>3. ASSUME NEW x \in {Tail(p)[j] : j \in 1 .. Len(Tail(p))}
        PROVE  x \in {op[j] : j \in i + 1 .. Len(op)}
    <3>1. PICK j \in 1 .. Len(Tail(p)) : x = Tail(p)[j]
      OBVIOUS
    <3>2. i + j \in i + 1 .. Len(op) /\ x = op[i + j]
      BY <1>1, <1>2, <2>1, <3>1
    <3> QED
      BY <3>2
  <2>4. ASSUME NEW x \in {op[j] : j \in i + 1 .. Len(op)}
        PROVE  x \in {Tail(p)[j] : j \in 1 .. Len(Tail(p))}
    <3>1. PICK j \in i + 1 .. Len(op) : x = op[j]
      OBVIOUS
    <3>2. j - i \in 1 .. Len(Tail(p)) /\ x = Tail(p)[j - i]
      BY <1>1, <1>2, <2>1, <3>1
    <3> QED
      BY <3>2
  <2> QED
    BY <2>2, <2>3, <2>4
<1>6. Range(Tail(p)) = Range(p) \ {op[i]}
  BY SMTT(60), <1>1, <1>4, <1>5
<1> QED
  BY <1>3, <1>4, <1>6

\* How the steps of an operation follow each other, seen from what is left of it.
NoWipes(left) ==
  /\ "wipeSessions" \notin left /\ "wipeContacts" \notin left
  /\ "dropPrekeys" \notin left /\ "dropAccount" \notin left

\* first is the next step and left what is left.
InOrder(first, left) ==
  /\ first \in left
  /\ first = "putIdentity" => NoWipes(left) /\ "dropIdentity" \notin left /\ "putContacts" \notin left
  /\ first \in {"putContacts", "putHistory"} => "putIdentity" \in left
  /\ first = "putHistory" => "wipeSessions" \notin left
  /\ first = "dropLock" => NoWipes(left)
  /\ first = "unmark" => "dropIdentity" \notin left /\ ("dropLock" \in left => NoWipes(left))
  /\ first \in {"putContacts", "putHistory"} => "dropIdentity" \notin left
  /\ first \in {"reload", "leave", "enrollAgain"} => "tell" \notin left
  /\ first \in {"leave", "enrollAgain"} => "dropLock" \notin left
  /\ first \notin {"reload", "leave", "enrollAgain"} =>
       {"reload", "leave", "enrollAgain"} \cap left # {}
  /\ "putIdentity" \in left => "mark" \in left
  /\ "mark" \in left => "dropLock" \notin left /\ "unmark" \notin left /\ "tell" \notin left

Ordered(p) ==
  /\ p # <<>> /\ IsPlan(Tail(p)) /\ Range(Tail(p)) = Range(p) \ {Head(p)}
  /\ InOrder(Head(p), Range(p))

LEMMA EmptyPlan == IsPlan(<<>>) /\ Range(<<>>) = {} /\ \A x : ~Contains(<<>>, x)
<1>1. EraseSteps \in Seq(Steps) /\ Len(EraseSteps) = 10
  BY ErasureSteps
<1>2. 11 \in 1 .. Len(EraseSteps) + 1 /\ <<>> = SubSeq(EraseSteps, 11, Len(EraseSteps))
  BY <1>1, SubSeqEmpty
<1>3. IsPlan(<<>>)
  BY <1>2 DEF IsPlan, Ops
<1>4. Range(<<>>) = {}
  BY DEF Range
<1>5. \A x : ~Contains(<<>>, x)
  BY DEF Contains
<1> QED
  BY <1>3, <1>4, <1>5

LEMMA SuffixOrdered ==
  ASSUME NEW op \in Ops, NEW i \in 1 .. Len(op),
         NEW p, p = SubSeq(op, i, Len(op))
  PROVE  Ordered(p)
<1>1. ASSUME op \in Seq(Steps), \A j, k \in 1 .. Len(op) : op[j] = op[k] => j = k
      PROVE  /\ p # <<>> /\ Head(p) = op[i] /\ IsPlan(Tail(p))
             /\ Range(Tail(p)) = Range(p) \ {Head(p)} /\ Head(p) \in Range(p)
             /\ \A k \in 1 .. Len(op) : op[k] \in Range(p) <=> i <= k
             /\ \A x \in Range(p) : \E k \in 1 .. Len(op) : x = op[k]
  <2>1. /\ p # <<>> /\ Head(p) = op[i] /\ Tail(p) = SubSeq(op, i + 1, Len(op))
        /\ Range(p) = {op[j] : j \in i .. Len(op)}
        /\ Range(Tail(p)) = Range(p) \ {Head(p)}
    BY ZenonT(60), <1>1, SuffixFacts
  <2>2. i + 1 \in 1 .. Len(op) + 1 /\ i \in i .. Len(op)
    BY <1>1
  <2>3. \A k \in 1 .. Len(op) : op[k] \in Range(p) <=> i <= k
    BY <1>1, <2>1
  <2>4. \A x \in Range(p) : \E k \in 1 .. Len(op) : x = op[k]
    BY <1>1, <2>1
  <2> QED
    BY <2>1, <2>2, <2>3, <2>4 DEF IsPlan
<1>2. CASE op = EraseSteps
  <2>1. /\ op \in Seq(Steps) /\ Len(op) = 10 /\ i \in 1 .. 10 /\ op[1] = "tell"
        /\ op[2] = "wipeSessions" /\ op[3] = "wipeContacts" /\ op[4] = "dropPrekeys"
        /\ op[5] = "unflag" /\ op[6] = "dropIdentity" /\ op[7] = "dropAccount"
        /\ op[8] = "dropLock" /\ op[9] = "unmark" /\ op[10] = "reload"
    BY <1>2, ErasureSteps
  <2>2. \A j, k \in 1 .. 10 : op[j] = op[k] => j = k
    BY <2>1
  <2>3. /\ p # <<>> /\ Head(p) = op[i] /\ IsPlan(Tail(p))
        /\ Range(Tail(p)) = Range(p) \ {Head(p)} /\ Head(p) \in Range(p)
        /\ \A k \in 1 .. 10 : op[k] \in Range(p) <=> i <= k
        /\ \A x \in Range(p) : \E k \in 1 .. 10 : x = op[k]
    BY <1>1, <2>1, <2>2
  <2>4. /\ ("reload" \in Range(p) <=> i <= 10)
        /\ ("dropIdentity" \in Range(p) <=> i <= 6)
        /\ ("wipeSessions" \in Range(p) <=> i <= 2)
        /\ ("wipeContacts" \in Range(p) <=> i <= 3)
        /\ ("dropPrekeys" \in Range(p) <=> i <= 4)
        /\ ("dropAccount" \in Range(p) <=> i <= 7) /\ ("unmark" \in Range(p) <=> i <= 9)
        /\ ("dropLock" \in Range(p) <=> i <= 8) /\ ("tell" \in Range(p) <=> i <= 1)
    BY <2>1, <2>3
  <2>5. \A k \in 1 .. 10 : op[k] \in {"tell", "wipeSessions", "wipeContacts", "dropPrekeys",
                                      "unflag", "dropIdentity", "dropAccount", "dropLock",
                                      "unmark", "reload"}
    BY <2>1
  <2>6. /\ (op[i] = "tell" <=> i = 1) /\ (op[i] = "wipeSessions" <=> i = 2)
        /\ (op[i] = "wipeContacts" <=> i = 3) /\ (op[i] = "dropPrekeys" <=> i = 4)
        /\ (op[i] = "unflag" <=> i = 5) /\ (op[i] = "dropIdentity" <=> i = 6)
        /\ (op[i] = "dropAccount" <=> i = 7) /\ (op[i] = "dropLock" <=> i = 8)
        /\ (op[i] = "unmark" <=> i = 9) /\ (op[i] = "reload" <=> i = 10)
    BY <2>1, <2>2
  <2>7. InOrder(op[i], Range(p))
    <3>1. Range(p) \subseteq {"tell", "wipeSessions", "wipeContacts", "dropPrekeys", "unflag",
                              "dropIdentity", "dropAccount", "dropLock", "unmark", "reload"}
      BY <2>3, <2>5
    <3>2. op[i] \in {"tell", "wipeSessions", "wipeContacts", "dropPrekeys", "unflag",
                     "dropIdentity", "dropAccount", "dropLock", "unmark", "reload"}
      BY <2>1, <2>5
    <3>3. op[i] \in Range(p) /\ i \in 1 .. 10
      BY <2>1, <2>3
    <3>4. PICK x : x = op[i]
      OBVIOUS
    <3>5. InOrder(x, Range(p))
      BY <2>4, <2>6, <3>1, <3>2, <3>3, <3>4 DEF InOrder, NoWipes
    <3> QED
      BY <3>4, <3>5
  <2> QED
    BY <2>3, <2>7 DEF Ordered
<1>3. CASE op = StageSteps("backup")
  <2>1. /\ op \in Seq(Steps) /\ Len(op) = 9 /\ i \in 1 .. 9 /\ op[1] = "dropIdentity"
        /\ op[2] = "wipeSessions" /\ op[3] = "dropPrekeys" /\ op[4] = "dropAccount"
        /\ op[5] = "flag" /\ op[6] = "putContacts" /\ op[7] = "putIdentity"
        /\ op[8] = "mark" /\ op[9] = "reload"
    BY <1>3, BackupSteps
  <2>2. \A j, k \in 1 .. 9 : op[j] = op[k] => j = k
    BY <2>1
  <2>3. /\ p # <<>> /\ Head(p) = op[i] /\ IsPlan(Tail(p))
        /\ Range(Tail(p)) = Range(p) \ {Head(p)} /\ Head(p) \in Range(p)
        /\ \A k \in 1 .. 9 : op[k] \in Range(p) <=> i <= k
        /\ \A x \in Range(p) : \E k \in 1 .. 9 : x = op[k]
    BY <1>1, <2>1, <2>2
  <2>4. /\ ("reload" \in Range(p) <=> i <= 9)
        /\ ("dropIdentity" \in Range(p) <=> i <= 1)
        /\ ("wipeSessions" \in Range(p) <=> i <= 2)
        /\ ("dropPrekeys" \in Range(p) <=> i <= 3)
        /\ ("dropAccount" \in Range(p) <=> i <= 4)
        /\ ("putContacts" \in Range(p) <=> i <= 6)
        /\ ("putIdentity" \in Range(p) <=> i <= 7) /\ ("mark" \in Range(p) <=> i <= 8)
    BY <2>1, <2>3
  <2>5. \A k \in 1 .. 9 : op[k] \in {"dropIdentity", "wipeSessions", "dropPrekeys",
                                     "dropAccount", "flag", "putContacts", "putIdentity",
                                     "mark", "reload"}
    BY <2>1
  <2>6. /\ (op[i] = "dropIdentity" <=> i = 1) /\ (op[i] = "wipeSessions" <=> i = 2)
        /\ (op[i] = "dropPrekeys" <=> i = 3) /\ (op[i] = "dropAccount" <=> i = 4)
        /\ (op[i] = "flag" <=> i = 5) /\ (op[i] = "putContacts" <=> i = 6)
        /\ (op[i] = "putIdentity" <=> i = 7) /\ (op[i] = "mark" <=> i = 8)
        /\ (op[i] = "reload" <=> i = 9)
    BY <2>1, <2>2
  <2>7. InOrder(op[i], Range(p))
    <3>1. Range(p) \subseteq {"dropIdentity", "wipeSessions", "dropPrekeys", "dropAccount",
                              "flag", "putContacts", "putIdentity", "mark", "reload"}
      BY <2>3, <2>5
    <3>2. op[i] \in {"dropIdentity", "wipeSessions", "dropPrekeys", "dropAccount", "flag",
                     "putContacts", "putIdentity", "mark", "reload"}
      BY <2>1, <2>5
    <3>3. op[i] \in Range(p) /\ i \in 1 .. 9
      BY <2>1, <2>3
    <3>4. PICK x : x = op[i]
      OBVIOUS
    <3>5. InOrder(x, Range(p))
      BY <2>4, <2>6, <3>1, <3>2, <3>3, <3>4 DEF InOrder, NoWipes
    <3> QED
      BY <3>4, <3>5
  <2> QED
    BY <2>3, <2>7 DEF Ordered
<1>4. CASE op = StageSteps("move")
  <2>1. /\ op \in Seq(Steps) /\ Len(op) = 10 /\ i \in 1 .. 10 /\ op[1] = "dropIdentity"
        /\ op[2] = "wipeSessions" /\ op[3] = "dropPrekeys" /\ op[4] = "dropAccount"
        /\ op[5] = "flag" /\ op[6] = "putContacts" /\ op[7] = "putHistory"
        /\ op[8] = "putIdentity" /\ op[9] = "mark" /\ op[10] = "reload"
    BY <1>4, MoveSteps
  <2>2. \A j, k \in 1 .. 10 : op[j] = op[k] => j = k
    BY <2>1
  <2>3. /\ p # <<>> /\ Head(p) = op[i] /\ IsPlan(Tail(p))
        /\ Range(Tail(p)) = Range(p) \ {Head(p)} /\ Head(p) \in Range(p)
        /\ \A k \in 1 .. 10 : op[k] \in Range(p) <=> i <= k
        /\ \A x \in Range(p) : \E k \in 1 .. 10 : x = op[k]
    BY <1>1, <2>1, <2>2
  <2>4. /\ ("reload" \in Range(p) <=> i <= 10)
        /\ ("dropIdentity" \in Range(p) <=> i <= 1)
        /\ ("wipeSessions" \in Range(p) <=> i <= 2)
        /\ ("dropPrekeys" \in Range(p) <=> i <= 3)
        /\ ("dropAccount" \in Range(p) <=> i <= 4)
        /\ ("putContacts" \in Range(p) <=> i <= 6)
        /\ ("putHistory" \in Range(p) <=> i <= 7)
        /\ ("putIdentity" \in Range(p) <=> i <= 8) /\ ("mark" \in Range(p) <=> i <= 9)
    BY <2>1, <2>3
  <2>5. \A k \in 1 .. 10 : op[k] \in {"dropIdentity", "wipeSessions", "dropPrekeys",
                                      "dropAccount", "flag", "putContacts", "putHistory",
                                      "putIdentity", "mark", "reload"}
    BY <2>1
  <2>6. /\ (op[i] = "dropIdentity" <=> i = 1) /\ (op[i] = "wipeSessions" <=> i = 2)
        /\ (op[i] = "dropPrekeys" <=> i = 3) /\ (op[i] = "dropAccount" <=> i = 4)
        /\ (op[i] = "flag" <=> i = 5) /\ (op[i] = "putContacts" <=> i = 6)
        /\ (op[i] = "putHistory" <=> i = 7) /\ (op[i] = "putIdentity" <=> i = 8)
        /\ (op[i] = "mark" <=> i = 9) /\ (op[i] = "reload" <=> i = 10)
    BY <2>1, <2>2
  <2>7. InOrder(op[i], Range(p))
    <3>1. Range(p) \subseteq {"dropIdentity", "wipeSessions", "dropPrekeys", "dropAccount",
                              "flag", "putContacts", "putHistory", "putIdentity", "mark",
                              "reload"}
      BY <2>3, <2>5
    <3>2. op[i] \in {"dropIdentity", "wipeSessions", "dropPrekeys", "dropAccount", "flag",
                     "putContacts", "putHistory", "putIdentity", "mark", "reload"}
      BY <2>1, <2>5
    <3>3. op[i] \in Range(p) /\ i \in 1 .. 10
      BY <2>1, <2>3
    <3>4. PICK x : x = op[i]
      OBVIOUS
    <3>5. InOrder(x, Range(p))
      BY <2>4, <2>6, <3>1, <3>2, <3>3, <3>4 DEF InOrder, NoWipes
    <3> QED
      BY <3>4, <3>5
  <2> QED
    BY <2>3, <2>7 DEF Ordered
<1>5. CASE op = ResetSteps(TRUE)
  <2>1. /\ op \in Seq(Steps) /\ Len(op) = 9 /\ i \in 1 .. 9 /\ op[1] = "wipeSessions"
        /\ op[2] = "wipeContacts" /\ op[3] = "dropPrekeys" /\ op[4] = "dropAccount"
        /\ op[5] = "dropIdentity" /\ op[6] = "unmark" /\ op[7] = "dropLock"
        /\ op[8] = "tell" /\ op[9] = "leave"
    BY <1>5, LinkedResetSteps
  <2>2. \A j, k \in 1 .. 9 : op[j] = op[k] => j = k
    BY <2>1
  <2>3. /\ p # <<>> /\ Head(p) = op[i] /\ IsPlan(Tail(p))
        /\ Range(Tail(p)) = Range(p) \ {Head(p)} /\ Head(p) \in Range(p)
        /\ \A k \in 1 .. 9 : op[k] \in Range(p) <=> i <= k
        /\ \A x \in Range(p) : \E k \in 1 .. 9 : x = op[k]
    BY <1>1, <2>1, <2>2
  <2>4. /\ ("leave" \in Range(p) <=> i <= 9)
        /\ ("dropIdentity" \in Range(p) <=> i <= 5)
        /\ ("wipeSessions" \in Range(p) <=> i <= 1)
        /\ ("wipeContacts" \in Range(p) <=> i <= 2)
        /\ ("dropPrekeys" \in Range(p) <=> i <= 3)
        /\ ("dropAccount" \in Range(p) <=> i <= 4) /\ ("unmark" \in Range(p) <=> i <= 6)
        /\ ("dropLock" \in Range(p) <=> i <= 7) /\ ("tell" \in Range(p) <=> i <= 8)
    BY <2>1, <2>3
  <2>5. \A k \in 1 .. 9 : op[k] \in {"wipeSessions", "wipeContacts", "dropPrekeys",
                                     "dropAccount", "dropIdentity", "unmark", "dropLock",
                                     "tell", "leave"}
    BY <2>1
  <2>6. /\ (op[i] = "wipeSessions" <=> i = 1) /\ (op[i] = "wipeContacts" <=> i = 2)
        /\ (op[i] = "dropPrekeys" <=> i = 3) /\ (op[i] = "dropAccount" <=> i = 4)
        /\ (op[i] = "dropIdentity" <=> i = 5) /\ (op[i] = "unmark" <=> i = 6)
        /\ (op[i] = "dropLock" <=> i = 7) /\ (op[i] = "tell" <=> i = 8)
        /\ (op[i] = "leave" <=> i = 9)
    BY <2>1, <2>2
  <2>7. InOrder(op[i], Range(p))
    <3>1. Range(p) \subseteq {"wipeSessions", "wipeContacts", "dropPrekeys", "dropAccount",
                              "dropIdentity", "unmark", "dropLock", "tell", "leave"}
      BY <2>3, <2>5
    <3>2. op[i] \in {"wipeSessions", "wipeContacts", "dropPrekeys", "dropAccount",
                     "dropIdentity", "unmark", "dropLock", "tell", "leave"}
      BY <2>1, <2>5
    <3>3. op[i] \in Range(p) /\ i \in 1 .. 9
      BY <2>1, <2>3
    <3>4. PICK x : x = op[i]
      OBVIOUS
    <3>5. InOrder(x, Range(p))
      BY <2>4, <2>6, <3>1, <3>2, <3>3, <3>4 DEF InOrder, NoWipes
    <3> QED
      BY <3>4, <3>5
  <2> QED
    BY <2>3, <2>7 DEF Ordered
<1>6. CASE op = ResetSteps(FALSE)
  <2>1. /\ op \in Seq(Steps) /\ Len(op) = 8 /\ i \in 1 .. 8 /\ op[1] = "wipeSessions"
        /\ op[2] = "wipeContacts" /\ op[3] = "dropPrekeys" /\ op[4] = "dropAccount"
        /\ op[5] = "flag" /\ op[6] = "dropLock" /\ op[7] = "tell"
        /\ op[8] = "enrollAgain"
    BY <1>6, PlainResetSteps
  <2>2. \A j, k \in 1 .. 8 : op[j] = op[k] => j = k
    BY <2>1
  <2>3. /\ p # <<>> /\ Head(p) = op[i] /\ IsPlan(Tail(p))
        /\ Range(Tail(p)) = Range(p) \ {Head(p)} /\ Head(p) \in Range(p)
        /\ \A k \in 1 .. 8 : op[k] \in Range(p) <=> i <= k
        /\ \A x \in Range(p) : \E k \in 1 .. 8 : x = op[k]
    BY <1>1, <2>1, <2>2
  <2>4. /\ ("enrollAgain" \in Range(p) <=> i <= 8)
        /\ ("wipeSessions" \in Range(p) <=> i <= 1)
        /\ ("wipeContacts" \in Range(p) <=> i <= 2)
        /\ ("dropPrekeys" \in Range(p) <=> i <= 3)
        /\ ("dropAccount" \in Range(p) <=> i <= 4)
        /\ ("dropLock" \in Range(p) <=> i <= 6) /\ ("tell" \in Range(p) <=> i <= 7)
    BY <2>1, <2>3
  <2>5. \A k \in 1 .. 8 : op[k] \in {"wipeSessions", "wipeContacts", "dropPrekeys",
                                     "dropAccount", "flag", "dropLock", "tell", "enrollAgain"}
    BY <2>1
  <2>6. /\ (op[i] = "wipeSessions" <=> i = 1) /\ (op[i] = "wipeContacts" <=> i = 2)
        /\ (op[i] = "dropPrekeys" <=> i = 3) /\ (op[i] = "dropAccount" <=> i = 4)
        /\ (op[i] = "flag" <=> i = 5) /\ (op[i] = "dropLock" <=> i = 6)
        /\ (op[i] = "tell" <=> i = 7) /\ (op[i] = "enrollAgain" <=> i = 8)
    BY <2>1, <2>2
  <2>7. InOrder(op[i], Range(p))
    <3>1. Range(p) \subseteq {"wipeSessions", "wipeContacts", "dropPrekeys", "dropAccount",
                              "flag", "dropLock", "tell", "enrollAgain"}
      BY <2>3, <2>5
    <3>2. op[i] \in {"wipeSessions", "wipeContacts", "dropPrekeys", "dropAccount", "flag",
                     "dropLock", "tell", "enrollAgain"}
      BY <2>1, <2>5
    <3>3. op[i] \in Range(p) /\ i \in 1 .. 8
      BY <2>1, <2>3
    <3>4. PICK x : x = op[i]
      OBVIOUS
    <3>5. InOrder(x, Range(p))
      BY <2>4, <2>6, <3>1, <3>2, <3>3, <3>4 DEF InOrder, NoWipes
    <3> QED
      BY <3>4, <3>5
  <2> QED
    BY <2>3, <2>7 DEF Ordered
<1> QED
  BY <1>2, <1>3, <1>4, <1>5, <1>6 DEF Ops

\* What is left of any plan, and of those that are new.
LEMMA OpsHaveSteps ==
  ASSUME NEW op \in Ops
  PROVE  op \in Seq(Steps) /\ Len(op) \in Nat /\ Len(op) > 0
<1>1. CASE op = StageSteps("backup")
  <2>1. op \in Seq(Steps) /\ Len(op) = 9
    BY <1>1, BackupSteps, Zenon
  <2> QED
    BY <2>1
<1>2. CASE op = StageSteps("move")
  <2>1. op \in Seq(Steps) /\ Len(op) = 10
    BY <1>2, MoveSteps, Zenon
  <2> QED
    BY <2>1
<1>3. CASE op = ResetSteps(TRUE)
  <2>1. op \in Seq(Steps) /\ Len(op) = 9
    BY <1>3, LinkedResetSteps, Zenon
  <2> QED
    BY <2>1
<1>4. CASE op = ResetSteps(FALSE)
  <2>1. op \in Seq(Steps) /\ Len(op) = 8
    BY <1>4, PlainResetSteps, Zenon
  <2> QED
    BY <2>1
<1>5. CASE op = EraseSteps
  <2>1. op \in Seq(Steps) /\ Len(op) = 10
    BY <1>5, ErasureSteps, Zenon
  <2> QED
    BY <2>1
<1> QED
  BY <1>1, <1>2, <1>3, <1>4, <1>5 DEF Ops

LEMMA PlanIsOrdered ==
  ASSUME NEW p, IsPlan(p), p # <<>>
  PROVE  Ordered(p)
<1>1. PICK op \in Ops : \E i \in 1 .. Len(op) + 1 : p = SubSeq(op, i, Len(op))
  BY DEF IsPlan
<1>2. PICK i \in 1 .. Len(op) + 1 : p = SubSeq(op, i, Len(op))
  BY <1>1
<1>3. op \in Seq(Steps) /\ Len(op) \in Nat
  BY OpsHaveSteps
<1>4. i # Len(op) + 1
  BY <1>2, <1>3, SubSeqEmpty
<1>5. i \in 1 .. Len(op)
  BY <1>3, <1>4
<1> QED
  BY <1>2, <1>5, SuffixOrdered

LEMMA WholePlan ==
  ASSUME NEW op \in Ops
  PROVE  /\ op \in Seq(Steps) /\ op # <<>> /\ IsPlan(op)
         /\ \A x : x \in Range(op) <=> \E k \in 1 .. Len(op) : op[k] = x
<1>1. op \in Seq(Steps) /\ Len(op) \in Nat /\ Len(op) > 0
  BY OpsHaveSteps
<1>2. op = SubSeq(op, 1, Len(op)) /\ 1 \in 1 .. Len(op) + 1
  BY <1>1, SubSeqFull
<1>3. \A x : x \in Range(op) <=> \E k \in 1 .. Len(op) : op[k] = x
  <2>1. DOMAIN op = 1 .. Len(op)
    BY <1>1
  <2> QED
    BY <2>1, Zenon DEF Range
<1> QED
  BY <1>1, <1>2, <1>3 DEF IsPlan

\* What a new stage has to do.
LEMMA WholeStage ==
  ASSUME NEW kind \in {"backup", "move"}, NEW p, p = StageSteps(kind)
  PROVE  /\ p \in Seq(Steps) /\ p # <<>> /\ IsPlan(p)
         /\ {"dropIdentity", "wipeSessions", "dropPrekeys", "dropAccount", "putContacts", "mark"}
              \subseteq Range(p)
         /\ "dropLock" \notin Range(p) /\ "unmark" \notin Range(p) /\ "tell" \notin Range(p)
         /\ "leave" \notin Range(p) /\ "enrollAgain" \notin Range(p)
<1>1. CASE kind = "backup"
  <2>1. p = StageSteps("backup")
    BY <1>1
  <2>2. /\ p \in Ops /\ Len(p) = 9
        /\ p[1] = "dropIdentity" /\ p[2] = "wipeSessions" /\ p[3] = "dropPrekeys"
        /\ p[4] = "dropAccount" /\ p[5] = "flag" /\ p[6] = "putContacts"
        /\ p[7] = "putIdentity" /\ p[8] = "mark" /\ p[9] = "reload"
    BY <2>1, BackupSteps DEF Ops
  <2>3. \A x : x \in Range(p) <=> \E k \in 1 .. 9 : p[k] = x
    BY <2>2, WholePlan
  <2>4. p \in Seq(Steps) /\ p # <<>> /\ IsPlan(p)
    BY <2>2, WholePlan
  <2>5. \A k \in 1 .. 9 : p[k] \in {"dropIdentity", "wipeSessions", "dropPrekeys", "dropAccount",
                                    "flag", "putContacts", "putIdentity", "mark",
                                    "reload"} /\ p[k] \in Range(p)
    BY <2>2, <2>3
  <2>6. {"dropIdentity", "wipeSessions", "dropPrekeys", "dropAccount", "flag", "putContacts",
         "putIdentity", "mark", "reload"} \subseteq Range(p)
    BY <2>2, <2>5
  <2>7. Range(p) \subseteq {"dropIdentity", "wipeSessions", "dropPrekeys", "dropAccount", "flag",
                            "putContacts", "putIdentity", "mark", "reload"}
    BY <2>3, <2>5
  <2> QED
    BY <2>4, <2>6, <2>7
<1>2. CASE kind = "move"
  <2>1. p = StageSteps("move")
    BY <1>2
  <2>2. /\ p \in Ops /\ Len(p) = 10
        /\ p[1] = "dropIdentity" /\ p[2] = "wipeSessions" /\ p[3] = "dropPrekeys"
        /\ p[4] = "dropAccount" /\ p[5] = "flag" /\ p[6] = "putContacts"
        /\ p[7] = "putHistory" /\ p[8] = "putIdentity" /\ p[9] = "mark"
        /\ p[10] = "reload"
    BY <2>1, MoveSteps DEF Ops
  <2>3. \A x : x \in Range(p) <=> \E k \in 1 .. 10 : p[k] = x
    BY <2>2, WholePlan
  <2>4. p \in Seq(Steps) /\ p # <<>> /\ IsPlan(p)
    BY <2>2, WholePlan
  <2>5. \A k \in 1 .. 10 : p[k] \in {"dropIdentity", "wipeSessions", "dropPrekeys",
                                     "dropAccount", "flag", "putContacts", "putHistory",
                                     "putIdentity", "mark", "reload"} /\ p[k] \in Range(p)
    BY <2>2, <2>3
  <2>6. {"dropIdentity", "wipeSessions", "dropPrekeys", "dropAccount", "flag", "putContacts",
         "putHistory", "putIdentity", "mark", "reload"} \subseteq Range(p)
    BY <2>2, <2>5
  <2>7. Range(p) \subseteq {"dropIdentity", "wipeSessions", "dropPrekeys", "dropAccount", "flag",
                            "putContacts", "putHistory", "putIdentity", "mark", "reload"}
    BY <2>3, <2>5
  <2> QED
    BY <2>4, <2>6, <2>7
<1> QED
  BY <1>1, <1>2

\* What a new reset has to do.
LEMMA WholeReset ==
  ASSUME NEW linked \in BOOLEAN, NEW p, p = ResetSteps(linked)
  PROVE  /\ p \in Seq(Steps) /\ p # <<>> /\ IsPlan(p)
         /\ {"wipeSessions", "wipeContacts", "dropPrekeys", "dropAccount", "dropLock", "tell"}
              \subseteq Range(p)
         /\ "mark" \notin Range(p) /\ "putIdentity" \notin Range(p)
         /\ "unmark" \in Range(p) => "dropIdentity" \in Range(p)
<1>1. CASE linked = TRUE
  <2>1. p = ResetSteps(TRUE)
    BY <1>1
  <2>2. /\ p \in Ops /\ Len(p) = 9
        /\ p[1] = "wipeSessions" /\ p[2] = "wipeContacts" /\ p[3] = "dropPrekeys"
        /\ p[4] = "dropAccount" /\ p[5] = "dropIdentity" /\ p[6] = "unmark"
        /\ p[7] = "dropLock" /\ p[8] = "tell" /\ p[9] = "leave"
    BY <2>1, LinkedResetSteps DEF Ops
  <2>3. \A x : x \in Range(p) <=> \E k \in 1 .. 9 : p[k] = x
    BY <2>2, WholePlan
  <2>4. p \in Seq(Steps) /\ p # <<>> /\ IsPlan(p)
    BY <2>2, WholePlan
  <2>5. \A k \in 1 .. 9 : p[k] \in {"wipeSessions", "wipeContacts", "dropPrekeys", "dropAccount",
                                    "dropIdentity", "unmark", "dropLock", "tell",
                                    "leave"} /\ p[k] \in Range(p)
    BY <2>2, <2>3
  <2>6. {"wipeSessions", "wipeContacts", "dropPrekeys", "dropAccount", "dropIdentity", "unmark",
         "dropLock", "tell", "leave"} \subseteq Range(p)
    BY <2>2, <2>5
  <2>7. Range(p) \subseteq {"wipeSessions", "wipeContacts", "dropPrekeys", "dropAccount",
                            "dropIdentity", "unmark", "dropLock", "tell", "leave"}
    BY <2>3, <2>5
  <2> QED
    BY <2>4, <2>6, <2>7
<1>2. CASE linked = FALSE
  <2>1. p = ResetSteps(FALSE)
    BY <1>2
  <2>2. /\ p \in Ops /\ Len(p) = 8
        /\ p[1] = "wipeSessions" /\ p[2] = "wipeContacts" /\ p[3] = "dropPrekeys"
        /\ p[4] = "dropAccount" /\ p[5] = "flag" /\ p[6] = "dropLock" /\ p[7] = "tell"
        /\ p[8] = "enrollAgain"
    BY <2>1, PlainResetSteps DEF Ops
  <2>3. \A x : x \in Range(p) <=> \E k \in 1 .. 8 : p[k] = x
    BY <2>2, WholePlan
  <2>4. p \in Seq(Steps) /\ p # <<>> /\ IsPlan(p)
    BY <2>2, WholePlan
  <2>5. \A k \in 1 .. 8 : p[k] \in {"wipeSessions", "wipeContacts", "dropPrekeys", "dropAccount",
                                    "flag", "dropLock", "tell",
                                    "enrollAgain"} /\ p[k] \in Range(p)
    BY <2>2, <2>3
  <2>6. {"wipeSessions", "wipeContacts", "dropPrekeys", "dropAccount", "flag", "dropLock",
         "tell", "enrollAgain"} \subseteq Range(p)
    BY <2>2, <2>5
  <2>7. Range(p) \subseteq {"wipeSessions", "wipeContacts", "dropPrekeys", "dropAccount", "flag",
                            "dropLock", "tell", "enrollAgain"}
    BY <2>3, <2>5
  <2> QED
    BY <2>4, <2>6, <2>7
<1> QED
  BY <1>1, <1>2

\* What a new erasure has to do.
LEMMA WholeErasure ==
  ASSUME NEW p, p = EraseSteps
  PROVE  /\ p \in Seq(Steps) /\ p # <<>> /\ IsPlan(p)
         /\ {"wipeSessions", "wipeContacts", "dropPrekeys", "dropAccount", "dropLock", "tell",
             "dropIdentity", "unmark"} \subseteq Range(p)
         /\ "mark" \notin Range(p) /\ "putIdentity" \notin Range(p)
<1>1. CASE TRUE
  <2>1. p = EraseSteps
    BY <1>1
  <2>2. /\ p \in Ops /\ Len(p) = 10
        /\ p[1] = "tell" /\ p[2] = "wipeSessions" /\ p[3] = "wipeContacts"
        /\ p[4] = "dropPrekeys" /\ p[5] = "unflag" /\ p[6] = "dropIdentity"
        /\ p[7] = "dropAccount" /\ p[8] = "dropLock" /\ p[9] = "unmark"
        /\ p[10] = "reload"
    BY <2>1, ErasureSteps DEF Ops
  <2>3. \A x : x \in Range(p) <=> \E k \in 1 .. 10 : p[k] = x
    BY SMTT(60), <2>2, WholePlan
  <2>4. p \in Seq(Steps) /\ p # <<>> /\ IsPlan(p)
    BY <2>2, WholePlan
  <2>5. \A k \in 1 .. 10 : p[k] \in {"tell", "wipeSessions", "wipeContacts", "dropPrekeys",
                                     "unflag", "dropIdentity", "dropAccount", "dropLock",
                                     "unmark", "reload"} /\ p[k] \in Range(p)
    BY <2>2, <2>3
  <2>6. {"tell", "wipeSessions", "wipeContacts", "dropPrekeys", "unflag", "dropIdentity",
         "dropAccount", "dropLock", "unmark", "reload"} \subseteq Range(p)
    BY <2>2, <2>5
  <2>7. Range(p) \subseteq {"tell", "wipeSessions", "wipeContacts", "dropPrekeys", "unflag",
                            "dropIdentity", "dropAccount", "dropLock", "unmark", "reload"}
    BY <2>3, <2>5
  <2> QED
    BY <2>4, <2>6, <2>7
<1> QED
  BY <1>1

LEMMA ContainsLeft ==
  ASSUME NEW p \in Seq(Steps), NEW x
  PROVE  Contains(p, x) <=> x \in Range(p)
<1>1. DOMAIN p = 1 .. Len(p)
  OBVIOUS
<1> QED
  BY <1>1, Zenon DEF Contains, Range

-----------------------------------------------------------------------------
(* Types.                                                                  *)

DiskTyped ==
  /\ identity \in Identity /\ sentinel \in BOOLEAN /\ pending \in BOOLEAN /\ confirmed \in BOOLEAN
  /\ unmarked \in BOOLEAN /\ strays \in BOOLEAN
  /\ wraps \in [pass : 0 .. MaxLdks, bio : 0 .. MaxLdks]
  /\ sealed \in [Store -> SUBSET Sealed]
  /\ registered \subseteq Identity /\ held \subseteq registered /\ told \subseteq Tab
Counted ==
  /\ ldks \in 0 .. MaxLdks /\ generated \in 0 .. MaxIdentities
  /\ identity <= InFile + generated
TabsTyped == \A t \in Tab : IsPlan(tab[t].todo) /\ tab[t].id <= InFile + generated
OneStage ==
  \A t, u \in Tab : "putIdentity" \in Left(t) /\ "putIdentity" \in Left(u) => t = u
VaultTyped == DiskTyped /\ Counted /\ tab \in [Tab -> Tabs] /\ TabsTyped /\ OneStage

\* The invariant: all of it while no two tabs were at work at once.
VaultInv == VaultTyped /\ Served /\ (~strays => Ordinary)

LEMMA Bounds ==
  /\ MaxLdks \in Nat /\ MaxIdentities \in Nat /\ InFile \in Identity /\ InFile = 1
  /\ 0 \in Identity /\ 0 \in 0 .. MaxLdks /\ NoWraps \in [pass : 0 .. MaxLdks, bio : 0 .. MaxLdks]
BY VaultAssumption DEF InFile, Identity, NoWraps

LEMMA ClosedTyped ==
  /\ ClosedTab \in Tabs /\ IsPlan(ClosedTab.todo) /\ Range(ClosedTab.todo) = {}
  /\ ClosedTab.id = 0 /\ ClosedTab.ldk = 0 /\ ClosedTab.todo = <<>> /\ ClosedTab.phase = "closed"
BY EmptyPlan, Bounds DEF ClosedTab, Tabs, Phase

LEMMA TypedImplies == VaultTyped => VaultTypeOK
<1> SUFFICES ASSUME VaultTyped PROVE VaultTypeOK
  OBVIOUS
<1>1. \A t \in Tab : /\ tab[t].phase \in Phase /\ tab[t].ldk \in 0 .. MaxLdks
                     /\ tab[t].id \in Identity /\ tab[t].file \in {"none", "backup", "move"}
                     /\ tab[t].todo \in Seq(Steps)
  BY DEF VaultTyped, Tabs
<1>2. \A t \in Tab : Range(tab[t].todo) \subseteq Steps
  BY <1>1, RangeOfSeq
<1>3. \A t, u \in Tab : Contains(tab[t].todo, "putIdentity")
                           /\ Contains(tab[u].todo, "putIdentity") => t = u
  BY <1>1, ContainsLeft DEF VaultTyped, OneStage, Left
<1>4. {sentinel, pending, confirmed, unmarked, strays} \subseteq BOOLEAN
  BY DEF VaultTyped, DiskTyped
<1> QED
  BY <1>1, <1>2, <1>3, <1>4 DEF VaultTyped, DiskTyped, VaultTypeOK

\* What a step of an operation does to the tab that takes it.
LEMMA StepMeans ==
  ASSUME VaultTyped, NEW t \in Tab, NEW s, Doing(t, s)
  PROVE  /\ tab[t].todo # <<>> /\ Tail(tab[t].todo) \in Seq(Steps) /\ IsPlan(Tail(tab[t].todo))
         /\ Range(Tail(tab[t].todo)) = Left(t) \ {s}
         /\ InOrder(s, Left(t))
<1>1. tab[t].todo \in Seq(Steps) /\ IsPlan(tab[t].todo) /\ tab[t].todo # <<>>
  BY DEF VaultTyped, Tabs, TabsTyped, Doing
<1>2. Tail(tab[t].todo) \in Seq(Steps)
  BY <1>1
<1>3. Ordered(tab[t].todo) /\ Head(tab[t].todo) = s
  BY <1>1, PlanIsOrdered DEF Doing
<1> QED
  BY <1>1, <1>2, <1>3 DEF Ordered, Left

\* Whatever a tab becomes, if the rest stays of its type.
LEMMA TabReplaced ==
  ASSUME VaultTyped, NEW t \in Tab, NEW r \in Tabs, tab' = [tab EXCEPT ![t] = r],
         IsPlan(r.todo), r.id <= InFile + generated', generated <= generated', generated' \in Nat,
         \/ "putIdentity" \notin Range(r.todo)
         \/ "putIdentity" \in Left(t)
         \/ IdentityFree
  PROVE  /\ tab' \in [Tab -> Tabs] /\ TabsTyped' /\ OneStage'
         /\ Left(t)' = Range(r.todo) /\ \A u \in Tab \ {t} : Left(u)' = Left(u)
<1>1. /\ tab' \in [Tab -> Tabs] /\ tab'[t] = r
      /\ \A u \in Tab \ {t} : tab'[u] = tab[u]
  BY DEF VaultTyped
<1>2. /\ Left(t)' = Range(r.todo) /\ \A u \in Tab \ {t} : Left(u)' = Left(u)
  BY <1>1 DEF Left
<1>3. TabsTyped'
  <2>1. \A u \in Tab : tab[u].id \in Nat /\ InFile + generated \in Nat
    BY Bounds DEF VaultTyped, Tabs, Identity, Counted
  <2>2. \A u \in Tab \ {t} : tab[u].id <= InFile + generated'
    BY <2>1, Bounds DEF VaultTyped, TabsTyped, Counted
  <2> QED
    BY <1>1, <2>2 DEF VaultTyped, TabsTyped
<1>4. IdentityFree => \A u \in Tab : "putIdentity" \notin Left(u)
  BY ContainsLeft DEF VaultTyped, Tabs, IdentityFree, Left
<1>5. OneStage'
  BY <1>2, <1>4 DEF OneStage, VaultTyped
<1> QED
  BY <1>1, <1>2, <1>3, <1>5

-----------------------------------------------------------------------------
(* The steps of an operation keep the types. *)

\* A step that leaves the tab its key.
LEMMA DoneMeans ==
  ASSUME VaultTyped, NEW t \in Tab, NEW s, Doing(t, s), Done(t), UNCHANGED generated
  PROVE  /\ tab' \in [Tab -> Tabs] /\ TabsTyped' /\ OneStage'
         /\ tab[t].todo # <<>> /\ InOrder(s, Left(t)) /\ Left(t)' = Left(t) \ {s}
         /\ \A u \in Tab \ {t} : Left(u)' = Left(u) /\ tab'[u] = tab[u]
         /\ tab'[t] = [tab[t] EXCEPT !.todo = Tail(tab[t].todo)]
<1>1. PICK r : r = [tab[t] EXCEPT !.todo = Tail(tab[t].todo)]
  OBVIOUS
<1>2. /\ tab[t].todo # <<>> /\ Tail(tab[t].todo) \in Seq(Steps) /\ IsPlan(Tail(tab[t].todo))
      /\ Range(Tail(tab[t].todo)) = Left(t) \ {s}
      /\ InOrder(s, Left(t))
  BY StepMeans
<1>3. tab[t] \in Tabs /\ tab[t].id <= InFile + generated /\ generated \in Nat
  BY DEF VaultTyped, TabsTyped, Counted
<1>4. r \in Tabs /\ r.todo = Tail(tab[t].todo) /\ r.id = tab[t].id
  BY <1>1, <1>2, <1>3 DEF Tabs
<1>5. tab' = [tab EXCEPT ![t] = r] /\ tab'[t] = r /\ \A u \in Tab \ {t} : tab'[u] = tab[u]
  BY <1>1 DEF Done, VaultTyped
<1>6. "putIdentity" \notin Range(r.todo) \/ "putIdentity" \in Left(t)
  BY <1>2, <1>4
<1>7. generated <= generated' /\ generated' \in Nat /\ r.id <= InFile + generated'
  BY <1>3, <1>4
<1>8. /\ tab' \in [Tab -> Tabs] /\ TabsTyped' /\ OneStage'
      /\ Left(t)' = Range(r.todo) /\ \A u \in Tab \ {t} : Left(u)' = Left(u)
  BY <1>2, <1>4, <1>5, <1>6, <1>7, TabReplaced
<1> QED
  BY <1>1, <1>2, <1>4, <1>5, <1>8

\* The steps of an operation keep the types.
LEMMA SteppingTyped ==
  ASSUME VaultTyped, NEW t \in Tab, Stepping(t)
  PROVE  VaultTyped'
<1> USE DEF VaultTyped, DiskTyped, Counted
<1>1. ASSUME NEW s, NEW store \in Store, Wipe(t, s, store)
      PROVE  VaultTyped'
  <2>1. tab' \in [Tab -> Tabs] /\ TabsTyped' /\ OneStage'
    BY <1>1, DoneMeans DEF Wipe, vaultCounts
  <2> QED
    BY <1>1, <2>1 DEF Wipe, vaultCounts, vaultRelay
<1>2. CASE DropPrekeys(t)
  <2>1. tab' \in [Tab -> Tabs] /\ TabsTyped' /\ OneStage'
    BY <1>2, DoneMeans DEF DropPrekeys, vaultCounts
  <2> QED
    BY <1>2, <2>1 DEF DropPrekeys, vaultCounts
<1>3. ASSUME NEW s, NEW store \in Store, PutStaged(t, s, store)
      PROVE  VaultTyped'
  <2>1. tab' \in [Tab -> Tabs] /\ TabsTyped' /\ OneStage'
    BY <1>3, DoneMeans DEF PutStaged, vaultCounts
  <2>2. [ldk |-> tab[t].ldk, of |-> InFile] \in Sealed
    BY Bounds DEF Tabs, Sealed
  <2> QED
    BY <1>3, <2>1, <2>2 DEF PutStaged, vaultCounts, vaultRelay
<1>4. CASE WriteIdentity(t)
  <2>1. tab' \in [Tab -> Tabs] /\ TabsTyped' /\ OneStage'
    BY <1>4, DoneMeans DEF WriteIdentity, vaultCounts
  <2> QED
    BY <1>4, <2>1, Bounds DEF WriteIdentity, vaultCounts, vaultRelay
<1>5. CASE WriteMarks(t)
  <2>1. tab' \in [Tab -> Tabs] /\ TabsTyped' /\ OneStage'
    BY <1>5, DoneMeans DEF WriteMarks, vaultCounts
  <2> QED
    BY <1>5, <2>1 DEF WriteMarks, vaultCounts, vaultRelay
<1>6. CASE DropLock(t)
  <2>1. PICK r : r = [tab[t] EXCEPT !.todo = Tail(tab[t].todo), !.ldk = 0]
    OBVIOUS
  <2>2. /\ Tail(tab[t].todo) \in Seq(Steps) /\ IsPlan(Tail(tab[t].todo))
        /\ Range(Tail(tab[t].todo)) = Left(t) \ {"dropLock"}
    BY <1>6, StepMeans DEF DropLock
  <2>3. r \in Tabs /\ r.todo = Tail(tab[t].todo) /\ r.id <= InFile + generated
    BY <2>1, <2>2, Bounds DEF Tabs, TabsTyped
  <2>4. tab' = [tab EXCEPT ![t] = r]
    BY <1>6, <2>1 DEF DropLock
  <2>5. /\ generated <= generated' /\ generated' \in Nat /\ r.id <= InFile + generated'
        /\ IsPlan(r.todo)
        /\ "putIdentity" \notin Range(r.todo) \/ "putIdentity" \in Left(t)
    BY <1>6, <2>2, <2>3 DEF DropLock, vaultCounts
  <2>6. tab' \in [Tab -> Tabs] /\ TabsTyped' /\ OneStage'
    BY <2>3, <2>4, <2>5, TabReplaced
  <2> QED
    BY <1>6, <2>6, Bounds DEF DropLock, vaultCounts, vaultRelay
<1>7. CASE TellOthers(t)
  <2>1. tab' \in [Tab -> Tabs] /\ TabsTyped' /\ OneStage'
    BY <1>7, DoneMeans DEF TellOthers, vaultCounts
  <2>2. told' \subseteq Tab
    BY <1>7 DEF TellOthers, Tell
  <2> QED
    BY <1>7, <2>1, <2>2 DEF TellOthers, vaultCounts, vaultRelay, vaultDisk
<1>8. CASE Finish(t)
  <2>1. PICK r \in Tabs : /\ tab' = [tab EXCEPT ![t] = r] /\ r.todo = <<>>
                          /\ r.id <= InFile + generated
    <3>1. CASE tab' = [tab EXCEPT ![t] = ClosedTab]
      <4>1. ClosedTab.id <= InFile + generated
        BY ClosedTyped, Bounds
      <4> QED
        BY <3>1, <4>1, ClosedTyped
    <3>2. ASSUME NEW phase \in {"enroll", "left"},
                 tab' = [tab EXCEPT ![t].todo = <<>>, ![t].phase = phase, ![t].file = "none"]
          PROVE  \E r \in Tabs : /\ tab' = [tab EXCEPT ![t] = r] /\ r.todo = <<>>
                                 /\ r.id <= InFile + generated
      <4>1. PICK r : r = [tab[t] EXCEPT !.todo = <<>>, !.phase = phase, !.file = "none"]
        OBVIOUS
      <4>2. tab[t] \in Tabs /\ tab[t].id <= InFile + generated /\ <<>> \in Seq(Steps)
        BY DEF TabsTyped
      <4>3. r \in Tabs /\ r.todo = <<>> /\ r.id <= InFile + generated
        BY <4>1, <4>2 DEF Tabs, Phase
      <4>4. tab' = [tab EXCEPT ![t] = r]
        BY <3>2, <4>1
      <4> QED
        BY <4>3, <4>4
    <3> QED
      BY <1>8, <3>1, <3>2 DEF Finish
  <2>2. /\ generated <= generated' /\ generated' \in Nat /\ r.id <= InFile + generated'
        /\ IsPlan(r.todo) /\ "putIdentity" \notin Range(r.todo)
    BY <1>8, <2>1, EmptyPlan DEF Finish, vaultCounts
  <2>3. tab' \in [Tab -> Tabs] /\ TabsTyped' /\ OneStage'
    BY <2>1, <2>2, TabReplaced
  <2> QED
    BY <1>8, <2>3 DEF Finish, vaultCounts, vaultRelay, vaultDisk
<1> QED
  BY <1>1, <1>2, <1>3, <1>4, <1>5, <1>6, <1>7, <1>8
     DEF Stepping, WipeSessions, WipeContacts, DropAccount, PutContacts, PutHistory, Store

-----------------------------------------------------------------------------
(* What the other actions make of a tab. *)

\* A tab becomes r, and no other tab changes.
Becomes(t, r) ==
  /\ tab' = [tab EXCEPT ![t] = r]
  /\ r \in Tabs /\ IsPlan(r.todo) /\ r.id <= InFile + generated'
  /\ generated <= generated' /\ generated' \in 0 .. MaxIdentities
  /\ \/ "putIdentity" \notin Range(r.todo)
     \/ IdentityFree

LEMMA BecomesMeans ==
  ASSUME VaultTyped, NEW t \in Tab, NEW r, Becomes(t, r)
  PROVE  /\ tab' \in [Tab -> Tabs] /\ TabsTyped' /\ OneStage'
         /\ tab'[t] = r /\ Left(t)' = Range(r.todo)
         /\ \A u \in Tab \ {t} : Left(u)' = Left(u) /\ tab'[u] = tab[u]
<1>1. generated' \in Nat
  BY Bounds DEF Becomes
<1>2. /\ tab' \in [Tab -> Tabs] /\ TabsTyped' /\ OneStage'
      /\ Left(t)' = Range(r.todo) /\ \A u \in Tab \ {t} : Left(u)' = Left(u)
  BY <1>1, TabReplaced DEF Becomes
<1>3. tab'[t] = r /\ \A u \in Tab \ {t} : tab'[u] = tab[u]
  BY DEF Becomes, VaultTyped
<1> QED
  BY <1>2, <1>3

LEMMA TabFacts ==
  ASSUME VaultTyped, NEW t \in Tab
  PROVE  /\ tab[t] \in Tabs /\ IsPlan(tab[t].todo) /\ tab[t].id <= InFile + generated
         /\ generated <= generated /\ generated \in 0 .. MaxIdentities /\ generated \in Nat
         /\ <<>> \in Seq(Steps) /\ Left(t) = Range(tab[t].todo)
         /\ tab[t].todo = <<>> => Left(t) = {}
<1>1. generated \in Nat
  BY Bounds DEF VaultTyped, Counted
<1> QED
  BY <1>1, EmptyPlan DEF VaultTyped, TabsTyped, Counted, Left

\* With the key in hand a page stages its file, or comes up.
LEMMA ProceedMeans ==
  ASSUME VaultTyped, NEW t \in Tab, NEW ldk \in 0 .. MaxLdks, tab[t].todo = <<>>, Proceed(t, ldk),
         UNCHANGED generated
  PROVE  \E r : /\ Becomes(t, r) /\ r.ldk = ldk /\ r.id = tab[t].id
                /\ \/ /\ r.phase = tab[t].phase /\ r.todo = StageSteps(tab[t].file)
                      /\ tab[t].file \in {"backup", "move"} /\ StageBegins(t)
                   \/ r.phase \in {"open", "error"} /\ r.todo = <<>> /\ UNCHANGED <<told,
                                   unmarked>>
<1> USE TabFacts
<1>1. CASE tab[t].file # "none"
  <2>1. PICK r : r = [tab[t] EXCEPT !.ldk = ldk, !.todo = StageSteps(tab[t].file)]
    OBVIOUS
  <2>2. tab' = [tab EXCEPT ![t] = r] /\ StageBegins(t)
    BY <1>1, <2>1 DEF Proceed
  <2>3. tab[t].file \in {"backup", "move"}
    BY <1>1 DEF Tabs
  <2>4. StageSteps(tab[t].file) \in Seq(Steps) /\ IsPlan(StageSteps(tab[t].file))
    BY <2>3, WholeStage
  <2>5. /\ r \in Tabs /\ r.todo = StageSteps(tab[t].file) /\ r.id = tab[t].id /\ r.ldk = ldk
        /\ r.phase = tab[t].phase
    BY <2>1, <2>4 DEF Tabs
  <2>6. Becomes(t, r)
    BY <2>2, <2>4, <2>5 DEF Becomes, StageBegins
  <2> QED
    BY <2>2, <2>3, <2>5, <2>6
<1>2. CASE tab[t].file = "none"
  <2>1. PICK phase \in {"open", "error"} :
           tab' = [tab EXCEPT ![t].ldk = ldk, ![t].shown = TRUE, ![t].phase = phase]
    BY <1>2 DEF Proceed
  <2>2. PICK r : r = [tab[t] EXCEPT !.ldk = ldk, !.shown = TRUE, !.phase = phase]
    OBVIOUS
  <2>3. tab' = [tab EXCEPT ![t] = r]
    BY <2>1, <2>2
  <2>4. /\ r \in Tabs /\ r.todo = <<>> /\ r.id = tab[t].id /\ r.ldk = ldk /\ r.phase = phase
    BY <2>2 DEF Tabs, Phase
  <2>5. Becomes(t, r)
    BY <2>3, <2>4, EmptyPlan DEF Becomes
  <2> QED
    BY <1>2, <2>4, <2>5 DEF Proceed
<1> QED
  BY <1>1, <1>2

LEMMA BootMeans ==
  ASSUME VaultTyped, NEW t \in Tab, Boot(t)
  PROVE  /\ DiskTyped' /\ Counted'
         /\ \/ identity # 0 /\ UNCHANGED identity /\ UNCHANGED generated /\ sentinel' = TRUE
            \/ identity = 0 /\ sentinel /\ UNCHANGED <<identity, generated, sentinel>>
            \/ /\ identity = 0 /\ ~sentinel /\ generated' = generated + 1
               /\ identity' = InFile + generated' /\ sentinel' = TRUE
         /\ \E r : /\ Becomes(t, r) /\ r.ldk = 0 /\ r.id = identity' /\ r.todo = <<>>
                   /\ \/ r.phase = "evicted"
                      \/ r.phase \in {"locked", "enroll"} /\ identity' # 0
<1>1. /\ \/ identity # 0 /\ UNCHANGED identity /\ UNCHANGED generated /\ sentinel' = TRUE
         \/ identity = 0 /\ sentinel /\ UNCHANGED <<identity, generated, sentinel>>
         \/ /\ identity = 0 /\ ~sentinel /\ generated < MaxIdentities /\ generated' = generated + 1
            /\ identity' = InFile + generated' /\ sentinel' = TRUE
  BY DEF Boot, Bootstrap
<1>2. identity' \in Identity /\ Counted' /\ generated <= generated' /\ sentinel' \in BOOLEAN
  <2>1. /\ MaxIdentities \in Nat /\ generated \in 0 .. MaxIdentities /\ ldks' \in 0 .. MaxLdks
        /\ identity \in 0 .. 1 + MaxIdentities /\ identity <= 1 + generated /\ sentinel \in BOOLEAN
    BY Bounds DEF VaultTyped, DiskTyped, Counted, Identity, Boot
  <2>2. sentinel' \in BOOLEAN
    BY <1>1, <2>1, Zenon
  <2>3. identity' \in 0 .. 1 + MaxIdentities /\ identity' <= 1 + generated'
        /\ generated' \in 0 .. MaxIdentities /\ generated <= generated'
    <3>1. CASE UNCHANGED <<identity, generated>>
      BY <2>1, <3>1
    <3>2. CASE generated < MaxIdentities /\ generated' = generated + 1 /\ identity' = InFile + generated'
      BY <2>1, <3>2, Bounds
    <3> QED
      BY <1>1, <3>1, <3>2
  <2> QED
    BY <2>1, <2>2, <2>3, Bounds DEF Counted, Identity
<1>3. DiskTyped'
  BY <1>2, Zenon DEF Boot, VaultTyped, DiskTyped, vaultRelay, Crossing
<1>4. PICK phase : /\ phase \in {"evicted", "locked", "enroll"}
                   /\ phase = "evicted" \/ identity' # 0
                   /\ tab' = [tab EXCEPT ![t] = [ClosedTab EXCEPT !.id = identity', !.phase = phase]]
  BY DEF Boot
<1>5. PICK r : r = [ClosedTab EXCEPT !.id = identity', !.phase = phase]
  OBVIOUS
<1>6. r \in Tabs /\ r.todo = <<>> /\ r.id = identity' /\ r.ldk = 0 /\ r.phase = phase
  BY <1>2, <1>4, <1>5, ClosedTyped DEF Tabs, Phase
<1>7. Becomes(t, r)
  BY <1>2, <1>4, <1>5, <1>6, EmptyPlan DEF Becomes, Counted
<1> QED
  BY <1>1, <1>2, <1>3, <1>4, <1>6, <1>7

LEMMA OpenFileMeans ==
  ASSUME VaultTyped, NEW t \in Tab, NEW kind \in {"backup", "move"}, OpenFile(t, kind)
  PROVE  /\ tab[t].todo = <<>>
         /\ \E r : /\ Becomes(t, r) /\ r.ldk = tab[t].ldk /\ r.id = InFile
                   /\ \/ /\ r.phase = "locked" /\ r.todo = StageSteps(kind) /\ tab[t].ldk # 0
                         /\ StageBegins(t)
                      \/ /\ r.phase \in {"locked", "enroll"} /\ r.todo = <<>> /\ tab[t].ldk = 0
                         /\ UNCHANGED <<told, unmarked>>
<1> USE TabFacts
<1>0. InFile <= InFile + generated /\ UNCHANGED generated
  BY Bounds DEF OpenFile
<1>1. CASE tab[t].ldk # 0
  <2>1. PICK r : r = [tab[t] EXCEPT !.id = InFile, !.file = kind, !.phase = "locked",
                                    !.todo = StageSteps(kind)]
    OBVIOUS
  <2>2. tab' = [tab EXCEPT ![t] = r] /\ StageBegins(t) /\ tab[t].todo = <<>>
    BY <1>1, <2>1 DEF OpenFile
  <2>3. StageSteps(kind) \in Seq(Steps) /\ IsPlan(StageSteps(kind))
    BY WholeStage
  <2>4. /\ r \in Tabs /\ r.todo = StageSteps(kind) /\ r.id = InFile /\ r.ldk = tab[t].ldk
        /\ r.phase = "locked"
    BY <2>1, <2>3, Bounds DEF Tabs, Phase
  <2>5. Becomes(t, r)
    BY <1>0, <2>2, <2>3, <2>4 DEF Becomes, StageBegins
  <2> QED
    BY <1>1, <2>2, <2>4, <2>5
<1>2. CASE tab[t].ldk = 0
  <2>1. PICK phase \in {"locked", "enroll"} :
           tab' = [tab EXCEPT ![t].id = InFile, ![t].file = kind, ![t].phase = phase]
    BY <1>2 DEF OpenFile
  <2>2. PICK r : r = [tab[t] EXCEPT !.id = InFile, !.file = kind, !.phase = phase]
    OBVIOUS
  <2>3. tab' = [tab EXCEPT ![t] = r] /\ tab[t].todo = <<>> /\ UNCHANGED <<told, unmarked>>
    BY <1>2, <2>1, <2>2 DEF OpenFile
  <2>4. r \in Tabs /\ r.todo = <<>> /\ r.id = InFile /\ r.ldk = tab[t].ldk /\ r.phase = phase
    BY <2>2, <2>3, Bounds DEF Tabs, Phase
  <2>5. Becomes(t, r)
    BY <1>0, <2>3, <2>4, EmptyPlan DEF Becomes
  <2> QED
    BY <1>2, <2>3, <2>4, <2>5
<1> QED
  BY <1>1, <1>2

LEMMA ResetMeans ==
  ASSUME VaultTyped, NEW t \in Tab, ResetLock(t)
  PROVE  \E linked \in BOOLEAN : \E r :
           /\ Becomes(t, r) /\ r.id = tab[t].id /\ r.phase = "locked"
           /\ r.todo = ResetSteps(linked)
<1> USE TabFacts
<1>1. PICK linked \in BOOLEAN : tab' = [tab EXCEPT ![t].todo = ResetSteps(linked)]
  BY DEF ResetLock
<1>2. PICK r : r = [tab[t] EXCEPT !.todo = ResetSteps(linked)]
  OBVIOUS
<1>3. tab' = [tab EXCEPT ![t] = r]
  BY <1>1, <1>2
<1>4. PICK p : p = ResetSteps(linked)
  OBVIOUS
<1>5. p \in Seq(Steps) /\ IsPlan(p) /\ "putIdentity" \notin Range(p)
  BY <1>4, WholeReset
<1>6. r \in Tabs /\ r.todo = p /\ r.id = tab[t].id /\ r.phase = "locked"
  BY <1>2, <1>4, <1>5 DEF Tabs, Phase, ResetLock
<1>7. Becomes(t, r)
  BY <1>3, <1>5, <1>6 DEF Becomes, ResetLock
<1> QED
  BY <1>4, <1>6, <1>7

LEMMA EraseMeans ==
  ASSUME VaultTyped, NEW t \in Tab, EraseThisDevice(t)
  PROVE  \E r : /\ Becomes(t, r) /\ r.id = tab[t].id /\ r.phase = "locked" /\ r.todo = EraseSteps
<1> USE TabFacts
<1>1. PICK r : r = [tab[t] EXCEPT !.todo = EraseSteps, !.phase = "locked"]
  OBVIOUS
<1>2. tab' = [tab EXCEPT ![t] = r]
  BY <1>1 DEF EraseThisDevice
<1>3. r \in Tabs /\ r.todo = EraseSteps /\ r.id = tab[t].id /\ r.phase = "locked"
  BY <1>1, WholeErasure DEF Tabs, Phase
<1>4. Becomes(t, r)
  BY <1>2, <1>3, WholeErasure DEF Becomes, EraseThisDevice
<1> QED
  BY <1>3, <1>4

\* A page that locks keeps no key.
LEMMA LocksMeans ==
  ASSUME VaultTyped, NEW t \in Tab, Live(t), tab' = Locked(t), UNCHANGED generated
  PROVE  \E r : /\ Becomes(t, r) /\ r.id = tab[t].id /\ r.ldk = 0 /\ r.phase = "locked"
                /\ r.todo = <<>>
<1> USE TabFacts
<1>1. PICK r : r = [tab[t] EXCEPT !.ldk = 0, !.phase = "locked"]
  OBVIOUS
<1>2. tab' = [tab EXCEPT ![t] = r] /\ tab[t].todo = <<>>
  BY <1>1 DEF Locked, Live
<1>3. r \in Tabs /\ r.todo = <<>> /\ r.id = tab[t].id /\ r.phase = "locked" /\ r.ldk = 0
  BY <1>1, <1>2, Bounds DEF Tabs, Phase
<1>4. Becomes(t, r)
  BY <1>2, <1>3, EmptyPlan DEF Becomes
<1> QED
  BY <1>3, <1>4

LEMMA CloseMeans ==
  ASSUME VaultTyped, NEW t \in Tab, Close(t)
  PROVE  Becomes(t, ClosedTab)
<1>1. tab' = [tab EXCEPT ![t] = ClosedTab] /\ UNCHANGED generated
  BY DEF Close
<1>2. ClosedTab.id <= InFile + generated' /\ generated \in 0 .. MaxIdentities /\ generated <= generated
  BY <1>1, TabFacts, ClosedTyped, Bounds
<1> QED
  BY <1>1, <1>2, ClosedTyped DEF Becomes

-----------------------------------------------------------------------------
(* Types, always. *)

LEMMA MineTyped ==
  ASSUME VaultTyped, NEW t \in Tab
  PROVE  Mine(t) \in Sealed
BY TabFacts DEF Mine, Sealed, Tabs

LEMMA SameTabs ==
  ASSUME VaultTyped, UNCHANGED <<tab, generated>>
  PROVE  tab' \in [Tab -> Tabs] /\ TabsTyped' /\ OneStage' /\ \A t \in Tab : Left(t)' = Left(t)
BY DEF VaultTyped, TabsTyped, OneStage, Left

\* Every step of the vault keeps the types.
LEMMA VaultTypedKept ==
  ASSUME VaultTyped, [VaultNext]_vaultVars
  PROVE  VaultTyped'
<1> USE DEF VaultTyped, DiskTyped, Counted
<1>1. CASE UNCHANGED vaultVars
  <2>1. tab' \in [Tab -> Tabs] /\ TabsTyped' /\ OneStage'
    BY <1>1, SameTabs DEF vaultVars, vaultCounts
  <2> QED
    BY <1>1, <2>1 DEF vaultVars, vaultCounts, vaultDisk, vaultRelay
<1>2. ASSUME NEW t \in Tab, Stepping(t)
      PROVE  VaultTyped'
  BY <1>2, SteppingTyped
<1>3. ASSUME NEW t \in Tab, Boot(t)
      PROVE  VaultTyped'
  BY <1>3, BootMeans, BecomesMeans
<1>4. ASSUME NEW t \in Tab, Enroll(t) \/ Unlock(t)
      PROVE  VaultTyped'
  <2>1. PICK ldk \in 0 .. MaxLdks : Proceed(t, ldk)
    <3>1. ldks' \in 0 .. MaxLdks \/ ~Enroll(t)
      BY <1>4, Bounds DEF Enroll
    <3>2. Unwrapped \subseteq 0 .. MaxLdks
      BY DEF Unwrapped
    <3> QED
      BY <1>4, <3>1, <3>2 DEF Enroll, Unlock
  <2>2. tab[t].todo = <<>> /\ UNCHANGED generated
    BY <1>4 DEF Enroll, Unlock, vaultCounts
  <2>3. /\ told' \subseteq Tab /\ unmarked' \in BOOLEAN
        /\ tab' \in [Tab -> Tabs] /\ TabsTyped' /\ OneStage'
    <3>1. PICK r : /\ Becomes(t, r)
                   /\ \/ StageBegins(t)
                      \/ UNCHANGED <<told, unmarked>>
      BY <2>1, <2>2, ProceedMeans
    <3> QED
      BY <3>1, BecomesMeans DEF StageBegins, Tell
  <2>4. wraps' \in [pass : 0 .. MaxLdks, bio : 0 .. MaxLdks] /\ ldks' \in 0 .. MaxLdks
    <3>1. CASE Enroll(t)
      <4>1. ldks' \in 0 .. MaxLdks /\ wraps' \in EnrolledWraps
        BY <3>1, Bounds DEF Enroll
      <4> QED
        BY <4>1, Bounds DEF EnrolledWraps
    <3>2. CASE Unlock(t)
      BY <3>2 DEF Unlock, vaultDisk, vaultCounts
    <3> QED
      BY <1>4, <3>1, <3>2
  <2> QED
    BY <1>4, <2>2, <2>3, <2>4 DEF Enroll, Unlock, vaultDisk, vaultRelay, vaultCounts, Crossing
<1>5. ASSUME NEW t \in Tab, LockNow(t) \/ HearReset(t)
      PROVE  VaultTyped'
  <2>1. tab' \in [Tab -> Tabs] /\ TabsTyped' /\ OneStage'
    <3>1. \/ Live(t) /\ tab' = Locked(t)
          \/ UNCHANGED tab
      BY <1>5 DEF LockNow, HearReset
    <3>2. UNCHANGED generated
      BY <1>5 DEF LockNow, HearReset, vaultCounts
    <3>3. CASE Live(t) /\ tab' = Locked(t)
      <4>1. PICK r : Becomes(t, r)
        BY <3>2, <3>3, LocksMeans
      <4> QED
        BY <4>1, BecomesMeans
    <3> QED
      BY <3>1, <3>2, <3>3, SameTabs
  <2> QED
    BY <1>5, <2>1 DEF LockNow, HearReset, vaultDisk, vaultRelay, vaultCounts
<1>6. ASSUME NEW t \in Tab, Rewrap(t)
      PROVE  VaultTyped'
  <2>1. tab' \in [Tab -> Tabs] /\ TabsTyped' /\ OneStage'
    BY <1>6, SameTabs DEF Rewrap, vaultCounts
  <2>2. tab[t].ldk \in 0 .. MaxLdks
    BY TabFacts DEF Tabs
  <2>3. wraps' \in [pass : 0 .. MaxLdks, bio : 0 .. MaxLdks]
    BY <1>6, <2>2, Bounds DEF Rewrap, Rewrapped
  <2> QED
    BY <1>6, <2>1, <2>3 DEF Rewrap, vaultRelay, vaultCounts, Stray, Crossing
<1>7. ASSUME NEW t \in Tab, NEW s \in Store, Save(t, s)
      PROVE  VaultTyped'
  <2>1. tab' \in [Tab -> Tabs] /\ TabsTyped' /\ OneStage'
    BY <1>7, SameTabs DEF Save, vaultCounts
  <2>2. sealed' \in [Store -> SUBSET Sealed]
    BY <1>7, MineTyped DEF Save
  <2> QED
    BY <1>7, <2>1, <2>2 DEF Save, vaultRelay, vaultCounts, Stray, Crossing
<1>8. ASSUME NEW t \in Tab, ClearMarkers(t) \/ CompleteRestore(t)
      PROVE  VaultTyped'
  <2>1. tab' \in [Tab -> Tabs] /\ TabsTyped' /\ OneStage'
    BY <1>8, SameTabs DEF ClearMarkers, CompleteRestore, vaultCounts
  <2> QED
    BY <1>8, <2>1 DEF ClearMarkers, CompleteRestore, vaultRelay, vaultCounts
<1>9. ASSUME NEW t \in Tab, Register(t)
      PROVE  VaultTyped'
  <2>1. tab' \in [Tab -> Tabs] /\ TabsTyped' /\ OneStage'
    BY <1>9, SameTabs DEF Register, vaultCounts
  <2>2. PICK heard \in BOOLEAN : Published(t, heard)
    BY <1>9 DEF Register
  <2>3. /\ sealed' \in [Store -> SUBSET Sealed] /\ confirmed' \in BOOLEAN
        /\ registered' \subseteq Identity /\ held' \subseteq registered'
    BY <2>2, MineTyped, TabFacts DEF Published, Tabs
  <2> QED
    BY <1>9, <2>1, <2>3 DEF Register, vaultCounts, Stray, Crossing
<1>10. ASSUME NEW t \in Tab, Link(t)
       PROVE  VaultTyped'
  <2>1. tab' \in [Tab -> Tabs] /\ TabsTyped' /\ OneStage'
    BY <1>10, SameTabs DEF Link
  <2>2. /\ sealed' \in [Store -> SUBSET Sealed] /\ confirmed' \in BOOLEAN
        /\ registered' \subseteq Identity /\ held' \subseteq registered'
    BY <1>10, MineTyped, TabFacts DEF Link, Tabs
  <2> QED
    BY <1>10, <2>1, <2>2 DEF Link, Stray, Crossing
<1>11. ASSUME NEW t \in Tab, NEW kind \in {"backup", "move"}, OpenFile(t, kind)
       PROVE  VaultTyped'
  <2>1. PICK r : /\ Becomes(t, r)
                 /\ \/ StageBegins(t)
                    \/ UNCHANGED <<told, unmarked>>
    BY <1>11, OpenFileMeans
  <2>2. /\ told' \subseteq Tab /\ unmarked' \in BOOLEAN
        /\ tab' \in [Tab -> Tabs] /\ TabsTyped' /\ OneStage'
    BY <2>1, BecomesMeans DEF StageBegins, Tell
  <2> QED
    BY <1>11, <2>2 DEF OpenFile, vaultDisk, vaultRelay, Crossing
<1>12. ASSUME NEW t \in Tab, ResetLock(t) \/ EraseThisDevice(t) \/ Close(t)
       PROVE  VaultTyped'
  <2>1. PICK r : Becomes(t, r)
    BY <1>12, ResetMeans, EraseMeans, CloseMeans
  <2>2. tab' \in [Tab -> Tabs] /\ TabsTyped' /\ OneStage'
    BY <2>1, BecomesMeans
  <2>3. strays' \in BOOLEAN
    BY <1>12, Zenon DEF ResetLock, EraseThisDevice, Close, Crossing
  <2> QED
    BY <1>12, <2>2, <2>3 DEF ResetLock, EraseThisDevice, Close, vaultDisk, vaultRelay
<1>13. CASE Evict
  <2>1. tab' \in [Tab -> Tabs] /\ TabsTyped' /\ OneStage'
    BY <1>13, SameTabs DEF Evict
  <2>2. sentinel' \in BOOLEAN
    BY <1>13 DEF Evict
  <2>3. sealed' \in [Store -> SUBSET Sealed] /\ wraps' \in [pass : 0 .. MaxLdks, bio : 0 .. MaxLdks]
    <3>1. wraps' = NoWraps /\ sealed' = [s \in Store |-> {}]
      BY <1>13 DEF Evict
    <3>2. sealed' \in [Store -> SUBSET Sealed]
      BY <3>1
    <3>3. wraps' \in [pass : 0 .. MaxLdks, bio : 0 .. MaxLdks]
      BY <3>1, Bounds
    <3> QED
      BY <3>2, <3>3
  <2>4. /\ registered' = registered /\ held' = {} /\ told' = told /\ identity' = 0
        /\ pending' \in BOOLEAN /\ confirmed' \in BOOLEAN /\ unmarked' = unmarked
        /\ strays' = strays /\ ldks' = ldks /\ generated' = generated
    BY <1>13 DEF Evict
  <2>5. DiskTyped'
    BY <2>2, <2>3, <2>4, Bounds
  <2>6. Counted'
    BY <2>4, Bounds
  <2> QED
    BY <2>1, <2>5, <2>6
<1> QED
  BY <1>1, <1>2, <1>3, <1>4, <1>5, <1>6, <1>7, <1>8, <1>9, <1>10, <1>11, <1>12, <1>13
     DEF VaultNext

LEMMA VaultTypedInitially == VaultInit => VaultTyped
<1> SUFFICES ASSUME VaultInit PROVE VaultTyped
  OBVIOUS
<1>1. tab = [t \in Tab |-> ClosedTab]
  BY DEF VaultInit
<1>2. /\ tab \in [Tab -> Tabs]
      /\ \A t \in Tab : tab[t].todo = <<>> /\ tab[t].id = 0 /\ IsPlan(tab[t].todo) /\ Left(t) = {}
  BY <1>1, ClosedTyped DEF Left
<1>3. TabsTyped /\ OneStage
  BY <1>2, Bounds DEF TabsTyped, OneStage, VaultInit
<1>4. sealed \in [Store -> SUBSET Sealed] /\ wraps \in [pass : 0 .. MaxLdks, bio : 0 .. MaxLdks]
  <2>1. wraps = NoWraps /\ sealed = [s \in Store |-> {}]
    BY DEF VaultInit
  <2>2. sealed \in [Store -> SUBSET Sealed]
    BY <2>1
  <2> QED
    BY <2>1, <2>2, Bounds
<1>5. /\ identity = 0 /\ sentinel = FALSE /\ pending = FALSE /\ registered = {InFile} /\ held = {}
      /\ confirmed = FALSE /\ told = {} /\ ldks = 0 /\ generated = 0 /\ unmarked = FALSE
      /\ strays = FALSE
  BY DEF VaultInit
<1>6. DiskTyped
  BY <1>4, <1>5, Bounds DEF DiskTyped
<1>7. Counted
  BY <1>5, Bounds DEF Counted
<1> QED
  BY <1>2, <1>3, <1>6, <1>7 DEF VaultTyped

LEMMA VaultTypedAlways == VaultSpec => []VaultTyped
BY VaultTypedInitially, VaultTypedKept, PTL DEF VaultSpec

\* What is on disk, at the relay and in the tabs is of its type, and at most one tab stages
\* a file (restore.ts stageRestore, under its lock).
THEOREM VaultTypesHold == VaultSpec => []VaultTypeOK
BY VaultTypedAlways, TypedImplies, PTL

-----------------------------------------------------------------------------
(* The steps of an operation keep the invariant. *)

\* While one tab is at work the others are not.
LEMMA OthersIdle ==
  ASSUME VaultTyped, AtWork, NEW t \in Tab, ~Idle(t)
  PROVE  \A u \in Tab \ {t} : Idle(u) /\ Left(u) = {}
<1>1. \A u \in Tab \ {t} : Idle(u)
  BY DEF AtWork
<1> QED
  BY <1>1, TabFacts DEF Idle

\* A step of an operation, among the tabs.
LEMMA StepFacts ==
  ASSUME VaultTyped, AtWork, NEW t \in Tab, NEW s, Doing(t, s), Done(t), UNCHANGED generated
  PROVE  /\ \A u \in Tab \ {t} : /\ Idle(u) /\ Left(u) = {} /\ Left(u)' = {} /\ tab'[u] = tab[u]
                                 /\ Idle(u)' /\ Live(u)' = Live(u)
         /\ ~Idle(t) /\ ~Live(t) /\ ~Live(t)'
         /\ s \in Left(t) /\ InOrder(s, Left(t)) /\ Left(t)' = Left(t) \ {s}
         /\ tab[t].phase \in {"enroll", "locked"} /\ tab'[t].phase = tab[t].phase
         /\ tab'[t].ldk = tab[t].ldk /\ tab'[t].id = tab[t].id
         /\ s \notin {"reload", "leave", "enrollAgain"} => ~Idle(t)'
<1>1. /\ tab[t].todo # <<>> /\ InOrder(s, Left(t)) /\ Left(t)' = Left(t) \ {s}
      /\ \A u \in Tab \ {t} : Left(u)' = Left(u) /\ tab'[u] = tab[u]
      /\ tab'[t] = [tab[t] EXCEPT !.todo = Tail(tab[t].todo)]
  BY DoneMeans
<1>2. ~Idle(t) /\ tab[t].phase \in {"enroll", "locked"}
  BY <1>1 DEF Idle, AtWork
<1>3. \A u \in Tab \ {t} : Idle(u) /\ Left(u) = {} /\ Left(u)' = {} /\ tab'[u] = tab[u]
  BY <1>1, <1>2, OthersIdle
<1>4. /\ tab'[t].phase = tab[t].phase /\ tab'[t].ldk = tab[t].ldk /\ tab'[t].id = tab[t].id
  BY <1>1, TabFacts DEF Tabs
<1>5. \A u \in Tab \ {t} : Idle(u)' /\ Live(u)' = Live(u)
  BY <1>3 DEF Idle, Live
<1>6. ~Live(t) /\ ~Live(t)'
  BY <1>2, <1>4 DEF Live
<1>7. ASSUME s \notin {"reload", "leave", "enrollAgain"}, Idle(t)'
      PROVE  FALSE
  <2>1. Left(t)' = {}
    BY <1>7, EmptyPlan DEF Idle, Left
  <2>2. {"reload", "leave", "enrollAgain"} \cap Left(t) # {}
    BY <1>1, <1>7 DEF InOrder
  <2> QED
    BY <1>1, <1>7, <2>1, <2>2
<1> QED
  BY <1>1, <1>2, <1>3, <1>4, <1>5, <1>6, <1>7 DEF InOrder

\* Of the tabs, only what is left to do changes.
LEMMA StepAtWork ==
  ASSUME VaultTyped, AtWork, NEW t \in Tab, NEW s, Doing(t, s), Done(t), UNCHANGED generated,
         s \notin {"reload", "leave", "enrollAgain", "dropLock"}
  PROVE  AtWork'
BY StepFacts DEF AtWork

LEMMA StepKeysHeld ==
  ASSUME VaultTyped, AtWork, KeysHeld, NEW t \in Tab, NEW s, Doing(t, s), Done(t),
         UNCHANGED <<generated, wraps, told>>, s \notin {"tell", "dropLock"}
  PROVE  KeysHeld'
BY StepFacts DEF KeysHeld, Configured

\* The steps that empty a store.
LEMMA WipeKeeps ==
  ASSUME VaultTyped, Ordinary, NEW t \in Tab, NEW s, NEW store \in Stores,
         Doing(t, s), Done(t), sealed' = [sealed EXCEPT ![store] = {}],
         UNCHANGED <<identity, sentinel, wraps, registered, told, generated, unmarked>>,
         \/ s = "wipeSessions" /\ store = "sessions"
         \/ s = "wipeContacts" /\ store = "contacts"
         \/ s = "dropPrekeys" /\ store = "prekeys"
         \/ s = "dropAccount" /\ store = "account"
  PROVE  Ordinary'
<1> USE DEF Ordinary
<1>0. /\ \A u \in Tab \ {t} : Left(u)' = {}
      /\ Left(t)' = Left(t) \ {s}
  BY StepFacts
<1>1. /\ sealed'[store] = {} /\ \A x \in Store : sealed'[x] \subseteq sealed[x]
      /\ {"sessions", "contacts", "prekeys", "account"} \subseteq Store /\ Stores \subseteq Store
  BY DEF VaultTyped, DiskTyped, Stores, Store
<1>2. AtWork' /\ KeysHeld'
  BY StepAtWork, StepKeysHeld
<1>3. Wiped'
  BY <1>0, <1>1 DEF Wiped, Configured
<1>4. Staged'
  BY <1>0, <1>1 DEF Staged
<1>5. UnderOneKey'
  BY <1>1 DEF UnderOneKey, Configured
<1>6. OfOneIdentity' /\ ServedAsOwn'
  BY <1>1 DEF OfOneIdentity, ServedAsOwn
<1> QED
  BY <1>2, <1>3, <1>4, <1>5, <1>6

\* The steps that write a store from the file.
LEMMA PutKeeps ==
  ASSUME VaultTyped, Ordinary, NEW t \in Tab, NEW s, NEW store,
         Doing(t, s), Done(t), sealed' = [sealed EXCEPT ![store] = {[ldk |-> tab[t].ldk, of |-> InFile]}],
         UNCHANGED <<identity, sentinel, wraps, registered, told, generated, unmarked>>,
         \/ s = "putContacts" /\ store = "contacts"
         \/ s = "putHistory" /\ store = "sessions"
  PROVE  Ordinary'
<1> USE DEF Ordinary
<1>0. /\ \A u \in Tab \ {t} : Left(u)' = {}
      /\ s \in Left(t) /\ InOrder(s, Left(t)) /\ Left(t)' = Left(t) \ {s}
  BY StepFacts
<1>1. /\ \A y \in sealed'[store] : y.ldk = tab[t].ldk /\ y.of = InFile
      /\ \A x \in Store \ {store} : sealed'[x] = sealed[x]
      /\ {"sessions", "contacts", "prekeys", "account"} \subseteq Store /\ Stores \subseteq Store
  BY DEF VaultTyped, DiskTyped, Stores, Store
<1>2. AtWork' /\ KeysHeld'
  BY StepAtWork, StepKeysHeld
<1>3. /\ "putIdentity" \in Left(t) /\ "mark" \in Left(t) /\ "dropIdentity" \notin Left(t)
      /\ "dropLock" \notin Left(t) /\ "unmark" \notin Left(t)
  BY <1>0 DEF InOrder
<1>4. identity = 0 /\ (sentinel \/ unmarked) /\ Configured /\ tab[t].ldk = wraps.pass
  BY <1>3 DEF Staged, KeysHeld
<1>5. Wiped'
  BY <1>0, <1>3 DEF Wiped
<1>6. Staged'
  BY <1>0, <1>1, <1>3, <1>4 DEF Staged
<1>7. UnderOneKey'
  BY <1>1, <1>4 DEF UnderOneKey, Configured
<1>8. OfOneIdentity' /\ ServedAsOwn'
  BY <1>1, <1>4 DEF OfOneIdentity, ServedAsOwn
<1> QED
  BY <1>2, <1>5, <1>6, <1>7, <1>8

LEMMA WriteIdentityKeeps ==
  ASSUME VaultTyped, Ordinary, NEW t \in Tab, WriteIdentity(t)
  PROVE  Ordinary'
<1> USE DEF Ordinary
<1>1. PICK s \in {"dropIdentity", "putIdentity"} :
         Doing(t, s) /\ identity' = IF s = "dropIdentity" THEN 0 ELSE InFile
  BY DEF WriteIdentity
<1>2. Done(t) /\ UNCHANGED <<sentinel, wraps, sealed, registered, told, generated, unmarked>>
  BY DEF WriteIdentity, vaultRelay, vaultCounts
<1>0. /\ \A u \in Tab \ {t} : Left(u)' = {}
      /\ s \in Left(t) /\ InOrder(s, Left(t)) /\ Left(t)' = Left(t) \ {s}
  BY <1>1, <1>2, StepFacts
<1>3. AtWork' /\ KeysHeld'
  BY <1>1, <1>2, StepAtWork, StepKeysHeld
<1>4. UnderOneKey'
  BY <1>2 DEF UnderOneKey, Configured
<1>5. CASE s = "dropIdentity"
  <2>1. identity' = 0
    BY <1>1, <1>5
  <2>2. Wiped' /\ Staged'
    BY <1>0, <1>2, <1>5, <2>1 DEF Wiped, Staged, Configured
  <2>3. OfOneIdentity' /\ ServedAsOwn'
    BY <1>2, <2>1 DEF OfOneIdentity, ServedAsOwn
  <2> QED
    BY <1>3, <1>4, <2>2, <2>3
<1>6. CASE s = "putIdentity"
  <2>1. identity' = InFile /\ InFile # 0
    BY <1>1, <1>6, Bounds
  <2>2. /\ NoWipes(Left(t)) /\ "dropIdentity" \notin Left(t) /\ "putContacts" \notin Left(t)
        /\ "putIdentity" \in Left(t) /\ "mark" \in Left(t)
        /\ "dropLock" \notin Left(t) /\ "unmark" \notin Left(t)
    BY <1>0, <1>6 DEF InOrder
  <2>3. Wiped' /\ Staged'
    BY <1>0, <1>6, <2>2 DEF Wiped, Staged
  <2>4. /\ \A x \in sealed["sessions"] : x.of = InFile
        /\ \A x \in sealed["contacts"] : x.of = InFile
        /\ sealed["prekeys"] = {} /\ sealed["account"] = {} /\ (sentinel \/ unmarked)
    BY <2>2 DEF Staged, NoWipes
  <2>5. OfOneIdentity' /\ ServedAsOwn'
    BY <1>2, <2>1, <2>4 DEF OfOneIdentity, ServedAsOwn, Stores, Store
  <2> QED
    BY <1>3, <1>4, <2>3, <2>5
<1> QED
  BY <1>1, <1>5, <1>6

LEMMA WriteMarksKeeps ==
  ASSUME VaultTyped, Ordinary, NEW t \in Tab, WriteMarks(t)
  PROVE  Ordinary'
<1> USE DEF Ordinary
<1>1. PICK s \in {"flag", "unflag", "mark", "unmark"} :
         /\ Doing(t, s)
         /\ s = "mark" => sentinel' = TRUE
         /\ s = "unmark" => sentinel' = FALSE
         /\ s \in {"flag", "unflag"} => UNCHANGED sentinel
  BY DEF WriteMarks
<1>2. Done(t) /\ UNCHANGED <<identity, wraps, sealed, registered, told, generated, unmarked>>
  BY DEF WriteMarks, vaultRelay, vaultCounts
<1>0. /\ \A u \in Tab \ {t} : Left(u)' = {}
      /\ s \in Left(t) /\ InOrder(s, Left(t)) /\ Left(t)' = Left(t) \ {s}
  BY <1>1, <1>2, StepFacts
<1>3. AtWork' /\ KeysHeld'
  BY <1>1, <1>2, StepAtWork, StepKeysHeld
<1>4. UnderOneKey' /\ ServedAsOwn'
  BY <1>2 DEF UnderOneKey, Configured, ServedAsOwn
<1>5. Wiped'
  BY <1>0, <1>1, <1>2 DEF Wiped, Configured
<1>6. Staged'
  <2>1. "putIdentity" \in Left(t) => s # "unmark"
    BY <1>0 DEF InOrder
  <2>2. "putIdentity" \in Left(t) => sentinel' = TRUE \/ sentinel' = sentinel
    BY <1>1, <2>1
  <2> QED
    BY <1>0, <1>1, <1>2, <2>2 DEF Staged
<1>7. OfOneIdentity'
  <2>1. CASE s = "unmark"
    <3>1. "dropIdentity" \notin Left(t) /\ ("dropLock" \in Left(t) => NoWipes(Left(t)))
      BY <1>0, <2>1 DEF InOrder
    <3>2. identity = 0
      BY <1>0, <2>1, <3>1 DEF Wiped
    <3>3. \A k \in Stores : sealed[k] = {}
      <4>1. CASE "dropLock" \in Left(t)
        BY <3>1, <4>1 DEF Wiped, NoWipes, Stores, Store
      <4>2. CASE "dropLock" \notin Left(t)
        BY <1>0, <2>1, <4>2 DEF Wiped, UnderOneKey
      <4> QED
        BY <4>1, <4>2
    <3> QED
      BY <1>2, <3>2, <3>3 DEF OfOneIdentity
  <2>2. CASE s # "unmark"
    BY <1>1, <1>2, <2>2 DEF OfOneIdentity
  <2> QED
    BY <2>1, <2>2
<1> QED
  BY <1>3, <1>4, <1>5, <1>6, <1>7

\* The lock record goes once there is nothing under its key.
LEMMA DropLockKeeps ==
  ASSUME VaultTyped, Ordinary, NEW t \in Tab, DropLock(t)
  PROVE  Ordinary'
<1> USE DEF Ordinary
<1>1. PICK r : r = [tab[t] EXCEPT !.todo = Tail(tab[t].todo), !.ldk = 0]
  OBVIOUS
<1>2. /\ Doing(t, "dropLock") /\ wraps' = NoWraps /\ tab' = [tab EXCEPT ![t] = r]
      /\ UNCHANGED <<identity, sentinel, sealed, registered, told, generated, unmarked>>
  BY <1>1 DEF DropLock, vaultRelay, vaultCounts
<1>3. /\ tab[t].todo # <<>> /\ InOrder("dropLock", Left(t))
      /\ Range(Tail(tab[t].todo)) = Left(t) \ {"dropLock"}
  BY <1>2, StepMeans
<1>4. /\ tab'[t] = r /\ \A u \in Tab \ {t} : tab'[u] = tab[u]
  BY <1>2 DEF VaultTyped
<1>5. r.todo = Tail(tab[t].todo) /\ r.ldk = 0 /\ r.phase = tab[t].phase /\ r.id = tab[t].id
  BY <1>1, TabFacts DEF Tabs
<1>6. ~Idle(t) /\ tab[t].phase \in {"enroll", "locked"}
  BY <1>3 DEF Idle, AtWork
<1>7. /\ Left(t)' = Left(t) \ {"dropLock"} /\ "dropLock" \in Left(t)
      /\ \A u \in Tab \ {t} : Idle(u) /\ Idle(u)' /\ Left(u) = {} /\ Left(u)' = {} /\ Live(u)' = Live(u)
  BY <1>3, <1>4, <1>5, <1>6, OthersIdle DEF Left, Idle, Live, InOrder
<1>8. ~Idle(t)' /\ ~Live(t)'
  <2>1. {"reload", "leave", "enrollAgain"} \cap Left(t)' # {}
    BY <1>3, <1>7 DEF InOrder
  <2> QED
    BY <1>4, <1>5, <1>6, <2>1, EmptyPlan DEF Idle, Left, Live
<1>9. NoWipes(Left(t)) /\ "mark" \notin Left(t) /\ "putIdentity" \notin Left(t)
  BY <1>3 DEF InOrder
<1>10. \A k \in Stores : sealed[k] = {}
  BY <1>7, <1>9 DEF Wiped, NoWipes, Stores, Store
<1>11. AtWork'
  BY <1>4, <1>5, <1>6, <1>7, <1>8 DEF AtWork
<1>12. KeysHeld'
  <2>1. wraps'.bio = 0 /\ wraps'.pass = 0
    BY <1>2 DEF NoWraps
  <2>2. \A u \in Tab : Live(u)' => u # t /\ Live(u)
    BY <1>7, <1>8
  <2>3. "tell" \in Left(t)' \/ \A u \in Tab : Live(u) => u \in told
    BY <1>7 DEF KeysHeld
  <2> QED
    BY <1>2, <1>7, <1>9, <2>1, <2>2, <2>3 DEF KeysHeld
<1>13. Wiped'
  BY <1>2, <1>7 DEF Wiped, Configured, NoWraps
<1>14. Staged'
  BY <1>2, <1>7, <1>9 DEF Staged
<1>15. UnderOneKey' /\ OfOneIdentity' /\ ServedAsOwn'
  BY <1>2, <1>10 DEF UnderOneKey, OfOneIdentity, ServedAsOwn
<1> QED
  BY <1>11, <1>12, <1>13, <1>14, <1>15

LEMMA TellOthersKeeps ==
  ASSUME VaultTyped, Ordinary, NEW t \in Tab, TellOthers(t)
  PROVE  Ordinary'
<1> USE DEF Ordinary
<1>1. /\ Doing(t, "tell") /\ Done(t) /\ told' = told \union {u \in Tab \ {t} : tab[u].phase = "open"}
      /\ UNCHANGED <<identity, sentinel, wraps, sealed, registered, generated, unmarked>>
  BY DEF TellOthers, Tell, vaultDisk, vaultRelay, vaultCounts
<1>2. /\ \A u \in Tab \ {t} : Left(u)' = {} /\ Live(u)' = Live(u)
      /\ Left(t)' = Left(t) \ {"tell"} /\ ~Live(t)' /\ tab'[t].ldk = tab[t].ldk
      /\ \A u \in Tab \ {t} : tab'[u] = tab[u]
  BY <1>1, StepFacts
<1>3. AtWork'
  BY <1>1, StepAtWork
<1>4. KeysHeld'
  <2>1. \A u \in Tab : Live(u)' => u \in told'
    BY <1>1, <1>2 DEF Live
  <2> QED
    BY <1>1, <1>2, <2>1 DEF KeysHeld, Configured
<1>5. Wiped' /\ Staged'
  BY <1>1, <1>2 DEF Wiped, Staged, Configured
<1>6. UnderOneKey' /\ OfOneIdentity' /\ ServedAsOwn'
  BY <1>1 DEF UnderOneKey, OfOneIdentity, ServedAsOwn, Configured
<1> QED
  BY <1>3, <1>4, <1>5, <1>6

\* A tab with nothing left to do in place of one that was at work, or idle.
LEMMA TabSettles ==
  ASSUME VaultTyped, Ordinary, NEW t \in Tab, NEW r, tab' = [tab EXCEPT ![t] = r],
         r.todo = <<>>, r.ldk = 0, r.phase \notin {"open", "error"},
         r.phase \in {"closed", "evicted"} \/ r.id # 0,
         "tell" \in Left(t) => \A u \in Tab \ {t} : ~Live(u),
         told' \in {told, told \ {t}},
         UNCHANGED <<identity, sentinel, wraps, sealed, registered, generated, unmarked>>
  PROVE  Ordinary'
<1> USE DEF Ordinary
<1>1. /\ tab'[t] = r /\ \A u \in Tab \ {t} : tab'[u] = tab[u]
  BY DEF VaultTyped
<1>2. /\ Idle(t)' /\ Left(t)' = {} /\ ~Live(t)'
      /\ \A u \in Tab \ {t} : /\ Left(u)' = Left(u) /\ Live(u)' = Live(u)
                              /\ Idle(u)' = Idle(u)
  BY <1>1, EmptyPlan DEF Idle, Left, Live
<1>3. AtWork'
  BY <1>1, <1>2 DEF AtWork
<1>4. KeysHeld'
  BY <1>1, <1>2 DEF KeysHeld, Configured
<1>5. Wiped' /\ Staged'
  BY <1>2 DEF Wiped, Staged, Configured
<1>6. UnderOneKey' /\ OfOneIdentity' /\ ServedAsOwn'
  BY DEF UnderOneKey, OfOneIdentity, ServedAsOwn, Configured
<1> QED
  BY <1>3, <1>4, <1>5, <1>6

LEMMA FinishKeeps ==
  ASSUME VaultTyped, Ordinary, NEW t \in Tab, Finish(t)
  PROVE  Ordinary'
<1> USE DEF Ordinary
<1>1. PICK s \in {"reload", "leave", "enrollAgain"} : 
         /\ Doing(t, s)
         /\ s = "reload" => tab' = [tab EXCEPT ![t] = ClosedTab]
         /\ s = "leave" => tab' = [tab EXCEPT ![t].todo = <<>>, ![t].phase = "left",
                                                            ![t].file = "none"]
         /\ s = "enrollAgain" =>
              tab' = [tab EXCEPT ![t].todo = <<>>, ![t].phase = "enroll", ![t].file = "none"]
  BY DEF Finish
<1>2. UNCHANGED <<identity, sentinel, wraps, sealed, registered, told, generated, unmarked>>
  BY DEF Finish, vaultDisk, vaultRelay, vaultCounts
<1>3. InOrder(s, Left(t)) /\ ~Idle(t) /\ s \in Left(t)
  BY <1>1, StepMeans DEF Idle, InOrder
<1>4. "tell" \notin Left(t)
  BY <1>3 DEF InOrder
<1>5. CASE s = "reload"
  BY <1>1, <1>2, <1>4, <1>5, ClosedTyped, TabSettles
<1>6. ASSUME NEW phase \in {"left", "enroll"}, s # "reload",
             tab' = [tab EXCEPT ![t].todo = <<>>, ![t].phase = phase, ![t].file = "none"]
      PROVE  Ordinary'
  <2>1. PICK r : r = [tab[t] EXCEPT !.todo = <<>>, !.phase = phase, !.file = "none"]
    OBVIOUS
  <2>2. tab' = [tab EXCEPT ![t] = r]
    BY <1>6, <2>1
  <2>3. tab[t].ldk = 0 /\ tab[t].id # 0
    BY <1>3, <1>6 DEF AtWork, InOrder
  <2>4. r.todo = <<>> /\ r.ldk = 0 /\ r.phase = phase /\ r.id # 0
    BY <2>1, <2>3, TabFacts DEF Tabs
  <2> QED
    BY <1>2, <1>4, <2>2, <2>4, TabSettles
<1> QED
  BY <1>1, <1>5, <1>6

\* Every step of an operation.
LEMMA SteppingKeeps ==
  ASSUME VaultTyped, Ordinary, NEW t \in Tab, Stepping(t)
  PROVE  Ordinary'
<1>1. CASE WipeSessions(t)
  BY <1>1, WipeKeeps DEF WipeSessions, Wipe, vaultRelay, vaultCounts, Stores, Store
<1>2. CASE WipeContacts(t)
  BY <1>2, WipeKeeps DEF WipeContacts, Wipe, vaultRelay, vaultCounts, Stores, Store
<1>3. CASE DropPrekeys(t)
  BY <1>3, WipeKeeps DEF DropPrekeys, vaultCounts, Stores, Store
<1>4. CASE DropAccount(t)
  BY <1>4, WipeKeeps DEF DropAccount, Wipe, vaultRelay, vaultCounts, Stores, Store
<1>5. CASE PutContacts(t)
  BY <1>5, PutKeeps DEF PutContacts, PutStaged, vaultRelay, vaultCounts
<1>6. CASE PutHistory(t)
  BY <1>6, PutKeeps DEF PutHistory, PutStaged, vaultRelay, vaultCounts
<1> QED
  BY <1>1, <1>2, <1>3, <1>4, <1>5, <1>6, WriteIdentityKeeps, WriteMarksKeeps, DropLockKeeps,
     TellOthersKeeps, FinishKeeps DEF Stepping

-----------------------------------------------------------------------------
(* A page comes up, or stages a file. *)

\* A tab that begins something without crossing another finds every tab idle.
LEMMA NoneCrossed ==
  ASSUME VaultTyped, NEW t \in Tab, Idle(t), ~Crossing(t)
  PROVE  ~strays /\ t \notin told /\ \A u \in Tab : Idle(u) /\ Left(u) = {}
<1>1. ~strays /\ t \notin told /\ \A u \in Tab : Idle(u)
  BY DEF Crossing, Idle
<1> QED
  BY <1>1, TabFacts DEF Idle

\* A live page that crosses none holds the key of the lock.
LEMMA LiveHolds ==
  ASSUME VaultTyped, Ordinary, NEW t \in Tab, Live(t), ~Crossing(t)
  PROVE  Configured /\ tab[t].ldk = wraps.pass /\ tab[t].id # 0
<1>1. Idle(t)
  BY DEF Live, Idle
<1>2. t \notin told /\ \A u \in Tab : Left(u) = {}
  BY <1>1, NoneCrossed
<1>3. Configured /\ tab[t].ldk = wraps.pass
  BY <1>2 DEF Ordinary, KeysHeld
<1> QED
  BY <1>3 DEF Ordinary, AtWork, Live

\* Among idle tabs one changes: what there is to do is its own.
LEMMA BecomesAmongIdle ==
  ASSUME VaultTyped, \A u \in Tab : Idle(u) /\ Left(u) = {}, NEW t \in Tab, NEW r, Becomes(t, r)
  PROVE  /\ tab'[t] = r /\ Left(t)' = Range(r.todo) /\ (Idle(t)' <=> r.todo = <<>>)
         /\ (Live(t)' <=> r.phase = "open" /\ r.todo = <<>>)
         /\ r.todo = <<>> => Left(t)' = {}
         /\ \A u \in Tab \ {t} : /\ Left(u)' = {} /\ Idle(u)' /\ tab'[u] = tab[u]
                                 /\ Live(u)' = Live(u)
<1>1. /\ tab'[t] = r /\ Left(t)' = Range(r.todo)
      /\ \A u \in Tab \ {t} : Left(u)' = Left(u) /\ tab'[u] = tab[u]
  BY BecomesMeans
<1> QED
  BY <1>1, EmptyPlan DEF Idle, Live

LEMMA BootKeeps ==
  ASSUME VaultTyped, Ordinary, NEW t \in Tab, Boot(t), ~strays'
  PROVE  Ordinary'
<1> USE DEF Ordinary
<1>1. /\ tab[t].phase = "closed" /\ ~Crossing(t)
      /\ UNCHANGED <<wraps, sealed, registered, told, unmarked>>
  BY DEF Boot, vaultRelay
<1>2. Idle(t)
  BY <1>1 DEF AtWork
<1>3. \A u \in Tab : Idle(u) /\ Left(u) = {}
  BY <1>1, <1>2, NoneCrossed
<1>4. PICK r : /\ Becomes(t, r) /\ r.ldk = 0 /\ r.id = identity' /\ r.todo = <<>>
               /\ \/ r.phase = "evicted"
                  \/ r.phase \in {"locked", "enroll"} /\ identity' # 0
  BY BootMeans
<1>5. /\ tab'[t] = r /\ Idle(t)' /\ ~Live(t)'
      /\ \A u \in Tab : Left(u)' = {}
      /\ \A u \in Tab \ {t} : Idle(u)' /\ tab'[u] = tab[u] /\ Live(u)' = Live(u)
  BY <1>3, <1>4, BecomesAmongIdle
<1>6. AtWork'
  <2>1. r.ldk = 0 /\ (r.phase \notin {"closed", "evicted"} => r.id # 0)
    BY <1>4
  <2>2. \A v, u \in Tab : ~Idle(v)' /\ ~Idle(u)' => v = u
    BY <1>5
  <2>3. tab'[t].ldk = 0 /\ (tab'[t].phase \notin {"closed", "evicted"} => tab'[t].id # 0)
    BY <1>5, <2>1
  <2>4. \A u \in Tab \ {t} : tab'[u].ldk = tab[u].ldk /\ tab'[u].phase = tab[u].phase
                           /\ tab'[u].id = tab[u].id /\ Idle(u) /\ Idle(u)'
    BY <1>3, <1>5
  <2> QED
    BY <1>5, <2>2, <2>3, <2>4 DEF AtWork
<1>7. KeysHeld'
  BY <1>1, <1>3, <1>5 DEF KeysHeld, Configured
<1>8. Wiped' /\ Staged'
  BY <1>5 DEF Wiped, Staged
<1>9. UnderOneKey'
  BY <1>1 DEF UnderOneKey, Configured
<1>10. \/ identity # 0 /\ UNCHANGED identity /\ UNCHANGED generated /\ sentinel' = TRUE
       \/ identity = 0 /\ sentinel /\ UNCHANGED <<identity, generated, sentinel>>
       \/ /\ identity = 0 /\ ~sentinel /\ generated' = generated + 1
          /\ identity' = InFile + generated' /\ sentinel' = TRUE
  BY BootMeans
<1>11. OfOneIdentity'
  BY <1>1, <1>10 DEF OfOneIdentity
<1>12. generated \in Nat /\ registered \subseteq Nat /\ InFile \in Nat
  BY Bounds DEF VaultTyped, DiskTyped, Counted, Identity
<1>13. ServedAsOwn'
  <2>1. CASE UNCHANGED <<identity, generated>>
    BY <1>1, <2>1 DEF ServedAsOwn
  <2>2. CASE generated' = generated + 1 /\ identity' = InFile + generated'
    <3>1. \A i \in registered : i # 0 /\ i <= InFile + generated' /\ i # identity'
      BY <1>12, <2>2 DEF ServedAsOwn
    <3> QED
      BY <1>1, <3>1 DEF ServedAsOwn
  <2> QED
    BY <1>10, <2>1, <2>2
<1> QED
  BY <1>6, <1>7, <1>8, <1>9, <1>11, <1>13

\* A page that comes up or stages, with the key of a lock that opens what is there.
LEMMA UpKeeps ==
  ASSUME VaultTyped, Ordinary, NEW t \in Tab, NEW r, Becomes(t, r),
         \A u \in Tab : Idle(u) /\ Left(u) = {},
         r.id # 0, wraps'.bio \in {0, wraps'.pass}, Configured', wraps'.pass = r.ldk,
         \/ UNCHANGED wraps
         \/ ~Configured /\ \A u \in Tab : ~Live(u),
         \/ r.phase \in {"open", "error"} /\ r.todo = <<>> /\ UNCHANGED <<told, unmarked>>
         \/ /\ r.phase \in {"enroll", "locked"} /\ StageBegins(t)
            /\ \E kind \in {"backup", "move"} : r.todo = StageSteps(kind),
         UNCHANGED <<identity, sentinel, sealed, registered, generated>>
  PROVE  Ordinary'
<1> USE DEF Ordinary
<1>1. /\ tab'[t] = r /\ (Idle(t)' <=> r.todo = <<>>) /\ Left(t)' = Range(r.todo)
      /\ (Live(t)' <=> r.phase = "open" /\ r.todo = <<>>)
      /\ r.todo = <<>> => Left(t)' = {}
      /\ \A u \in Tab \ {t} : /\ Left(u)' = {} /\ Idle(u)' /\ tab'[u] = tab[u]
                              /\ Live(u)' = Live(u)
  BY BecomesAmongIdle
<1>2. told \subseteq told' /\ (unmarked => unmarked')
  <2>1. \/ UNCHANGED <<told, unmarked>>
        \/ StageBegins(t)
    OBVIOUS
  <2>2. CASE UNCHANGED <<told, unmarked>>
    BY <2>2
  <2>3. CASE StageBegins(t)
    <3>1. unmarked' = (unmarked \/ ~sentinel)
      BY <2>3 DEF StageBegins
    <3>2. told \subseteq told'
      BY <2>3 DEF StageBegins, Tell
    <3> QED
      BY <3>1, <3>2, Zenon
  <2> QED
    BY <2>1, <2>2, <2>3
<1>3. \/ r.phase \in {"open", "error"} /\ r.todo = <<>> /\ Left(t)' = {}
      \/ /\ r.phase \in {"enroll", "locked"} /\ r.todo # <<>>
         /\ {"dropIdentity", "wipeSessions", "dropPrekeys", "dropAccount", "putContacts", "mark"}
              \subseteq Left(t)'
         /\ "dropLock" \notin Left(t)' /\ "unmark" \notin Left(t)' /\ "tell" \notin Left(t)'
         /\ "leave" \notin Left(t)' /\ "enrollAgain" \notin Left(t)'
         /\ (sentinel \/ unmarked')
  <2>1. CASE r.todo = <<>>
    <3>1. \A kind \in {"backup", "move"} : r.todo # StageSteps(kind)
      BY <2>1, WholeStage
    <3> QED
      BY <1>1, <2>1, <3>1
  <2>2. CASE r.todo # <<>>
    <3>1. PICK kind \in {"backup", "move"} : r.todo = StageSteps(kind)
      BY <2>2
    <3>2. PICK p : p = StageSteps(kind)
      OBVIOUS
    <3>3. /\ {"dropIdentity", "wipeSessions", "dropPrekeys", "dropAccount", "putContacts", "mark"}
               \subseteq Range(p)
          /\ "dropLock" \notin Range(p) /\ "unmark" \notin Range(p) /\ "tell" \notin Range(p)
          /\ "leave" \notin Range(p) /\ "enrollAgain" \notin Range(p)
      BY <3>2, WholeStage
    <3>4. Left(t)' = Range(p)
      BY <1>1, <3>1, <3>2
    <3> QED
      BY <2>2, <3>3, <3>4 DEF StageBegins
  <2> QED
    BY <2>1, <2>2
<1>4. AtWork'
  BY <1>1, <1>3 DEF AtWork
<1>5. \A u \in Tab \ {t} : Live(u)' /\ u \notin told' => UNCHANGED wraps /\ tab[u].ldk = wraps.pass
  BY <1>1, <1>2 DEF KeysHeld
<1>6. KeysHeld'
  BY <1>1, <1>3, <1>5 DEF KeysHeld
<1>7. Wiped' /\ Staged'
  BY <1>1, <1>3 DEF Wiped, Staged
<1>8. UnderOneKey'
  BY DEF UnderOneKey, Configured
<1>9. OfOneIdentity' /\ ServedAsOwn'
  BY <1>2 DEF OfOneIdentity, ServedAsOwn
<1> QED
  BY <1>4, <1>6, <1>7, <1>8, <1>9

LEMMA EnrollKeeps ==
  ASSUME VaultTyped, Ordinary, NEW t \in Tab, Enroll(t), ~strays'
  PROVE  Ordinary'
<1> USE DEF Ordinary
<1>1. /\ tab[t].phase = "enroll" /\ Idle(t) /\ ~Configured /\ told = {} /\ ~Crossing(t)
      /\ UNCHANGED <<identity, sentinel, sealed, registered, generated>>
      /\ Proceed(t, ldks') /\ wraps' \in EnrolledWraps /\ ldks' = ldks + 1 /\ ldks < MaxLdks
  BY DEF Enroll, Idle, vaultRelay
<1>2. \A u \in Tab : Idle(u) /\ Left(u) = {}
  BY <1>1, NoneCrossed
<1>3. \A u \in Tab : ~Live(u)
  BY <1>1, <1>2 DEF KeysHeld
<1>4. tab[t].id # 0
  BY <1>1 DEF AtWork
<1>5. ldks' \in 0 .. MaxLdks /\ ldks' # 0
  BY <1>1, Bounds DEF VaultTyped, Counted
<1>6. wraps'.pass = ldks' /\ wraps'.bio \in {0, ldks'} /\ Configured'
  BY <1>1, <1>5 DEF EnrolledWraps, Configured
<1>7. PICK r : /\ Becomes(t, r) /\ r.ldk = ldks' /\ r.id = tab[t].id
               /\ \/ /\ r.phase = tab[t].phase /\ r.todo = StageSteps(tab[t].file)
                     /\ tab[t].file \in {"backup", "move"} /\ StageBegins(t)
                  \/ r.phase \in {"open", "error"} /\ r.todo = <<>> /\ UNCHANGED <<told,
                                  unmarked>>
  BY <1>1, <1>5, ProceedMeans DEF Idle
<1> QED
  BY <1>1, <1>2, <1>3, <1>4, <1>6, <1>7, UpKeeps

LEMMA UnlockKeeps ==
  ASSUME VaultTyped, Ordinary, NEW t \in Tab, Unlock(t), ~strays'
  PROVE  Ordinary'
<1> USE DEF Ordinary
<1>1. /\ tab[t].phase = "locked" /\ Idle(t) /\ ~Crossing(t)
      /\ UNCHANGED <<identity, sentinel, wraps, sealed, registered, generated>>
  BY DEF Unlock, Idle, vaultDisk, vaultRelay, vaultCounts
<1>2. \A u \in Tab : Idle(u) /\ Left(u) = {}
  BY <1>1, NoneCrossed
<1>3. PICK ldk \in Unwrapped : Proceed(t, ldk)
  BY DEF Unlock
<1>4. tab[t].id # 0
  BY <1>1 DEF AtWork
<1>5. ldk = wraps.pass /\ Configured /\ wraps.bio \in {0, wraps.pass}
  BY <1>3 DEF Unwrapped, KeysHeld, Configured
<1>6. ldk \in 0 .. MaxLdks
  BY <1>5 DEF VaultTyped, DiskTyped
<1>7. PICK r : /\ Becomes(t, r) /\ r.ldk = ldk /\ r.id = tab[t].id
               /\ \/ /\ r.phase = tab[t].phase /\ r.todo = StageSteps(tab[t].file)
                     /\ tab[t].file \in {"backup", "move"} /\ StageBegins(t)
                  \/ r.phase \in {"open", "error"} /\ r.todo = <<>> /\ UNCHANGED <<told,
                                  unmarked>>
  BY <1>1, <1>3, <1>6, ProceedMeans DEF Idle
<1>8. Configured' /\ wraps'.bio \in {0, wraps'.pass} /\ wraps'.pass = r.ldk
  BY <1>1, <1>5, <1>7 DEF Configured
<1> QED
  BY <1>1, <1>2, <1>4, <1>7, <1>8, UpKeeps

-----------------------------------------------------------------------------
(* A page locks, or writes. *)

\* A page that locks, or hears of a reset.
LEMMA LockKeeps ==
  ASSUME VaultTyped, Ordinary, NEW t \in Tab, LockNow(t) \/ HearReset(t)
  PROVE  Ordinary'
<1> USE DEF Ordinary
<1>1. /\ told' = told \ {t}
      /\ UNCHANGED <<identity, sentinel, wraps, sealed, registered, generated, unmarked>>
  BY DEF LockNow, HearReset, vaultDisk, vaultRelay, vaultCounts
<1>2. CASE Live(t) /\ tab' = Locked(t)
  <2>1. PICK r : /\ Becomes(t, r) /\ r.id = tab[t].id /\ r.ldk = 0 /\ r.phase = "locked"
                 /\ r.todo = <<>>
    BY <1>1, <1>2, LocksMeans
  <2>2. Left(t) = {} /\ r.id # 0
    BY <1>2, <2>1, TabFacts DEF Live, AtWork
  <2>3. tab' = [tab EXCEPT ![t] = r]
    BY <2>1 DEF Becomes
  <2> QED
    BY <1>1, <2>1, <2>2, <2>3, TabSettles
<1>3. CASE ~Live(t) /\ UNCHANGED tab
  <2>1. \A u \in Tab : Left(u)' = Left(u) /\ Live(u)' = Live(u) /\ Idle(u)' = Idle(u)
    BY <1>3 DEF Left, Live, Idle
  <2>2. AtWork'
    BY <1>3, <2>1 DEF AtWork
  <2>3. KeysHeld'
    BY <1>1, <1>3, <2>1 DEF KeysHeld, Configured
  <2>4. Wiped' /\ Staged'
    BY <1>1, <2>1 DEF Wiped, Staged, Configured
  <2>5. UnderOneKey' /\ OfOneIdentity' /\ ServedAsOwn'
    BY <1>1 DEF UnderOneKey, OfOneIdentity, ServedAsOwn, Configured
  <2> QED
    BY <2>2, <2>3, <2>4, <2>5
<1> QED
  BY <1>2, <1>3 DEF LockNow, HearReset

\* A live page writes under the key of the lock, for the identity of this browser.
LEMMA WritesKeep ==
  ASSUME VaultTyped, Ordinary, NEW t \in Tab, Live(t), ~Stray(t),
         UNCHANGED <<identity, sentinel, tab, told, generated, unmarked>>,
         wraps'.pass = wraps.pass, wraps'.bio \in {0, wraps.pass},
         \A s \in Stores : \A x \in sealed'[s] : x \in sealed[s] \/ x = Mine(t),
         \A x \in sealed'["prekeys"] : x \in sealed["prekeys"] \/ x = Mine(t),
         registered' \in {registered, registered \union {tab[t].id}},
         registered' = registered \/ \A x \in sealed'["prekeys"] : x = Mine(t)
  PROVE  Ordinary'
<1> USE DEF Ordinary
<1>1. /\ Configured /\ tab[t].ldk = wraps.pass /\ tab[t].id # 0 /\ tab[t].id = identity
      /\ \A u \in Tab : Left(u) = {}
  BY LiveHolds, NoneCrossed DEF Stray, Live, Idle
<1>2. Mine(t).ldk = wraps.pass /\ Mine(t).of = identity
  BY <1>1 DEF Mine
<1>3. \A u \in Tab : Left(u)' = Left(u) /\ Live(u)' = Live(u) /\ Idle(u)' = Idle(u)
  BY DEF Left, Live, Idle
<1>4. AtWork'
  BY <1>3 DEF AtWork
<1>5. KeysHeld'
  BY <1>3 DEF KeysHeld, Configured
<1>6. Wiped' /\ Staged'
  BY <1>1, <1>3 DEF Wiped, Staged
<1>7. UnderOneKey'
  BY <1>1, <1>2 DEF UnderOneKey, Configured
<1>8. OfOneIdentity'
  <2>1. ~unmarked => sentinel
    BY <1>1 DEF OfOneIdentity
  <2>2. ~unmarked => \A s \in Stores : \A x \in sealed'[s] : x.of = identity
    BY <1>1, <1>2 DEF OfOneIdentity
  <2> QED
    BY <2>1, <2>2 DEF OfOneIdentity
<1>9. ServedAsOwn'
  <2>1. tab[t].id <= InFile + generated
    BY TabFacts
  <2>2. \A i \in registered' : i # 0 /\ i <= InFile + generated
    BY <1>1, <2>1 DEF ServedAsOwn
  <2>3. identity \in registered' => \A x \in sealed'["prekeys"] : x.of = identity
    BY <1>2 DEF ServedAsOwn
  <2> QED
    BY <2>2, <2>3 DEF ServedAsOwn
<1> QED
  BY <1>4, <1>5, <1>6, <1>7, <1>8, <1>9

LEMMA RewrapKeeps ==
  ASSUME VaultTyped, Ordinary, NEW t \in Tab, Rewrap(t), ~strays'
  PROVE  Ordinary'
<1>1. /\ Live(t) /\ ~Stray(t) /\ wraps' \in Rewrapped(t)
      /\ UNCHANGED <<identity, sentinel, sealed, registered, tab, told, generated, unmarked>>
  BY DEF Rewrap, vaultRelay, vaultCounts
<1>2. tab[t].ldk = wraps.pass /\ wraps.bio \in {0, wraps.pass}
  BY <1>1, LiveHolds DEF Stray, Ordinary, KeysHeld
<1>3. wraps'.pass = wraps.pass /\ wraps'.bio \in {0, wraps.pass}
  BY <1>1, <1>2 DEF Rewrapped, VaultTyped, DiskTyped
<1> QED
  BY <1>1, <1>3, WritesKeep

LEMMA SaveKeeps ==
  ASSUME VaultTyped, Ordinary, NEW t \in Tab, NEW s \in Store, Save(t, s), ~strays'
  PROVE  Ordinary'
<1>1. /\ Live(t) /\ ~Stray(t)
      /\ UNCHANGED <<identity, sentinel, wraps, registered, tab, told, generated, unmarked>>
      /\ s \in {"sessions", "contacts", "markers"}
      /\ sealed' = [sealed EXCEPT ![s] = IF s = "sessions" THEN @ \union {Mine(t)} ELSE {Mine(t)}]
  BY DEF Save, vaultRelay, vaultCounts
<1>2. \A k \in Store : \A x \in sealed'[k] : x \in sealed[k] \/ x = Mine(t)
  BY <1>1 DEF VaultTyped, DiskTyped
<1>3. Stores \subseteq Store /\ "prekeys" \in Store
  BY DEF Stores, Store
<1>4. wraps.bio \in {0, wraps.pass}
  BY DEF Ordinary, KeysHeld
<1> QED
  BY <1>1, <1>2, <1>3, <1>4, WritesKeep

LEMMA RegisterKeeps ==
  ASSUME VaultTyped, Ordinary, NEW t \in Tab, Register(t) \/ Link(t), ~strays'
  PROVE  Ordinary'
<1>1. /\ Live(t) /\ ~Stray(t)
      /\ UNCHANGED <<identity, sentinel, wraps, tab, told, generated, unmarked>>
      /\ registered' \in {registered, registered \union {tab[t].id}}
      /\ \/ sealed' = [sealed EXCEPT !["prekeys"] = {Mine(t)}]
         \/ sealed' = [sealed EXCEPT !["account"] = {Mine(t)}, !["contacts"] = {Mine(t)},
                                     !["prekeys"] = {Mine(t)}]
  BY DEF Register, Published, Link, vaultCounts
<1>2. "prekeys" \in Store /\ "account" \in Store /\ "contacts" \in Store /\ Stores \subseteq Store
  BY DEF Stores, Store
<1>3. \A k \in Store : \A x \in sealed'[k] : x \in sealed[k] \/ x = Mine(t)
  BY <1>1, <1>2 DEF VaultTyped, DiskTyped
<1>4. \A x \in sealed'["prekeys"] : x = Mine(t)
  BY <1>1, <1>2 DEF VaultTyped, DiskTyped
<1>5. wraps.bio \in {0, wraps.pass}
  BY DEF Ordinary, KeysHeld
<1> QED
  BY <1>1, <1>2, <1>3, <1>4, <1>5, WritesKeep

\* A marker is cleared, or the restore flag: nothing else.
LEMMA ClearsKeep ==
  ASSUME VaultTyped, Ordinary, NEW t \in Tab, ClearMarkers(t) \/ CompleteRestore(t)
  PROVE  Ordinary'
<1> USE DEF Ordinary
<1>1. UNCHANGED <<identity, sentinel, wraps, registered, tab, told, generated, unmarked>>
  BY DEF ClearMarkers, CompleteRestore, vaultRelay, vaultCounts
<1>2. \A s \in Stores : sealed'[s] = sealed[s]
  BY DEF ClearMarkers, CompleteRestore, Stores, VaultTyped, DiskTyped
<1>3. \A u \in Tab : Left(u)' = Left(u) /\ Live(u)' = Live(u) /\ Idle(u)' = Idle(u)
  BY <1>1 DEF Left, Live, Idle
<1>4. "sessions" \in Stores /\ "contacts" \in Stores /\ "prekeys" \in Stores /\ "account" \in Stores
  BY DEF Stores, Store
<1>5. AtWork' /\ KeysHeld'
  BY <1>1, <1>3 DEF AtWork, KeysHeld, Configured
<1>6. Wiped' /\ Staged'
  BY <1>1, <1>2, <1>3, <1>4 DEF Wiped, Staged, Configured
<1>7. UnderOneKey' /\ OfOneIdentity' /\ ServedAsOwn'
  BY <1>1, <1>2, <1>4 DEF UnderOneKey, OfOneIdentity, ServedAsOwn, Configured
<1> QED
  BY <1>5, <1>6, <1>7

-----------------------------------------------------------------------------
(* A file, a reset, an erasure; a page that closes. *)

LEMMA OpenFileKeeps ==
  ASSUME VaultTyped, Ordinary, NEW t \in Tab, NEW kind \in {"backup", "move"}, OpenFile(t, kind),
         ~strays'
  PROVE  Ordinary'
<1> USE DEF Ordinary
<1>1. /\ Idle(t) /\ ~Crossing(t) /\ tab[t].phase \in {"evicted", "open", "left"}
      /\ UNCHANGED <<identity, sentinel, wraps, sealed, registered, generated>>
  BY DEF OpenFile, Idle, vaultDisk, vaultRelay
<1>2. \A u \in Tab : Idle(u) /\ Left(u) = {}
  BY <1>1, NoneCrossed
<1>3. PICK r : /\ Becomes(t, r) /\ r.ldk = tab[t].ldk /\ r.id = InFile
               /\ \/ /\ r.phase = "locked" /\ r.todo = StageSteps(kind) /\ tab[t].ldk # 0
                     /\ StageBegins(t)
                  \/ /\ r.phase \in {"locked", "enroll"} /\ r.todo = <<>> /\ tab[t].ldk = 0
                     /\ UNCHANGED <<told, unmarked>>
  BY OpenFileMeans
<1>4. r.id # 0 /\ wraps.bio \in {0, wraps.pass}
  BY <1>3, Bounds DEF KeysHeld
<1>5. CASE tab[t].ldk # 0
  <2>1. Live(t)
    BY <1>1, <1>5 DEF AtWork, Live, Idle
  <2>2. Configured /\ tab[t].ldk = wraps.pass
    BY <1>1, <2>1, LiveHolds
  <2>3. Configured' /\ wraps'.pass = r.ldk /\ wraps'.bio \in {0, wraps'.pass}
    BY <1>1, <1>3, <1>4, <2>2 DEF Configured
  <2>4. r.phase = "locked" /\ r.todo = StageSteps(kind) /\ StageBegins(t)
    BY <1>3, <1>5
  <2> QED
    BY <1>1, <1>2, <1>3, <1>4, <2>3, <2>4, UpKeeps
<1>6. CASE tab[t].ldk = 0
  <2>1. /\ r.phase \in {"locked", "enroll"} /\ r.todo = <<>> /\ UNCHANGED <<told, unmarked>>
        /\ r.ldk = 0 /\ tab' = [tab EXCEPT ![t] = r]
    BY <1>3, <1>6 DEF Becomes
  <2> QED
    BY <1>1, <1>2, <1>4, <2>1, TabSettles
<1> QED
  BY <1>5, <1>6

\* A reset or an erasure begins: everything it has to do is before it.
LEMMA RidsKeep ==
  ASSUME VaultTyped, Ordinary, NEW t \in Tab, NEW r, Becomes(t, r), Idle(t), ~Crossing(t),
         r.phase = "locked", r.id # 0, r.todo # <<>>,
         {"wipeSessions", "wipeContacts", "dropPrekeys", "dropAccount", "dropLock", "tell"}
            \subseteq Range(r.todo),
         "mark" \notin Range(r.todo), "putIdentity" \notin Range(r.todo),
         "unmark" \in Range(r.todo) => "dropIdentity" \in Range(r.todo),
         UNCHANGED <<identity, sentinel, wraps, sealed, registered, told, generated, unmarked>>
  PROVE  Ordinary'
<1> USE DEF Ordinary
<1>1. \A u \in Tab : Idle(u) /\ Left(u) = {}
  BY NoneCrossed
<1>2. /\ tab'[t] = r /\ ~Idle(t)' /\ Left(t)' = Range(r.todo) /\ ~Live(t)'
      /\ \A u \in Tab \ {t} : /\ Left(u)' = {} /\ Idle(u)' /\ tab'[u] = tab[u]
                              /\ Live(u)' = Live(u)
  BY <1>1, BecomesAmongIdle
<1>3. AtWork'
  <2>1. \A v, u \in Tab : ~Idle(v)' /\ ~Idle(u)' => v = u
    BY <1>2
  <2>2. /\ tab'[t].phase = "locked" /\ tab'[t].id # 0 /\ "dropLock" \in Left(t)' /\ ~Idle(t)'
    BY <1>2
  <2>3. \A u \in Tab \ {t} : /\ tab'[u].ldk = tab[u].ldk /\ tab'[u].phase = tab[u].phase
                           /\ tab'[u].id = tab[u].id /\ Idle(u) /\ Idle(u)' /\ Left(u)' = {}
    BY <1>1, <1>2
  <2> QED
    BY <2>1, <2>2, <2>3 DEF AtWork
<1>4. KeysHeld'
  BY <1>2 DEF KeysHeld
<1>5. Wiped' /\ Staged'
  BY <1>2 DEF Wiped, Staged
<1>6. UnderOneKey' /\ OfOneIdentity' /\ ServedAsOwn'
  BY DEF UnderOneKey, OfOneIdentity, ServedAsOwn, Configured
<1> QED
  BY <1>3, <1>4, <1>5, <1>6

LEMMA ResetKeeps ==
  ASSUME VaultTyped, Ordinary, NEW t \in Tab, ResetLock(t), ~strays'
  PROVE  Ordinary'
<1> USE DEF Ordinary
<1>1. /\ Idle(t) /\ ~Crossing(t) /\ tab[t].phase = "locked"
      /\ UNCHANGED <<identity, sentinel, wraps, sealed, registered, told, generated, unmarked>>
  BY DEF ResetLock, Idle, vaultDisk, vaultRelay
<1>2. PICK linked \in BOOLEAN :
         \E r : Becomes(t, r) /\ r.id = tab[t].id /\ r.phase = "locked" /\ r.todo = ResetSteps(linked)
  BY ResetMeans
<1>3. PICK r : Becomes(t, r) /\ r.id = tab[t].id /\ r.phase = "locked" /\ r.todo = ResetSteps(linked)
  BY <1>2
<1>4. PICK p : p = ResetSteps(linked)
  OBVIOUS
<1>5. /\ p # <<>>
      /\ {"wipeSessions", "wipeContacts", "dropPrekeys", "dropAccount", "dropLock", "tell"}
           \subseteq Range(p)
      /\ "mark" \notin Range(p) /\ "putIdentity" \notin Range(p)
      /\ ("unmark" \in Range(p) => "dropIdentity" \in Range(p))
  BY <1>4, WholeReset
<1>6. r.todo = p /\ r.id # 0
  BY <1>1, <1>3, <1>4 DEF AtWork
<1> QED
  BY <1>1, <1>3, <1>5, <1>6, RidsKeep

LEMMA EraseKeeps ==
  ASSUME VaultTyped, Ordinary, NEW t \in Tab, EraseThisDevice(t), ~strays'
  PROVE  Ordinary'
<1> USE DEF Ordinary
<1>1. /\ Idle(t) /\ ~Crossing(t) /\ Live(t)
      /\ UNCHANGED <<identity, sentinel, wraps, sealed, registered, told, generated, unmarked>>
  BY DEF EraseThisDevice, Live, Idle, vaultDisk, vaultRelay
<1>2. PICK r : Becomes(t, r) /\ r.id = tab[t].id /\ r.phase = "locked" /\ r.todo = EraseSteps
  BY EraseMeans
<1>3. PICK p : p = EraseSteps
  OBVIOUS
<1>4. /\ p # <<>>
      /\ {"wipeSessions", "wipeContacts", "dropPrekeys", "dropAccount", "dropLock", "tell",
          "dropIdentity", "unmark"} \subseteq Range(p)
      /\ "mark" \notin Range(p) /\ "putIdentity" \notin Range(p)
  BY <1>3, WholeErasure
<1>5. r.todo = p /\ r.id # 0
  BY <1>1, <1>2, <1>3, LiveHolds
<1> QED
  BY <1>1, <1>2, <1>4, <1>5, RidsKeep

LEMMA CloseKeeps ==
  ASSUME VaultTyped, Ordinary, NEW t \in Tab, Close(t), ~strays'
  PROVE  Ordinary'
<1>1. /\ tab' = [tab EXCEPT ![t] = ClosedTab] /\ told' = told \ {t}
      /\ UNCHANGED <<identity, sentinel, wraps, sealed, registered, generated, unmarked>>
      /\ ~(Contains(tab[t].todo, "tell") /\ \E u \in Tab \ {t} : Live(u))
  BY DEF Close, vaultDisk, vaultRelay
<1>2. "tell" \in Left(t) => \A u \in Tab \ {t} : ~Live(u)
  BY <1>1, ContainsLeft, TabFacts DEF Tabs
<1> QED
  BY <1>1, <1>2, ClosedTyped, TabSettles

LEMMA EvictKeeps ==
  ASSUME VaultTyped, Ordinary, Evict
  PROVE  Ordinary'
<1> USE DEF Ordinary
<1>1. /\ \A t \in Tab : tab[t].phase = "closed"
      /\ identity' = 0 /\ wraps' = NoWraps /\ sealed' = [s \in Store |-> {}]
      /\ UNCHANGED <<registered, tab, told, generated, unmarked>>
  BY DEF Evict
<1>2. \A t \in Tab : Idle(t) /\ Left(t) = {} /\ ~Live(t)
  BY <1>1, TabFacts DEF AtWork, Idle, Live
<1>3. \A t \in Tab : Idle(t)' /\ Left(t)' = {} /\ ~Live(t)'
  BY <1>1, <1>2 DEF Idle, Left, Live
<1>4. AtWork'
  BY <1>1, <1>2, <1>3 DEF AtWork
<1>5. KeysHeld'
  BY <1>1, <1>3 DEF KeysHeld, NoWraps
<1>6. Wiped' /\ Staged'
  BY <1>3 DEF Wiped, Staged
<1>7. /\ \A s \in Stores : sealed'[s] = {}
      /\ sealed'["prekeys"] = {}
  BY <1>1 DEF Stores, Store
<1>8. UnderOneKey' /\ OfOneIdentity' /\ ServedAsOwn'
  BY <1>1, <1>7 DEF UnderOneKey, OfOneIdentity, ServedAsOwn
<1> QED
  BY <1>4, <1>5, <1>6, <1>8

\* The disk is written by one page at a time, the page's own.
LEMMA OrdinaryKept ==
  ASSUME VaultTyped, Ordinary, VaultNext, ~strays'
  PROVE  Ordinary'
<1>1. ASSUME NEW t \in Tab, Enroll(t) \/ Unlock(t) \/ Boot(t)
      PROVE  Ordinary'
  BY <1>1, EnrollKeeps, UnlockKeeps, BootKeeps
<1>2. ASSUME NEW t \in Tab, LockNow(t) \/ HearReset(t) \/ Rewrap(t)
      PROVE  Ordinary'
  BY <1>2, LockKeeps, RewrapKeeps
<1>3. ASSUME NEW t \in Tab, NEW s \in Store, Save(t, s)
      PROVE  Ordinary'
  BY <1>3, SaveKeeps
<1>4. ASSUME NEW t \in Tab, ClearMarkers(t) \/ Register(t) \/ CompleteRestore(t) \/ Link(t)
      PROVE  Ordinary'
  BY <1>4, ClearsKeep, RegisterKeeps
<1>5. ASSUME NEW t \in Tab, NEW kind \in {"backup", "move"}, OpenFile(t, kind)
      PROVE  Ordinary'
  BY <1>5, OpenFileKeeps
<1>6. ASSUME NEW t \in Tab, ResetLock(t) \/ EraseThisDevice(t) \/ Close(t)
      PROVE  Ordinary'
  BY <1>6, ResetKeeps, EraseKeeps, CloseKeeps
<1> QED
  BY <1>1, <1>2, <1>3, <1>4, <1>5, <1>6, SteppingKeeps, EvictKeeps DEF VaultNext

-----------------------------------------------------------------------------
(* The invariant, always, and what it gives. *)

\* Confirmed prekeys are held, whoever writes.
LEMMA ServedKept ==
  ASSUME VaultTyped, Served, [VaultNext]_vaultVars
  PROVE  Served'
<1> USE DEF Served
<1>0. sealed \in [Store -> SUBSET Sealed] /\ "prekeys" \in Store
  BY DEF VaultTyped, DiskTyped, Store
<1>1. CASE UNCHANGED <<sealed, confirmed, held>>
  BY <1>1
<1>2. CASE confirmed' = FALSE
  BY <1>2
<1>3. ASSUME NEW s \in Store \ {"prekeys"}, NEW b, sealed' = [sealed EXCEPT ![s] = b],
             UNCHANGED <<confirmed, held>>
      PROVE  Served'
  <2>1. sealed'["prekeys"] = sealed["prekeys"]
    BY <1>0, <1>3
  <2> QED
    BY <1>3, <2>1
<1>4. ASSUME NEW t \in Tab, Stepping(t)
      PROVE  Served'
  BY <1>1, <1>2, <1>3, <1>4
     DEF Stepping, WipeSessions, WipeContacts, DropPrekeys, DropAccount, PutContacts, PutHistory,
         WriteIdentity, WriteMarks, DropLock, TellOthers, Finish, Wipe, PutStaged, vaultRelay,
         vaultDisk, Store
<1>5. ASSUME NEW t \in Tab, Register(t)
      PROVE  Served'
  <2>1. PICK heard \in BOOLEAN : Published(t, heard)
    BY <1>5 DEF Register
  <2>2. sealed'["prekeys"] = {Mine(t)} /\ Mine(t).of = tab[t].id
    BY <1>0, <2>1 DEF Published, Mine
  <2> QED
    BY <2>1, <2>2 DEF Published
<1>6. ASSUME NEW t \in Tab, Link(t)
      PROVE  Served'
  <2>1. sealed'["prekeys"] = {Mine(t)} /\ Mine(t).of = tab[t].id
    BY <1>0, <1>6 DEF Link, Mine
  <2> QED
    BY <1>6, <2>1 DEF Link
<1>7. ASSUME NEW t \in Tab, NEW s \in Store, Save(t, s)
      PROVE  Served'
  BY <1>3, <1>7 DEF Save, vaultRelay, Store
<1>8. ASSUME NEW t \in Tab, ClearMarkers(t)
      PROVE  Served'
  BY <1>3, <1>8 DEF ClearMarkers, vaultRelay, Store
<1>9. ASSUME NEW t \in Tab, \/ Boot(t) \/ Enroll(t) \/ Unlock(t) \/ LockNow(t) \/ HearReset(t)
                            \/ Rewrap(t) \/ CompleteRestore(t) \/ ResetLock(t)
                            \/ EraseThisDevice(t) \/ Close(t)
                            \/ \E kind \in {"backup", "move"} : OpenFile(t, kind)
      PROVE  Served'
  BY <1>1, <1>9
     DEF Boot, Enroll, Unlock, LockNow, HearReset, Rewrap, CompleteRestore, ResetLock,
         EraseThisDevice, Close, OpenFile, vaultRelay, vaultDisk
<1> QED
  BY <1>1, <1>2, <1>4, <1>5, <1>6, <1>7, <1>8, <1>9
     DEF VaultNext, Evict, vaultVars, vaultRelay, vaultDisk

\* No step forgets that two tabs were at work.
LEMMA StraysStay ==
  ASSUME VaultTyped, [VaultNext]_vaultVars, ~strays'
  PROVE  ~strays
<1>1. CASE UNCHANGED strays
  BY <1>1
<1>2. ASSUME NEW t \in Tab, \/ strays' = Crossing(t)
                            \/ strays' = Stray(t)
      PROVE  ~strays
  BY <1>2, Zenon DEF Crossing, Stray
<1>3. ASSUME NEW t \in Tab, Close(t)
      PROVE  ~strays
  BY <1>3, Zenon DEF Close
<1>4. ASSUME NEW t \in Tab, Stepping(t)
      PROVE  UNCHANGED strays
  BY <1>4, Zenon
     DEF Stepping, WipeSessions, WipeContacts, DropPrekeys, DropAccount, PutContacts, PutHistory,
         WriteIdentity, WriteMarks, DropLock, TellOthers, Finish, Wipe, PutStaged
<1>5. ASSUME NEW t \in Tab, LockNow(t) \/ HearReset(t) \/ ClearMarkers(t) \/ CompleteRestore(t)
      PROVE  UNCHANGED strays
  BY <1>5 DEF LockNow, HearReset, ClearMarkers, CompleteRestore
<1>6. ASSUME NEW t \in Tab, Boot(t) \/ Enroll(t) \/ Unlock(t) \/ ResetLock(t) \/ EraseThisDevice(t)
      PROVE  strays' = Crossing(t)
  BY <1>6 DEF Boot, Enroll, Unlock, ResetLock, EraseThisDevice
<1>7. ASSUME NEW t \in Tab, NEW kind \in {"backup", "move"}, OpenFile(t, kind)
      PROVE  strays' = Crossing(t)
  BY <1>7 DEF OpenFile
<1>8. ASSUME NEW t \in Tab, Rewrap(t) \/ Register(t) \/ Link(t)
      PROVE  strays' = Stray(t)
  BY <1>8 DEF Rewrap, Register, Link
<1>9. ASSUME NEW t \in Tab, NEW s \in Store, Save(t, s)
      PROVE  strays' = Stray(t)
  BY <1>9 DEF Save
<1>10. CASE UNCHANGED vaultVars
  BY <1>1, <1>10 DEF vaultVars
<1>11. CASE Evict
  BY <1>1, <1>11 DEF Evict
<1> QED
  BY <1>1, <1>2, <1>3, <1>4, <1>5, <1>6, <1>7, <1>8, <1>9, <1>10, <1>11 DEF VaultNext

LEMMA VaultInvInitially == VaultInit => VaultInv
<1> SUFFICES ASSUME VaultInit PROVE VaultInv
  OBVIOUS
<1>1. VaultTyped
  BY VaultTypedInitially
<1>2. \A t \in Tab : tab[t] = ClosedTab
  BY DEF VaultInit
<1>3. \A t \in Tab : Idle(t) /\ Left(t) = {} /\ ~Live(t)
  BY <1>2, ClosedTyped DEF Idle, Left, Live
<1>4. \A s \in Stores : sealed[s] = {}
  BY DEF VaultInit, Stores
<1>5. sealed["prekeys"] = {}
  BY <1>4 DEF Stores, Store
<1>6. AtWork
  BY <1>2, <1>3, ClosedTyped DEF AtWork
<1>7. KeysHeld /\ Wiped /\ Staged
  BY <1>3 DEF KeysHeld, Wiped, Staged, VaultInit, NoWraps
<1>8. UnderOneKey /\ OfOneIdentity
  BY <1>4 DEF UnderOneKey, OfOneIdentity, VaultInit
<1>9. registered = {InFile} /\ InFile = 1 /\ generated = 0
  BY Bounds DEF VaultInit
<1>10. Served /\ ServedAsOwn
  BY <1>5, <1>9 DEF Served, ServedAsOwn
<1> QED
  BY <1>1, <1>6, <1>7, <1>8, <1>10 DEF VaultInv, Ordinary

LEMMA VaultInvKept ==
  ASSUME VaultInv, [VaultNext]_vaultVars
  PROVE  VaultInv'
<1> USE DEF VaultInv
<1>1. VaultTyped' /\ Served'
  BY VaultTypedKept, ServedKept
<1>2. ASSUME ~strays'
      PROVE  Ordinary'
  <2>1. Ordinary
    BY <1>2, StraysStay
  <2>2. CASE VaultNext
    BY <1>2, <2>1, <2>2, OrdinaryKept
  <2>3. CASE UNCHANGED vaultVars
    <3>1. UNCHANGED <<identity, sentinel, wraps, sealed, registered, tab, told, generated,
                      unmarked>>
      BY <2>3 DEF vaultVars, vaultDisk, vaultRelay, vaultCounts
    <3>2. \A t \in Tab : Left(t)' = Left(t) /\ Live(t)' = Live(t) /\ Idle(t)' = Idle(t)
      BY <3>1 DEF Left, Live, Idle
    <3>3. AtWork' /\ KeysHeld'
      BY <2>1, <3>1, <3>2 DEF Ordinary, AtWork, KeysHeld, Configured
    <3>4. Wiped' /\ Staged'
      BY <2>1, <3>1, <3>2 DEF Ordinary, Wiped, Staged, Configured
    <3>5. UnderOneKey' /\ OfOneIdentity' /\ ServedAsOwn'
      BY <2>1, <3>1 DEF Ordinary, UnderOneKey, OfOneIdentity, ServedAsOwn, Configured
    <3> QED
      BY <3>3, <3>4, <3>5 DEF Ordinary
  <2> QED
    BY <2>2, <2>3
<1> QED
  BY <1>1, <1>2

LEMMA VaultInvAlways == VaultSpec => []VaultInv
BY VaultInvInitially, VaultInvKept, PTL DEF VaultSpec

\* The keys of the prekeys the relay serves are on this device, or the next connect publishes
\* fresh ones (useNightjar.ts completeRestoreIfPending, client.ts maybeRotateSpk).
THEOREM RestoreRepublishesHolds == VaultSpec => []RestoreRepublishes
<1>1. VaultInv => RestoreRepublishes
  <2> SUFFICES ASSUME VaultInv, identity \in registered, ~strays, confirmed,
                      NEW x \in sealed["prekeys"]
               PROVE  identity \in held
    BY DEF RestoreRepublishes, VaultInv, VaultTyped, DiskTyped
  <2>1. x.of \in held /\ x.of = identity
    BY DEF VaultInv, Served, Ordinary, ServedAsOwn
  <2> QED
    BY <2>1
<1> QED
  BY <1>1, VaultInvAlways, PTL

\* An identity is made where there is none and no mark of one, at a boot.
LEMMA OnlyBootGenerates ==
  ASSUME VaultTyped, [VaultNext]_vaultVars
  PROVE  generated' # generated /\ generated > 0 => ~sentinel
<1>1. ASSUME NEW t \in Tab, Boot(t)
      PROVE  generated' # generated => ~sentinel
  BY <1>1, BootMeans
<1>2. ASSUME NEW t \in Tab, Stepping(t)
      PROVE  UNCHANGED generated
  BY <1>2
     DEF Stepping, WipeSessions, WipeContacts, DropPrekeys, DropAccount, PutContacts, PutHistory,
         WriteIdentity, WriteMarks, DropLock, TellOthers, Finish, Wipe, PutStaged, vaultCounts
<1>3. ASSUME NEW t \in Tab, \/ Enroll(t) \/ Unlock(t) \/ LockNow(t) \/ HearReset(t) \/ Rewrap(t)
                            \/ ClearMarkers(t) \/ Register(t) \/ CompleteRestore(t) \/ Link(t)
                            \/ ResetLock(t) \/ EraseThisDevice(t) \/ Close(t)
      PROVE  UNCHANGED generated
  BY <1>3
     DEF Enroll, Unlock, LockNow, HearReset, Rewrap, ClearMarkers, Register, CompleteRestore, Link,
         ResetLock, EraseThisDevice, Close, vaultCounts
<1>4. ASSUME NEW t \in Tab, NEW s \in Store, Save(t, s)
      PROVE  UNCHANGED generated
  BY <1>4 DEF Save, vaultCounts
<1>5. ASSUME NEW t \in Tab, NEW kind \in {"backup", "move"}, OpenFile(t, kind)
      PROVE  UNCHANGED generated
  BY <1>5 DEF OpenFile
<1>6. CASE Evict \/ UNCHANGED vaultVars
  BY <1>6 DEF Evict, vaultVars, vaultCounts
<1> QED
  BY <1>1, <1>2, <1>3, <1>4, <1>5, <1>6 DEF VaultNext

\* What a device holds is of one identity, under the one key its lock opens, and it never makes
\* itself another identity (restore.ts, appLockStore.ts, persist.ts).
THEOREM KeepsItsIdentityHolds == VaultSpec => KeepsItsIdentity
<1>1. VaultInv => HoldsItsOwn
  BY DEF VaultInv, Ordinary, OfOneIdentity, HoldsItsOwn, Stores
<1>2. VaultInv => LockOpensAll
  BY DEF VaultInv, Ordinary, UnderOneKey, KeysHeld, LockOpensAll, Stores
<1>3. VaultInv /\ [VaultNext]_vaultVars
         => [generated' # generated /\ generated > 0 => ~sentinel]_vaultVars
  BY OnlyBootGenerates DEF VaultInv
<1> QED
  BY <1>1, <1>2, <1>3, VaultInvAlways, PTL DEF VaultSpec, KeepsItsIdentity, NeverRegenerates

-----------------------------------------------------------------------------
(* Saved messages that leave and enter.                                    *)

\* The import still has its own copy of a message, from before this moment.
Holding(m) == import.at = "rows" /\ (m \in import.todo \/ import.batch[m] # NoRow)

\* Whatever the import has to write is the merge of what was sent with the row the device
\* has still, unless the row was overtaken.
Merging ==
  /\ import.batch # Nothing => import.at = "rows"
  /\ \A m \in Msg :
       /\ Holding(m) => unit[m] # NoRow
       /\ import.batch[m] # NoRow => m \notin import.todo
       /\ Holding(m) /\ m \notin overtaken /\ saved[m] # NoRow => saved[m] = import.prior[m]
       /\ import.batch[m] # NoRow => import.batch[m] = Merged(unit[m], import.prior[m])
       /\ import.batch[m] # NoRow /\ m \in erased => m \in overtaken
       /\ StaysDeleted(m)

\* A gathering has no message that was deleted when it began.
Gathering ==
  /\ export.at \in {"rows", "contacts"} => \A m \in export.erased : export.rows[m] = NoRow
  /\ FileIsNotTorn

LEMMA MergedType ==
  ASSUME NEW new \in SavedRow, NEW had \in SavedRow \union {NoRow}
  PROVE  /\ Merged(new, had) \in SavedRow
         /\ Merged(new, had) # NoRow
BY DEF Merged, SavedRow, Status, NoRow

\* The merge knows no less than what it found.
LEMMA MergedKeepsMore ==
  ASSUME NEW new \in SavedRow, NEW had \in SavedRow
  PROVE  /\ Rank(Merged(new, had).status) >= Rank(had.status)
         /\ had.failed => Merged(new, had).failed
BY DEF Merged, SavedRow, Status, Rank

LEMMA RowsAreFinite ==
  ASSUME NEW rs \in SavedRows
  PROVE  IsFiniteSet(Of(rs)) /\ Cardinality(Of(rs)) \in Nat
BY TransfersAssumption, FS_Subset, FS_CardinalityType DEF Of

LEMMA NothingIsRows == Nothing \in SavedRows /\ Of(Nothing) = {} /\ Cardinality({}) = 0
BY FS_EmptySet DEF Nothing, SavedRows, Of

\* What a gathering is made of.
Gatherings == [at : {"idle", "started", "rows", "contacts", "written", "sending", "people", "sealed"},
               erased : SUBSET Msg, rows : SavedRows, contact : BOOLEAN]

LEMMA NoExportIsOne == NoExport \in Gatherings
BY NothingIsRows DEF NoExport, Gatherings

\* What is still to take in was sent.
TodoWasSent == import.todo \subseteq Of(unit)

\* The saved messages, what the import makes of them and what the export takes of them
\* are of their types, and the import writes no more rows at once than a batch has.
LEMMA TransfersInductive == TransfersSpec => [](TransfersTypeOK /\ TodoWasSent)
<1> USE NothingIsRows DEF NoImport, NoExport
<1>1. TransfersInit => TransfersTypeOK /\ TodoWasSent
  <2> SUFFICES ASSUME TransfersInit PROVE TransfersTypeOK /\ TodoWasSent
    OBVIOUS
  <2>1. Cardinality(Of(import.batch)) <= Batch
    BY TransfersAssumption DEF TransfersInit
  <2> QED
    BY <2>1 DEF TransfersInit, TransfersTypeOK, TodoWasSent
<1>2. ASSUME TransfersTypeOK, TodoWasSent, [TransfersNext]_transferVars
      PROVE  TransfersTypeOK' /\ TodoWasSent'
  <2> USE <1>2 DEF TransfersTypeOK, TodoWasSent, deviceVars
  <2>0. Batch \in Nat /\ 0 <= Batch
    BY TransfersAssumption
  <2>1. CASE UNCHANGED transferVars
    BY <2>1 DEF transferVars
  <2>2. CASE StartHistoryRequest \/ CancelHistoryRequest
    BY <2>2 DEF StartHistoryRequest, CancelHistoryRequest
  <2>3. CASE ImportReadsContacts
    BY ZenonT(60), <2>3, <2>0 DEF ImportReadsContacts
  <2>4. CASE ImportReadsRows
    <3>1. PICK read : read = Of(DecodedUnit(unit, ahead))
      OBVIOUS
    <3>2. read \in SUBSET Msg /\ read \subseteq Of(unit)
      BY <3>1 DEF Of, DecodedUnit
    <3>3. import' = [import EXCEPT !.at = "rows", !.prior = saved, !.todo = read]
      BY <2>4, <3>1 DEF ImportReadsRows
    <3>4. /\ import' \in [at : {"idle", "contacts", "rows"}, contact : BOOLEAN,
                          erased : SUBSET Msg, prior : SavedRows, todo : SUBSET Msg,
                          batch : SavedRows]
          /\ import'.batch = import.batch /\ import'.todo = read
      BY <3>2, <3>3
    <3>5. Of(import'.batch) = Of(import.batch)
      BY <3>4 DEF Of
    <3>6. UNCHANGED <<saved, erased, contact, deletion, marker, queued, unit, ahead, wanted,
                      export, overtaken, closed>>
      BY <2>4 DEF ImportReadsRows
    <3>7. TodoWasSent'
      BY <3>2, <3>4, <3>6 DEF Of
    <3>8. Cardinality(Of(import'.batch)) <= Batch
      BY <3>5
    <3>9. TransfersTypeOK'
      BY <3>4, <3>6, <3>8
    <3> QED
      BY <3>7, <3>9
  <2>5. CASE ImportFlushes
    <3>1. saved' \in SavedRows
      BY <2>5 DEF ImportFlushes, SavedRows
    <3>2. /\ import' \in [at : {"idle", "contacts", "rows"}, contact : BOOLEAN,
                          erased : SUBSET Msg, prior : SavedRows, todo : SUBSET Msg,
                          batch : SavedRows]
          /\ import'.batch = Nothing /\ import'.todo = import.todo
      BY <2>5 DEF ImportFlushes
    <3>3. UNCHANGED <<erased, contact, deletion, marker, queued, unit, ahead, wanted,
                      export, overtaken, closed>>
      BY <2>5 DEF ImportFlushes
    <3>4. Cardinality(Of(import'.batch)) <= Batch
      BY <2>0, <3>2
    <3>5. TodoWasSent'
      BY <3>2, <3>3 DEF Of
    <3>6. TransfersTypeOK'
      BY <3>1, <3>2, <3>3, <3>4
    <3> QED
      BY <3>5, <3>6
  <2>6. CASE ImportEnds
    BY <2>6, <2>0 DEF ImportEnds
  <2>7. CASE ImportFails
    BY <2>7, <2>0 DEF ImportFails
  <2>8. ASSUME NEW m \in Msg, ImportTakes(m)
        PROVE  TransfersTypeOK' /\ TodoWasSent'
    <3> DEFINE row == IF Refused(m) THEN NoRow ELSE Merged(unit[m], import.prior[m])
    <3>0. unit[m] \in SavedRow
      BY <2>8 DEF ImportTakes, Of, SavedRows
    <3>1. row \in SavedRow \union {NoRow}
      BY <3>0, MergedType DEF SavedRows
    <3>2. import' = [import EXCEPT !.todo = @ \ {m}, !.batch[m] = row]
      BY <2>8 DEF ImportTakes
    <3> HIDE DEF row
    <3>3. /\ import'.batch = [import.batch EXCEPT ![m] = row]
          /\ import'.batch \in SavedRows
          /\ import' \in [at : {"idle", "contacts", "rows"}, contact : BOOLEAN,
                          erased : SUBSET Msg, prior : SavedRows, todo : SUBSET Msg,
                          batch : SavedRows]
      BY <3>1, <3>2 DEF SavedRows
    <3>4. Of(import'.batch) \subseteq Of(import.batch) \cup {m}
      BY <3>3 DEF Of, SavedRows
    <3>5. Cardinality(Of(import.batch)) < Batch
      BY <2>8, <2>0, RowsAreFinite DEF ImportTakes, Full
    <3>6. IsFiniteSet(Of(import.batch)) /\ Cardinality(Of(import.batch)) \in Nat
      BY RowsAreFinite
    <3>7. /\ IsFiniteSet(Of(import.batch) \cup {m})
          /\ Cardinality(Of(import.batch) \cup {m}) <= Cardinality(Of(import.batch)) + 1
      BY SMTT(60), <3>6, FS_AddElement
    <3>8. /\ IsFiniteSet(Of(import'.batch))
          /\ Cardinality(Of(import'.batch)) <= Cardinality(Of(import.batch) \cup {m})
      BY <3>4, <3>7, FS_Subset
    <3>9. /\ Cardinality(Of(import'.batch)) \in Nat
          /\ Cardinality(Of(import.batch) \cup {m}) \in Nat
      BY <3>7, <3>8, FS_CardinalityType
    <3>10. Cardinality(Of(import'.batch)) <= Batch
      BY <2>0, <3>5, <3>6, <3>7, <3>8, <3>9
    <3> QED
      BY <2>8, <3>2, <3>3, <3>10 DEF ImportTakes
  <2>9. ASSUME NEW m \in Msg, Send(m) \/ MarkFailed(m) \/ DeleteArrives(m)
        PROVE  TransfersTypeOK' /\ TodoWasSent'
    <3>1. Overtakes(m) \subseteq Msg
      BY DEF Overtakes
    <3>2. saved' \in SavedRows
      <4>1. CASE Send(m)
        BY <4>1 DEF Send, SavedRows, SavedRow, Status
      <4>2. CASE MarkFailed(m)
        BY ZenonT(60), <4>2 DEF MarkFailed, SavedRows, SavedRow, Status
      <4>3. CASE DeleteArrives(m)
        BY <4>3 DEF DeleteArrives, SavedRows
      <4> QED
        BY <2>9, <4>1, <4>2, <4>3
    <3> QED
      BY <2>9, <3>1, <3>2, <2>0 DEF Send, MarkFailed, DeleteArrives
  <2>10. ASSUME NEW m \in Msg, NEW s \in {"sent", "delivered"}, MarkDelivery(m, s)
         PROVE  TransfersTypeOK' /\ TodoWasSent'
    <3>1. Overtakes(m) \subseteq Msg
      BY DEF Overtakes
    <3>2. saved' \in SavedRows
      BY <2>10 DEF MarkDelivery, SavedRows, SavedRow, Status
    <3> QED
      BY <2>10, <3>1, <3>2, <2>0 DEF MarkDelivery
  <2>11. CASE DeleteConversation \/ MarkDismissed \/ RemoveContact
    BY <2>11, <2>0 DEF DeleteConversation, MarkDismissed, RemoveContact
  <2>12. CASE SweepHistory
    <3>1. UNION {Overtakes(m) : m \in Msg} \subseteq Msg
      BY DEF Overtakes
    <3> QED
      BY <2>12, <3>1, <2>0 DEF SweepHistory
  <2>13. CASE ProgramCloses
    BY <2>13, <2>0 DEF ProgramCloses
  <2>14. CASE ExportBegins \/ ExportReadsContacts \/ HistoryBegins \/ HistoryReadsContacts
    BY ZenonT(60), <2>14, <2>0 DEF ExportBegins, ExportReadsContacts, HistoryBegins, HistoryReadsContacts
  <2>15. CASE ExportReadsRows \/ SealHistoryFor
    <3>1. \A f \in SUBSET Msg : [m \in Msg |-> IF m \in f THEN NoRow ELSE saved[m]] \in SavedRows
      BY DEF SavedRows
    <3>2. PICK rs \in SavedRows : rs = [m \in Msg |-> IF Sent(m) THEN saved[m] ELSE NoRow]
      BY DEF SavedRows
    <3>3. CASE ExportReadsRows
      BY <3>3, <3>1, <2>0 DEF ExportReadsRows
    <3>4. CASE SealHistoryFor
      <4>1. export' = [export EXCEPT !.at = "sealed", !.rows = rs] \/ export' = NoExport
        BY <3>2, <3>4 DEF SealHistoryFor
      <4>2. CASE export' = NoExport
        BY <3>4, <4>2, <2>0, NoExportIsOne DEF SealHistoryFor, Gatherings
      <4>3. CASE export' = [export EXCEPT !.at = "sealed", !.rows = rs]
        BY ZenonT(60), <3>4, <4>3, <2>0 DEF SealHistoryFor
      <4> QED
        BY <4>1, <4>2, <4>3
    <3> QED
      BY <2>15, <3>3, <3>4
  <2>16. CASE ExportEnds
    <3>1. PICK kept \in BOOLEAN : kept = PersonKept
      BY DEF PersonKept
    <3>2. \/ export' = NoExport
          \/ export' = [export EXCEPT !.at = "written", !.contact = kept]
          \/ export' = [export EXCEPT !.at = "written", !.contact = kept, !.rows = Nothing]
      BY <2>16, <3>1 DEF ExportEnds
    <3>3. CASE export' = NoExport
      BY <2>16, <3>3, <2>0, NoExportIsOne DEF ExportEnds, Gatherings
    <3>4. CASE export' = [export EXCEPT !.at = "written", !.contact = kept]
      BY ZenonT(60), <2>16, <3>1, <3>4, <2>0 DEF ExportEnds
    <3>5. CASE export' = [export EXCEPT !.at = "written", !.contact = kept, !.rows = Nothing]
      BY ZenonT(60), <2>16, <3>1, <3>5, <2>0 DEF ExportEnds
    <3> QED
      BY <3>2, <3>3, <3>4, <3>5
  <2> QED
    BY <2>1, <2>2, <2>3, <2>4, <2>5, <2>6, <2>7, <2>8, <2>9, <2>10, <2>11, <2>12, <2>13, <2>14,
       <2>15, <2>16 DEF TransfersNext
<1> QED
  BY <1>1, <1>2, PTL DEF TransfersSpec

\* The saved messages are rows, and the import's batch keeps its bound (importHistoryTransfer).
THEOREM TransfersTypesHold == TransfersSpec => []TransfersTypeOK
BY TransfersInductive, PTL

\* What each step of the import, the export and the program beside them leaves true of a
\* gathering.
LEMMA GatheringKept ==
  ASSUME TransfersTypeOK, Gathering, [TransfersNext]_transferVars
  PROVE  Gathering'
<1> USE DEF TransfersTypeOK, deviceVars, Gathering, FileIsNotTorn, Made
<1>1. CASE UNCHANGED <<export, marker>>
  BY <1>1
<1>2. CASE ExportBegins \/ HistoryBegins \/ ExportReadsContacts \/ HistoryReadsContacts
  BY <1>2 DEF ExportBegins, HistoryBegins, ExportReadsContacts, HistoryReadsContacts, NoExport
<1>3. CASE ExportReadsRows
  BY <1>3 DEF ExportReadsRows
<1>4. CASE ExportEnds
  <2>1. CASE export' = NoExport
    BY <2>1 DEF NoExport
  <2>2. CASE export' = [export EXCEPT !.at = "written", !.contact = PersonKept,
                                      !.rows = IF PersonKept THEN @ ELSE Nothing]
    <3>1. /\ export'.at = "written" /\ export'.contact = PersonKept
          /\ export'.erased = export.erased
          /\ export'.rows = IF PersonKept THEN export.rows ELSE Nothing
      BY <2>2
    <3>2. \A m \in Msg : Nothing[m] = NoRow
      BY DEF Nothing
    <3>3. Of(Nothing) = {}
      BY NothingIsRows
    <3> QED
      BY <1>4, <3>1, <3>2, <3>3 DEF ExportEnds, PersonKept
  <2> QED
    BY <1>4, <2>1, <2>2 DEF ExportEnds
<1>5. CASE SealHistoryFor
  <2>1. CASE export' = NoExport
    BY <2>1 DEF NoExport
  <2>2. CASE export' = [export EXCEPT !.at = "sealed",
                           !.rows = [m \in Msg |-> IF Sent(m) THEN saved[m] ELSE NoRow]]
    <3>1. /\ export'.at = "sealed" /\ export'.erased = export.erased
          /\ export'.contact = export.contact
          /\ export'.rows = [m \in Msg |-> IF Sent(m) THEN saved[m] ELSE NoRow]
      BY <2>2
    <3>2. \A m \in Msg : export'.rows[m] # NoRow => m \notin export.erased /\ export.contact
      BY <3>1 DEF Sent
    <3> QED
      BY <3>1, <3>2 DEF Of
  <2> QED
    BY <1>5, <2>1, <2>2 DEF SealHistoryFor
<1>6. CASE MarkDismissed
  BY <1>6 DEF MarkDismissed
<1>7. CASE ProgramCloses
  BY <1>7 DEF ProgramCloses, NoExport
<1>8. CASE ImportFlushes \/ ImportEnds \/ ImportFails \/ ImportReadsContacts \/ ImportReadsRows
  BY <1>1, <1>8 DEF ImportFlushes, ImportEnds, ImportFails, ImportReadsContacts, ImportReadsRows
<1>9. ASSUME NEW m \in Msg, ImportTakes(m) \/ Send(m) \/ MarkFailed(m) \/ DeleteArrives(m)
      PROVE  Gathering'
  BY <1>1, <1>9 DEF ImportTakes, Send, MarkFailed, DeleteArrives
<1>10. ASSUME NEW m \in Msg, NEW s \in {"sent", "delivered"}, MarkDelivery(m, s)
       PROVE  Gathering'
  BY <1>1, <1>10 DEF MarkDelivery
<1>11. CASE \/ StartHistoryRequest \/ CancelHistoryRequest \/ DeleteConversation \/ RemoveContact
            \/ SweepHistory
  BY <1>1, <1>11 DEF StartHistoryRequest, CancelHistoryRequest, DeleteConversation, RemoveContact,
     SweepHistory
<1> QED
  BY <1>1, <1>2, <1>3, <1>4, <1>5, <1>6, <1>7, <1>8, <1>9, <1>10, <1>11
     DEF TransfersNext, transferVars

\* A move file has nothing of a conversation whose deletion was marked while it was gathered,
\* and neither it nor what is sent to another device has a message without its contact, or
\* one deleted before it began (exportMoveData, prepareHistoryTransfer).
THEOREM FileIsNotTornHolds == TransfersSpec => []FileIsNotTorn
<1>1. TransfersInit => Gathering
  BY DEF TransfersInit, Gathering, FileIsNotTorn, Made, NoExport
<1>2. Gathering => FileIsNotTorn
  BY SMTT(60) DEF Gathering
<1> QED
  BY <1>1, <1>2, GatheringKept, TransfersTypesHold, PTL DEF TransfersSpec

\* What every step leaves true of an import, and what it makes of a row that stays.
LEMMA MergingKept ==
  ASSUME TransfersTypeOK, TodoWasSent, Merging, [TransfersNext]_transferVars
  PROVE  /\ Merging'
         /\ \A m \in Msg \ overtaken : saved[m] # NoRow /\ saved'[m] # NoRow =>
               /\ Rank(saved'[m].status) >= Rank(saved[m].status)
               /\ saved[m].failed => saved'[m].failed
<1> DEFINE Keeps == \A m \in Msg \ overtaken : saved[m] # NoRow /\ saved'[m] # NoRow =>
                       /\ Rank(saved'[m].status) >= Rank(saved[m].status)
                       /\ saved[m].failed => saved'[m].failed
<1> SUFFICES Merging' /\ Keeps
  OBVIOUS
<1>0. saved' = saved => Keeps
  BY DEF TransfersTypeOK, SavedRows, SavedRow, Status, Rank
<1> USE DEF TransfersTypeOK, TodoWasSent, deviceVars, Merging, Holding, StaysDeleted
<1>1. CASE UNCHANGED <<saved, erased, unit, import, overtaken>>
  BY <1>0, <1>1
<1>2. CASE ImportReadsContacts \/ ImportReadsRows
  <2>1. /\ saved' = saved /\ erased' = erased /\ unit' = unit /\ overtaken' = overtaken
        /\ \A m \in Msg : import'.batch[m] = NoRow
        /\ import'.at = "rows" => import'.prior = saved /\ import'.todo \subseteq Of(unit)
        /\ import'.batch = Nothing
    <3>1. CASE ImportReadsContacts
      BY <3>1 DEF ImportReadsContacts, NoImport, Nothing
    <3>2. CASE ImportReadsRows
      <4>1. /\ import.batch = Nothing
            /\ import'.batch = import.batch /\ import'.prior = saved
            /\ import'.todo = Of(DecodedUnit(unit, ahead))
        BY <3>2 DEF ImportReadsRows
      <4> QED
        BY <3>2, <4>1 DEF ImportReadsRows, Nothing, Of, DecodedUnit
    <3> QED
      BY <1>2, <3>1, <3>2
  <2> QED
    BY <1>0, <2>1 DEF Of
<1>3. ASSUME NEW k \in Msg, ImportTakes(k)
      PROVE  Merging' /\ Keeps
  <2> DEFINE row == IF Refused(k) THEN NoRow ELSE Merged(unit[k], import.prior[k])
  <2>1. /\ saved' = saved /\ erased' = erased /\ unit' = unit /\ overtaken' = overtaken
        /\ import.at = "rows" /\ k \in import.todo
        /\ import'.at = "rows" /\ import'.todo = import.todo \ {k} /\ import'.prior = import.prior
        /\ import'.batch = [import.batch EXCEPT ![k] = row]
    BY <1>3 DEF ImportTakes
  <2>2. row # NoRow => row = Merged(unit[k], import.prior[k]) /\ k \notin erased
    BY DEF Refused
  <2> HIDE DEF row
  <2> QED
    BY <1>0, <2>1, <2>2 DEF SavedRows
<1>4. CASE ImportFlushes
  <2>1. /\ erased' = erased /\ unit' = unit /\ overtaken' = overtaken
        /\ import.at = "rows"
        /\ saved' = [m \in Msg |-> IF import.batch[m] # NoRow THEN import.batch[m] ELSE saved[m]]
        /\ import'.at = import.at /\ import'.prior = import.prior /\ import'.todo = import.todo
        /\ import'.batch = Nothing /\ \A m \in Msg : import'.batch[m] = NoRow
    BY <1>4 DEF ImportFlushes, Nothing
  <2>2. \A m \in Msg : StaysDeleted(m)'
    BY <2>1
  <2>3. ASSUME NEW m \in Msg, m \notin overtaken, saved[m] # NoRow, import.batch[m] # NoRow
        PROVE  /\ Rank(saved'[m].status) >= Rank(saved[m].status)
               /\ saved[m].failed => saved'[m].failed
    <3>1. /\ saved'[m] = Merged(unit[m], saved[m])
          /\ unit[m] \in SavedRow /\ saved[m] \in SavedRow
      BY <2>1, <2>3 DEF SavedRows
    <3> QED
      BY <3>1, MergedKeepsMore
  <2>4. Keeps
    BY <2>1, <2>3 DEF SavedRows, SavedRow, Status, Rank
  <2>5. \A m \in Msg : Holding(m)' => m \in import.todo /\ saved'[m] = saved[m]
    BY <2>1
  <2> QED
    BY <2>1, <2>2, <2>4, <2>5
<1>5. CASE ImportEnds
  BY <1>0, <1>5 DEF ImportEnds, NoImport, Nothing
<1>6. CASE ImportFails
  BY <1>0, <1>6 DEF ImportFails, NoImport, Nothing
<1>7. CASE ProgramCloses
  BY <1>0, <1>7 DEF ProgramCloses, NoImport, Nothing
<1>8. ASSUME NEW k \in Msg, Send(k)
      PROVE  Merging' /\ Keeps
  <2>1. /\ erased' = erased /\ unit' = unit /\ overtaken' = overtaken /\ import' = import
        /\ saved[k] = NoRow /\ k \notin erased /\ unit[k] = NoRow
        /\ \A m \in Msg \ {k} : saved'[m] = saved[m]
    BY <1>8 DEF Send, SavedRows
  <2>2. Keeps
    BY <2>1 DEF SavedRows, SavedRow, Status, Rank
  <2> QED
    BY <2>1, <2>2
<1>9. ASSUME NEW k \in Msg,
             \/ \E s \in {"sent", "delivered"} : MarkDelivery(k, s)
             \/ MarkFailed(k)
      PROVE  Merging' /\ Keeps
  <2>1. /\ erased' = erased /\ unit' = unit /\ import' = import
        /\ overtaken' = overtaken \union Overtakes(k)
        /\ saved[k] # NoRow /\ \A m \in Msg \ {k} : saved'[m] = saved[m]
    BY <1>9 DEF MarkDelivery, MarkFailed, SavedRows
  <2>2. /\ Rank(saved'[k].status) >= Rank(saved[k].status)
        /\ saved[k].failed => saved'[k].failed
    <3>1. saved[k] \in SavedRow
      BY <2>1 DEF SavedRows
    <3>2. ASSUME NEW s \in {"sent", "delivered"}, MarkDelivery(k, s)
          PROVE  /\ Rank(saved'[k].status) >= Rank(saved[k].status)
                 /\ saved[k].failed => saved'[k].failed
      <4>1. saved'[k].status = s /\ saved'[k].failed = saved[k].failed
        BY <3>1, <3>2 DEF MarkDelivery, SavedRows
      <4>2. saved[k].status \in {"unknown", "sent"} /\ (s = "sent" => saved[k].status # "sent")
        BY <3>1, <3>2 DEF MarkDelivery, SavedRow, Status
      <4> QED
        BY <4>1, <4>2 DEF Rank
    <3>3. CASE MarkFailed(k)
      BY <3>1, <3>3 DEF MarkFailed, SavedRows, SavedRow, Status, Rank
    <3> QED
      BY <1>9, <3>2, <3>3
  <2>3. Keeps
    <3>1. \A m \in Msg : saved[m] # NoRow => Rank(saved[m].status) \in Nat
      BY DEF SavedRows, SavedRow, Status, Rank
    <3> QED
      BY <2>1, <2>2, <3>1
  <2> QED
    BY <2>1, <2>3 DEF Overtakes
<1>10. ASSUME NEW k \in Msg, DeleteArrives(k)
       PROVE  Merging' /\ Keeps
  <2>1. /\ unit' = unit /\ import' = import /\ erased' = erased \union {k}
        /\ overtaken' = overtaken \union (IF import.batch[k] # NoRow THEN {k} ELSE {})
        /\ saved'[k] = NoRow /\ \A m \in Msg \ {k} : saved'[m] = saved[m]
    BY <1>10 DEF DeleteArrives, SavedRows
  <2>2. Keeps
    BY <2>1 DEF SavedRows, SavedRow, Status, Rank
  <2> QED
    BY <2>1, <2>2
<1>11. CASE SweepHistory
  <2>1. /\ unit' = unit /\ import' = import /\ erased' = erased
        /\ overtaken \subseteq overtaken' /\ \A m \in Msg : saved'[m] = NoRow
    BY <1>11 DEF SweepHistory, Nothing
  <2> QED
    BY <2>1
<1>12. CASE \/ StartHistoryRequest \/ CancelHistoryRequest \/ DeleteConversation \/ RemoveContact
            \/ MarkDismissed \/ ExportBegins \/ HistoryBegins \/ ExportReadsContacts
            \/ HistoryReadsContacts \/ ExportReadsRows \/ ExportEnds \/ SealHistoryFor
  <2>1. UNCHANGED <<saved, erased, unit, import, overtaken>>
    BY <1>12 DEF StartHistoryRequest, CancelHistoryRequest, DeleteConversation, RemoveContact,
                 MarkDismissed, ExportBegins, HistoryBegins, ExportReadsContacts,
                 HistoryReadsContacts, ExportReadsRows, ExportEnds, SealHistoryFor
  <2> QED
    BY <1>1, <2>1
<1> QED
  BY <1>1, <1>2, <1>3, <1>4, <1>5, <1>6, <1>7, <1>8, <1>9, <1>10, <1>11, <1>12
     DEF TransfersNext, transferVars

\* An import brings no deleted message back, whenever the delete arrives, and a row that
\* stays is never worth less than before, unless it was overtaken (importHistoryTransfer).
THEOREM ImportLosesNothingHolds == TransfersSpec => ImportLosesNothing
<1>1. TransfersInit => Merging
  BY DEF TransfersInit, Merging, Holding, StaysDeleted, NoImport, Nothing
<1>2. Merging => \A n \in Msg : StaysDeleted(n)
  BY DEF Merging
<1>3. TransfersTypeOK /\ TodoWasSent /\ Merging /\ [TransfersNext]_transferVars => Merging'
  BY MergingKept
<1>4. TransfersTypeOK /\ TodoWasSent /\ Merging /\ [TransfersNext]_transferVars =>
        [\A m \in Msg \ overtaken : saved[m] # NoRow /\ saved'[m] # NoRow =>
             /\ Rank(saved'[m].status) >= Rank(saved[m].status)
             /\ saved[m].failed => saved'[m].failed]_transferVars
  BY MergingKept
<1> QED
  BY <1>1, <1>2, <1>3, <1>4, TransfersInductive, PTL
     DEF TransfersSpec, ImportLosesNothing, MergeKeepsMore

-----------------------------------------------------------------------------
(* The connection: one socket, and requests that end once.                  *)

\* What a socket carries to the Inbox: only requests name one.
Upward == {f \in Frame : f.t = "request" => f.req \in Request}

\* Types, and nothing is known of a socket that was not opened yet.
Wired ==
  /\ current \in Socket \cup {0} /\ opened \in 0 .. MaxSockets
  /\ link \in [Socket -> {"none", "opening", "open", "closing", "closed"}]
  /\ waiting \in [Socket -> Routine \cup {"none"}]
  /\ server \in [Socket -> {"none", "challenged", "checking", "ready"}]
  /\ up \in [Socket -> Seq(Upward)] /\ down \in [Socket -> Seq(Frame)]
  /\ routine \in [Routine -> {"idle", "connecting", "after", "done"}]
  /\ timer \in BOOLEAN /\ online \in BOOLEAN
  /\ outcome \in [Request -> {"none", "pending", "unsent", "answered", "refused", "dropped",
                              "timed out"}]
  /\ jobs \subseteq [req : Request, on : Socket] /\ stray \in Nat
  /\ \A s \in Socket : s > opened => link[s] = "none" /\ waiting[s] = "none"

\* Who waits for which socket: one routine for one, and for each that is being opened.
Waits ==
  /\ \A s \in Socket : waiting[s] # "none" => routine[waiting[s]] = "connecting"
  /\ \A s, z \in Socket : waiting[s] # "none" /\ waiting[s] = waiting[z] => s = z
  /\ \A s \in Socket : link[s] = "opening" => waiting[s] # "none"

\* Until the first attempt is over there is no other.
Begun ==
  /\ routine["first"] = "idle" => opened = 0
  /\ routine["first"] = "connecting" => current # 0 /\ waiting[current] = "first"
  /\ routine["first"] \in {"idle", "connecting"} => ~timer /\ routine["retry"] = "idle"

ConnectionInv == Wired /\ Waits /\ Begun /\ OneSocket

\* A new socket is opened when no other is open or being opened.
LEMMA Connects ==
  ASSUME ConnectionInv, NEW by \in Routine, Connect(by), ~IsOpen,
         \/ by = "first" /\ routine["first"] = "idle" /\ timer' = timer
         \/ by = "retry" /\ ~Connecting /\ routine["first"] \notin {"idle", "connecting"}
            /\ timer' = FALSE,
         UNCHANGED <<server, up, down, online, outcome, jobs, stray>>
  PROVE  ConnectionInv'
<1> USE ConnectionAssumption DEF ConnectionAssumption
<1>0. opened \in Nat /\ opened + 1 \in Socket
  <2>1. opened + 1 \in Socket
    BY DEF Connect
  <2>2. opened \in 0 .. MaxSockets
    BY DEF ConnectionInv, Wired
  <2> QED
    BY <2>1, <2>2
<1> PICK s \in Socket : s = opened + 1
  BY <1>0
<1>1. s \in Nat /\ s > opened /\ opened' = s /\ current' = s
  BY <1>0 DEF Connect, Socket
<1>2. \A z \in Socket : link[z] \notin {"opening", "open"}
  <2> SUFFICES ASSUME NEW z \in Socket, link[z] \in {"opening", "open"} PROVE FALSE
    OBVIOUS
  <2>1. current = z /\ current # 0
    BY DEF ConnectionInv, OneSocket, Socket
  <2>2. link[z] = "opening" /\ waiting[z] # "none"
    BY <2>1 DEF IsOpen, ConnectionInv, Waits
  <2>3. routine[waiting[z]] = "connecting" /\ waiting[z] \in {"first", "retry"}
    BY <2>2 DEF ConnectionInv, Waits, Wired, Routine
  <2>4. opened # 0
    <3>1. ~(z > opened)
      BY <2>2 DEF ConnectionInv, Wired
    <3>2. z \in Nat \ {0}
      BY DEF Socket
    <3> QED
      BY <1>0, <3>1, <3>2
  <2> QED
    BY <2>3, <2>4 DEF ConnectionInv, Begun, Connecting
<1>3. \A z \in Socket : waiting[z] # by
  BY DEF ConnectionInv, Waits, Connecting, Routine
<1>4. /\ link' = [link EXCEPT ![s] = "opening"] /\ waiting' = [waiting EXCEPT ![s] = by]
      /\ routine' = [routine EXCEPT ![by] = "connecting"]
  BY DEF Connect
<1>5. Wired'
  <2>1. ASSUME NEW z \in Socket, z > s PROVE link'[z] = "none" /\ waiting'[z] = "none"
    <3>1. z \in Nat /\ z > opened /\ z # s
      BY <1>0, <1>1, <2>1 DEF Socket
    <3> QED
      BY <1>4, <3>1 DEF ConnectionInv, Wired
  <2>2. opened' \in 0 .. MaxSockets
    BY <1>1 DEF Socket
  <2> QED
    BY <1>1, <1>4, <2>1, <2>2 DEF ConnectionInv, Wired
<1>6. waiting[s] = "none" /\ by # "none"
  BY <1>1 DEF ConnectionInv, Wired, Routine
<1>7. Waits'
  <2>1. \A z \in Socket : waiting'[z] = IF z = s THEN by ELSE waiting[z]
    BY <1>1, <1>4 DEF ConnectionInv, Wired
  <2>2. \A z \in Socket : waiting'[z] # "none" => routine'[waiting'[z]] = "connecting"
    <3> SUFFICES ASSUME NEW z \in Socket, waiting'[z] # "none"
                 PROVE  routine'[waiting'[z]] = "connecting"
      OBVIOUS
    <3>1. CASE z = s
      BY <1>4, <2>1, <3>1 DEF ConnectionInv, Wired
    <3>2. CASE z # s
      <4>1. waiting'[z] = waiting[z] /\ waiting[z] \in Routine /\ waiting[z] # by
        BY ZenonT(60), <1>3, <2>1, <3>2 DEF ConnectionInv, Wired
      <4>2. routine[waiting[z]] = "connecting"
        BY <2>1, <3>2 DEF ConnectionInv, Waits
      <4> QED
        BY <1>4, <4>1, <4>2 DEF ConnectionInv, Wired
    <3> QED
      BY <3>1, <3>2
  <2>3. \A z \in Socket : link'[z] = "opening" => waiting'[z] # "none"
    BY <1>2, <1>4, <1>6, <2>1 DEF ConnectionInv, Wired
  <2> QED
    BY <1>3, <2>1, <2>2, <2>3 DEF ConnectionInv, Waits
<1>8. Begun'
  <2>1. waiting'[s] = by /\ s # 0
    <3>1. s # 0
      BY DEF Socket
    <3> QED
      BY <1>4, <3>1 DEF ConnectionInv, Wired
  <2>2. CASE by = "first" /\ routine["first"] = "idle" /\ timer' = timer
    BY <1>1, <1>4, <2>1, <2>2 DEF ConnectionInv, Wired, Begun, Routine
  <2>3. CASE by = "retry" /\ routine["first"] \notin {"idle", "connecting"}
    BY <1>1, <1>4, <2>3 DEF ConnectionInv, Wired, Begun, Routine
  <2> QED
    BY <2>2, <2>3
<1>9. OneSocket'
  BY <1>1, <1>2, <1>4 DEF ConnectionInv, Wired, OneSocket
<1> QED
  BY <1>5, <1>7, <1>8, <1>9 DEF ConnectionInv

\* A connect() that did not succeed ends its routine, and a socket that dies carries no more.
LEMMA Rejects ==
  ASSUME ConnectionInv, NEW s \in Socket, link[s] # "none", Rejected(s),
         UNCHANGED <<current, opened, online, outcome, stray>>,
         \/ Dying(s)
         \/ /\ link[s] = "open" /\ UNCHANGED <<link, server, up, jobs>>
            /\ down' \in [Socket -> Seq(Frame)]
  PROVE  ConnectionInv'
<1> USE ConnectionAssumption DEF ConnectionAssumption
<1>1. /\ waiting' = [waiting EXCEPT ![s] = "none"]
      /\ \/ /\ waiting[s] = "retry" /\ routine' = [routine EXCEPT !["retry"] = "idle"]
            /\ timer' = TRUE /\ routine["first"] \notin {"idle", "connecting"}
         \/ /\ waiting[s] = "first" /\ routine' = [routine EXCEPT !["first"] = "done"]
            /\ timer' = timer
         \/ waiting[s] = "none" /\ routine' = routine /\ timer' = timer
  <2>1. waiting[s] \in {"first", "retry", "none"}
    BY DEF ConnectionInv, Wired, Routine
  <2>2. waiting[s] = "retry" => routine["first"] \notin {"idle", "connecting"}
    BY DEF ConnectionInv, Waits, Begun
  <2> QED
    BY <2>1, <2>2 DEF Rejected
<1>2. /\ link' = link \/ link' = [link EXCEPT ![s] = "closing"]
      /\ link'[s] # "opening"
  BY DEF ConnectionInv, Wired, Dying
<1>3. Wired'
  <2>1. /\ server' \in [Socket -> {"none", "challenged", "checking", "ready"}]
        /\ up' \in [Socket -> Seq(Upward)] /\ down' \in [Socket -> Seq(Frame)]
        /\ jobs' \subseteq [req : Request, on : Socket]
    <3>1. /\ server' = server \/ server' = [server EXCEPT ![s] = "none"]
          /\ up' = up \/ up' = [up EXCEPT ![s] = <<>>]
          /\ down' \in [Socket -> Seq(Frame)] \/ down' = [down EXCEPT ![s] = <<>>]
          /\ jobs' \subseteq jobs
      BY DEF Dying
    <3>2. <<>> \in Seq(Upward) /\ <<>> \in Seq(Frame)
      BY EmptySeq
    <3> QED
      BY ZenonT(60), <3>1, <3>2 DEF ConnectionInv, Wired
  <2>2. routine' \in [Routine -> {"idle", "connecting", "after", "done"}] /\ timer' \in BOOLEAN
    BY <1>1 DEF ConnectionInv, Wired
  <2>3. /\ link' \in [Socket -> {"none", "opening", "open", "closing", "closed"}]
        /\ waiting' \in [Socket -> Routine \cup {"none"}]
    BY <1>1, <1>2 DEF ConnectionInv, Wired
  <2>5. \A z \in Socket : z > opened => link'[z] = "none" /\ waiting'[z] = "none"
    <3> SUFFICES ASSUME NEW z \in Socket, z > opened
                 PROVE  link'[z] = "none" /\ waiting'[z] = "none"
      OBVIOUS
    <3>1. link[z] = "none" /\ waiting[z] = "none" /\ z # s
      BY DEF ConnectionInv, Wired
    <3> QED
      BY <1>1, <1>2, <3>1 DEF ConnectionInv, Wired
  <2> QED
    BY <2>1, <2>2, <2>3, <2>5 DEF ConnectionInv, Wired
<1>4. Waits'
  <2>1. \A z \in Socket : waiting'[z] = IF z = s THEN "none" ELSE waiting[z]
    BY <1>1 DEF ConnectionInv, Wired
  <2>2. \A z \in Socket : z # s => link'[z] = link[z]
    BY <1>2 DEF ConnectionInv, Wired
  <2>3. ASSUME NEW z \in Socket, z # s, waiting[z] # "none"
        PROVE  routine'[waiting[z]] = "connecting"
    <3>1. waiting[z] # waiting[s]
      BY <2>3 DEF ConnectionInv, Waits
    <3>2. waiting[z] \in Routine /\ routine[waiting[z]] = "connecting"
      <4>1. waiting[z] \in Routine
        BY <2>3 DEF ConnectionInv, Wired
      <4>2. routine[waiting[z]] = "connecting"
        BY <2>3 DEF ConnectionInv, Waits
      <4> QED
        BY <4>1, <4>2
    <3> QED
      BY <1>1, <3>1, <3>2 DEF ConnectionInv, Wired
  <2> QED
    BY <1>2, <2>1, <2>2, <2>3 DEF ConnectionInv, Waits
<1>5. Begun'
  <2>1. CASE waiting[s] = "first"
    BY <1>1, <2>1 DEF ConnectionInv, Wired, Begun, Routine
  <2>2. CASE waiting[s] # "first"
    <3>1. \A z \in Socket : waiting'[z] = waiting[z] \/ z = s
      BY <1>1 DEF ConnectionInv, Wired
    <3>5. current # 0 => current \in Socket
      BY DEF ConnectionInv, Wired
    <3>2. routine'["first"] = routine["first"]
      BY <1>1, <2>2 DEF ConnectionInv, Wired, Routine
    <3>3. routine["first"] \in {"idle", "connecting"} => waiting[s] = "none"
      BY <1>1, <2>2
    <3>4. routine["first"] \in {"idle", "connecting"} => routine' = routine /\ timer' = timer
      BY <1>1, <3>3
    <3> QED
      BY <2>2, <3>1, <3>2, <3>4, <3>5 DEF ConnectionInv, Begun
  <2> QED
    BY <2>1, <2>2
<1>6. OneSocket'
  BY <1>2 DEF ConnectionInv, Wired, OneSocket
<1> QED
  BY <1>3, <1>4, <1>5, <1>6 DEF ConnectionInv

\* The steps of connecting.
LEMMA ConnectingKeeps ==
  ASSUME ConnectionInv,
         \/ FirstConnect \/ TimerFires \/ Kick
         \/ \E by \in Routine : Connected(by)
         \/ \E s \in Socket : ConnectTimeout(s) \/ Lose(s) \/ CloseEvent(s) \/ Accept(s)
  PROVE  ConnectionInv'
<1> USE ConnectionAssumption DEF ConnectionAssumption
<1>1. CASE FirstConnect
  <2>1. ~IsOpen /\ "first" \in Routine
    BY <1>1 DEF FirstConnect, IsOpen, Routine
  <2> QED
    BY <1>1, <2>1, Connects DEF FirstConnect
<1>2. ASSUME TryReconnect, timer' = FALSE, routine["first"] \notin {"idle", "connecting"},
             UNCHANGED <<server, up, down, online, outcome, jobs, stray>>
      PROVE  ConnectionInv'
  <2>1. CASE IsOpen \/ Connecting
    <3>1. UNCHANGED <<current, opened, link, waiting, routine, server, up, down, online, outcome,
                      jobs, stray>>
      BY <1>2, <2>1 DEF TryReconnect
    <3>2. Wired'
      BY <1>2, <3>1 DEF ConnectionInv, Wired
    <3>3. Waits' /\ OneSocket'
      BY <3>1 DEF ConnectionInv, Waits, OneSocket
    <3>4. Begun'
      BY <1>2, <3>1 DEF Begun
    <3> QED
      BY <3>2, <3>3, <3>4 DEF ConnectionInv
  <2>2. CASE ~(IsOpen \/ Connecting)
    <3>1. Connect("retry") /\ "retry" \in Routine
      BY <1>2, <2>2 DEF TryReconnect, Routine
    <3> QED
      BY <1>2, <2>2, <3>1, Connects
  <2> QED
    BY <2>1, <2>2
<1>3. CASE TimerFires
  BY <1>2, <1>3 DEF TimerFires, ConnectionInv, Begun
<1>4. CASE Kick
  BY <1>2, <1>4 DEF Kick
<1>5. ASSUME NEW by \in Routine, Connected(by) PROVE ConnectionInv'
  <2>1. /\ routine[by] = "after"
        /\ routine' = [routine EXCEPT ![by] = IF by = "first" THEN "done" ELSE "idle"]
        /\ timer' \in {timer, timer \/ by = "retry"}
        /\ UNCHANGED <<current, waiting, online, outcome, opened, link, server, up, down, jobs, stray>>
    BY <1>5 DEF Connected
  <2>2. Wired'
    BY <2>1 DEF ConnectionInv, Wired
  <2>3. Waits'
    <3>1. ASSUME NEW z \in Socket, waiting[z] # "none" PROVE routine'[waiting[z]] = "connecting"
      <4>1. waiting[z] \in Routine
        BY <3>1 DEF ConnectionInv, Wired
      <4>2. routine[waiting[z]] = "connecting"
        BY <3>1 DEF ConnectionInv, Waits
      <4> QED
        BY <2>1, <4>1, <4>2 DEF ConnectionInv, Wired
    <3> QED
      BY <2>1, <3>1 DEF ConnectionInv, Waits
  <2>4. Begun'
    <3>1. CASE by = "first"
      BY <2>1, <3>1 DEF ConnectionInv, Wired, Begun, Routine
    <3>2. CASE by = "retry"
      <4>1. routine["first"] \notin {"idle", "connecting"} /\ routine'["first"] = routine["first"]
        BY <2>1, <3>2 DEF ConnectionInv, Wired, Begun, Routine
      <4> QED
        BY <4>1 DEF Begun
    <3> QED
      BY <3>1, <3>2 DEF Routine
  <2> QED
    BY <2>1, <2>2, <2>3, <2>4 DEF ConnectionInv, OneSocket
<1>6. ASSUME NEW s \in Socket, ConnectTimeout(s) PROVE ConnectionInv'
  BY <1>6, Rejects DEF ConnectTimeout
<1>7. ASSUME NEW s \in Socket, Lose(s) PROVE ConnectionInv'
  <2>1. /\ link[s] \in {"opening", "open"} /\ Dying(s)
        /\ UNCHANGED <<current, waiting, routine, timer, online, outcome, opened, stray>>
    BY <1>7 DEF Lose, clientState
  <2>2. <<>> \in Seq(Upward) /\ <<>> \in Seq(Frame)
    BY EmptySeq
  <2>3. /\ link' = [link EXCEPT ![s] = "closing"]
        /\ server' = [server EXCEPT ![s] = "none"]
        /\ up' = [up EXCEPT ![s] = <<>>] /\ down' = [down EXCEPT ![s] = <<>>] /\ jobs' \subseteq jobs
    BY <2>1 DEF Dying
  <2>4. Wired'
    BY <2>1, <2>2, <2>3 DEF ConnectionInv, Wired
  <2>5. Waits' /\ Begun' /\ OneSocket'
    BY ZenonT(60), <2>1, <2>3 DEF ConnectionInv, Wired, Waits, Begun, OneSocket
  <2> QED
    BY <2>4, <2>5 DEF ConnectionInv
<1>8. ASSUME NEW s \in Socket, CloseEvent(s) PROVE ConnectionInv'
  <2>1. /\ link[s] = "closing" /\ link' = [link EXCEPT ![s] = "closed"]
        /\ UNCHANGED <<opened, server, up, down, jobs, stray>>
    BY <1>8 DEF CloseEvent
  <2>2. CASE current # s
    <3>1. UNCHANGED <<current, waiting, routine, timer, online, outcome>>
      BY <1>8, <2>2 DEF CloseEvent, clientState
    <3>2. Wired'
      BY <2>1, <3>1 DEF ConnectionInv, Wired
    <3>3. Waits' /\ Begun' /\ OneSocket'
      BY ZenonT(60), <2>1, <3>1 DEF ConnectionInv, Wired, Waits, Begun, OneSocket
    <3> QED
      BY <3>2, <3>3 DEF ConnectionInv
  <2>3. CASE current = s
    <3>1. /\ current' = 0 /\ waiting' = [waiting EXCEPT ![s] = "none"]
          /\ routine' = [b \in Routine |->
                IF waiting[s] = b THEN (IF b = "first" THEN "done" ELSE "idle") ELSE routine[b]]
          /\ outcome' = FailAll /\ online' = FALSE /\ timer' = TRUE
      BY <1>8, <2>3 DEF CloseEvent
    <3>2. routine'["first"] \notin {"idle", "connecting"}
      <4>1. routine["first"] # "idle"
        <5>1. ~(s > opened)
          BY <2>1 DEF ConnectionInv, Wired
        <5>2. s \in Nat \ {0} /\ opened \in Nat
          <6>1. opened \in 0 .. MaxSockets
            BY DEF ConnectionInv, Wired
          <6> QED
            BY <6>1 DEF Socket
        <5> QED
          BY <5>1, <5>2 DEF ConnectionInv, Begun
      <4>2. routine["first"] = "connecting" => waiting[s] = "first"
        BY <2>3 DEF ConnectionInv, Begun
      <4>3. "first" \in Routine
        BY DEF Routine
      <4>4. waiting[s] = "first" => routine'["first"] = "done"
        BY <3>1, <4>3
      <4>5. waiting[s] # "first" => routine'["first"] = routine["first"]
        BY <3>1, <4>3
      <4> QED
        BY <4>1, <4>2, <4>4, <4>5
    <3>3. routine' \in [Routine -> {"idle", "connecting", "after", "done"}]
      BY <3>1 DEF ConnectionInv, Wired
    <3>4. outcome' \in [Request -> {"none", "pending", "unsent", "answered", "refused", "dropped",
                                    "timed out"}]
      BY <3>1 DEF FailAll, ConnectionInv, Wired
    <3>5. Wired'
      BY ZenonT(60), <2>1, <3>1, <3>3, <3>4 DEF ConnectionInv, Wired
    <3>6. Waits'
      <4>1. \A z \in Socket : waiting'[z] = IF z = s THEN "none" ELSE waiting[z]
        BY <3>1 DEF ConnectionInv, Wired
      <4>2. \A z \in Socket : z # s => link'[z] = link[z]
        BY <2>1 DEF ConnectionInv, Wired
      <4>3. link'[s] = "closed"
        BY <2>1 DEF ConnectionInv, Wired
      <4>4. ASSUME NEW z \in Socket, z # s, waiting[z] # "none"
            PROVE  routine'[waiting[z]] = "connecting"
        <5>1. waiting[z] # waiting[s]
          BY <4>4 DEF ConnectionInv, Waits
        <5>2. waiting[z] \in Routine
          BY <4>4 DEF ConnectionInv, Wired
        <5>3. routine[waiting[z]] = "connecting"
          BY <4>4 DEF ConnectionInv, Waits
        <5> QED
          BY <3>1, <5>1, <5>2, <5>3
      <4> QED
        BY <4>1, <4>2, <4>3, <4>4 DEF ConnectionInv, Waits
    <3>7. Begun'
      BY <3>2 DEF Begun
    <3>8. OneSocket'
      BY <2>1, <2>3 DEF ConnectionInv, Wired, OneSocket
    <3> QED
      BY <3>5, <3>6, <3>7, <3>8 DEF ConnectionInv
  <2> QED
    BY <2>2, <2>3
<1>9. ASSUME NEW s \in Socket, Accept(s) PROVE ConnectionInv'
  <2>1. /\ link[s] = "opening" /\ link' = [link EXCEPT ![s] = "open"]
        /\ server' = [server EXCEPT ![s] = "challenged"]
        /\ down' = [down EXCEPT ![s] = <<Plain("challenge")>>]
        /\ UNCHANGED <<current, waiting, routine, timer, online, outcome, opened, up, jobs, stray>>
    BY <1>9 DEF Accept, clientState
  <2>2. <<Plain("challenge")>> \in Seq(Frame)
    BY DEF Plain, Frame
  <2>3. Wired'
    BY <2>1, <2>2 DEF ConnectionInv, Wired
  <2>4. Waits' /\ Begun' /\ OneSocket'
    BY ZenonT(60), <2>1 DEF ConnectionInv, Wired, Waits, Begun, OneSocket
  <2> QED
    BY <2>3, <2>4 DEF ConnectionInv
<1> QED
  BY <1>1, <1>3, <1>4, <1>5, <1>6, <1>7, <1>8, <1>9

\* What each frame and each deadline changes, beside a refusal and a welcome.
LEMMA Quietly ==
  ASSUME ConnectionInv, UNCHANGED <<current, opened, link, waiting, routine>>,
         timer' = timer, Wired'
  PROVE  ConnectionInv'
BY DEF ConnectionInv, Waits, Begun, OneSocket

\* The steps of frames.
LEMMA FramesKeep ==
  ASSUME ConnectionInv,
         \/ SendStray
         \/ \E s \in Socket : InboxHears(s) \/ Authenticated(s) \/ ClientHears(s)
         \/ \E r \in Request : RequestSent(r) \/ RequestTimeout(r)
         \/ \E j \in jobs : InboxAnswers(j)
  PROVE  ConnectionInv'
<1> USE ConnectionAssumption DEF ConnectionAssumption
<1>1. \A s \in Socket : \A f \in Upward : Append(up[s], f) \in Seq(Upward)
  BY AppendProperties DEF ConnectionInv, Wired
<1>2. \A s \in Socket : \A f \in Frame : Append(down[s], f) \in Seq(Frame)
  BY AppendProperties DEF ConnectionInv, Wired
<1>3. \A s \in Socket : up[s] # <<>> => Head(up[s]) \in Upward /\ Tail(up[s]) \in Seq(Upward)
  BY HeadTailProperties DEF ConnectionInv, Wired
<1>4. \A s \in Socket : down[s] # <<>> => Head(down[s]) \in Frame /\ Tail(down[s]) \in Seq(Frame)
  BY HeadTailProperties DEF ConnectionInv, Wired
<1>5. /\ Plain("other") \in Upward /\ Plain("auth") \in Upward
      /\ Plain("unauthenticated") \in Frame /\ Plain("authed") \in Frame
      /\ \A r \in Request : \A ok \in BOOLEAN : Answer(r, ok) \in Frame
      /\ \A r \in Request : [t |-> "request", req |-> r, ok |-> TRUE] \in Upward
  BY DEF Plain, Answer, Upward, Frame
<1>6. CASE SendStray
  <2>1. current \in Socket
    BY <1>6 DEF SendStray, IsOpen, ConnectionInv, Wired
  <2>2. up' = [up EXCEPT ![current] = Append(up[current], Plain("other"))] /\ stray' = stray + 1
    BY <1>6 DEF SendStray
  <2>3. UNCHANGED <<current, waiting, routine, timer, online, outcome, opened, link, server, down, jobs>>
    BY <1>6 DEF SendStray, clientState
  <2>4. Append(up[current], Plain("other")) \in Seq(Upward)
    BY <1>1, <1>5, <2>1
  <2>5. up' \in [Socket -> Seq(Upward)]
    BY <2>2, <2>4 DEF ConnectionInv, Wired
  <2>6. Wired'
    <3>1. stray \in Nat
      BY DEF ConnectionInv, Wired
    <3>2. stray' \in Nat
      BY <2>2, <3>1
    <3> QED
      BY <2>3, <2>5, <3>2 DEF ConnectionInv, Wired
  <2> QED
    BY <2>3, <2>6, Quietly
<1>7. ASSUME NEW s \in Socket, InboxHears(s) PROVE ConnectionInv'
  <2>1. up[s] # <<>> /\ up' = [up EXCEPT ![s] = Tail(up[s])]
    BY <1>7 DEF InboxHears
  <2>2. UNCHANGED <<current, waiting, routine, timer, online, outcome, opened, link, stray>>
    BY <1>7 DEF InboxHears, clientState
  <2>3. PICK f \in Upward : f = Head(up[s])
    BY <1>3, <2>1
  <2>4. \/ server' = [server EXCEPT ![s] = "checking"] /\ UNCHANGED <<down, jobs>>
        \/ down' = [down EXCEPT ![s] = Append(down[s], Plain("unauthenticated"))]
           /\ UNCHANGED <<server, jobs>>
        \/ f.t = "request" /\ jobs' = jobs \cup {[req |-> f.req, on |-> s]}
           /\ UNCHANGED <<server, down>>
        \/ UNCHANGED <<server, down, jobs>>
    <3>1. CASE f.t = "auth" /\ server[s] = "challenged"
      BY <1>7, <2>3, <3>1 DEF InboxHears
    <3>2. CASE f.t # "auth" /\ server[s] = "challenged"
      BY <1>7, <2>3, <3>2 DEF InboxHears
    <3>3. CASE f.t = "request" /\ server[s] # "challenged"
      BY <1>7, <2>3, <3>3 DEF InboxHears
    <3>4. CASE f.t # "request" /\ server[s] # "challenged"
      BY <1>7, <2>3, <3>4 DEF InboxHears
    <3> QED
      BY <3>1, <3>2, <3>3, <3>4
  <2>5. f.t = "request" => f.req \in Request
    BY DEF Upward
  <2>6. /\ server' \in [Socket -> {"none", "challenged", "checking", "ready"}]
        /\ down' \in [Socket -> Seq(Frame)] /\ jobs' \subseteq [req : Request, on : Socket]
    <3>1. Append(down[s], Plain("unauthenticated")) \in Seq(Frame)
      BY <1>2, <1>5
    <3>2. /\ server \in [Socket -> {"none", "challenged", "checking", "ready"}]
          /\ down \in [Socket -> Seq(Frame)] /\ jobs \subseteq [req : Request, on : Socket]
      BY DEF ConnectionInv, Wired
    <3>3. f.t = "request" => [req |-> f.req, on |-> s] \in [req : Request, on : Socket]
      BY <2>5
    <3>4. server' = server \/ server' = [server EXCEPT ![s] = "checking"]
      BY <2>4
    <3>5. down' = down \/ down' = [down EXCEPT ![s] = Append(down[s], Plain("unauthenticated"))]
      BY <2>4
    <3>6. jobs' = jobs \/ (f.t = "request" /\ jobs' = jobs \cup {[req |-> f.req, on |-> s]})
      BY <2>4
    <3>7. server' \in [Socket -> {"none", "challenged", "checking", "ready"}]
      BY <3>2, <3>4
    <3>8. down' \in [Socket -> Seq(Frame)]
      BY <3>1, <3>2, <3>5
    <3>9. jobs' \subseteq [req : Request, on : Socket]
      BY <3>2, <3>3, <3>6
    <3> QED
      BY <3>7, <3>8, <3>9
  <2>7. up' \in [Socket -> Seq(Upward)]
    BY <1>3, <2>1 DEF ConnectionInv, Wired
  <2>8. Wired'
    BY <2>2, <2>6, <2>7 DEF ConnectionInv, Wired
  <2> QED
    BY <2>2, <2>8, Quietly
<1>8. ASSUME NEW s \in Socket, Authenticated(s) PROVE ConnectionInv'
  <2>1. /\ server' = [server EXCEPT ![s] = "ready"]
        /\ down' = [down EXCEPT ![s] = Append(down[s], Plain("authed"))]
        /\ UNCHANGED <<current, waiting, routine, timer, online, outcome, opened, link, up, jobs, stray>>
    BY <1>8 DEF Authenticated, clientState
  <2>2. Wired'
    BY <1>2, <1>5, <2>1 DEF ConnectionInv, Wired
  <2> QED
    BY <2>1, <2>2, Quietly
<1>9. ASSUME NEW j \in jobs, InboxAnswers(j) PROVE ConnectionInv'
  <2>1. j.req \in Request /\ j.on \in Socket
    BY DEF ConnectionInv, Wired
  <2>2. PICK ok \in BOOLEAN : down' = [down EXCEPT ![j.on] = Append(down[j.on], Answer(j.req, ok))]
    BY <1>9 DEF InboxAnswers
  <2>3. /\ jobs' \subseteq jobs
        /\ UNCHANGED <<current, waiting, routine, timer, online, outcome, opened, link, server, up, stray>>
    BY <1>9 DEF InboxAnswers, clientState
  <2>4. Append(down[j.on], Answer(j.req, ok)) \in Seq(Frame)
    BY <1>2, <1>5, <2>1
  <2>5. Wired'
    BY <2>2, <2>3, <2>4 DEF ConnectionInv, Wired
  <2> QED
    BY <2>3, <2>5, Quietly
<1>10. ASSUME NEW r \in Request, RequestSent(r) PROVE ConnectionInv'
  <2>1. UNCHANGED <<current, waiting, routine, timer, online, opened, link, server, down, jobs, stray>>
    BY <1>10 DEF RequestSent
  <2>2. CASE IsOpen
    <3>1. current \in Socket
      BY <2>2 DEF IsOpen, ConnectionInv, Wired
    <3>2. /\ outcome' = [outcome EXCEPT ![r] = "pending"]
          /\ up' = [up EXCEPT ![current] =
                       Append(up[current], [t |-> "request", req |-> r, ok |-> TRUE])]
      BY <1>10, <2>2 DEF RequestSent
    <3>3. Append(up[current], [t |-> "request", req |-> r, ok |-> TRUE]) \in Seq(Upward)
      BY <1>1, <1>5, <3>1
    <3>4. Wired'
      BY <2>1, <3>2, <3>3 DEF ConnectionInv, Wired
    <3> QED
      BY <2>1, <3>4, Quietly
  <2>3. CASE ~IsOpen
    <3>1. outcome' = [outcome EXCEPT ![r] = "unsent"] /\ UNCHANGED up
      BY <1>10, <2>3 DEF RequestSent
    <3>2. Wired'
      BY <2>1, <3>1 DEF ConnectionInv, Wired
    <3> QED
      BY <2>1, <3>2, Quietly
  <2> QED
    BY <2>2, <2>3
<1>11. ASSUME NEW r \in Request, RequestTimeout(r) PROVE ConnectionInv'
  <2>1. /\ outcome' = [outcome EXCEPT ![r] = "timed out"]
        /\ UNCHANGED <<current, waiting, routine, timer, online, opened, link, server, up, down, jobs, stray>>
    BY <1>11 DEF RequestTimeout
  <2>2. Wired'
    BY <2>1 DEF ConnectionInv, Wired
  <2> QED
    BY <2>1, <2>2, Quietly
<1>12. ASSUME NEW s \in Socket, ClientHears(s) PROVE ConnectionInv'
  <2> PICK f \in Frame : f = Head(down[s])
    BY <1>4, <1>12 DEF ClientHears
  <2>1. /\ link[s] = "open" /\ down' = [down EXCEPT ![s] = Tail(down[s])] /\ current = s
        /\ UNCHANGED <<current, opened, link, server, jobs, stray>>
    BY <1>12 DEF ClientHears
  <2>2. down' \in [Socket -> Seq(Frame)]
    <3>1. Tail(down[s]) \in Seq(Frame)
      BY <1>4, <1>12 DEF ClientHears
    <3> QED
      BY <2>1, <3>1 DEF ConnectionInv, Wired
  <2>3. CASE /\ up' = [up EXCEPT ![s] = Append(up[s], Plain("auth"))]
             /\ UNCHANGED <<waiting, routine, timer, online, outcome>>
    <3>1. Append(up[s], Plain("auth")) \in Seq(Upward)
      BY <1>1, <1>5
    <3>2. Wired'
      BY <2>1, <2>2, <2>3, <3>1 DEF ConnectionInv, Wired
    <3> QED
      BY <2>1, <2>3, <3>2, Quietly
  <2>4. CASE waiting[s] = "none" /\ UNCHANGED <<up, timer, outcome, waiting, routine, online>>
    <3>1. Wired'
      BY <2>1, <2>2, <2>4 DEF ConnectionInv, Wired
    <3> QED
      BY <2>1, <2>4, <3>1, Quietly
  <2>5. CASE /\ waiting[s] # "none" /\ waiting' = [waiting EXCEPT ![s] = "none"]
             /\ routine' = [routine EXCEPT ![waiting[s]] = "after"] /\ online' = TRUE
             /\ UNCHANGED <<up, timer, outcome>>
    <3>1. waiting[s] \in Routine
      BY <2>5 DEF ConnectionInv, Wired
    <3>2. Wired'
      BY <2>1, <2>2, <2>5 DEF ConnectionInv, Wired
    <3>3. Waits'
      <4>1. \A z \in Socket : waiting'[z] = IF z = s THEN "none" ELSE waiting[z]
        BY <2>5 DEF ConnectionInv, Wired
      <4>2. ASSUME NEW z \in Socket, z # s, waiting[z] # "none"
            PROVE  routine'[waiting[z]] = "connecting"
        <5>1. waiting[z] # waiting[s]
          BY <4>2 DEF ConnectionInv, Waits
        <5>2. waiting[z] \in Routine
          BY <4>2 DEF ConnectionInv, Wired
        <5>3. routine[waiting[z]] = "connecting"
          BY <4>2 DEF ConnectionInv, Waits
        <5> QED
          BY <2>5, <5>1, <5>2, <5>3 DEF ConnectionInv, Wired
      <4> QED
        BY <2>1, <4>1, <4>2 DEF ConnectionInv, Waits
    <3>4. Begun'
      <4>1. CASE waiting[s] = "first"
        BY <2>5, <4>1 DEF Begun, ConnectionInv, Wired, Routine
      <4>2. CASE waiting[s] # "first"
        <5>1. waiting[s] = "retry" /\ routine["retry"] = "connecting"
          <6>1. waiting[s] = "retry"
            BY <3>1, <4>2 DEF Routine
          <6>2. routine[waiting[s]] = "connecting"
            BY <2>5 DEF ConnectionInv, Waits
          <6> QED
            BY <6>1, <6>2
        <5>2. routine["first"] \notin {"idle", "connecting"}
          BY <5>1 DEF ConnectionInv, Begun
        <5>3. routine'["first"] = routine["first"]
          BY <2>5, <5>1 DEF ConnectionInv, Wired, Routine
        <5> QED
          BY <5>2, <5>3 DEF Begun
      <4> QED
        BY <4>1, <4>2
    <3> QED
      BY <2>1, <3>2, <3>3, <3>4 DEF ConnectionInv, OneSocket
  <2>6. CASE Rejected(s) /\ UNCHANGED <<up, online, outcome>>
    BY <2>1, <2>2, <2>6, Rejects
  <2>7. CASE Resolve(f) /\ UNCHANGED <<up, waiting, routine, timer, online>>
    <3>1. outcome' \in [Request -> {"none", "pending", "unsent", "answered", "refused", "dropped",
                                    "timed out"}]
      BY <2>7 DEF Resolve, ConnectionInv, Wired
    <3>2. Wired'
      BY <2>1, <2>2, <2>7, <3>1 DEF ConnectionInv, Wired
    <3> QED
      BY <2>1, <2>7, <3>2, Quietly
  <2>8. \/ /\ up' = [up EXCEPT ![s] = Append(up[s], Plain("auth"))]
           /\ UNCHANGED <<waiting, routine, timer, online, outcome>>
        \/ waiting[s] = "none" /\ UNCHANGED <<up, timer, outcome, waiting, routine, online>>
        \/ /\ waiting[s] # "none" /\ waiting' = [waiting EXCEPT ![s] = "none"]
           /\ routine' = [routine EXCEPT ![waiting[s]] = "after"] /\ online' = TRUE
           /\ UNCHANGED <<up, timer, outcome>>
        \/ Rejected(s) /\ UNCHANGED <<up, online, outcome>>
        \/ Resolve(f) /\ UNCHANGED <<up, waiting, routine, timer, online>>
    BY <1>12 DEF ClientHears
  <2> QED
    BY <2>3, <2>4, <2>5, <2>6, <2>7, <2>8
<1> QED
  BY <1>6, <1>7, <1>8, <1>9, <1>10, <1>11, <1>12

\* The inductive invariant of the connection.
LEMMA ConnectionInvHolds == ConnectionSpec => []ConnectionInv
<1> USE ConnectionAssumption DEF ConnectionAssumption
<1>1. ConnectionInit => ConnectionInv
  <2> SUFFICES ASSUME ConnectionInit PROVE ConnectionInv
    OBVIOUS
  <2>1. <<>> \in Seq(Upward) /\ <<>> \in Seq(Frame)
    BY EmptySeq
  <2>2. Wired
    <3>1. /\ current \in Socket \cup {0} /\ opened \in 0 .. MaxSockets
          /\ link \in [Socket -> {"none", "opening", "open", "closing", "closed"}]
          /\ waiting \in [Socket -> Routine \cup {"none"}]
          /\ server \in [Socket -> {"none", "challenged", "checking", "ready"}]
      BY DEF ConnectionInit
    <3>2. up \in [Socket -> Seq(Upward)] /\ down \in [Socket -> Seq(Frame)]
      BY <2>1 DEF ConnectionInit
    <3>3. /\ routine \in [Routine -> {"idle", "connecting", "after", "done"}]
          /\ timer \in BOOLEAN /\ online \in BOOLEAN
          /\ outcome \in [Request -> {"none", "pending", "unsent", "answered", "refused", "dropped",
                                      "timed out"}]
          /\ jobs \subseteq [req : Request, on : Socket] /\ stray \in Nat
          /\ \A s \in Socket : s > opened => link[s] = "none" /\ waiting[s] = "none"
      BY DEF ConnectionInit
    <3> QED
      BY <3>1, <3>2, <3>3 DEF Wired
  <2>3. Waits /\ Begun /\ OneSocket
    BY DEF ConnectionInit, Waits, Begun, OneSocket, Routine
  <2> QED
    BY <2>2, <2>3 DEF ConnectionInv
<1>2. ConnectionInv /\ [ConnectionNext]_connectionVars => ConnectionInv'
  <2>1. CASE UNCHANGED connectionVars
    BY <2>1 DEF connectionVars, clientState, ConnectionInv, Wired, Waits, Begun, OneSocket
  <2> QED
    BY <2>1, ConnectingKeeps, FramesKeep DEF ConnectionNext
<1> QED
  BY <1>1, <1>2, PTL DEF ConnectionSpec

\* The connection is in states that its code can leave: sockets, the routines that wait
\* for them, frames and requests (transport.ts, client.ts connect).
THEOREM ConnectionTypesHold == ConnectionSpec => []ConnectionTypeOK
<1>1. ConnectionInv => ConnectionTypeOK
  <2> SUFFICES ASSUME ConnectionInv PROVE ConnectionTypeOK
    OBVIOUS
  <2>1. \A s \in Socket : Range(up[s]) \cup Range(down[s]) \subseteq Frame
    <3> SUFFICES ASSUME NEW s \in Socket PROVE Range(up[s]) \cup Range(down[s]) \subseteq Frame
      OBVIOUS
    <3>1. up[s] \in Seq(Upward) /\ down[s] \in Seq(Frame)
      BY DEF ConnectionInv, Wired
    <3>2. Range(up[s]) \subseteq Upward /\ Range(down[s]) \subseteq Frame
      BY <3>1, RangeOfSeq
    <3> QED
      BY <3>2 DEF Upward
  <2> QED
    BY <2>1 DEF ConnectionInv, Wired, Waits, ConnectionTypeOK
<1> QED
  BY <1>1, ConnectionInvHolds, PTL

\* A live socket is never superseded, by whatever timers, kicks and late events (client.ts
\* tryReconnect, transport.ts connect).
THEOREM OneSocketHolds == ConnectionSpec => []OneSocket
<1>1. ConnectionInv => OneSocket
  BY DEF ConnectionInv
<1> QED
  BY <1>1, ConnectionInvHolds, PTL

\* However a request ended, what comes later does not change it (transport.ts dispatch,
\* failAllPending).
THEOREM LateIsIgnoredHolds == ConnectionSpec => LateIsIgnored
<1>1. ConnectionInv /\ [ConnectionNext]_connectionVars =>
        [\A r \in Request : outcome[r] \notin {"none", "pending"} => outcome'[r] = outcome[r]]_connectionVars
  <2> SUFFICES ASSUME ConnectionInv, ConnectionNext, NEW r \in Request, outcome[r] \notin {"none", "pending"}
               PROVE  outcome'[r] = outcome[r]
    OBVIOUS
  <2>1. outcome \in [Request -> {"none", "pending", "unsent", "answered", "refused", "dropped",
                                 "timed out"}]
    BY DEF ConnectionInv, Wired
  <2>2. ASSUME NEW s \in Socket, CloseEvent(s) PROVE outcome'[r] = outcome[r]
    <3>1. outcome' = outcome \/ outcome' = FailAll
      BY <2>2 DEF CloseEvent, clientState
    <3> QED
      BY <3>1 DEF FailAll
  <2>3. ASSUME NEW s \in Socket, ClientHears(s) PROVE outcome'[r] = outcome[r]
    <3>1. outcome' = outcome \/ Resolve(Head(down[s]))
      BY <2>3 DEF ClientHears
    <3>2. CASE Resolve(Head(down[s]))
      BY <2>1, <3>2 DEF Resolve
    <3> QED
      BY <3>1, <3>2
  <2>4. ASSUME NEW q \in Request, RequestSent(q) \/ RequestTimeout(q) PROVE outcome'[r] = outcome[r]
    <3>1. outcome[q] \in {"none", "pending"} /\ \E v : outcome' = [outcome EXCEPT ![q] = v]
      BY <2>4 DEF RequestSent, RequestTimeout
    <3> QED
      BY <2>1, <3>1
  <2>5. \/ FirstConnect \/ TimerFires \/ Kick \/ SendStray
        \/ \E by \in Routine : Connected(by)
        \/ \E s \in Socket : ConnectTimeout(s) \/ Lose(s) \/ Accept(s) \/ InboxHears(s) \/ Authenticated(s)
        \/ \E j \in jobs : InboxAnswers(j)
        => outcome' = outcome
    BY DEF FirstConnect, TimerFires, Kick, SendStray, Connected, ConnectTimeout, Lose, Accept,
       InboxHears, Authenticated, InboxAnswers, clientState
  <2> QED
    BY <2>2, <2>3, <2>4, <2>5 DEF ConnectionNext
<1> QED
  BY <1>1, ConnectionInvHolds, PTL DEF ConnectionSpec, LateIsIgnored

-----------------------------------------------------------------------------
(* Wake-ups: who is hidden is nudged.                                       *)

Word == [t : {"auth", "presence"}, watching : BOOLEAN]
SubRows == {r \in rows : r.kind = "sub"}

\* Types; the Inbox has so many rows of subscriptions as it has room for.
Rung ==
  /\ page \in {"visible", "hidden", "closed"} /\ hiddenFor \in 0 .. Fresh + 1
  /\ lines \in [Line -> [is : {"none", "live", "dead"}, auth : {"none", "checking", "ready"},
                         watching : 0 .. Fresh, said : 0 .. Fresh, queue : Seq(Word)]]
  /\ rows \subseteq [kind : {"envelope", "seen", "sub"}, name : Name \cup Endpoint,
                     born : 0 .. MaxTime, silent : BOOLEAN]
  /\ armed \in BOOLEAN /\ nudging \subseteq Endpoint
  /\ now \in 0 .. MaxTime /\ toggles \in 0 .. MaxToggles
  /\ IsFiniteSet(rows) /\ Cardinality(SubRows) <= MaxSubs
  /\ \A r \in SubRows : r.name \in Endpoint

\* A page has one socket; what is left of others says nothing more.
Single ==
  /\ \A k, l \in Line : lines[k].is = "live" /\ lines[l].is = "live" => k = l
  /\ \A l \in Line : lines[l].is = "live" => page # "closed"
  /\ \A l \in Line : lines[l].is = "none" => lines[l] = NoLine
  /\ \A l \in Line : lines[l].is = "dead" => lines[l].queue = <<>>

\* While the page is not seen: its socket said so, or says so last, before the next
\* heartbeat; what a dead one said fades.
Unwatched(l) ==
  \/ lines[l].is = "none"
  \/ /\ lines[l].is = "live"
     /\ lines[l].watching = 0 /\ \A i \in 1 .. Len(lines[l].queue) : ~lines[l].queue[i].watching
  \/ /\ lines[l].is = "live" /\ hiddenFor = 0
     /\ lines[l].queue # <<>> /\ ~lines[l].queue[Len(lines[l].queue)].watching
  \/ lines[l].is = "dead" /\ (lines[l].watching = 0 \/ lines[l].watching + hiddenFor <= Fresh)

WakeupInv == Rung /\ Single /\ (Visible \/ \A l \in Line : Unwatched(l))

\* What the page says goes to its socket.
LEMMA SaidLast ==
  ASSUME WakeupInv, NEW f \in Word, Saying(f)
  PROVE  \A l \in Line :
           \/ /\ lines[l].is = "live" /\ lines'[l] = [lines[l] EXCEPT !.queue = Append(@, f)]
              /\ lines'[l].queue \in Seq(Word) /\ lines'[l].queue # <<>>
              /\ lines'[l].queue[Len(lines'[l].queue)] = f
           \/ lines[l].is # "live" /\ lines'[l] = lines[l]
<1> SUFFICES ASSUME NEW l \in Line, lines[l].is = "live"
             PROVE  /\ lines'[l] = [lines[l] EXCEPT !.queue = Append(@, f)]
                    /\ lines'[l].queue \in Seq(Word) /\ lines'[l].queue # <<>>
                    /\ lines'[l].queue[Len(lines'[l].queue)] = f
  BY DEF Saying
<1>1. lines'[l] = [lines[l] EXCEPT !.queue = Append(lines[l].queue, f)]
  BY DEF Saying
<1>2. lines[l].queue \in Seq(Word)
  BY DEF WakeupInv, Rung
<1>3. lines'[l].queue = Append(lines[l].queue, f)
  BY <1>1 DEF WakeupInv, Rung
<1> QED
  BY <1>1, <1>2, <1>3, AppendProperties, LenProperties

\* What the page does.
LEMMA PageKeeps ==
  ASSUME WakeupInv,
         \/ \E to \in {"visible", "hidden"} : Toggle(to)
         \/ Beat
         \/ \E l \in Line : SocketOpens(l) \/ CutOff(l)
  PROVE  WakeupInv'
<1> USE WakeupAssumption DEF WakeupAssumption
<1>0. ASSUME UNCHANGED <<rows, armed, nudging, now>>, toggles' \in 0 .. MaxToggles,
             page' \in {"visible", "hidden", "closed"}, hiddenFor' \in 0 .. Fresh + 1,
             lines' \in [Line -> [is : {"none", "live", "dead"}, auth : {"none", "checking", "ready"},
                                  watching : 0 .. Fresh, said : 0 .. Fresh, queue : Seq(Word)]]
      PROVE  Rung'
  BY <1>0 DEF WakeupInv, Rung, SubRows
<1>1. ASSUME NEW f \in Word, Saying(f)
      PROVE  lines' \in [Line -> [is : {"none", "live", "dead"}, auth : {"none", "checking", "ready"},
                                  watching : 0 .. Fresh, said : 0 .. Fresh, queue : Seq(Word)]]
  <2>1. \A l \in Line : lines'[l] \in [is : {"none", "live", "dead"}, auth : {"none", "checking", "ready"},
                                  watching : 0 .. Fresh, said : 0 .. Fresh, queue : Seq(Word)]
    BY ZenonT(60), <1>1, SaidLast DEF WakeupInv, Rung
  <2>2. DOMAIN lines' = Line /\ lines' = [l \in Line |-> lines'[l]]
    BY <1>1 DEF Saying
  <2> QED
    BY <2>1, <2>2
<1>2. ASSUME NEW f \in Word, Saying(f), page' # "closed" \/ page' = page PROVE Single'
  <2>1. \A l \in Line : lines'[l].is = lines[l].is
    BY <1>2, SaidLast DEF WakeupInv, Rung
  <2>2. \A l \in Line : lines[l].is # "live" => lines'[l] = lines[l]
    BY <1>2, SaidLast
  <2> QED
    BY <1>2, <2>1, <2>2 DEF WakeupInv, Single
<1>3. ASSUME NEW to \in {"visible", "hidden"}, Toggle(to) PROVE WakeupInv'
  <2> DEFINE f == [t |-> "presence", watching |-> to = "visible"]
  <2>1. f \in Word /\ Saying(f)
    BY <1>3 DEF Toggle, Word
  <2>2. /\ toggles < MaxToggles /\ toggles' = toggles + 1 /\ page' = to /\ hiddenFor' = 0
        /\ UNCHANGED <<rows, armed, nudging, now>>
    BY <1>3 DEF Toggle
  <2>3. toggles' \in 0 .. MaxToggles /\ hiddenFor' \in 0 .. Fresh + 1
    BY SMTT(60), <2>2 DEF WakeupInv, Rung
  <2>4. Rung'
    BY <1>0, <1>1, <2>1, <2>2, <2>3
  <2>5. Single'
    BY <1>2, <2>1, <2>2
  <2>6. to = "hidden" => ~f.watching
    OBVIOUS
  <2> HIDE DEF f
  <2>7. ASSUME to = "hidden", NEW l \in Line PROVE Unwatched(l)'
    <3>1. CASE lines[l].is = "live"
      <4>1. lines'[l].queue # <<>> /\ lines'[l].queue[Len(lines'[l].queue)] = f
        BY <2>1, <3>1, SaidLast
      <4>2. lines'[l].is = "live"
        BY <2>1, <3>1, SaidLast DEF WakeupInv, Rung
      <4> QED
        BY <2>2, <2>6, <2>7, <4>1, <4>2 DEF Unwatched
    <3>2. CASE lines[l].is # "live"
      <4>1. lines'[l] = lines[l] /\ lines[l].is \in {"none", "dead"} /\ lines[l].watching \in 0 .. Fresh
        BY <2>1, <3>2, SaidLast DEF WakeupInv, Rung
      <4> QED
        BY <2>2, <4>1 DEF Unwatched
    <3> QED
      BY <3>1, <3>2
  <2> QED
    BY <2>2, <2>4, <2>5, <2>7 DEF WakeupInv, Visible
<1>4. CASE Beat
  <2> DEFINE f == [t |-> "presence", watching |-> TRUE]
  <2>1. f \in Word /\ Saying(f)
    BY <1>4 DEF Beat, Word
  <2>2. Visible /\ UNCHANGED <<page, hiddenFor, rows, armed, nudging, now, toggles>>
    BY <1>4 DEF Beat
  <2>3. Rung'
    <3>1. toggles' \in 0 .. MaxToggles /\ page' \in {"visible", "hidden", "closed"} /\ hiddenFor' \in 0 .. Fresh + 1
      BY <2>2 DEF WakeupInv, Rung
    <3> QED
      BY <1>0, <1>1, <2>1, <2>2, <3>1
  <2>4. Single'
    BY <1>2, <2>1, <2>2
  <2> QED
    BY <2>2, <2>3, <2>4 DEF WakeupInv, Visible
<1>5. ASSUME NEW l \in Line, SocketOpens(l) PROVE WakeupInv'
  <2> DEFINE q == <<[t |-> "auth", watching |-> Visible]>>
  <2>1. /\ page # "closed" /\ lines[l] = NoLine /\ \A k \in Line : lines[k].is # "live"
        /\ lines' = [lines EXCEPT ![l] = [NoLine EXCEPT !.is = "live", !.queue = q]]
        /\ UNCHANGED <<page, hiddenFor, rows, armed, nudging, now, toggles>>
    BY <1>5 DEF SocketOpens
  <2>2. q \in Seq(Word) /\ q # <<>> /\ Len(q) = 1 /\ q[1].watching = Visible
    BY DEF Word, Visible
  <2> HIDE DEF q
  <2> DEFINE new == [NoLine EXCEPT !.is = "live", !.queue = q]
  <2>3. /\ new \in [is : {"none", "live", "dead"}, auth : {"none", "checking", "ready"},
                    watching : 0 .. Fresh, said : 0 .. Fresh, queue : Seq(Word)]
        /\ new.is = "live" /\ new.watching = 0 /\ new.queue = q
    <3>1. NoLine \in [is : {"none", "live", "dead"}, auth : {"none", "checking", "ready"},
                      watching : 0 .. Fresh, said : 0 .. Fresh, queue : Seq(Word)]
          /\ NoLine.watching = 0
      <4>1. <<>> \in Seq(Word)
        BY EmptySeq
      <4> QED
        BY <4>1 DEF NoLine
    <3> QED
      BY <2>2, <3>1
  <2> HIDE DEF new
  <2>4. lines' \in [Line -> [is : {"none", "live", "dead"}, auth : {"none", "checking", "ready"},
                             watching : 0 .. Fresh, said : 0 .. Fresh, queue : Seq(Word)]]
    BY <2>1, <2>3 DEF WakeupInv, Rung, new
  <2>5. Rung'
    BY <1>0, <2>1, <2>4 DEF WakeupInv, Rung
  <2>6. /\ lines'[l].is = "live" /\ lines'[l].watching = 0 /\ lines'[l].queue = q
        /\ \A k \in Line \ {l} : lines'[k] = lines[k]
    BY <2>1, <2>3 DEF WakeupInv, Rung, new
  <2>7. Single'
    BY <2>1, <2>6 DEF WakeupInv, Single
  <2>8. ASSUME ~Visible', NEW k \in Line PROVE Unwatched(k)'
    <3>1. ~Visible
      BY <2>1, <2>8 DEF Visible
    <3>2. CASE k = l
      <4>1. lines'[k].watching = 0 /\ lines'[k].queue = q /\ lines'[k].is = "live"
        BY <2>6, <3>2
      <4>2. \A i \in 1 .. Len(q) : i = 1
        BY <2>2
      <4>3. \A i \in 1 .. Len(q) : ~q[i].watching
        BY <2>2, <3>1, <4>2
      <4> QED
        BY <4>1, <4>3 DEF Unwatched
    <3>3. CASE k # l
      BY <2>1, <2>6, <3>1, <3>3 DEF WakeupInv, Unwatched
    <3> QED
      BY <3>2, <3>3
  <2> QED
    BY <2>5, <2>7, <2>8 DEF WakeupInv
<1>6. ASSUME NEW l \in Line, CutOff(l) PROVE WakeupInv'
  <2>1. /\ lines[l].is = "live" /\ toggles < MaxToggles /\ toggles' = toggles + 1
        /\ lines' = [lines EXCEPT ![l].is = "dead", ![l].queue = <<>>]
        /\ \/ UNCHANGED <<page, hiddenFor>>
           \/ page' = "closed" /\ hiddenFor' = IF Visible THEN 0 ELSE hiddenFor
        /\ UNCHANGED <<rows, armed, nudging, now>>
    BY <1>6 DEF CutOff
  <2>2. /\ lines'[l] = [lines[l] EXCEPT !.is = "dead", !.queue = <<>>]
        /\ \A k \in Line \ {l} : lines'[k] = lines[k]
    BY <2>1 DEF WakeupInv, Rung
  <2>3. /\ lines'[l].is = "dead" /\ lines'[l].queue = <<>> /\ lines'[l].watching = lines[l].watching
        /\ lines[l].watching \in 0 .. Fresh
    BY <2>2 DEF WakeupInv, Rung
  <2>4. lines' \in [Line -> [is : {"none", "live", "dead"}, auth : {"none", "checking", "ready"},
                             watching : 0 .. Fresh, said : 0 .. Fresh, queue : Seq(Word)]]
    <3>1. <<>> \in Seq(Word)
      BY EmptySeq
    <3> QED
      BY ZenonT(60), <2>1, <3>1 DEF WakeupInv, Rung
  <2>5. Rung'
    <3>1. /\ page \in {"visible", "hidden", "closed"} /\ hiddenFor \in 0 .. Fresh + 1
          /\ toggles \in 0 .. MaxToggles
      BY DEF WakeupInv, Rung
    <3>2. toggles' \in 0 .. MaxToggles
      BY <2>1, <3>1
    <3>3. page' \in {"visible", "hidden", "closed"}
      BY <2>1, <3>1
    <3>4. hiddenFor' \in 0 .. Fresh + 1
      BY <2>1, <3>1
    <3> QED
      BY <1>0, <2>1, <2>4, <3>2, <3>3, <3>4
  <2>6. \A k \in Line : lines'[k].is # "live"
    BY <2>1, <2>2, <2>3 DEF WakeupInv, Single
  <2>7. Single'
    BY <2>2, <2>3, <2>6 DEF WakeupInv, Single
  <2>8. ASSUME ~Visible', NEW k \in Line PROVE Unwatched(k)'
    <3>1. CASE Visible
      <4>1. hiddenFor' = 0
        BY <2>1, <2>8, <3>1 DEF Visible
      <4>2. lines'[k].watching \in 0 .. Fresh /\ lines'[k].is \in {"none", "dead"}
        BY <2>4, <2>6
      <4> QED
        BY <4>1, <4>2 DEF Unwatched
    <3>2. CASE ~Visible
      <4>1. hiddenFor' = hiddenFor /\ Unwatched(k)
        BY <2>1, <3>2 DEF WakeupInv
      <4>2. CASE k # l
        BY <2>2, <4>1, <4>2 DEF Unwatched
      <4>3. CASE k = l
        <5>1. lines[l].watching = 0 \/ hiddenFor = 0
          BY <2>1, <4>1, <4>3 DEF Unwatched
        <5> QED
          BY <2>3, <4>1, <4>3, <5>1 DEF Unwatched
      <4> QED
        BY <4>2, <4>3
    <3> QED
      BY <3>1, <3>2
  <2> QED
    BY <2>5, <2>7, <2>8 DEF WakeupInv
<1> QED
  BY <1>3, <1>4, <1>5, <1>6

\* The steps that leave the rows and the page.
LEMMA LinesKeep ==
  ASSUME WakeupInv, \/ Tick \/ \E l \in Line : Hear(l) \/ AuthDone(l) \/ Notice(l)
  PROVE  WakeupInv'
<1> USE WakeupAssumption DEF WakeupAssumption
<1> DEFINE Socks == [is : {"none", "live", "dead"}, auth : {"none", "checking", "ready"},
                     watching : 0 .. Fresh, said : 0 .. Fresh, queue : Seq(Word)]
<1>0. /\ lines \in [Line -> Socks] /\ hiddenFor \in 0 .. Fresh + 1 /\ now \in 0 .. MaxTime
      /\ \A l \in Line : lines[l].watching \in 0 .. Fresh /\ lines[l].queue \in Seq(Word)
  BY DEF WakeupInv, Rung
<1>1. ASSUME UNCHANGED <<page, rows, armed, nudging, toggles>>, now' \in 0 .. MaxTime,
             hiddenFor' \in 0 .. Fresh + 1, lines' \in [Line -> Socks]
      PROVE  Rung'
  BY <1>1 DEF WakeupInv, Rung, SubRows
<1>2. CASE Tick
  <2>1. /\ now < MaxTime /\ now' = now + 1 /\ \A l \in Line : lines[l].queue = <<>>
        /\ lines' = [l \in Line |-> [lines[l] EXCEPT !.watching = IF @ = 0 THEN 0 ELSE @ - 1]]
        /\ hiddenFor' = IF Visible \/ hiddenFor > Fresh THEN hiddenFor ELSE hiddenFor + 1
        /\ UNCHANGED <<page, rows, armed, nudging, toggles>>
    BY <1>2 DEF Tick
  <2>2. ASSUME NEW l \in Line
        PROVE  /\ lines'[l] \in Socks /\ lines'[l].is = lines[l].is /\ lines'[l].queue = lines[l].queue
               /\ lines[l].watching = 0 => lines'[l] = lines[l]
               /\ lines[l].watching # 0 => lines'[l].watching = lines[l].watching - 1
    <3>1. lines'[l] = [lines[l] EXCEPT !.watching = IF lines[l].watching = 0 THEN 0 ELSE lines[l].watching - 1]
      BY <2>1
    <3>2. lines[l] \in Socks
      BY <1>0
    <3>3. (IF lines[l].watching = 0 THEN 0 ELSE lines[l].watching - 1) \in 0 .. Fresh
      BY <1>0
    <3> QED
      BY ZenonT(60), <3>1, <3>2, <3>3
  <2>3. Rung'
    <3>1. lines' \in [Line -> Socks]
      BY <2>1, <2>2
    <3>2. hiddenFor' \in 0 .. Fresh + 1 /\ now' \in 0 .. MaxTime
      BY <1>0, <2>1
    <3> HIDE DEF Socks
    <3> QED
      BY <1>1, <2>1, <3>1, <3>2
  <2>4. Single'
    <3>1. \A l \in Line : lines[l].is = "none" => lines'[l] = lines[l]
      <4> SUFFICES ASSUME NEW l \in Line, lines[l].is = "none" PROVE lines'[l] = lines[l]
        OBVIOUS
      <4>1. lines[l].watching = 0
        BY DEF WakeupInv, Single, NoLine
      <4> QED
        BY <2>2, <4>1
    <3>2. /\ \A l \in Line : lines'[l].is = lines[l].is /\ lines'[l].queue = lines[l].queue
          /\ page' = page
      BY <2>1, <2>2
    <3> QED
      BY <3>1, <3>2 DEF WakeupInv, Single
  <2>5. ASSUME ~Visible', NEW l \in Line PROVE Unwatched(l)'
    <3>1. Unwatched(l) /\ lines[l].queue = <<>> /\ ~Visible
      BY <2>1, <2>5 DEF WakeupInv, Visible
    <3>2. CASE lines[l].is = "none"
      BY <2>2, <3>2 DEF Unwatched
    <3>3. CASE lines[l].is = "live"
      <4>1. lines[l].watching = 0
        BY <3>1, <3>3 DEF Unwatched
      <4>2. lines'[l] = lines[l]
        BY <2>2, <4>1
      <4>3. \A i \in 1 .. Len(lines[l].queue) : ~lines[l].queue[i].watching
        BY <3>1
      <4> QED
        BY <3>3, <4>1, <4>2, <4>3 DEF Unwatched
    <3>4. CASE lines[l].is = "dead"
      <4>1. lines[l].watching = 0 \/ lines[l].watching + hiddenFor <= Fresh
        BY <3>1, <3>4 DEF Unwatched
      <4>2. CASE lines[l].watching = 0
        <5>1. lines'[l] = lines[l]
          BY <2>2, <4>2
        <5> QED
          BY <3>4, <4>2, <5>1 DEF Unwatched
      <4>3. CASE lines[l].watching # 0
        <5>1. lines'[l].watching = lines[l].watching - 1
          BY <2>2, <4>3
        <5>2. hiddenFor' = hiddenFor \/ hiddenFor' = hiddenFor + 1
          BY <2>1
        <5>3. lines'[l].watching + hiddenFor' <= Fresh
          BY SMTT(60), <1>0, <4>1, <4>3, <5>1, <5>2
        <5>4. lines'[l].is = "dead"
          BY <2>2, <3>4
        <5> QED
          BY <5>3, <5>4 DEF Unwatched
      <4> QED
        BY <4>2, <4>3
    <3> QED
      BY <1>0, <3>2, <3>3, <3>4
  <2> QED
    BY <2>3, <2>4, <2>5 DEF WakeupInv
<1>3. ASSUME NEW l \in Line, Hear(l) PROVE WakeupInv'
  <2> DEFINE q == lines[l].queue
             stamp == Stamp(Head(q).watching)
  <2>1. q # <<>> /\ UNCHANGED <<page, hiddenFor, rows, armed, nudging, now, toggles>>
    BY <1>3 DEF Hear
  <2>2. lines' = [lines EXCEPT ![l] =
           IF Head(q).t = "auth"
           THEN [lines[l] EXCEPT !.queue = Tail(q), !.auth = "checking", !.watching = stamp, !.said = stamp]
           ELSE [lines[l] EXCEPT !.queue = Tail(q), !.watching = stamp]]
    <3>1. CASE Head(q).t = "auth"
      BY <1>3, <3>1 DEF Hear
    <3>2. CASE Head(q).t # "auth"
      BY <1>3, <3>2 DEF Hear
    <3> QED
      BY SMTT(60), <3>1, <3>2
  <2>3. /\ q \in Seq(Word) /\ Head(q) \in Word /\ Tail(q) \in Seq(Word) /\ Len(Tail(q)) = Len(q) - 1
        /\ \A i \in 1 .. Len(Tail(q)) : Tail(q)[i] = q[i + 1]
    BY <1>0, <2>1, HeadTailProperties
  <2>4. stamp \in 0 .. Fresh /\ (~Head(q).watching => stamp = 0)
    BY <2>3 DEF Word, Stamp
  <2>5. lines[l].is = "live"
    BY <1>0, <2>1 DEF WakeupInv, Single, NoLine
  <2>6. Len(q) \in Nat \ {0} /\ Head(q) = q[1] /\ (Tail(q) = <<>> <=> Len(q) = 1)
    <3>1. Len(q) \in Nat /\ Len(q) # 0
      BY <2>1, <2>3, EmptySeq
    <3>2. Tail(q) = <<>> <=> Len(Tail(q)) = 0
      BY <2>3, EmptySeq
    <3> QED
      BY <2>1, <2>3, <3>1, <3>2
  <2> HIDE DEF q, stamp
  <2>7. /\ lines'[l] \in Socks /\ lines'[l].is = "live" /\ lines'[l].queue = Tail(q)
        /\ lines'[l].watching = stamp
        /\ \A k \in Line \ {l} : lines'[k] = lines[k]
    <3>1. lines[l] \in Socks
      BY <1>0
    <3>2. CASE Head(q).t = "auth"
      <4>1. lines' = [lines EXCEPT ![l] = [lines[l] EXCEPT !.queue = Tail(q), !.auth = "checking",
                                             !.watching = stamp, !.said = stamp]]
        BY <2>2, <3>2
      <4> QED
        BY <1>0, <2>3, <2>4, <2>5, <3>1, <4>1
    <3>3. CASE Head(q).t # "auth"
      <4>1. lines' = [lines EXCEPT ![l] = [lines[l] EXCEPT !.queue = Tail(q), !.watching = stamp]]
        BY <2>2, <3>3
      <4> QED
        BY <1>0, <2>3, <2>4, <2>5, <3>1, <4>1
    <3> QED
      BY <3>2, <3>3
  <2>8. Rung'
    <3>1. lines' \in [Line -> Socks]
      <4>1. \E v : lines' = [lines EXCEPT ![l] = v]
        BY <2>2
      <4> HIDE DEF Socks
      <4> QED
        BY <1>0, <2>7, <4>1
    <3> HIDE DEF Socks
    <3> QED
      BY <1>0, <1>1, <2>1, <3>1
  <2>9. Single'
    BY <2>1, <2>5, <2>7 DEF WakeupInv, Single
  <2>10. ASSUME ~Visible', NEW k \in Line PROVE Unwatched(k)'
    <3>1. ~Visible /\ Unwatched(k) /\ UNCHANGED hiddenFor
      BY <2>1, <2>10 DEF WakeupInv, Visible
    <3>2. CASE k # l
      BY <2>7, <3>1, <3>2 DEF Unwatched
    <3>3. CASE k = l
      <4>1. CASE \A i \in 1 .. Len(q) : ~q[i].watching
        <5>1. stamp = 0
          BY <2>4, <2>6, <4>1
        <5>2. ASSUME NEW i \in 1 .. Len(Tail(q)) PROVE ~Tail(q)[i].watching
          <6>1. Tail(q)[i] = q[i + 1]
            BY <2>3
          <6>2. i \in 1 .. Len(q) - 1 /\ Len(q) \in Nat
            BY <2>3, <2>6
          <6>3. i + 1 \in 1 .. Len(q)
            BY <6>2
          <6> QED
            BY <4>1, <6>1, <6>3
        <5> QED
          BY <2>7, <3>3, <5>1, <5>2 DEF Unwatched
      <4>2. CASE hiddenFor = 0 /\ ~q[Len(q)].watching
        <5>1. CASE Len(q) = 1
          <6>1. stamp = 0
            BY <2>4, <2>6, <4>2, <5>1
          <6>2. \A i \in 1 .. Len(Tail(q)) : ~Tail(q)[i].watching
            <7>2. Len(Tail(q)) = 0
              BY <2>3, <5>1
            <7>3. ASSUME NEW i \in 1 .. 0 PROVE FALSE
              OBVIOUS
            <7> QED
              BY <7>2, <7>3
          <6> QED
            BY <2>7, <3>3, <6>1, <6>2 DEF Unwatched
        <5>2. CASE Len(q) # 1
          <6>1. Tail(q)[Len(Tail(q))] = q[Len(q)] /\ Tail(q) # <<>>
            BY <2>3, <2>6, <5>2
          <6> QED
            BY <2>7, <3>1, <3>3, <4>2, <6>1 DEF Unwatched
        <5> QED
          BY <5>1, <5>2
      <4> QED
        BY <2>5, <3>1, <3>3, <4>1, <4>2 DEF Unwatched, q
    <3> QED
      BY <3>2, <3>3
  <2> QED
    BY SMTT(60), <2>8, <2>9, <2>10 DEF WakeupInv
<1>4. ASSUME NEW l \in Line, AuthDone(l) PROVE WakeupInv'
  <2>1. /\ lines[l].auth = "checking" /\ lines' = [lines EXCEPT ![l] = [lines[l] EXCEPT !.auth = "ready"]]
        /\ UNCHANGED <<page, hiddenFor, rows, armed, nudging, now, toggles>>
    BY <1>4 DEF AuthDone, Registered
  <2>2. lines' \in [Line -> Socks]
    BY <1>0, <2>1
  <2>3. Rung'
    <3> HIDE DEF Socks
    <3> QED
      BY <1>0, <1>1, <2>1, <2>2
  <2>4. /\ \A k \in Line \ {l} : lines'[k] = lines[k]
        /\ lines'[l].is = lines[l].is /\ lines'[l].queue = lines[l].queue
        /\ lines'[l].watching = lines[l].watching
    BY <1>0, <2>1
  <2>5. lines[l].is # "none"
    BY <2>1 DEF WakeupInv, Single, NoLine
  <2>6. Single'
    BY <2>1, <2>4, <2>5 DEF WakeupInv, Single
  <2>7. ASSUME ~Visible', NEW k \in Line PROVE Unwatched(k)'
    <3>1. ~Visible /\ Unwatched(k) /\ UNCHANGED hiddenFor
      BY <2>1, <2>7 DEF WakeupInv, Visible
    <3> QED
      BY <2>4, <3>1 DEF Unwatched
  <2> QED
    BY <2>3, <2>6, <2>7 DEF WakeupInv
<1>5. ASSUME NEW l \in Line, Notice(l) PROVE WakeupInv'
  <2>1. /\ lines' = [lines EXCEPT ![l] = NoLine]
        /\ UNCHANGED <<page, hiddenFor, rows, armed, nudging, now, toggles>>
    BY <1>5 DEF Notice
  <2>2. NoLine \in Socks /\ NoLine.is = "none"
    <3>1. <<>> \in Seq(Word)
      BY EmptySeq
    <3> QED
      BY <3>1 DEF NoLine
  <2>3. lines' \in [Line -> Socks]
    <3> HIDE DEF Socks
    <3> QED
      BY <1>0, <2>1, <2>2
  <2>4. Rung'
    <3> HIDE DEF Socks
    <3> QED
      BY <1>0, <1>1, <2>1, <2>3
  <2>5. (\A k \in Line \ {l} : lines'[k] = lines[k]) /\ lines'[l] = NoLine
    <3> HIDE DEF Socks
    <3> QED
      BY <1>0, <2>1
  <2>6. Single'
    BY <2>1, <2>2, <2>5 DEF WakeupInv, Single
  <2>7. ASSUME ~Visible', NEW k \in Line PROVE Unwatched(k)'
    <3>1. ~Visible /\ Unwatched(k) /\ UNCHANGED hiddenFor
      BY <2>1, <2>7 DEF WakeupInv, Visible
    <3> QED
      BY <2>2, <2>5, <3>1 DEF Unwatched
  <2> QED
    BY <2>4, <2>6, <2>7 DEF WakeupInv
<1> QED
  BY <1>2, <1>3, <1>4, <1>5

\* Rows that come and go: at most as many subscriptions as there is room for.
LEMMA RowsKeep ==
  ASSUME WakeupInv, armed' \in BOOLEAN, nudging' \subseteq Endpoint,
         UNCHANGED <<page, hiddenFor, lines, now, toggles>>,
         rows' \subseteq [kind : {"envelope", "seen", "sub"}, name : Name \cup Endpoint,
                          born : 0 .. MaxTime, silent : BOOLEAN],
         IsFiniteSet(rows'), Cardinality(SubRows') <= MaxSubs,
         \A r \in SubRows' : r.name \in Endpoint
  PROVE  WakeupInv'
<1>1. Rung'
  BY DEF WakeupInv, Rung
<1>2. Single' /\ (Visible' = Visible) /\ \A l \in Line : Unwatched(l) => Unwatched(l)'
  BY DEF WakeupInv, Single, Unwatched, Visible
<1> QED
  BY <1>1, <1>2 DEF WakeupInv

\* Rows that are no subscriptions leave their number.
LEMMA OtherRowsKeep ==
  ASSUME WakeupInv, armed' \in BOOLEAN, nudging' \subseteq Endpoint,
         UNCHANGED <<page, hiddenFor, lines, now, toggles>>,
         NEW kept \in SUBSET rows, NEW more,
         more \subseteq [kind : {"envelope", "seen"}, name : Name \cup Endpoint,
                         born : 0 .. MaxTime, silent : BOOLEAN],
         IsFiniteSet(more), rows' = kept \cup more
  PROVE  WakeupInv'
<1> USE WakeupAssumption DEF WakeupAssumption
<1>1. rows' \subseteq [kind : {"envelope", "seen", "sub"}, name : Name \cup Endpoint,
                       born : 0 .. MaxTime, silent : BOOLEAN]
  <2>1. rows \subseteq [kind : {"envelope", "seen", "sub"}, name : Name \cup Endpoint,
                        born : 0 .. MaxTime, silent : BOOLEAN]
    BY DEF WakeupInv, Rung
  <2> QED
    BY <2>1
<1>2. IsFiniteSet(rows) /\ IsFiniteSet(SubRows)
  BY FS_Subset DEF WakeupInv, Rung, SubRows
<1>3. IsFiniteSet(rows')
  <2>1. IsFiniteSet(kept)
    BY <1>2, FS_Subset
  <2> QED
    BY <2>1, FS_Union
<1>4. SubRows' \subseteq SubRows
  BY DEF SubRows
<1>5. Cardinality(SubRows') <= MaxSubs
  <2>1. Cardinality(SubRows) \in Nat /\ Cardinality(SubRows') \in Nat
        /\ Cardinality(SubRows') <= Cardinality(SubRows)
    BY <1>2, <1>4, FS_Subset, FS_CardinalityType
  <2>2. Cardinality(SubRows) <= MaxSubs
    BY DEF WakeupInv, Rung
  <2> QED
    BY <2>1, <2>2
<1>6. \A r \in SubRows' : r.name \in Endpoint
  BY <1>4 DEF WakeupInv, Rung
<1> QED
  BY <1>1, <1>3, <1>5, <1>6, RowsKeep

\* The steps of the Inbox.
LEMMA InboxKeeps ==
  ASSUME WakeupInv,
         \/ Alarm
         \/ \E e \in Endpoint : Unsubscribe(e) \/ PushAnswered(e)
         \/ \E n \in Name : AckEnvelope(n) \/ \E silent \in BOOLEAN : Deliver(n, silent)
  PROVE  WakeupInv'
<1> USE WakeupAssumption DEF WakeupAssumption
<1>0. /\ armed \in BOOLEAN /\ nudging \subseteq Endpoint /\ now \in 0 .. MaxTime
      /\ IsFiniteSet({}) /\ \A r : IsFiniteSet({r})
  BY FS_EmptySet, FS_Singleton DEF WakeupInv, Rung
<1>1. CASE Alarm
  <2>1. /\ rows' = (rows \ Expired) \cup {} /\ armed' \in BOOLEAN
        /\ UNCHANGED <<page, hiddenFor, lines, nudging, now, toggles>>
    BY <1>1 DEF Alarm, Again
  <2> QED
    BY <1>0, <2>1, OtherRowsKeep
<1>2. ASSUME NEW e \in Endpoint, Unsubscribe(e) PROVE WakeupInv'
  <2>1. /\ rows' = Dropped(e) \cup {} /\ Dropped(e) \subseteq rows
        /\ UNCHANGED <<page, hiddenFor, lines, armed, nudging, now, toggles>>
    BY <1>2 DEF Unsubscribe, Dropped
  <2> QED
    BY <1>0, <2>1, OtherRowsKeep
<1>3. ASSUME NEW e \in Endpoint, PushAnswered(e) PROVE WakeupInv'
  <2>1. /\ rows' = rows \cup {} \/ rows' = Dropped(e) \cup {}
        /\ Dropped(e) \subseteq rows /\ rows \subseteq rows /\ nudging' \subseteq Endpoint
        /\ UNCHANGED <<page, hiddenFor, lines, armed, now, toggles>>
    BY <1>0, <1>3 DEF PushAnswered, Dropped
  <2> QED
    BY <1>0, <2>1, OtherRowsKeep
<1>4. ASSUME NEW n \in Name, AckEnvelope(n) PROVE WakeupInv'
  <2> DEFINE old == {r \in rows : r.name # n}
  <2>1. /\ rows' = old \cup {Row("seen", n, FALSE)} /\ armed' = TRUE
        /\ UNCHANGED <<page, hiddenFor, lines, nudging, now, toggles>>
    BY <1>4 DEF AckEnvelope
  <2>2. {Row("seen", n, FALSE)} \subseteq [kind : {"envelope", "seen"}, name : Name \cup Endpoint,
                                          born : 0 .. MaxTime, silent : BOOLEAN]
    BY <1>0 DEF Row
  <2>3. old \subseteq rows
    OBVIOUS
  <2> HIDE DEF old
  <2> QED
    BY <1>0, <2>1, <2>2, <2>3, OtherRowsKeep
<1>5. ASSUME NEW n \in Name, NEW silent \in BOOLEAN, Deliver(n, silent) PROVE WakeupInv'
  <2>1. /\ rows' = rows \cup {Row("envelope", n, silent)} /\ armed' = TRUE
        /\ UNCHANGED <<page, hiddenFor, lines, now, toggles>> /\ NudgeUnlessWatched(silent)
    BY <1>5 DEF Deliver
  <2>2. {Row("envelope", n, silent)} \subseteq [kind : {"envelope", "seen"}, name : Name \cup Endpoint,
                                               born : 0 .. MaxTime, silent : BOOLEAN]
    BY <1>0 DEF Row
  <2>3. nudging' \subseteq Endpoint
    <3>1. Subs \subseteq Endpoint
      BY DEF WakeupInv, Rung, Subs, SubRows
    <3> QED
      BY <1>0, <2>1, <3>1 DEF NudgeUnlessWatched
  <2> QED
    BY <1>0, <2>1, <2>2, <2>3, OtherRowsKeep
<1> QED
  BY <1>1, <1>2, <1>3, <1>4, <1>5

\* A subscription: an endpoint's own row is replaced, or room is made for another.
LEMMA SubscribeKeeps ==
  ASSUME WakeupInv, NEW e \in Endpoint, Subscribe(e)
  PROVE  WakeupInv'
<1> USE WakeupAssumption DEF WakeupAssumption
<1> DEFINE old == {r \in rows : r.kind = "sub" /\ r.name = e}
           others == {r \in rows : r.kind = "sub"} \ old
           count == IF old = {} THEN Surplus(Cardinality(others)) ELSE 0
           new == Row("sub", e, FALSE)
<1>1. /\ \E gone \in SUBSET others :
            Cardinality(gone) = count /\ rows' = (rows \ (old \cup gone)) \cup {new}
      /\ armed' = TRUE /\ UNCHANGED <<page, hiddenFor, lines, nudging, now, toggles>>
  BY DEF Subscribe
<1>2. PICK gone \in SUBSET others :
        Cardinality(gone) = count /\ rows' = (rows \ (old \cup gone)) \cup {new}
  BY <1>1
<1>3. /\ IsFiniteSet(rows) /\ IsFiniteSet(SubRows) /\ IsFiniteSet(old) /\ IsFiniteSet(others)
      /\ IsFiniteSet(gone) /\ Cardinality(SubRows) <= MaxSubs
  <2>1. IsFiniteSet(rows) /\ Cardinality(SubRows) <= MaxSubs
    BY DEF WakeupInv, Rung
  <2>2. SubRows \subseteq rows /\ old \subseteq rows /\ others \subseteq rows /\ gone \subseteq rows
    BY DEF SubRows
  <2> QED
    BY <2>1, <2>2, FS_Subset
<1>4. SubRows = old \cup others /\ old \cap others = {} /\ gone \subseteq others
  BY DEF SubRows
<1>5. new.kind = "sub" /\ new.name = e
      /\ new \in [kind : {"envelope", "seen", "sub"}, name : Name \cup Endpoint,
                  born : 0 .. MaxTime, silent : BOOLEAN]
  BY DEF Row, WakeupInv, Rung
<1>6. SubRows' = (others \ gone) \cup {new}
  BY <1>2, <1>5 DEF SubRows
<1>7. /\ Cardinality(others) \in Nat /\ Cardinality(gone) \in Nat /\ Cardinality(old) \in Nat
      /\ Cardinality(SubRows) = Cardinality(old) + Cardinality(others)
  <2>1. /\ Cardinality(others) \in Nat /\ Cardinality(gone) \in Nat /\ Cardinality(old) \in Nat
    BY <1>3, FS_CardinalityType
  <2>2. Cardinality(old \cap others) = 0
    BY <1>4, FS_EmptySet
  <2>3. Cardinality(old \cup others) = Cardinality(old) + Cardinality(others) - Cardinality(old \cap others)
    BY <1>3, FS_Union
  <2> QED
    BY <1>4, <2>1, <2>2, <2>3
<1>8. IsFiniteSet(others \ gone) /\ Cardinality(others \ gone) = Cardinality(others) - Cardinality(gone)
  <2> HIDE DEF old, others
  <2>1. IsFiniteSet(others \ gone) /\ (others \ gone) \cap gone = {} /\ (others \ gone) \cup gone = others
    <3>1. others \ gone \subseteq others
      OBVIOUS
    <3>2. IsFiniteSet(others \ gone)
      BY <1>3, <3>1, FS_Subset
    <3> QED
      BY <1>4, <3>2
  <2>2. Cardinality((others \ gone) \cap gone) = 0
    BY <2>1, FS_EmptySet
  <2>3. Cardinality((others \ gone) \cup gone)
          = Cardinality(others \ gone) + Cardinality(gone) - Cardinality((others \ gone) \cap gone)
    BY <1>3, <2>1, FS_Union
  <2>4. Cardinality(others \ gone) \in Nat
    BY <2>1, FS_CardinalityType
  <2> QED
    BY <1>7, <2>1, <2>2, <2>3, <2>4
<1>9. Cardinality(others \ gone) + 1 <= MaxSubs
  <2>1. CASE old = {}
    <3>1. Cardinality(old) = 0 /\ Cardinality(gone) = Surplus(Cardinality(others))
      BY <1>2, <2>1, FS_EmptySet
    <3> HIDE DEF old, others
    <3> QED
      BY <1>3, <1>7, <1>8, <3>1 DEF Surplus
  <2>2. CASE old # {}
    <3>1. Cardinality(old) # 0 /\ Cardinality(gone) = 0
      BY <1>2, <1>3, <2>2, FS_EmptySet
    <3> HIDE DEF old, others
    <3> QED
      BY <1>3, <1>7, <1>8, <3>1
  <2> QED
    BY <2>1, <2>2
<1> HIDE DEF old, others, count, new
<1>10. Cardinality(SubRows') <= MaxSubs
  <2>1. Cardinality(SubRows') <= Cardinality(others \ gone) + 1
    <3>1. Cardinality(others \ gone) \in Nat
      BY <1>8, FS_CardinalityType
    <3>2. CASE new \in others \ gone
      <4>1. SubRows' = others \ gone
        BY <1>6, <3>2
      <4> QED
        BY <3>1, <4>1
    <3>3. CASE new \notin others \ gone
      <4>1. Cardinality((others \ gone) \cup {new}) = Cardinality(others \ gone) + 1
        BY <1>8, <3>3, FS_AddElement
      <4> QED
        BY <1>6, <3>1, <4>1
    <3> QED
      BY <3>2, <3>3
  <2>2. Cardinality(SubRows') \in Nat /\ Cardinality(others \ gone) \in Nat
    BY <1>6, <1>8, FS_AddElement, FS_CardinalityType
  <2> QED
    BY <1>9, <2>1, <2>2
<1>11. IsFiniteSet(rows')
  <2>1. IsFiniteSet(rows \ (old \cup gone))
    BY <1>3, FS_Subset
  <2> QED
    BY <1>2, <2>1, FS_AddElement
<1>12. rows' \subseteq [kind : {"envelope", "seen", "sub"}, name : Name \cup Endpoint,
                        born : 0 .. MaxTime, silent : BOOLEAN]
  <2>1. rows \subseteq [kind : {"envelope", "seen", "sub"}, name : Name \cup Endpoint,
                        born : 0 .. MaxTime, silent : BOOLEAN]
    BY DEF WakeupInv, Rung
  <2> QED
    BY <1>2, <1>5, <2>1
<1>13. \A r \in SubRows' : r.name \in Endpoint
  <2>1. \A r \in others : r.name \in Endpoint
    BY <1>4 DEF WakeupInv, Rung
  <2> QED
    BY <1>5, <1>6, <2>1
<1>14. armed' \in BOOLEAN /\ nudging' \subseteq Endpoint
  BY <1>1 DEF WakeupInv, Rung
<1> QED
  BY <1>1, <1>10, <1>11, <1>12, <1>13, <1>14, RowsKeep

\* The inductive invariant of the wake-ups.
LEMMA WakeupInvHolds == WakeupSpec => []WakeupInv
<1> USE WakeupAssumption DEF WakeupAssumption
<1>1. WakeupInit => WakeupInv
  <2> SUFFICES ASSUME WakeupInit PROVE WakeupInv
    OBVIOUS
  <2>1. NoLine \in [is : {"none", "live", "dead"}, auth : {"none", "checking", "ready"},
                    watching : 0 .. Fresh, said : 0 .. Fresh, queue : Seq(Word)]
    <3>1. <<>> \in Seq(Word)
      BY EmptySeq
    <3> QED
      BY <3>1 DEF NoLine
  <2>2. SubRows = {} /\ IsFiniteSet({}) /\ Cardinality({}) = 0
    BY FS_EmptySet DEF WakeupInit, SubRows
  <2>3. Rung
    <3>1. page \in {"visible", "hidden", "closed"} /\ hiddenFor \in 0 .. Fresh + 1
      BY DEF WakeupInit
    <3>2. lines \in [Line -> [is : {"none", "live", "dead"}, auth : {"none", "checking", "ready"},
                              watching : 0 .. Fresh, said : 0 .. Fresh, queue : Seq(Word)]]
      BY <2>1 DEF WakeupInit
    <3>3. /\ rows = {} /\ armed \in BOOLEAN /\ nudging \subseteq Endpoint
          /\ now = 0 /\ toggles = 0
      BY DEF WakeupInit
    <3>5. now \in 0 .. MaxTime /\ toggles \in 0 .. MaxToggles
      BY <3>3
    <3>4. IsFiniteSet(rows) /\ Cardinality(SubRows) <= MaxSubs /\ \A r \in SubRows : r.name \in Endpoint
      BY <2>2, <3>3
    <3> QED
      BY <3>1, <3>2, <3>3, <3>4, <3>5 DEF Rung
  <2>4. Single
    BY DEF WakeupInit, Single, NoLine
  <2> QED
    BY <2>3, <2>4 DEF WakeupInit, WakeupInv, Visible
<1>2. WakeupInv /\ [WakeupNext]_wakeupVars => WakeupInv'
  <2>1. CASE UNCHANGED wakeupVars
    BY <2>1 DEF wakeupVars, WakeupInv, Rung, Single, Visible, Unwatched, SubRows
  <2> QED
    BY <2>1, PageKeeps, LinesKeep, InboxKeeps, SubscribeKeeps DEF WakeupNext
<1> QED
  BY <1>1, <1>2, PTL DEF WakeupSpec

\* What the Inbox keeps of a device are states its code can leave, and never more push
\* subscriptions than MAX_PUSH_SUBS (inbox.ts doPushSubscribe).
THEOREM WakeupTypesHold == WakeupSpec => []WakeupTypeOK
<1>1. ASSUME WakeupInv PROVE WakeupTypeOK
  <2>1. Cardinality(Subs) <= MaxSubs
    <3>1. IsFiniteSet(SubRows) /\ Cardinality(SubRows) <= MaxSubs
      BY <1>1, FS_Subset DEF WakeupInv, Rung, SubRows
    <3> DEFINE f == [r \in SubRows |-> r.name]
    <3>2. Subs = {f[r] : r \in SubRows}
      BY DEF Subs, SubRows
    <3>3. f \in Surjection(SubRows, Subs)
      BY <3>2 DEF Surjection
    <3>4. IsFiniteSet(Subs) /\ Cardinality(Subs) <= Cardinality(SubRows)
      BY <3>1, <3>3, FS_Surjection
    <3> QED
      BY <3>1, <3>4, FS_CardinalityType, WakeupAssumption DEF WakeupAssumption
  <2> QED
    BY <1>1, <2>1 DEF WakeupInv, Rung, WakeupTypeOK, Word
<1> QED
  BY <1>1, WakeupInvHolds, PTL

\* A message that makes a sound nudges every subscription whenever the Inbox can know that
\* nobody looks (inbox.ts hasFreshWatcher, handleAuth, pushNudge).
THEOREM HiddenIsNudgedHolds == WakeupSpec => HiddenIsNudged
<1> USE WakeupAssumption DEF WakeupAssumption
<1>1. ASSUME WakeupInv, NobodyLooks PROVE ~HasFreshWatcher
  <2> SUFFICES ASSUME NEW l \in Line, lines[l].watching > 0 PROVE FALSE
    BY DEF HasFreshWatcher
  <2>1. Unwatched(l) /\ lines[l].watching \in 0 .. Fresh /\ hiddenFor \in 0 .. Fresh + 1
    BY <1>1 DEF WakeupInv, NobodyLooks, Rung
  <2>2. lines[l].is # "none"
    BY <1>1 DEF WakeupInv, Single, NoLine
  <2>3. CASE hiddenFor > Fresh
    BY <2>1, <2>2, <2>3 DEF Unwatched
  <2>4. CASE \A k \in Line : lines[k].is # "dead" /\ lines[k].queue = <<>>
    BY <2>1, <2>2, <2>4 DEF Unwatched
  <2> QED
    BY <1>1, <2>3, <2>4 DEF NobodyLooks
<1>2. ASSUME WakeupInv, WakeupNext, NEW r \in rows' \ rows,
             r.kind = "envelope", ~r.silent, NobodyLooks
      PROVE  Subs \subseteq nudging'
  <2>1. PICK n \in Name, silent \in BOOLEAN : Deliver(n, silent)
    <3>1. ASSUME NEW e \in Endpoint, Subscribe(e) PROVE FALSE
      <4>1. rows' \subseteq rows \cup {Row("sub", e, FALSE)}
        BY <3>1 DEF Subscribe
      <4>2. Row("sub", e, FALSE).kind = "sub"
        BY DEF Row
      <4> QED
        BY <1>2, <4>1, <4>2
    <3>2. ~\E n \in Name : AckEnvelope(n)
      BY <1>2 DEF AckEnvelope, Row
    <3>3. \/ rows' \subseteq rows
          \/ \E e \in Endpoint : Subscribe(e)
          \/ \E n \in Name : AckEnvelope(n) \/ \E silent \in BOOLEAN : Deliver(n, silent)
      BY <1>2 DEF WakeupNext, Toggle, Beat, Alarm, Tick, SocketOpens, CutOff, Hear, AuthDone, Notice,
         Unsubscribe, PushAnswered, Dropped
    <3> QED
      BY <1>2, <3>1, <3>2, <3>3
  <2>2. r = Row("envelope", n, silent) /\ NudgeUnlessWatched(silent)
    BY <1>2, <2>1 DEF Deliver
  <2>3. ~silent
    BY <1>2, <2>2 DEF Row
  <2> QED
    BY <1>1, <1>2, <2>2, <2>3 DEF NudgeUnlessWatched
<1>3. WakeupInv /\ [WakeupNext]_wakeupVars =>
        [\A r \in rows' \ rows :
            r.kind = "envelope" /\ ~r.silent /\ NobodyLooks => Subs \subseteq nudging']_wakeupVars
  BY <1>2
<1> QED
  BY <1>3, WakeupInvHolds, PTL DEF WakeupSpec, HiddenIsNudged

-----------------------------------------------------------------------------
(* Links: a payload is joined once.                                         *)

\* What the code on the screen, the relay and the sender are at.
Offered ==
  /\ mix \in [Blocks + 1 .. MaxSeq -> SUBSET Block \ {{}}] /\ parts \in {1, 2}
  /\ shownCodes \in 0 .. MaxCodes /\ secret \in 0 .. shownCodes
  /\ linkState \in {"idle", "waiting", "joining", "done"}
  /\ buffer \in Seq(1 .. sentOver) /\ Len(buffer) <= MaxPending
  /\ sentOver \in 0 .. MaxRelay /\ air \subseteq [id : 1 .. sentOver, secret : Code]
  /\ target \in 0 .. shownCodes /\ seals \in Seq(Code) /\ Len(seals) <= MaxSeals

\* What the camera is at: the decoder takes in one stream.
Caught ==
  /\ scanning \in BOOLEAN /\ seeing \in CodeFrame \cup {NoFrame}
  /\ decoder.stream = {} \/ \E s \in Seal : decoder.stream = {s}
  /\ decoder.seen \subseteq 1 .. MaxSeq

\* One run of completeLink is at work while the device is joining, which awaits no chunk and
\* looks at no frame; no run is at work otherwise, and the key is kept by then.
Joining ==
  /\ awaiting \in {0, secret}
  /\ linkState = "joining" =>
       /\ awaiting = 0 /\ ~scanning /\ seeing = NoFrame
       /\ ~joined /\ joins.staging + joins.registering = 1
  /\ linkState # "joining" => joins.staging + joins.registering = 0
  /\ joins.registering > 0 \/ joined => keySaved

LinkingInv ==
  /\ Offered /\ Caught
  /\ joins \in [staging : Nat, registering : Nat]
  /\ keySaved \in BOOLEAN /\ joined \in BOOLEAN /\ overlapped \in BOOLEAN
  /\ overlapped \/ Joining

\* The start of completeLink, whichever way the payload came.
LEMMA Completes ==
  ASSUME LinkingInv, CompleteLink, overlapped \/ linkState # "joining",
         UNCHANGED <<mix, parts, shownCodes, sentOver, target, seals>>, air' \subseteq air, Caught'
  PROVE  LinkingInv'
<1> USE LinkingAssumption DEF LinkingAssumption
<1>1. awaiting' = 0 /\ buffer' = <<>> /\ UNCHANGED <<keySaved, joined>>
  BY DEF CompleteLink
<1>2. CASE joined
  <2>1. linkState' = "idle" /\ secret' = 0 /\ UNCHANGED <<joins, scanning, overlapped>>
    BY <1>2 DEF CompleteLink
  <2>2. Offered'
    BY <1>1, <2>1, EmptySeq DEF LinkingInv, Offered
  <2>3. overlapped' \/ Joining'
    BY <1>1, <2>1 DEF LinkingInv, Joining
  <2> QED
    BY <1>1, <2>1, <2>2, <2>3 DEF LinkingInv
<1>3. CASE ~joined
  <2>1. /\ linkState' = "joining" /\ secret' = secret /\ scanning' = FALSE
        /\ joins' = [joins EXCEPT !.staging = @ + 1]
        /\ overlapped' = (overlapped \/ seeing' # NoFrame)
    BY <1>3 DEF CompleteLink, ViewWhenJoining
  <2>2. Offered'
    BY SMTT(60), <1>1, <2>1, EmptySeq DEF LinkingInv, Offered
  <2>3. joins \in [staging : Nat, registering : Nat]
    BY DEF LinkingInv
  <2>4. /\ joins' \in [staging : Nat, registering : Nat]
        /\ joins'.staging = joins.staging + 1 /\ joins'.registering = joins.registering
    BY <2>1, <2>3
  <2>5. ASSUME ~overlapped' PROVE Joining'
    <3>1. ~overlapped /\ seeing' = NoFrame /\ Joining
      BY <2>1, <2>5 DEF LinkingInv
    <3>2. joins.staging = 0 /\ joins.registering = 0
      BY <2>3, <3>1 DEF Joining
    <3> QED
      BY <1>1, <1>3, <2>1, <2>4, <3>1, <3>2 DEF Joining
  <2>6. overlapped' \in BOOLEAN
    BY <2>1 DEF LinkingInv
  <2> QED
    BY <1>1, <2>2, <2>4, <2>5, <2>6 DEF LinkingInv
<1> QED
  BY <1>2, <1>3

\* The new device shows a code, or takes it back, and what comes over the relay.
LEMMA CodesKeep ==
  ASSUME LinkingInv, StartLinking \/ CancelLinking \/ \E c \in air : HandleLinkChunk(c)
  PROVE  LinkingInv'
<1> USE LinkingAssumption DEF LinkingAssumption
<1>1. CASE StartLinking
  <2>1. /\ linkState \in {"idle", "waiting"} /\ ~joined /\ shownCodes < MaxCodes
        /\ shownCodes' = shownCodes + 1 /\ secret' = shownCodes' /\ awaiting' = shownCodes'
        /\ buffer' = <<>> /\ linkState' = "waiting"
        /\ UNCHANGED <<mix, parts, sentOver, air, target, seals, scanning, seeing, decoder,
                       joins, keySaved, joined, overlapped>>
    BY <1>1 DEF StartLinking, senderVars, relayVars, decoderVars, joinVars
  <2>2. shownCodes \in 0 .. MaxCodes /\ target \in 0 .. shownCodes
    BY DEF LinkingInv, Offered
  <2>3. shownCodes' \in 0 .. MaxCodes /\ secret' \in 0 .. shownCodes' /\ target' \in 0 .. shownCodes'
    BY <2>1, <2>2
  <2>4. Offered'
    BY <2>1, <2>3, EmptySeq DEF LinkingInv, Offered
  <2> QED
    BY <2>1, <2>4 DEF LinkingInv, Caught, Joining
<1>2. CASE CancelLinking
  <2>1. /\ linkState = "waiting" /\ linkState' = "idle" /\ secret' = 0 /\ awaiting' = 0 /\ buffer' = <<>>
        /\ UNCHANGED <<mix, parts, shownCodes, sentOver, air, target, seals, scanning, seeing, decoder,
                       joins, keySaved, joined, overlapped>>
    BY <1>2 DEF CancelLinking, senderVars, relayVars, decoderVars, joinVars
  <2>2. Offered'
    BY <2>1, EmptySeq DEF LinkingInv, Offered
  <2> QED
    BY <2>1, <2>2 DEF LinkingInv, Caught, Joining
<1>3. ASSUME NEW c \in air, HandleLinkChunk(c) PROVE LinkingInv'
  <2>1. /\ air' = air \ {c} /\ UNCHANGED <<seeing, decoder, mix, parts, shownCodes, sentOver, target, seals>>
        /\ IF awaiting # 0 /\ OpenLink(c)
           THEN CompleteLink
           ELSE /\ buffer' = IF awaiting # 0 /\ parts > 1 THEN Kept(c.id) ELSE buffer
                /\ UNCHANGED <<linkState, secret, awaiting, joins, keySaved, joined, scanning, overlapped>>
    BY <1>3 DEF HandleLinkChunk, joinVars
  <2>2. CASE awaiting # 0 /\ OpenLink(c)
    <3>1. overlapped \/ linkState # "joining"
      BY <2>2 DEF LinkingInv, Joining
    <3>2. Caught'
      BY <2>1, <2>2 DEF CompleteLink, ViewWhenJoining, LinkingInv, Caught
    <3> QED
      BY <2>1, <2>2, <3>1, <3>2, Completes
  <2>3. CASE ~(awaiting # 0 /\ OpenLink(c))
    <3>1. buffer \in Seq(1 .. sentOver) /\ Len(buffer) <= MaxPending /\ c.id \in 1 .. sentOver
          /\ Len(buffer) \in Nat
      BY LenProperties DEF LinkingInv, Offered
    <3>2. Kept(c.id) \in Seq(1 .. sentOver) /\ Len(Kept(c.id)) <= MaxPending
      <4>1. CASE Len(buffer) >= MaxPending
        <5>1. buffer # <<>>
          BY <4>1
        <5>2. Tail(buffer) \in Seq(1 .. sentOver) /\ Len(Tail(buffer)) = Len(buffer) - 1
          BY <3>1, <5>1, HeadTailProperties
        <5>3. /\ Append(Tail(buffer), c.id) \in Seq(1 .. sentOver)
              /\ Len(Append(Tail(buffer), c.id)) = Len(buffer) - 1 + 1
          BY <3>1, <5>2, AppendProperties
        <5> QED
          BY <3>1, <4>1, <5>3 DEF Kept
      <4>2. CASE Len(buffer) < MaxPending
        <5>1. Append(buffer, c.id) \in Seq(1 .. sentOver) /\ Len(Append(buffer, c.id)) = Len(buffer) + 1
          BY <3>1, AppendProperties
        <5>2. Kept(c.id) = Append(buffer, c.id)
          BY <3>1, <4>2 DEF Kept
        <5> QED
          BY <3>1, <4>2, <5>1, <5>2
      <4> QED
        BY <3>1, <4>1, <4>2
    <3>3. buffer' \in Seq(1 .. sentOver) /\ Len(buffer') <= MaxPending
      BY <2>1, <2>3, <3>1, <3>2
    <3>4. Offered'
      BY <2>1, <2>3, <3>3 DEF LinkingInv, Offered
    <3> QED
      BY <2>1, <2>3, <3>4 DEF LinkingInv, Caught, Joining
  <2> QED
    BY <2>2, <2>3
<1> QED
  BY <1>1, <1>2, <1>3

\* What the camera sees.
LEMMA CameraKeeps ==
  ASSUME LinkingInv, \/ OpenCamera \/ CloseCamera \/ Decoded
                     \/ \E f \in CodeFrame : Glimpse(f)
  PROVE  LinkingInv'
<1> USE LinkingAssumption DEF LinkingAssumption
<1>0. ASSUME UNCHANGED <<mix, parts, shownCodes, secret, linkState, awaiting, buffer, senderVars,
                         joinVars, overlapped>>,
             Caught', overlapped \/ linkState # "joining"
      PROVE  LinkingInv'
  <2>1. UNCHANGED <<sentOver, air, target, seals, joins, keySaved, joined>>
    BY <1>0 DEF senderVars, relayVars, joinVars
  <2>2. Offered'
    BY <1>0, <2>1 DEF LinkingInv, Offered
  <2>3. overlapped' \/ Joining'
    BY <1>0, <2>1 DEF LinkingInv, Joining
  <2> QED
    BY <1>0, <2>1, <2>2, <2>3 DEF LinkingInv
<1>1. CASE OpenCamera
  <2>1. Caught'
    BY <1>1 DEF OpenCamera, FreshDecoder, LinkingInv, Caught
  <2> QED
    BY <1>0, <1>1, <2>1 DEF OpenCamera
<1>2. CASE CloseCamera
  <2>1. Caught'
    BY <1>2 DEF CloseCamera, LinkingInv, Caught
  <2>2. overlapped \/ linkState # "joining"
    BY <1>2 DEF CloseCamera, LinkingInv, Joining
  <2> QED
    BY <1>0, <1>2, <2>1, <2>2 DEF CloseCamera
<1>3. ASSUME NEW f \in CodeFrame, Glimpse(f) PROVE LinkingInv'
  <2>1. Caught'
    BY <1>3 DEF Glimpse, LinkingInv, Caught
  <2>2. overlapped \/ linkState # "joining"
    BY <1>3 DEF Glimpse, LinkingInv, Joining
  <2> QED
    BY <1>0, <1>3, <2>1, <2>2 DEF Glimpse
<1>4. CASE Decoded
  <2> DEFINE d == Push(decoder, seeing)
  <2>1. /\ seeing # NoFrame /\ seeing' = NoFrame /\ decoder' = d
        /\ IF AllKnown(d) /\ OpenOpticalLink(d)
           THEN CompleteLink
           ELSE /\ scanning' = (scanning /\ ~AllKnown(d))
                /\ UNCHANGED <<secret, linkState, awaiting, buffer, joinVars, overlapped>>
        /\ UNCHANGED <<mix, parts, shownCodes, senderVars>>
    BY <1>4 DEF Decoded
  <2>2. seeing \in CodeFrame
    BY <2>1 DEF LinkingInv, Caught
  <2>3. /\ decoder'.stream = {} \/ \E s \in Seal : decoder'.stream = {s}
        /\ decoder'.seen \subseteq 1 .. MaxSeq
    <3>1. /\ decoder.stream = {} \/ \E s \in Seal : decoder.stream = {s}
          /\ decoder.seen \subseteq 1 .. MaxSeq
      BY DEF LinkingInv, Caught
    <3>2. CASE d = decoder
      BY <2>1, <3>1, <3>2
    <3>3. CASE d # decoder
      <4>1. decoder'.stream = {Stream(seeing.seal)} /\ decoder'.seen = decoder.seen \cup {seeing.seq}
        BY <2>1, <3>3 DEF Push
      <4>2. Stream(seeing.seal) \in Seal /\ seeing.seq \in 1 .. MaxSeq
        <5>1. seeing.seal \in 0 .. MaxSeals /\ seeing.seq \in 1 .. MaxSeq /\ MaxSeals \in Nat
          BY <2>2 DEF CodeFrame, Seal
        <5> QED
          BY <5>1 DEF Stream, Seal
      <4> QED
        BY <3>1, <4>1, <4>2
    <3> QED
      BY <3>2, <3>3
  <2>4. overlapped \/ linkState # "joining"
    BY <2>1 DEF LinkingInv, Joining
  <2> HIDE DEF d
  <2>5. CASE AllKnown(d) /\ OpenOpticalLink(d)
    <3>1. CompleteLink
      BY <2>1, <2>5
    <3>2. scanning' \in BOOLEAN
      BY <3>1 DEF CompleteLink, ViewWhenJoining, LinkingInv, Caught
    <3>3. Caught'
      BY <2>1, <2>3, <3>2 DEF Caught
    <3>4. UNCHANGED <<mix, parts, shownCodes, sentOver, target, seals>> /\ air' \subseteq air
      BY <2>1 DEF senderVars, relayVars
    <3> QED
      BY <2>4, <3>1, <3>3, <3>4, Completes
  <2>6. CASE ~(AllKnown(d) /\ OpenOpticalLink(d))
    <3>1. scanning' \in BOOLEAN
      BY <2>1, <2>6
    <3>2. Caught'
      BY <2>1, <2>3, <3>1 DEF Caught
    <3> QED
      BY <1>0, <2>1, <2>4, <2>6, <3>2
  <2> QED
    BY <2>5, <2>6
<1> QED
  BY <1>1, <1>2, <1>3, <1>4

\* A run of completeLink goes on, or fails.
LEMMA JoinsKeep ==
  ASSUME LinkingInv, StageLink \/ Joined \/ \E at \in DOMAIN joins : JoinFails(at)
  PROVE  LinkingInv'
<1>0. joins \in [staging : Nat, registering : Nat] /\ DOMAIN joins = {"staging", "registering"}
  BY DEF LinkingInv
<1>1. ASSUME UNCHANGED <<mix, parts, shownCodes, buffer, senderVars, decoderVars, overlapped>>,
             secret' \in {0, secret}, linkState' \in {"idle", "done", linkState},
             joins' \in [staging : Nat, registering : Nat], keySaved' \in BOOLEAN, joined' \in BOOLEAN,
             ASSUME Joining PROVE Joining'
      PROVE  LinkingInv'
  <2>1. UNCHANGED <<sentOver, air, target, seals, scanning, seeing, decoder>>
    BY <1>1 DEF senderVars, relayVars, decoderVars
  <2>2. secret' \in 0 .. shownCodes
    BY <1>1, LinkingAssumption DEF LinkingInv, Offered, LinkingAssumption
  <2>3. Offered' /\ Caught'
    BY <1>1, <2>1, <2>2 DEF LinkingInv, Offered, Caught
  <2> QED
    BY <1>1, <2>3 DEF LinkingInv
<1>2. CASE StageLink
  <2>1. /\ joins.staging > 0 /\ keySaved' = TRUE
        /\ joins' = [staging |-> joins.staging - 1, registering |-> joins.registering + 1]
        /\ UNCHANGED <<mix, parts, shownCodes, secret, linkState, awaiting, buffer, senderVars, decoderVars, joined, overlapped>>
    BY <1>2 DEF StageLink
  <2>2. /\ joins' \in [staging : Nat, registering : Nat]
        /\ joins'.staging + joins'.registering = joins.staging + joins.registering
    BY <1>0, <2>1
  <2>3. ASSUME Joining PROVE Joining'
    BY <2>1, <2>2, <2>3 DEF Joining, decoderVars
  <2> QED
    BY <1>1, <2>1, <2>2, <2>3 DEF LinkingInv
<1>3. CASE Joined
  <2>1. /\ joins.registering > 0 /\ joins' = [joins EXCEPT !.registering = @ - 1]
        /\ joined' = TRUE /\ secret' = 0 /\ linkState' = "done"
        /\ UNCHANGED <<mix, parts, shownCodes, awaiting, buffer, senderVars, decoderVars,
                       keySaved, overlapped>>
    BY <1>3 DEF Joined
  <2>2. /\ joins' \in [staging : Nat, registering : Nat]
        /\ joins'.staging = joins.staging /\ joins'.registering = joins.registering - 1
    BY <1>0, <2>1
  <2>3. ASSUME Joining PROVE Joining'
    <3>1. linkState = "joining" /\ awaiting = 0 /\ joins.staging + joins.registering = 1 /\ keySaved
      BY <1>0, <2>1, <2>3 DEF Joining
    <3> QED
      BY <1>0, <2>1, <2>2, <3>1 DEF Joining
  <2> QED
    BY <1>1, <2>1, <2>2, <2>3 DEF LinkingInv
<1>4. ASSUME NEW at \in DOMAIN joins, JoinFails(at) PROVE LinkingInv'
  <2>1. /\ joins[at] > 0 /\ joins' = [joins EXCEPT ![at] = @ - 1]
        /\ keySaved' = FALSE /\ secret' = 0 /\ linkState' = "idle"
        /\ UNCHANGED <<mix, parts, shownCodes, awaiting, buffer, senderVars, decoderVars,
                       joined, overlapped>>
    BY <1>4 DEF JoinFails
  <2>2. /\ joins' \in [staging : Nat, registering : Nat]
        /\ joins'.staging + joins'.registering = joins.staging + joins.registering - 1
    <3>1. CASE at = "staging"
      BY <1>0, <2>1, <3>1
    <3>2. CASE at = "registering"
      BY <1>0, <2>1, <3>2
    <3> QED
      BY <1>0, <1>4, <3>1, <3>2
  <2>3. ASSUME Joining PROVE Joining'
    <3>1. joins.staging + joins.registering > 0
      <4>1. joins[at] = joins.staging \/ joins[at] = joins.registering
        BY <1>0, <1>4
      <4> QED
        BY <1>0, <2>1, <4>1
    <3>2. linkState = "joining" /\ awaiting = 0 /\ joins.staging + joins.registering = 1 /\ ~joined
      BY <2>3, <3>1 DEF Joining
    <3>3. joins'.staging + joins'.registering = 0
      BY <1>0, <2>2, <3>2
    <3>4. joins'.staging \in Nat /\ joins'.registering \in Nat
      BY <2>2
    <3>5. joins'.registering = 0
      BY <3>3, <3>4
    <3> QED
      BY <2>1, <3>2, <3>3, <3>5 DEF Joining
  <2> QED
    BY <1>1, <2>1, <2>2, <2>3 DEF LinkingInv
<1> QED
  BY <1>2, <1>3, <1>4

\* What the other device does.
LEMMA SenderKeeps ==
  ASSUME LinkingInv, SendLinkPayload \/ SealLinkForOptical \/ \E code \in Code : Authorize(code)
  PROVE  LinkingInv'
<1> USE LinkingAssumption DEF LinkingAssumption
<1>1. ASSUME UNCHANGED <<decoderVars, joinVars, overlapped, secret, linkState, awaiting>>, Offered'
      PROVE  LinkingInv'
  BY <1>1 DEF LinkingInv, Caught, Joining, decoderVars, joinVars
<1>2. CASE SendLinkPayload
  <2>1. /\ target # 0 /\ sentOver < MaxRelay /\ sentOver' = sentOver + 1
        /\ air' \in {air, air \cup {[id |-> sentOver', secret |-> target]}}
        /\ UNCHANGED <<mix, parts, shownCodes, secret, linkState, awaiting, buffer, target, seals,
                       decoderVars, joinVars, overlapped>>
    BY <1>2 DEF SendLinkPayload, RelayLink, Reached, SealLink
  <2>2. /\ sentOver \in 0 .. MaxRelay /\ target \in 0 .. shownCodes /\ shownCodes \in 0 .. MaxCodes
        /\ buffer \in Seq(1 .. sentOver) /\ air \subseteq [id : 1 .. sentOver, secret : Code]
    BY DEF LinkingInv, Offered
  <2>3. sentOver' \in 0 .. MaxRelay /\ target \in Code /\ 1 .. sentOver \subseteq 1 .. sentOver' /\ sentOver' \in 1 .. sentOver'
    BY <2>1, <2>2 DEF Code
  <2>4. air' \subseteq [id : 1 .. sentOver', secret : Code]
    <3> HIDE DEF LinkingAssumption
    <3>1. [id : 1 .. sentOver, secret : Code] \subseteq [id : 1 .. sentOver', secret : Code]
      BY <2>3
    <3>2. [id |-> sentOver', secret |-> target] \in [id : 1 .. sentOver', secret : Code]
      BY <2>3
    <3> QED
      BY <2>1, <2>2, <3>1, <3>2
  <2>5. buffer' \in Seq(1 .. sentOver')
    BY <2>1, <2>2, <2>3, SeqDef
  <2>6. Offered'
    BY <2>1, <2>3, <2>4, <2>5 DEF LinkingInv, Offered
  <2> QED
    BY <1>1, <2>1, <2>6
<1>3. CASE SealLinkForOptical
  <2>1. /\ target # 0 /\ Len(seals) < MaxSeals /\ seals' = Append(seals, target)
        /\ UNCHANGED <<mix, parts, shownCodes, secret, linkState, awaiting, buffer, sentOver, air, target,
                       decoderVars, joinVars, overlapped>>
    BY <1>3 DEF SealLinkForOptical, relayVars
  <2>2. seals \in Seq(Code) /\ target \in 0 .. shownCodes /\ shownCodes \in 0 .. MaxCodes
    BY DEF LinkingInv, Offered
  <2>3. target \in Code
    BY <2>1, <2>2 DEF Code
  <2>4. seals' \in Seq(Code) /\ Len(seals') = Len(seals) + 1 /\ Len(seals) \in Nat
    BY <2>1, <2>2, <2>3, AppendProperties, LenProperties
  <2>5. Len(seals') <= MaxSeals
    BY <2>1, <2>4
  <2>6. Offered'
    BY <2>1, <2>4, <2>5 DEF LinkingInv, Offered
  <2> QED
    BY <1>1, <2>1, <2>6
<1>4. ASSUME NEW code \in Code, Authorize(code) PROVE LinkingInv'
  <2>1. /\ code <= shownCodes /\ target' = code
        /\ UNCHANGED <<mix, parts, shownCodes, secret, linkState, awaiting, buffer, sentOver, air, seals,
                       decoderVars, joinVars, overlapped>>
    BY <1>4 DEF Authorize, relayVars
  <2>2. shownCodes \in 0 .. MaxCodes
    BY DEF LinkingInv, Offered
  <2>3. target' \in 0 .. shownCodes'
    BY <2>1, <2>2 DEF Code
  <2>4. Offered'
    BY <2>1, <2>3 DEF LinkingInv, Offered
  <2> QED
    BY <1>1, <2>1, <2>4
<1> QED
  BY <1>2, <1>3, <1>4

\* The inductive invariant of a link.
LEMMA LinkingInvHolds == LinkingSpec => []LinkingInv
<1> USE LinkingAssumption DEF LinkingAssumption
<1>1. ASSUME LinkingInit PROVE LinkingInv
  <2>1. Offered
    <3>1. <<>> \in Seq(1 .. sentOver) /\ <<>> \in Seq(Code) /\ Len(<<>>) = 0
      BY EmptySeq
    <3> QED
      BY <1>1, <3>1 DEF LinkingInit, Offered
  <2>2. Caught
    BY <1>1 DEF LinkingInit, Caught, FreshDecoder
  <2>3. joins \in [staging : Nat, registering : Nat] /\ joins.staging = 0 /\ joins.registering = 0
    BY <1>1 DEF LinkingInit
  <2>4. Joining
    BY <1>1, <2>3 DEF LinkingInit, Joining
  <2> QED
    BY <1>1, <2>1, <2>2, <2>3, <2>4 DEF LinkingInit, LinkingInv
<1>2. ASSUME LinkingInv, UNCHANGED linkingVars PROVE LinkingInv'
  BY <1>2 DEF linkingVars, senderVars, relayVars, decoderVars, joinVars, LinkingInv, Offered, Caught, Joining
<1>3. LinkingInv /\ [LinkingNext]_linkingVars => LinkingInv'
  BY <1>2, CodesKeep, CameraKeeps, JoinsKeep, SenderKeeps DEF LinkingNext
<1> QED
  BY <1>1, <1>3, PTL DEF LinkingSpec

\* What a link keeps are states its code can leave: at most so many incomplete transfers,
\* frames of one screen, and nothing awaited but the code that is shown (client.ts
\* awaitLinkPayload, fountain.ts push).
THEOREM LinkingTypesHold == LinkingSpec => []LinkingTypeOK
<1>1. ASSUME LinkingInv PROVE LinkingTypeOK
  <2>1. decoder.stream \subseteq Seal /\ Cardinality(decoder.stream) <= 1
    <3>1. CASE decoder.stream = {}
      BY <3>1, FS_EmptySet
    <3>2. ASSUME NEW s \in Seal, decoder.stream = {s} PROVE decoder.stream \subseteq Seal /\ Cardinality(decoder.stream) <= 1
      BY <3>2, FS_Singleton
    <3> QED
      BY <1>1, <3>1, <3>2 DEF LinkingInv, Caught
  <2> QED
    BY <1>1, <2>1 DEF LinkingInv, Offered, Caught, Joining, LinkingTypeOK
<1> QED
  BY <1>1, LinkingInvHolds, PTL

\* One payload is joined at a time, whichever way it came, and a device that joined keeps
\* the account key, unless a join began while a frame was being decoded (useNightjar.ts
\* completeLink).
THEOREM OneJoinHolds == LinkingSpec => []OneJoin
<1>1. LinkingInv => OneJoin
  BY DEF LinkingInv, Joining, OneJoin
<1> QED
  BY <1>1, LinkingInvHolds, PTL

-----------------------------------------------------------------------------
(* All of them together. *)

\* A behaviour of the five layers, of which a run lets one move, is one of each.
THEOREM DeviceLayersMoveAlone ==
  DeviceSpec => VaultSpec /\ ConnectionSpec /\ WakeupSpec /\ LinkingSpec /\ TransfersSpec
<1>1. DeviceInit => VaultInit /\ ConnectionInit /\ WakeupInit /\ LinkingInit /\ TransfersInit
  BY DEF DeviceInit
<1>2. [VaultStep \/ ConnectionStep \/ WakeupStep \/ LinkingStep \/ HistoryStep]_
         <<vaultVars, connectionVars, wakeupVars, linkingVars, transferVars, layer>>
        => /\ [VaultNext]_vaultVars /\ [ConnectionNext]_connectionVars /\ [WakeupNext]_wakeupVars
           /\ [LinkingNext]_linkingVars /\ [TransfersNext]_transferVars
  BY DEF VaultStep, ConnectionStep, WakeupStep, LinkingStep, HistoryStep
<1> QED
  BY <1>1, <1>2, PTL DEF DeviceSpec, VaultSpec, ConnectionSpec, WakeupSpec, LinkingSpec, TransfersSpec

\* Each part of a device is a state its code can be in, and keeps its bounds, for any
\* pages, sockets, endpoints, transfers and messages.
THEOREM DeviceTypesHold ==
  VaultSpec /\ ConnectionSpec /\ WakeupSpec /\ LinkingSpec /\ TransfersSpec => []DeviceTypeOK
<1>1. VaultTypeOK /\ ConnectionTypeOK /\ WakeupTypeOK /\ LinkingTypeOK /\ TransfersTypeOK => DeviceTypeOK
  BY DEF DeviceTypeOK
<1> QED
  BY <1>1, VaultTypesHold, ConnectionTypesHold, WakeupTypesHold, LinkingTypesHold, TransfersTypesHold, PTL

\* What is safe on a device stays so in the behaviours the run checks, whatever the
\* constants: all but what must happen in the end, and what the decoder knows.
THEOREM DeviceIsSafe ==
  DeviceSpec =>
    /\ []DeviceTypeOK /\ []RestoreRepublishes /\ KeepsItsIdentity
    /\ []FileIsNotTorn /\ ImportLosesNothing
    /\ []OneSocket /\ LateIsIgnored /\ HiddenIsNudged /\ []OneJoin
<1> QED
  BY DeviceLayersMoveAlone, DeviceTypesHold, RestoreRepublishesHolds, KeepsItsIdentityHolds,
     FileIsNotTornHolds, ImportLosesNothingHolds, OneSocketHolds, LateIsIgnoredHolds,
     HiddenIsNudgedHolds, OneJoinHolds, PTL
=============================================================================
