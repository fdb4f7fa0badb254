---------------------------- MODULE PrekeysProofs ----------------------------
(***************************************************************************)
(* One-time prekeys are vended once, the Directory serves what the owner   *)
(* holds, and an initial built on a confirmed registration opens: for any  *)
(* peers, batches and ceilings, and any number of lost or late requests.   *)
(***************************************************************************)
EXTENDS Prekeys, FiniteSetTheorems, WellFoundedInduction, TLAPS

-----------------------------------------------------------------------------
(* The inductive invariant.                                                *)

Born == 1 .. minted
GivenPairs == {x[1] : x \in given}
Batches == UNION {[S -> Pair] : S \in SUBSET Pair}
Requests == [op : {"register", "publish"}, spk : [id : Pair, pair : Pair], opks : Batches, live : BOOLEAN]
Rows == UNION {[S -> [pair : Pair, vended : BOOLEAN]] : S \in SUBSET Pair}

\* Every pair anywhere was generated before, and ids run no further than pairs.
Owned ==
  /\ minted \in 0 .. MaxPairs
  /\ spks \in Batches /\ DOMAIN spks \subseteq Born /\ \A i \in DOMAIN spks : spks[i] \in Born
  /\ opks \in Batches /\ DOMAIN opks \subseteq Born /\ \A i \in DOMAIN opks : opks[i] \in Born
  /\ published \in Nat /\ unconfirmed \in BOOLEAN
  /\ stock \in Nat /\ task \in {"idle", "register", "publish"}
Sent ==
  /\ wire \in Seq(Requests)
  /\ reply \subseteq [spk : Pair, count : Nat]
  /\ \A i \in DOMAIN wire : /\ wire[i].spk.pair \in Born
                            /\ \A j \in DOMAIN wire[i].opks : wire[i].opks[j] \in Born
Stocked ==
  /\ member \in BOOLEAN
  /\ served \subseteq [id : Pair, pair : Pair] /\ \A k \in served : k.pair \in Born
  /\ rows \in Rows /\ \A i \in DOMAIN rows : rows[i].pair \in Born
  /\ DOMAIN vends \subseteq Peer /\ \A p \in DOMAIN vends : vends[p] \in [id : Pair, fresh : BOOLEAN]
Dealt ==
  /\ session \subseteq Peer /\ stale \subseteq Restorable
  /\ DOMAIN dismissed \subseteq Peer /\ \A p \in DOMAIN dismissed : dismissed[p] \in Pair \cup {0}
  /\ initials \subseteq Initial /\ \A m \in initials : m.spk.pair \in Born
  /\ given \subseteq Born \X Peer /\ forgone \subseteq Pair \X Peer
Inventory == Owned /\ Sent /\ Stocked /\ Dealt

\* A pair is offered once: by one request, then under one row.
Offered ==
  /\ \A i, j \in DOMAIN wire : \A x \in DOMAIN wire[i].opks, y \in DOMAIN wire[j].opks :
       wire[i].opks[x] = wire[j].opks[y] => i = j /\ x = y
  /\ \A i \in DOMAIN wire : \A x \in DOMAIN wire[i].opks :
       /\ wire[i].opks[x] \notin GivenPairs
       /\ \A y \in DOMAIN rows : rows[y].pair # wire[i].opks[x]
  /\ \A x, y \in DOMAIN rows : rows[x].pair = rows[y].pair => x = y
  /\ \A x \in AvailableIn(rows) : rows[x].pair \notin GivenPairs

\* A vended row belongs to the peer it was vended to.
VendedTheirs ==
  /\ \A p \in DOMAIN vends : /\ vends[p].id \in DOMAIN rows /\ rows[vends[p].id].vended
                             /\ \A x \in given : x[1] = rows[vends[p].id].pair => x[2] = p
  /\ \A p, q \in DOMAIN vends : vends[p].id = vends[q].id => p = q
  /\ \A m \in initials : \A k \in m.opk : <<k.pair, m.from>> \in given

Vending == Inventory /\ Offered /\ VendedTheirs /\ VendedOnce

\* What a request offers is held.
Backed(r) == /\ Holds(spks, r.spk)
             /\ \A i \in DOMAIN r.opks : Holds(opks, [id |-> i, pair |-> r.opks[i]])

\* The task's own request is the last on the wire, and is answered last.
Listening ==
  /\ \A i \in DOMAIN wire : wire[i].live => i = Len(wire) /\ task # "idle"
  /\ reply # {} => /\ wire = <<>> /\ task # "idle" /\ served # {}
                   /\ \A r \in reply, k \in served : r.spk = k.id
  /\ task = "register" => /\ unconfirmed /\ spks # Nothing
                          /\ \A i \in DOMAIN wire : wire[i].live =>
                               wire[i].op = "register" /\ Backed(wire[i])

Clean == ~unconfirmed /\ spks # Nothing
\* The Directory serves the set the owner has now, as it knows or will learn.
Current == Clean \/ (task = "register" /\ reply # {})

Kept ==
  /\ Current => /\ \A k \in served : Holds(spks, k)
                /\ \A i \in AvailableIn(rows) : Holds(opks, [id |-> i, pair |-> rows[i].pair])
  /\ Clean => /\ \A i \in DOMAIN wire : Backed(wire[i])
              /\ published <= NewestId(spks)
              /\ published = NewestId(spks) => /\ \A k \in served : k.id = published
                                               /\ \A i \in DOMAIN wire : wire[i].spk.id = published

\* The prekey that a fetch would hand to p again.
Again(p) == [id |-> vends[p].id, pair |-> rows[vends[p].id].pair]
\* p will not use it for another sure initial.
Barred(p) == \/ p \in session \ DOMAIN dismissed
             \/ p \in DOMAIN dismissed /\ dismissed[p] = VendedTo(p)
             \/ p \in stale
             \/ <<VendedTo(p), p>> \in forgone

Unspoilt ==
  /\ \A m \in initials : m.from \in stale => "peer" \in m.doubt
  /\ \A p \in DOMAIN vends : vends[p].fresh /\ ~Barred(p) =>
       /\ Current => Holds(opks, Again(p))
       /\ \A m \in initials : \A k \in m.opk : k.pair # Again(p).pair
  /\ \A m \in initials : Sure(m) =>
       /\ Opens(m)
       /\ \A n \in initials \ {m} : \A k \in m.opk, l \in n.opk : k.pair # l.pair

Serving == Vending /\ Listening /\ Kept
Opening == Serving /\ Unspoilt

-----------------------------------------------------------------------------
(* Numbers and maps.                                                       *)

LEMMA Least ==
  ASSUME NEW S \in SUBSET Nat, S # {}
  PROVE  Min(S) \in S /\ \A i \in S : Min(S) <= i
<1>1. \E x \in S : \A y \in S : ~(<<y, x>> \in OpToRel(<, Nat))
  BY WFMin, NatLessThanWellFounded
<1>2. PICK x \in S : \A y \in S : ~(<<y, x>> \in OpToRel(<, Nat))
  BY <1>1
<1>3. \A y \in S : x <= y
  <2> SUFFICES ASSUME NEW y \in S, y < x
               PROVE  FALSE
    OBVIOUS
  <2>1. <<y, x>> \in OpToRel(<, Nat)
    BY Zenon DEF OpToRel
  <2> QED
    BY <1>2, <2>1
<1> QED
  BY <1>3 DEF Min

LEMMA Greatest ==
  ASSUME NEW n \in Nat, NEW S \in SUBSET (1 .. n)
  PROVE  /\ Biggest(S) \in 0 .. n /\ \A i \in S : Biggest(S) >= i
         /\ S # {} => Biggest(S) \in S
<1>1. CASE S = {}
  BY <1>1 DEF Biggest
<1>2. CASE S # {}
  <2> DEFINE T == {k \in Nat : \A i \in S : i <= k}
  <2>1. n \in T
    OBVIOUS
  <2>2. Min(T) \in T /\ \A k \in T : Min(T) <= k
    BY <2>1, Least
  <2>3. PICK k \in Nat : k = Min(T)
    BY <2>2
  <2>4. k \in S
    <3> SUFFICES ASSUME k \notin S
                 PROVE  FALSE
      OBVIOUS
    <3>1. \A i \in S : i < k
      BY <2>2, <2>3
    <3>2. k - 1 \in Nat /\ \A i \in S : i <= k - 1
      <4>1. PICK i \in S : i < k
        BY <1>2, <3>1
      <4>2. k \in Nat /\ k > 0 /\ \A j \in S : j \in Nat
        BY <4>1
      <4> QED
        BY <3>1, <4>2
    <3>3. k - 1 \in T
      BY <3>2
    <3> QED
      BY <2>2, <2>3, <3>3
  <2>5. \A i \in S : k >= i
    BY <2>2, <2>3
  <2>6. Max(S) \in S /\ \A i \in S : Max(S) >= i
    BY <2>4, <2>5 DEF Max
  <2>7. PICK x \in S : x = Max(S)
    BY <2>6
  <2>8. Biggest(S) = x /\ \A i \in S : x >= i
    BY <1>2, <2>6, <2>7 DEF Biggest
  <2> QED
    BY <2>8
<1> QED
  BY <1>1, <1>2

LEMMA BatchesAre ==
  ASSUME NEW f
  PROVE  f \in Batches <=> DOMAIN f \subseteq Pair /\ f \in [DOMAIN f -> Pair]
BY DEF Batches

LEMMA RowsAre ==
  ASSUME NEW f
  PROVE  f \in Rows <=> DOMAIN f \subseteq Pair /\ f \in [DOMAIN f -> [pair : Pair, vended : BOOLEAN]]
BY DEF Rows

LEMMA RequestsAre ==
  ASSUME NEW r \in Requests
  PROVE  /\ r.op \in {"register", "publish"} /\ r.live \in BOOLEAN
         /\ r.spk.id \in Pair /\ r.spk.pair \in Pair
         /\ r.opks \in Batches
BY DEF Requests

\* A request joins the end of the wire, and leaves from its head.
LEMMA Joins ==
  ASSUME wire \in Seq(Requests), NEW r \in Requests, NEW w, w = Append(wire, r)
  PROVE  /\ w \in Seq(Requests) /\ Len(w) = Len(wire) + 1 /\ Len(wire) \in Nat
         /\ DOMAIN w = DOMAIN wire \cup {Len(wire) + 1} /\ DOMAIN wire = 1 .. Len(wire)
         /\ Len(wire) + 1 \notin DOMAIN wire
         /\ \A i \in DOMAIN wire : w[i] = wire[i]
         /\ w[Len(wire) + 1] = r
OBVIOUS

LEMMA Leaves ==
  ASSUME wire \in Seq(Requests), wire # <<>>, NEW w, w = Tail(wire)
  PROVE  /\ w \in Seq(Requests) /\ Len(w) = Len(wire) - 1 /\ Len(wire) \in Nat /\ Len(wire) > 0
         /\ \A i \in DOMAIN w : i \in Nat /\ i + 1 \in DOMAIN wire /\ w[i] = wire[i + 1]
         /\ 1 \in DOMAIN wire /\ Head(wire) = wire[1] /\ Head(wire) \in Requests
         /\ DOMAIN wire = 1 .. Len(wire)
OBVIOUS

\* Requests whose answers nobody waits for any more.
LEMMA Dies ==
  ASSUME wire \in Seq(Requests), NEW w, w = [i \in DOMAIN wire |-> [wire[i] EXCEPT !.live = FALSE]]
  PROVE  /\ w \in Seq(Requests) /\ DOMAIN w = DOMAIN wire
         /\ \A i \in DOMAIN wire : /\ ~w[i].live /\ w[i].op = wire[i].op
                                   /\ w[i].spk = wire[i].spk /\ w[i].opks = wire[i].opks
<1>1. \A i \in DOMAIN wire : wire[i] \in Requests
  OBVIOUS
<1>2. \A i \in DOMAIN wire : [wire[i] EXCEPT !.live = FALSE] \in Requests
  BY <1>1 DEF Requests
<1>3. \A i \in DOMAIN wire : /\ ~w[i].live /\ w[i].op = wire[i].op
                             /\ w[i].spk = wire[i].spk /\ w[i].opks = wire[i].opks
  BY <1>1 DEF Requests
<1>4. w \in Seq(Requests) /\ DOMAIN w = DOMAIN wire
  BY <1>2
<1> QED
  BY <1>3, <1>4

-----------------------------------------------------------------------------
(* What a fetch does.                                                      *)

\* The fetch hands k to p: again, or from a row nobody was given.
Vended(p, k) ==
  /\ OpkFor(p) = {k} /\ given' = given \cup {<<k.pair, p>>}
  /\ k.id \in Pair /\ k.pair \in Pair /\ k = [id |-> k.id, pair |-> k.pair]
  /\ k.id \in DOMAIN rows /\ rows[k.id].pair = k.pair
  /\ k.id \in DOMAIN rows' /\ rows'[k.id].vended
  /\ p \in DOMAIN vends' /\ vends'[p].id = k.id /\ vends'[p].fresh
  /\ \/ Repeats(p) /\ k = Again(p) /\ rows' = rows /\ vends' = vends
     \/ k.id \in AvailableIn(rows)

LEMMA FetchMeans ==
  ASSUME Inventory, VendedTheirs, NEW p \in Peer, Fetch(p)
  PROVE  /\ rows' \in Rows /\ DOMAIN rows' \subseteq DOMAIN rows
         /\ \A i \in DOMAIN rows' : /\ rows'[i].pair = rows[i].pair
                                    /\ rows[i].vended => rows'[i].vended
         /\ DOMAIN vends' \subseteq Peer
         /\ \A q \in DOMAIN vends' : vends'[q] \in [id : Pair, fresh : BOOLEAN]
         /\ \A q \in DOMAIN vends \ {p} : /\ q \in DOMAIN vends' /\ vends'[q] = vends[q]
                                          /\ vends[q].id \in DOMAIN rows'
         /\ DOMAIN vends' \subseteq DOMAIN vends \cup {p}
         /\ \/ OpkFor(p) = {} /\ given' = given /\ p \notin DOMAIN vends'
            \/ \E k : Vended(p, k)
<1>0. /\ \A i \in DOMAIN rows : i \in Pair /\ rows[i] \in [pair : Pair, vended : BOOLEAN]
      /\ Pair \subseteq Nat
      /\ \A q \in DOMAIN vends : q \in Peer /\ vends[q] \in [id : Pair, fresh : BOOLEAN]
      /\ \A q \in DOMAIN vends : vends[q].id \in DOMAIN rows /\ rows[vends[q].id].vended
      /\ \A q, r \in DOMAIN vends : vends[q].id = vends[r].id => q = r
      /\ rows \in Rows
  BY RowsAre DEF Inventory, Stocked, VendedTheirs, Pair
<1>1. CASE Repeats(p) /\ UNCHANGED <<rows, vends>>
  <2>1. OpkFor(p) = {Again(p)}
    BY <1>1 DEF OpkFor, VendedId, Again
  <2>2. Vended(p, Again(p))
    BY <1>0, <1>1, <2>1 DEF Fetch, Vended, Again, Repeats
  <2> QED
    BY <1>0, <1>1, <2>2
<1>2. CASE /\ ~Repeats(p) /\ Candidates(p) = {}
           /\ rows' = Without(rows, Abandoned(p)) /\ vends' = Without(vends, {p})
  <2>1. OpkFor(p) = {} /\ given' = given
    BY <1>2 DEF OpkFor, Fetch
  <2>2. rows' \in Rows
    <3>1. /\ rows' = [i \in DOMAIN rows' |-> rows'[i]] /\ DOMAIN rows' \subseteq DOMAIN rows
          /\ \A i \in DOMAIN rows' : rows'[i] = rows[i]
      BY <1>2 DEF Without
    <3>2. DOMAIN rows' \subseteq Pair /\ \A i \in DOMAIN rows' : rows'[i] \in [pair : Pair, vended : BOOLEAN]
      BY <1>0, <3>1
    <3> QED
      BY <3>1, <3>2, RowsAre
  <2> QED
    BY <1>0, <1>2, <2>1, <2>2 DEF Without, Abandoned
<1>3. CASE /\ ~Repeats(p) /\ Candidates(p) # {}
           /\ rows' = MarkVended(Without(rows, Abandoned(p)), VendedId(p))
           /\ vends' = [q \in DOMAIN vends \cup {p} |->
                          IF q = p THEN [id |-> VendedId(p), fresh |-> TRUE] ELSE vends[q]]
  <2>1. VendedId(p) \in Candidates(p)
    <3>1. Candidates(p) \in SUBSET Nat
      BY <1>0 DEF Candidates, AvailableIn
    <3> QED
      BY <1>3, <3>1, Least DEF VendedId
  <2>2. PICK n \in Pair : /\ n = VendedId(p) /\ n \in AvailableIn(rows) /\ n \notin Abandoned(p)
                          /\ n \in DOMAIN rows /\ ~rows[n].vended
    BY <1>0, <2>1 DEF Candidates, AvailableIn
  <2>3. /\ DOMAIN rows' = DOMAIN rows \ Abandoned(p)
        /\ \A i \in DOMAIN rows' : rows'[i] = IF i = n THEN [rows[n] EXCEPT !.vended = TRUE] ELSE rows[i]
        /\ rows' = [i \in DOMAIN rows' |-> rows'[i]]
    BY <1>3, <2>2 DEF MarkVended, Without
  <2>4. \A i \in DOMAIN rows' : /\ rows'[i].pair = rows[i].pair /\ (rows[i].vended => rows'[i].vended)
                                /\ i = n => rows'[i].vended
    BY <1>0, <2>3
  <2>5. rows' \in Rows
    <3>1. DOMAIN rows' \subseteq Pair
      BY <1>0, <2>3
    <3>2. \A i \in DOMAIN rows' : rows'[i] \in [pair : Pair, vended : BOOLEAN]
      <4> SUFFICES ASSUME NEW i \in DOMAIN rows'
                   PROVE  rows'[i] \in [pair : Pair, vended : BOOLEAN]
        OBVIOUS
      <4>1. rows[i] \in [pair : Pair, vended : BOOLEAN] /\ rows[n] \in [pair : Pair, vended : BOOLEAN]
        BY <1>0, <2>2, <2>3
      <4>2. [rows[n] EXCEPT !.vended = TRUE] \in [pair : Pair, vended : BOOLEAN]
        BY <4>1
      <4> QED
        BY <2>3, <4>1, <4>2
    <3>3. rows' = [i \in DOMAIN rows' |-> rows'[i]]
      BY <2>3
    <3>4. rows' \in [DOMAIN rows' -> [pair : Pair, vended : BOOLEAN]]
      BY <3>2, <3>3
    <3> QED
      BY <3>1, <3>4, RowsAre
  <2>6. PICK k : k = [id |-> n, pair |-> rows[n].pair]
    OBVIOUS
  <2>7. OpkFor(p) = {k} /\ given' = given \cup {<<k.pair, p>>}
    BY <1>3, <2>2, <2>6 DEF OpkFor, Fetch
  <2>8. Vended(p, k)
    BY <1>0, <1>3, <2>2, <2>3, <2>4, <2>6, <2>7 DEF Vended
  <2> QED
    BY <1>0, <1>3, <2>2, <2>3, <2>4, <2>5, <2>8 DEF Abandoned
<1> QED
  BY <1>1, <1>2, <1>3 DEF Fetch, VendOpk

-----------------------------------------------------------------------------
(* What the owner's requests do.                                           *)

LEMMA NothingIsEmpty ==
  ASSUME NEW f \in Batches, f # Nothing
  PROVE  DOMAIN f # {}
<1> SUFFICES ASSUME DOMAIN f = {}
             PROVE  f = << >>
  BY DEF Nothing
<1>1. f = [i \in DOMAIN f |-> f[i]]
  BY BatchesAre
<1> QED
  BY <1>1

LEMMA NewestIs ==
  ASSUME minted \in 0 .. MaxPairs, NEW ring \in Batches, DOMAIN ring \subseteq Born
  PROVE  /\ NewestId(ring) \in 0 .. minted /\ \A i \in DOMAIN ring : NewestId(ring) >= i
         /\ ring # Nothing => NewestId(ring) \in DOMAIN ring
BY ConstantsAssumption, NothingIsEmpty, Greatest DEF NewestId, Born, Pair

LEMMA EmptyIsNothing == Nothing \in Batches /\ DOMAIN Nothing = {}
<1> DEFINE e == [i \in {} |-> i]
<1>1. e = << >>
  OBVIOUS
<1>2. DOMAIN e = {} /\ e \in [{} -> Pair]
  OBVIOUS
<1> QED
  BY <1>1, <1>2 DEF Nothing, Batches

LEMMA Generated ==
  ASSUME NEW first \in Nat \ {0}, NEW n \in Nat, NEW k \in Nat \ {0}
  PROVE  /\ DOMAIN Generate(first, n, k) = first .. (first + n - 1)
         /\ \A i \in DOMAIN Generate(first, n, k) : Generate(first, n, k)[i] \in k .. (k + n - 1)
         /\ \A i, j \in DOMAIN Generate(first, n, k) :
              Generate(first, n, k)[i] = Generate(first, n, k)[j] => i = j
         /\ first + n - 1 <= MaxPairs /\ k + n - 1 <= MaxPairs => Generate(first, n, k) \in Batches
<1>0. PICK g : g = Generate(first, n, k)
  OBVIOUS
<1>1. /\ DOMAIN g = first .. (first + n - 1)
      /\ \A i \in DOMAIN g : g[i] = k + i - first
      /\ g = [i \in DOMAIN g |-> g[i]]
  BY <1>0 DEF Generate
<1>2. ASSUME first + n - 1 <= MaxPairs, k + n - 1 <= MaxPairs
      PROVE  g \in Batches
  <2>0. MaxPairs \in Nat
    BY ConstantsAssumption
  <2>1. DOMAIN g \subseteq Pair
    BY <1>1, <1>2, <2>0 DEF Pair
  <2>2. \A i \in DOMAIN g : g[i] \in Pair
    <3> SUFFICES ASSUME NEW i \in DOMAIN g
                 PROVE  g[i] \in Pair
      OBVIOUS
    <3>1. i \in first .. (first + n - 1) /\ g[i] = k + i - first
      BY <1>1
    <3> QED
      BY <1>2, <2>0, <3>1 DEF Pair
  <2> QED
    BY <1>1, <2>1, <2>2, BatchesAre
<1>3. /\ \A i \in DOMAIN g : g[i] \in k .. (k + n - 1)
      /\ \A i, j \in DOMAIN g : g[i] = g[j] => i = j
  BY SMTT(60), <1>1
<1> QED
  BY <1>0, <1>1, <1>2, <1>3

LEMMA Extended ==
  ASSUME NEW f \in Batches, NEW g \in Batches
  PROVE  /\ Extend(f, g) \in Batches /\ DOMAIN Extend(f, g) = DOMAIN f \cup DOMAIN g
         /\ \A i \in DOMAIN f : Extend(f, g)[i] = f[i]
         /\ \A i \in DOMAIN g \ DOMAIN f : Extend(f, g)[i] = g[i]
<1>0. PICK h : h = Extend(f, g)
  OBVIOUS
<1>1. /\ DOMAIN h = DOMAIN f \cup DOMAIN g
      /\ \A i \in DOMAIN f : h[i] = f[i]
      /\ \A i \in DOMAIN g \ DOMAIN f : h[i] = g[i]
      /\ h = [i \in DOMAIN h |-> h[i]]
  BY <1>0 DEF Extend
<1>2. DOMAIN h \subseteq Pair /\ \A i \in DOMAIN h : h[i] \in Pair
  BY <1>1, BatchesAre
<1>3. h \in Batches
  BY <1>1, <1>2, BatchesAre
<1> QED
  BY <1>0, <1>1, <1>3

\* The ring loses nothing and gains what was generated since.
Grows(ring, new) == /\ \A i \in DOMAIN ring : i \in DOMAIN new /\ new[i] = ring[i]
                    /\ \A i \in DOMAIN new \ DOMAIN ring : new[i] > minted

\* A request goes out: what it offers is durable here, and new.
Asked(r) ==
  /\ r \in Requests /\ r.live /\ task = "idle" /\ task' = r.op /\ wire' = Append(wire, r)
  /\ minted' \in minted .. MaxPairs
  /\ spks' \in Batches /\ \A i \in DOMAIN spks' : i \in 1 .. minted' /\ spks'[i] \in 1 .. minted'
  /\ opks' \in Batches /\ \A i \in DOMAIN opks' : i \in 1 .. minted' /\ opks'[i] \in 1 .. minted'
  /\ spks' # Nothing /\ NewestId(spks') \in DOMAIN spks'
  /\ r.spk.id = NewestId(spks') /\ r.spk.pair = spks'[r.spk.id]
  /\ \A i \in DOMAIN r.opks : /\ i \in DOMAIN opks' /\ opks'[i] = r.opks[i]
                              /\ r.opks[i] \in (minted + 1) .. minted'
  /\ \A i, j \in DOMAIN r.opks : r.opks[i] = r.opks[j] => i = j
  /\ UNCHANGED <<stock, reply, dirVars, peerVars, initialVars>>
  /\ \/ /\ r.op = "register" /\ unconfirmed' = TRUE /\ published' = 0
        /\ \A i \in DOMAIN spks' : spks'[i] > minted
     \/ /\ r.op = "publish" /\ UNCHANGED <<unconfirmed, published>> /\ spks # Nothing
        /\ Grows(spks, spks') /\ Grows(opks, opks')
        /\ spks' = spks \/ NewestId(spks') > NewestId(spks)

Starts == StartRegister \/ StartReplenish \/ StartRotate \/ RetryPublish

LEMMA StartsMean ==
  ASSUME Owned, Starts
  PROVE  \E r : Asked(r)
<1>0. /\ minted \in 0 .. MaxPairs /\ minted \in Nat /\ MaxPairs \in Nat
      /\ Batch \in Nat \ {0} /\ Batch \in Nat /\ 1 \in Nat \ {0}
      /\ minted + 1 \in Nat \ {0} /\ minted + 2 \in Nat \ {0}
      /\ \A i \in DOMAIN spks : i \in 1 .. minted /\ spks[i] \in 1 .. minted
      /\ \A i \in DOMAIN opks : i \in 1 .. minted /\ opks[i] \in 1 .. minted
      /\ spks \in Batches /\ opks \in Batches
      /\ Nothing \in Batches /\ DOMAIN Nothing = {}
  <2> QED
    BY EmptyIsNothing, ConstantsAssumption DEF Owned, Born
<1>1. CASE StartRegister
  <2>1. PICK r : r = [op |-> "register", spk |-> NewestOf(spks'), opks |-> opks', live |-> TRUE]
    OBVIOUS
  <2>2. /\ task = "idle" /\ task' = "register" /\ wire' = Append(wire, r)
        /\ minted' = minted + 1 + Batch /\ minted' <= MaxPairs
        /\ spks' = Generate(1, 1, minted + 1) /\ opks' = Generate(1, Batch, minted + 2)
        /\ published' = 0 /\ unconfirmed' = TRUE
        /\ UNCHANGED <<stock, reply, dirVars, peerVars, initialVars>>
    BY <1>1, <2>1 DEF StartRegister, Ask
  <2>3. /\ spks' \in Batches /\ DOMAIN spks' = {1} /\ spks'[1] = minted + 1
    <3>0. PICK k \in Nat \ {0}, n \in Nat \ {0} : k = minted + 1 /\ n = 1
      BY <1>0
    <3>1. PICK g : g = Generate(n, n, k)
      OBVIOUS
    <3>2. /\ DOMAIN g = n .. (n + n - 1) /\ \A i \in DOMAIN g : g[i] \in k .. (k + n - 1)
          /\ n + n - 1 <= MaxPairs /\ k + n - 1 <= MaxPairs => g \in Batches
      BY <3>1, Generated
    <3>3. n + n - 1 <= MaxPairs /\ k + n - 1 <= MaxPairs
      BY <1>0, <2>2, <3>0
    <3>4. spks' = g
      BY <2>2, <3>0, <3>1
    <3> QED
      BY <1>0, <3>0, <3>1, <3>2, <3>3, <3>4
  <2>4. /\ opks' \in Batches /\ DOMAIN opks' = 1 .. Batch
        /\ \A i \in DOMAIN opks' : opks'[i] \in (minted + 2) .. (minted + 1 + Batch)
        /\ \A i, j \in DOMAIN opks' : opks'[i] = opks'[j] => i = j
    <3>0. PICK k \in Nat \ {0} : k = minted + 2
      BY <1>0
    <3>1. PICK g : g = Generate(1, Batch, k)
      OBVIOUS
    <3>2. /\ DOMAIN g = 1 .. (1 + Batch - 1) /\ \A i \in DOMAIN g : g[i] \in k .. (k + Batch - 1)
          /\ \A i, j \in DOMAIN g : g[i] = g[j] => i = j
          /\ 1 + Batch - 1 <= MaxPairs /\ k + Batch - 1 <= MaxPairs => g \in Batches
      BY <1>0, <3>1, Generated
    <3>3. 1 + Batch - 1 <= MaxPairs /\ k + Batch - 1 <= MaxPairs
      BY <1>0, <2>2, <3>0
    <3>4. opks' = g
      BY <2>2, <3>0, <3>1
    <3> QED
      BY <1>0, <3>0, <3>1, <3>2, <3>3, <3>4
  <2>5. spks' # Nothing /\ NewestId(spks') = 1
    <3>1. {1} \in SUBSET (1 .. 1)
      OBVIOUS
    <3>2. Biggest({1}) \in 0 .. 1 /\ Biggest({1}) \in {1}
      BY <3>1, Greatest
    <3> QED
      BY <1>0, <2>3, <3>2 DEF NewestId
  <2>6. r.spk.id = 1 /\ r.spk.pair = minted + 1 /\ r \in Requests
    BY <1>0, <2>1, <2>2, <2>3, <2>4, <2>5 DEF NewestOf, Requests, Pair
  <2>7. /\ \A i \in DOMAIN spks' : i \in 1 .. minted' /\ spks'[i] \in 1 .. minted' /\ spks'[i] > minted
        /\ \A i \in DOMAIN opks' : i \in 1 .. minted' /\ opks'[i] \in (minted + 1) .. minted'
        /\ minted' \in minted .. MaxPairs
    BY <1>0, <2>2, <2>3, <2>4
  <2>8. Asked(r)
    BY <1>0, <2>1, <2>2, <2>3, <2>4, <2>5, <2>6, <2>7 DEF Asked
  <2> QED
    BY <2>8
<1>2. ASSUME spks # Nothing
      PROVE  /\ NewestId(spks) \in DOMAIN spks
             /\ NewestOf(spks) \in [id : Pair, pair : Pair]
             /\ NewestOf(spks).id = NewestId(spks) /\ NewestOf(spks).pair = spks[NewestId(spks)]
  BY <1>0, <1>2, NewestIs DEF Born, NewestOf, Pair
<1>3. Grows(spks, spks) /\ Grows(opks, opks)
  BY DEF Grows
<1>4. CASE StartReplenish
  <2>1. PICK batch : batch = Generate(NewestId(opks) + 1, Batch, minted + 1)
    OBVIOUS
  <2>2. PICK r : r = [op |-> "publish", spk |-> NewestOf(spks), opks |-> batch, live |-> TRUE]
    OBVIOUS
  <2>3. /\ task = "idle" /\ task' = "publish" /\ wire' = Append(wire, r)
        /\ minted' = minted + Batch /\ minted' <= MaxPairs
        /\ opks' = Extend(opks, batch) /\ spks # Nothing
        /\ UNCHANGED <<spks, published, unconfirmed, stock, reply, dirVars, peerVars, initialVars>>
    BY <1>4, <2>1, <2>2 DEF StartReplenish, Ask
  <2>4. NewestId(opks) \in 0 .. minted /\ \A i \in DOMAIN opks : NewestId(opks) >= i
    BY <1>0, NewestIs DEF Born
  <2>5. /\ batch \in Batches /\ DOMAIN batch = (NewestId(opks) + 1) .. (NewestId(opks) + Batch)
        /\ \A i \in DOMAIN batch : batch[i] \in (minted + 1) .. (minted + Batch)
        /\ \A i, j \in DOMAIN batch : batch[i] = batch[j] => i = j
    <3>1. PICK n \in Nat : n = NewestId(opks) + 1 /\ n \in Nat \ {0}
      BY <1>0, <2>4
    <3>2. n + Batch - 1 <= MaxPairs /\ minted + 1 + Batch - 1 <= MaxPairs
      BY <1>0, <2>3, <2>4, <3>1
    <3>3. /\ DOMAIN batch = n .. (n + Batch - 1)
          /\ \A i \in DOMAIN batch : batch[i] \in (minted + 1) .. (minted + 1 + Batch - 1)
          /\ \A i, j \in DOMAIN batch : batch[i] = batch[j] => i = j
          /\ batch \in Batches
      BY ZenonT(60), <1>0, <2>1, <3>1, <3>2, Generated
    <3> QED
      BY <1>0, <2>4, <3>1, <3>3
  <2>6. /\ opks' \in Batches /\ DOMAIN opks' = DOMAIN opks \cup DOMAIN batch
        /\ \A i \in DOMAIN opks : opks'[i] = opks[i]
        /\ \A i \in DOMAIN batch : i \notin DOMAIN opks
        /\ \A i \in DOMAIN batch : opks'[i] = batch[i]
    <3>1. \A i \in DOMAIN batch : i \notin DOMAIN opks
      BY <1>0, <2>4, <2>5
    <3>2. opks \in Batches /\ batch \in Batches /\ opks' = Extend(opks, batch)
      BY <1>0, <2>3, <2>5
    <3>3. /\ opks' \in Batches /\ DOMAIN opks' = DOMAIN opks \cup DOMAIN batch
          /\ \A i \in DOMAIN opks : opks'[i] = opks[i]
          /\ \A i \in DOMAIN batch \ DOMAIN opks : opks'[i] = batch[i]
      BY <3>2, Extended
    <3> QED
      BY <3>1, <3>3
  <2>7. r \in Requests /\ r.live /\ r.op = "publish" /\ r.opks = batch /\ r.spk = NewestOf(spks)
    BY <1>2, <2>2, <2>3, <2>5 DEF Requests
  <2>8. /\ \A i \in DOMAIN opks' : i \in 1 .. minted' /\ opks'[i] \in 1 .. minted'
        /\ \A i \in DOMAIN opks' \ DOMAIN opks : opks'[i] > minted
        /\ \A i \in DOMAIN batch : i \in DOMAIN opks' /\ batch[i] \in (minted + 1) .. minted'
        /\ minted' \in minted .. MaxPairs
    BY <1>0, <2>3, <2>4, <2>5, <2>6
  <2>9. \A i \in DOMAIN spks' : i \in 1 .. minted' /\ spks'[i] \in 1 .. minted'
    BY <1>0, <2>3
  <2>10. Grows(spks, spks') /\ Grows(opks, opks')
    BY <1>3, <2>3, <2>6, <2>8 DEF Grows
  <2>11. Asked(r)
    BY <1>0, <1>2, <2>3, <2>5, <2>6, <2>7, <2>8, <2>9, <2>10 DEF Asked
  <2> QED
    BY <2>11
<1>5. CASE StartRotate
  <2>1. PICK new : new = Generate(NewestId(spks) + 1, 1, minted + 1)
    OBVIOUS
  <2>2. PICK r : r = [op |-> "publish", spk |-> NewestOf(spks'), opks |-> Nothing, live |-> TRUE]
    OBVIOUS
  <2>3. /\ task = "idle" /\ task' = "publish" /\ wire' = Append(wire, r)
        /\ minted' = minted + 1 /\ minted' <= MaxPairs
        /\ spks' = Extend(spks, new) /\ spks # Nothing
        /\ UNCHANGED <<opks, published, unconfirmed, stock, reply, dirVars, peerVars, initialVars>>
    BY <1>0, <1>5, <2>1, <2>2 DEF StartRotate, RecoveryDue, Ask
  <2>4. NewestId(spks) \in 0 .. minted /\ \A i \in DOMAIN spks : NewestId(spks) >= i
    BY <1>0, NewestIs DEF Born
  <2>5. PICK n \in Nat : n = NewestId(spks) + 1 /\ n \in Nat \ {0} /\ n <= minted + 1 /\ n \notin DOMAIN spks
    BY <1>0, <2>4
  <2>6. /\ new \in Batches /\ DOMAIN new = {n} /\ new[n] = minted + 1
    <3>1. n + 1 - 1 <= MaxPairs /\ minted + 1 + 1 - 1 <= MaxPairs
      BY <1>0, <2>3, <2>5
    <3>2. /\ DOMAIN new = n .. (n + 1 - 1) /\ new \in Batches
          /\ \A i \in DOMAIN new : new[i] \in (minted + 1) .. (minted + 1 + 1 - 1)
      BY <1>0, <2>1, <2>5, <3>1, Generated
    <3> QED
      BY <1>0, <2>5, <3>2
  <2>7. /\ spks' \in Batches /\ DOMAIN spks' = DOMAIN spks \cup {n}
        /\ \A i \in DOMAIN spks : spks'[i] = spks[i]
        /\ spks'[n] = minted + 1
    <3>2. spks \in Batches /\ new \in Batches /\ spks' = Extend(spks, new)
      BY <1>0, <2>3, <2>6
    <3>3. /\ spks' \in Batches /\ DOMAIN spks' = DOMAIN spks \cup DOMAIN new
          /\ \A i \in DOMAIN spks : spks'[i] = spks[i]
          /\ \A i \in DOMAIN new \ DOMAIN spks : spks'[i] = new[i]
      BY <3>2, Extended
    <3> QED
      BY <2>5, <2>6, <3>3
  <2>8. /\ \A i \in DOMAIN spks' : i \in 1 .. minted' /\ spks'[i] \in 1 .. minted'
        /\ minted' \in minted .. MaxPairs /\ minted' \in 0 .. MaxPairs
    BY <1>0, <2>3, <2>5, <2>7
  <2>9. /\ NewestId(spks') = n /\ spks' # Nothing
    <3>1. DOMAIN spks' \in SUBSET (1 .. minted')
      BY <2>8
    <3>2. /\ Biggest(DOMAIN spks') \in DOMAIN spks'
          /\ \A i \in DOMAIN spks' : Biggest(DOMAIN spks') >= i
      BY <2>7, <2>8, <3>1, Greatest
    <3>3. PICK b : b = Biggest(DOMAIN spks')
      OBVIOUS
    <3>4. b \in DOMAIN spks' /\ b >= n
      BY <2>7, <3>2, <3>3
    <3>5. b = n
      BY <1>0, <2>4, <2>5, <2>7, <3>4
    <3> QED
      BY <1>0, <2>7, <3>3, <3>5 DEF NewestId
  <2>10. /\ r \in Requests /\ r.live /\ r.op = "publish" /\ DOMAIN r.opks = {}
         /\ r.spk.id = n /\ r.spk.pair = spks'[n]
    BY <1>0, <2>2, <2>3, <2>7, <2>8, <2>9 DEF NewestOf, Requests, Pair
  <2>11. \A i \in DOMAIN opks' : i \in 1 .. minted' /\ opks'[i] \in 1 .. minted'
    BY <1>0, <2>3
  <2>12. /\ Grows(spks, spks') /\ Grows(opks, opks')
         /\ NewestId(spks') > NewestId(spks)
    BY <1>0, <1>3, <2>3, <2>4, <2>5, <2>7, <2>9 DEF Grows
  <2>13. Asked(r)
    BY <1>0, <2>3, <2>7, <2>8, <2>9, <2>10, <2>11, <2>12 DEF Asked
  <2> QED
    BY <2>13
<1>6. CASE RetryPublish
  <2>1. PICK r : r = [op |-> "publish", spk |-> NewestOf(spks), opks |-> Nothing, live |-> TRUE]
    OBVIOUS
  <2>2. /\ task = "idle" /\ task' = "publish" /\ wire' = Append(wire, r)
        /\ spks # Nothing
        /\ UNCHANGED <<minted, spks, opks, published, unconfirmed, stock, reply, dirVars, peerVars, initialVars>>
    BY <1>6, <2>1 DEF RetryPublish, RecoveryDue, Ask, ownerVars
  <2>3. r \in Requests /\ r.live /\ r.op = "publish" /\ DOMAIN r.opks = {} /\ r.spk = NewestOf(spks)
    BY <1>0, <1>2, <2>1, <2>2 DEF Requests
  <2>4. Grows(spks, spks') /\ Grows(opks, opks') /\ minted' \in minted .. MaxPairs
    BY <1>0, <1>3, <2>2 DEF Grows
  <2>5. Asked(r)
    BY <1>0, <1>2, <2>2, <2>3, <2>4 DEF Asked
  <2> QED
    BY <2>5
<1> QED
  BY <1>1, <1>4, <1>5, <1>6 DEF Starts

-----------------------------------------------------------------------------
(* What the Directory does with them.                                      *)

LEMMA Counted ==
  ASSUME NEW r \in Rows
  PROVE  Cardinality(AvailableIn(r)) \in Nat
<1>1. AvailableIn(r) \subseteq 1 .. MaxPairs
  BY RowsAre DEF AvailableIn, Pair
<1>2. IsFiniteSet(1 .. MaxPairs)
  BY ConstantsAssumption, FS_Interval
<1> QED
  BY <1>1, <1>2, FS_Subset, FS_CardinalityType

LEMMA StoredIs ==
  ASSUME NEW f \in Batches
  PROVE  /\ Stored(f) \in Rows /\ DOMAIN Stored(f) = DOMAIN f
         /\ \A i \in DOMAIN f : Stored(f)[i].pair = f[i] /\ ~Stored(f)[i].vended
<1>1. DOMAIN f \subseteq Pair /\ \A i \in DOMAIN f : f[i] \in Pair
  BY BatchesAre
<1>2. \A i \in DOMAIN f : [pair |-> f[i], vended |-> FALSE] \in [pair : Pair, vended : BOOLEAN]
  BY <1>1
<1>3. Stored(f) \in [DOMAIN f -> [pair : Pair, vended : BOOLEAN]]
  BY <1>2 DEF Stored
<1>4. DOMAIN Stored(f) = DOMAIN f
  BY DEF Stored
<1>5. \A i \in DOMAIN f : Stored(f)[i] = [pair |-> f[i], vended |-> FALSE]
  BY DEF Stored
<1> QED
  BY <1>1, <1>3, <1>4, <1>5, RowsAre

LEMMA RestrictedIs ==
  ASSUME NEW f \in Batches, NEW S \in SUBSET DOMAIN f
  PROVE  /\ Restrict(f, S) \in Batches /\ DOMAIN Restrict(f, S) = S
         /\ \A i \in S : Restrict(f, S)[i] = f[i]
<1>1. DOMAIN f \subseteq Pair /\ \A i \in DOMAIN f : f[i] \in Pair
  BY BatchesAre
<1> QED
  BY <1>1, BatchesAre DEF Restrict

LEMMA RowsExtended ==
  ASSUME NEW f \in Rows, NEW g \in Rows
  PROVE  /\ Extend(f, g) \in Rows /\ DOMAIN Extend(f, g) = DOMAIN f \cup DOMAIN g
         /\ \A i \in DOMAIN f : Extend(f, g)[i] = f[i]
         /\ \A i \in DOMAIN g \ DOMAIN f : Extend(f, g)[i] = g[i]
<1>0. PICK h : h = Extend(f, g)
  OBVIOUS
<1>1. /\ DOMAIN h = DOMAIN f \cup DOMAIN g
      /\ \A i \in DOMAIN f : h[i] = f[i]
      /\ \A i \in DOMAIN g \ DOMAIN f : h[i] = g[i]
      /\ h = [i \in DOMAIN h |-> h[i]]
  BY <1>0 DEF Extend
<1>2. DOMAIN h \subseteq Pair /\ \A i \in DOMAIN h : h[i] \in [pair : Pair, vended : BOOLEAN]
  BY <1>1, RowsAre
<1>3. h \in Rows
  BY <1>1, <1>2, RowsAre
<1> QED
  BY <1>0, <1>1, <1>3

\* The Directory takes r: its rows are r's, or those and the ones it had.
Taking(r) == \A i \in DOMAIN rows' :
  \/ r.op = "publish" /\ i \in DOMAIN rows /\ rows'[i] = rows[i]
  \/ i \in DOMAIN r.opks /\ rows'[i].pair = r.opks[i] /\ ~rows'[i].vended
     /\ (r.op = "publish" => i \notin DOMAIN rows)
Serves(r) ==
  /\ wire # <<>> /\ r = Head(wire) /\ wire' = Tail(wire) /\ served' = {r.spk}
  /\ UNCHANGED <<ownerVars, ramVars, peerVars, initialVars>>
  /\ member' \in BOOLEAN /\ rows' \in Rows /\ reply' \subseteq [spk : Pair, count : Nat]
  /\ r.live => reply' # {} /\ \A q \in reply' : q.spk = r.spk.id
  /\ ~r.live => reply' = reply
  /\ Taking(r)
  /\ r.op = "publish" => vends' = vends /\ DOMAIN rows \subseteq DOMAIN rows'
  /\ r.op = "register" => DOMAIN vends' = {}

LEMMA ServesMean ==
  ASSUME Sent, Stocked, DirRegister \/ DirPublish
  PROVE  \E r : Serves(r)
<1>1. PICK r : r = Head(wire)
  OBVIOUS
<1>2. /\ wire # <<>> /\ wire' = Tail(wire) /\ served' = {r.spk}
      /\ UNCHANGED <<ownerVars, ramVars, peerVars, initialVars>>
      /\ r.live => reply' = {[spk |-> r.spk.id, count |-> Cardinality(AvailableIn(rows'))]}
      /\ ~r.live => reply' = reply
  BY <1>1 DEF DirRegister, DirPublish, Serve
<1>3. r \in Requests /\ r.spk.id \in Pair /\ r.opks \in Batches /\ wire \in Seq(Requests)
  BY <1>1, <1>2, Leaves, RequestsAre DEF Sent
<1>4. /\ rows \in Rows /\ member \in BOOLEAN /\ reply \subseteq [spk : Pair, count : Nat]
  BY DEF Sent, Stocked
<1>5. rows' \in Rows => reply' \subseteq [spk : Pair, count : Nat]
  <2>1. ASSUME rows' \in Rows
        PROVE  Cardinality(AvailableIn(rows')) \in Nat
    BY <2>1, Counted
  <2> QED
    BY <1>2, <1>3, <1>4, <2>1
<1>8. r.live => reply' # {} /\ \A q \in reply' : q.spk = r.spk.id
  <2>1. PICK q : q = [spk |-> r.spk.id, count |-> Cardinality(AvailableIn(rows'))]
    OBVIOUS
  <2>2. q.spk = r.spk.id /\ (r.live => reply' = {q})
    BY <1>2, <2>1
  <2> QED
    BY <2>2
<1>6. CASE DirRegister
  <2>1. r.op = "register" /\ member' = TRUE /\ rows' = Stored(r.opks) /\ vends' = Nothing
    BY <1>1, <1>6 DEF DirRegister, Serve
  <2>2. rows' \in Rows /\ Taking(r)
    BY <1>3, <2>1, StoredIs DEF Taking
  <2>3. DOMAIN vends' = {}
    BY <2>1, EmptyIsNothing
  <2>4. Serves(r)
    BY <1>1, <1>2, <1>5, <1>8, <2>1, <2>2, <2>3 DEF Serves
  <2> QED
    BY <2>4
<1>7. CASE DirPublish
  <2>1. /\ r.op = "publish" /\ member' = member /\ vends' = vends
        /\ rows' = Extend(rows, Stored(Restrict(r.opks, Taken(r.opks))))
    BY <1>1, <1>7 DEF DirPublish, Serve
  <2>2. PICK S : S = Taken(r.opks)
    OBVIOUS
  <2>3. S \in SUBSET DOMAIN r.opks /\ S \cap DOMAIN rows = {}
    BY <2>2 DEF Taken
  <2>4. PICK f \in Batches : /\ f = Restrict(r.opks, S) /\ DOMAIN f = S
                             /\ \A i \in S : f[i] = r.opks[i]
    BY <1>3, <2>3, RestrictedIs
  <2>5. PICK g \in Rows : /\ g = Stored(f) /\ DOMAIN g = S
                          /\ \A i \in S : g[i].pair = r.opks[i] /\ ~g[i].vended
    BY <2>4, StoredIs
  <2>6. /\ rows' \in Rows /\ DOMAIN rows' = DOMAIN rows \cup S
        /\ \A i \in DOMAIN rows : rows'[i] = rows[i]
        /\ \A i \in S \ DOMAIN rows : rows'[i] = g[i]
    BY <1>4, <2>1, <2>2, <2>4, <2>5, RowsExtended
  <2>7. Taking(r)
    BY <2>1, <2>3, <2>5, <2>6 DEF Taking
  <2>8. Serves(r)
    BY <1>1, <1>2, <1>4, <1>5, <1>8, <2>1, <2>6, <2>7 DEF Serves
  <2> QED
    BY <2>8
<1> QED
  BY <1>6, <1>7

-----------------------------------------------------------------------------
(* Types, and how far pairs and ids run.                                   *)

LEMMA WithoutIs ==
  ASSUME NEW f \in Batches, NEW S
  PROVE  /\ Without(f, S) \in Batches /\ DOMAIN Without(f, S) = DOMAIN f \ S
         /\ \A i \in DOMAIN f \ S : Without(f, S)[i] = f[i]
<1>1. DOMAIN f \subseteq Pair /\ \A i \in DOMAIN f : f[i] \in Pair
  BY BatchesAre
<1> QED
  BY <1>1, BatchesAre DEF Without

\* What was generated stays generated.
LEMMA StillBorn ==
  ASSUME Inventory, minted' \in minted .. MaxPairs
  PROVE  /\ UNCHANGED dirVars => Stocked'
         /\ UNCHANGED <<peerVars, initialVars>> => Dealt'
         /\ UNCHANGED <<spks, opks, published, unconfirmed, stock>> /\ task' \in {"idle", "register", "publish"} => Owned'
<1>1. Born \subseteq Born' /\ minted' \in 0 .. MaxPairs
  BY DEF Inventory, Owned, Born
<1>2. UNCHANGED dirVars => Stocked'
  BY <1>1 DEF Inventory, Stocked, dirVars
<1>3. UNCHANGED <<peerVars, initialVars>> => Dealt'
  BY <1>1 DEF Inventory, Dealt, peerVars, initialVars
<1>4. UNCHANGED <<spks, opks, published, unconfirmed, stock>> /\ task' \in {"idle", "register", "publish"} => Owned'
  BY <1>1 DEF Inventory, Owned
<1> QED
  BY <1>2, <1>3, <1>4

LEMMA InventoryStarts ==
  ASSUME Inventory, NEW r, Asked(r)
  PROVE  Inventory'
<1>1. /\ minted' \in minted .. MaxPairs /\ UNCHANGED <<stock, reply, dirVars, peerVars, initialVars>>
      /\ wire' = Append(wire, r) /\ r \in Requests /\ task' \in {"register", "publish"}
  BY RequestsAre DEF Asked
<1>2. Stocked' /\ Dealt'
  BY <1>1, StillBorn
<1>3. Born \subseteq Born' /\ minted' \in 0 .. MaxPairs
  BY <1>1 DEF Inventory, Owned, Born
<1>4. Owned'
  <2>1. published' \in Nat /\ unconfirmed' \in BOOLEAN /\ stock' \in Nat
    <3>1. published \in Nat /\ unconfirmed \in BOOLEAN /\ stock \in Nat
      BY DEF Inventory, Owned
    <3>2. \/ unconfirmed' = TRUE /\ published' = 0
          \/ unconfirmed' = unconfirmed /\ published' = published
      BY DEF Asked
    <3>3. unconfirmed' \in BOOLEAN
      BY <3>1, <3>2, Zenon
    <3>4. published' \in Nat
      BY <3>1, <3>2
    <3>5. stock' \in Nat
      BY <1>1, <3>1
    <3> QED
      BY <3>3, <3>4, <3>5
  <2> QED
    BY <1>1, <1>3, <2>1 DEF Asked, Owned, Born
<1>5. Sent'
  <2>1. /\ wire \in Seq(Requests) /\ reply' \subseteq [spk : Pair, count : Nat]
        /\ \A i \in DOMAIN wire : /\ wire[i].spk.pair \in Born'
                                  /\ \A j \in DOMAIN wire[i].opks : wire[i].opks[j] \in Born'
    BY <1>1, <1>3 DEF Inventory, Sent
  <2>2. r.spk.pair \in Born' /\ \A j \in DOMAIN r.opks : r.opks[j] \in Born'
    <3>1. minted \in Nat /\ minted' \in Nat
      BY <1>1 DEF Inventory, Owned
    <3> QED
      BY <3>1 DEF Asked, Born
  <2>3. /\ wire' \in Seq(Requests) /\ DOMAIN wire' = DOMAIN wire \cup {Len(wire) + 1}
        /\ \A i \in DOMAIN wire : wire'[i] = wire[i]
        /\ wire'[Len(wire) + 1] = r
    BY <1>1, <2>1, Joins
  <2> QED
    BY <2>1, <2>2, <2>3 DEF Sent
<1> QED
  BY <1>2, <1>4, <1>5 DEF Inventory

LEMMA HangUpMeans ==
  ASSUME Sent, HangUp, minted' = minted
  PROVE  /\ Sent' /\ task' = "idle" /\ reply' = {} /\ DOMAIN wire' = DOMAIN wire
         /\ \A i \in DOMAIN wire : /\ ~wire'[i].live /\ wire'[i].op = wire[i].op
                                   /\ wire'[i].spk = wire[i].spk /\ wire'[i].opks = wire[i].opks
<1>1. /\ wire' \in Seq(Requests) /\ DOMAIN wire' = DOMAIN wire
      /\ \A i \in DOMAIN wire : /\ ~wire'[i].live /\ wire'[i].op = wire[i].op
                                /\ wire'[i].spk = wire[i].spk /\ wire'[i].opks = wire[i].opks
  BY Dies DEF Sent, HangUp
<1>2. task' = "idle" /\ reply' = {}
  BY DEF HangUp
<1>3. Born' = Born
  BY DEF Born
<1>4. Sent'
  BY <1>1, <1>2, <1>3 DEF Sent
<1> QED
  BY <1>1, <1>2, <1>4

LEMMA TailMeans ==
  ASSUME Sent, wire # <<>>, wire' = Tail(wire), minted' = minted, reply' \subseteq [spk : Pair, count : Nat]
  PROVE  Sent'
<1>1. /\ wire' \in Seq(Requests)
      /\ \A i \in DOMAIN wire' : i + 1 \in DOMAIN wire /\ wire'[i] = wire[i + 1]
  BY Leaves DEF Sent
<1>2. Born' = Born
  BY DEF Born
<1> QED
  BY <1>1, <1>2 DEF Sent

LEMMA InventoryServes ==
  ASSUME Inventory, NEW r, Serves(r)
  PROVE  Inventory'
<1>1. minted' = minted /\ UNCHANGED <<ownerVars, ramVars, peerVars, initialVars>>
  BY DEF Serves, ownerVars
<1>2. Born' = Born /\ wire \in Seq(Requests)
  BY <1>1 DEF Born, Inventory, Sent
<1>3. Owned' /\ Dealt'
  BY <1>1, <1>2 DEF ownerVars, ramVars, peerVars, initialVars, Inventory, Owned, Dealt
<1>4. Sent'
  BY <1>1, TailMeans DEF Serves, Inventory
<1>5. /\ r \in Requests /\ r.spk.pair \in Born /\ \A j \in DOMAIN r.opks : r.opks[j] \in Born
  BY <1>2, Leaves DEF Serves, Inventory, Sent
<1>6. r.spk \in [id : Pair, pair : Pair] /\ r.op \in {"register", "publish"}
  BY <1>5 DEF Requests
<1>7. Stocked'
  <2>1. \A i \in DOMAIN rows' : rows'[i].pair \in Born'
    BY <1>2, <1>5 DEF Serves, Taking, Inventory, Stocked
  <2>2. /\ DOMAIN vends' \subseteq Peer
        /\ \A p \in DOMAIN vends' : vends'[p] \in [id : Pair, fresh : BOOLEAN]
    BY <1>6 DEF Serves, Inventory, Stocked
  <2>3. served' \subseteq [id : Pair, pair : Pair] /\ \A k \in served' : k.pair \in Born'
    BY <1>2, <1>5, <1>6 DEF Serves
  <2> QED
    BY <2>1, <2>2, <2>3 DEF Serves, Stocked
<1> QED
  BY <1>3, <1>4, <1>7 DEF Inventory

\* A fetch, and what the peer makes of it.
Fetches(p) == FetchOnly(p) \/ OpenSession(p)

\* The initial the fetch begins, if it begins one.
Begun(p) == {[from |-> p, spk |-> k, opk |-> Usable(p), doubt |-> DoubtOf(p)] : k \in served}

LEMMA FetchesMean ==
  ASSUME NEW p \in Peer, Fetches(p)
  PROVE  /\ Fetch(p) /\ UNCHANGED <<ownerVars, ramVars, rpcVars, member, served, dismissed, stale, forgone>>
         /\ \/ session' = session /\ initials' = initials
            \/ /\ p \notin session /\ session' = session \cup {p}
               /\ \E n \in Begun(p) : initials' = initials \cup {n}
<1>1. CASE FetchOnly(p)
  BY <1>1 DEF FetchOnly, peerVars
<1>2. CASE OpenSession(p)
  BY <1>2 DEF OpenSession, Begun
<1> QED
  BY <1>1, <1>2 DEF Fetches

LEMMA InventoryFetches ==
  ASSUME Inventory, VendedTheirs, NEW p \in Peer, Fetches(p)
  PROVE  Inventory'
<1>1. /\ Fetch(p) /\ UNCHANGED <<ownerVars, ramVars, rpcVars, member, served, dismissed, stale, forgone>>
      /\ minted' = minted
  BY FetchesMean DEF ownerVars
<1>2. Born' = Born
  BY <1>1 DEF Born
<1>3. Owned' /\ Sent'
  BY <1>1, <1>2 DEF ownerVars, ramVars, rpcVars, Inventory, Owned, Sent
<1>4. \/ OpkFor(p) = {} /\ given' = given
      \/ \E k : Vended(p, k)
  BY <1>1, FetchMeans
<1>5. Stocked'
  <2>1. \A i \in DOMAIN rows : rows[i].pair \in Born
    BY DEF Inventory, Stocked
  <2>4. rows' \in Rows /\ DOMAIN rows' \subseteq DOMAIN rows
    BY <1>1, FetchMeans
  <2>6. \A i \in DOMAIN rows' : /\ rows'[i].pair = rows[i].pair
                                /\ rows[i].vended => rows'[i].vended
    BY <1>1, FetchMeans, Zenon
  <2>5. \A i \in DOMAIN rows' : rows'[i].pair = rows[i].pair
    BY <2>6
  <2>2. rows' \in Rows /\ \A i \in DOMAIN rows' : rows'[i].pair \in Born'
    BY <1>2, <2>1, <2>4, <2>5
  <2>3. DOMAIN vends' \subseteq Peer /\ \A q \in DOMAIN vends' : vends'[q] \in [id : Pair, fresh : BOOLEAN]
    BY <1>1, FetchMeans
  <2> QED
    BY <1>1, <1>2, <2>2, <2>3 DEF Inventory, Stocked
<1>6. OpkFor(p) \subseteq Prekey /\ given' \subseteq Born' \X Peer
  <2>1. CASE OpkFor(p) = {} /\ given' = given
    BY <1>2, <2>1 DEF Inventory, Dealt
  <2>2. ASSUME NEW k, Vended(p, k)
        PROVE  OpkFor(p) \subseteq Prekey /\ given' \subseteq Born' \X Peer
    <3>1. k \in [id : Pair, pair : Pair] /\ k.pair \in Born
      BY <2>2 DEF Vended, Inventory, Stocked
    <3>2. k \in Prekey
      BY <3>1 DEF Prekey, Id, Pair
    <3> QED
      BY <1>2, <2>2, <3>1, <3>2 DEF Vended, Inventory, Dealt
  <2> QED
    BY <1>4, <2>1, <2>2
<1>7. \A n \in Begun(p) : n \in Initial /\ n.spk.pair \in Born'
  <2> SUFFICES ASSUME NEW n \in Begun(p)
               PROVE  n \in Initial /\ n.spk.pair \in Born'
    OBVIOUS
  <2>1. PICK k \in served : n = [from |-> p, spk |-> k, opk |-> Usable(p), doubt |-> DoubtOf(p)]
    BY DEF Begun
  <2>2. k \in [id : Pair, pair : Pair] /\ k.pair \in Born'
    BY <1>2 DEF Inventory, Stocked
  <2>3. k \in Prekey
    BY <2>2 DEF Prekey, Id, Pair
  <2>4. Usable(p) \in SUBSET Prekey
    BY <1>6 DEF Usable
  <2>5. DoubtOf(p) \in Doubt
    BY DEF DoubtOf, Doubt
  <2> QED
    BY <2>1, <2>2, <2>3, <2>4, <2>5 DEF Initial
<1>8. Dealt'
  <2>1. initials' \subseteq Initial /\ \A m \in initials' : m.spk.pair \in Born'
    BY <1>1, <1>2, <1>7, FetchesMean DEF Inventory, Dealt
  <2>2. session' \subseteq Peer
    BY <1>1, FetchesMean DEF Inventory, Dealt
  <2> QED
    BY <1>1, <1>6, <2>1, <2>2 DEF Inventory, Dealt
<1> QED
  BY <1>3, <1>5, <1>8 DEF Inventory

\* The owner's other steps.
Minds == Prune \/ HearReply \/ GiveUp \/ Reconnect \/ RestoreOwner

LEMMA InventoryMinds ==
  ASSUME Inventory, Minds
  PROVE  Inventory'
<1>1. /\ minted' = minted /\ UNCHANGED <<dirVars, peerVars, initialVars>>
  BY DEF Minds, Prune, HearReply, GiveUp, Reconnect, RestoreOwner, ownerVars
<1>2. Born' = Born /\ minted' \in minted .. MaxPairs
  BY <1>1 DEF Born, Inventory, Owned
<1>3. Stocked' /\ Dealt'
  BY <1>1, <1>2, StillBorn
<1>4. CASE Prune
  <2>1. PICK gone : spks' = Without(spks, gone)
    BY <1>4 DEF Prune
  <2>5. spks \in Batches
    BY DEF Inventory, Owned
  <2>2. spks' \in Batches /\ DOMAIN spks' \subseteq DOMAIN spks /\ \A i \in DOMAIN spks' : spks'[i] = spks[i]
    <3>1. /\ Without(spks, gone) \in Batches /\ DOMAIN Without(spks, gone) = DOMAIN spks \ gone
          /\ \A i \in DOMAIN spks \ gone : Without(spks, gone)[i] = spks[i]
      BY <2>5, WithoutIs
    <3> QED
      BY <2>1, <3>1
  <2>3. Owned'
    BY <1>2, <1>4, <2>2 DEF Prune, ramVars, Inventory, Owned
  <2>4. Sent'
    BY <1>2, <1>4 DEF Prune, rpcVars, Inventory, Sent
  <2> QED
    BY <1>3, <2>3, <2>4 DEF Inventory
<1>5. CASE HearReply
  <2>1. PICK q \in reply : /\ reply' = {} /\ task' = "idle" /\ wire' = wire /\ UNCHANGED <<spks, opks>>
                           /\ published' \in {published, q.spk}
                           /\ unconfirmed' \in {unconfirmed, unconfirmed /\ task # "register"}
                           /\ stock' \in {stock, q.count}
    BY <1>5 DEF HearReply
  <2>2. q.spk \in Nat /\ q.count \in Nat
    BY <2>1 DEF Inventory, Sent, Pair
  <2>3. published' \in Nat /\ stock' \in Nat
    BY <2>1, <2>2 DEF Inventory, Owned
  <2>4. unconfirmed' \in BOOLEAN
    BY <2>1 DEF Inventory, Owned
  <2>5. Owned'
    BY <1>1, <1>2, <2>1, <2>3, <2>4 DEF Inventory, Owned
  <2>6. Sent'
    BY <1>2, <2>1 DEF Inventory, Sent
  <2> QED
    BY <1>3, <2>5, <2>6 DEF Inventory
<1>6. CASE GiveUp \/ Reconnect \/ RestoreOwner
  <2>1. HangUp
    BY <1>6 DEF GiveUp, Reconnect, RestoreOwner
  <2>2. Sent' /\ task' = "idle"
    BY <1>1, <2>1, HangUpMeans DEF Inventory
  <2>3. ASSUME GiveUp
        PROVE  Owned'
    BY <1>1, <1>2, <2>2, <2>3, StillBorn DEF GiveUp, ownerVars
  <2>4. ASSUME Reconnect
        PROVE  Owned'
    <3>1. stock' \in Nat
      BY <2>4, Counted DEF Reconnect, Inventory, Stocked
    <3> QED
      BY <1>2, <2>2, <2>4, <3>1 DEF Reconnect, ownerVars, Inventory, Owned
  <2>5. ASSUME RestoreOwner
        PROVE  Owned'
    <3>1. spks' = Nothing /\ opks' = Nothing /\ published' = 0 /\ unconfirmed' = FALSE /\ stock' = 0
      BY <2>5 DEF RestoreOwner
    <3>2. Owned'
      BY <1>1, <1>2, <2>2, <3>1, EmptyIsNothing DEF Inventory, Owned
    <3> QED
      BY <3>2
  <2>6. Owned'
    BY <1>6, <2>3, <2>4, <2>5
  <2> QED
    BY <1>3, <2>2, <2>6 DEF Inventory
<1> QED
  BY <1>4, <1>5, <1>6 DEF Minds

\* What a peer remembers and forgets, and the Directory of its fetches.
Ages(p) == \/ VendLapses(p) \/ Dismiss(p) \/ DismissalLapses(p)
           \/ LoseSession(p) \/ RestorePeer(p) \/ PeerReregisters(p)

LEMMA AgesMean ==
  ASSUME Inventory, NEW p \in Peer, Ages(p)
  PROVE  /\ UNCHANGED <<ownerVars, ramVars, rpcVars, member, served, rows, given>>
         /\ DOMAIN vends' \subseteq DOMAIN vends
         /\ \A q \in DOMAIN vends' : /\ vends'[q].id = vends[q].id
                                     /\ vends'[q].fresh => vends[q].fresh
                                     /\ vends[q] \in [id : Pair, fresh : BOOLEAN]
                                          => vends'[q] \in [id : Pair, fresh : BOOLEAN]
<1>1. CASE VendLapses(p)
  <2>1. p \in DOMAIN vends /\ vends' = [vends EXCEPT ![p].fresh = FALSE]
    BY <1>1 DEF VendLapses
  <2>0. vends[p] \in [id : Pair, fresh : BOOLEAN]
    BY <2>1 DEF Inventory, Stocked
  <2>2. DOMAIN vends' = DOMAIN vends /\ vends'[p] = [vends[p] EXCEPT !.fresh = FALSE]
    BY <2>1
  <2>3. \A q \in DOMAIN vends' : q # p => vends'[q] = vends[q]
    BY <2>1
  <2>4. \A q \in DOMAIN vends' : /\ vends'[q].id = vends[q].id
                                 /\ vends'[q].fresh => vends[q].fresh
    BY <2>0, <2>2, <2>3
  <2>5. \A q \in DOMAIN vends' : vends[q] \in [id : Pair, fresh : BOOLEAN]
                                   => vends'[q] \in [id : Pair, fresh : BOOLEAN]
    BY <2>2, <2>3
  <2>6. UNCHANGED <<ownerVars, ramVars, rpcVars, member, served, rows, given>>
    BY <1>1 DEF VendLapses, initialVars
  <2> QED
    BY <2>2, <2>4, <2>5, <2>6
<1>2. CASE Dismiss(p) \/ DismissalLapses(p) \/ LoseSession(p) \/ RestorePeer(p)
  BY <1>2 DEF Dismiss, DismissalLapses, LoseSession, RestorePeer, dirVars, initialVars
<1>3. CASE PeerReregisters(p)
  BY <1>3 DEF PeerReregisters, Without, initialVars
<1> QED
  BY <1>1, <1>2, <1>3 DEF Ages

\* A prekey forgone is forgone for good.
LEMMA ForgoneGrows ==
  ASSUME NEW p \in Peer, Ages(p)
  PROVE  /\ forgone' = forgone \/ Forgoes(p)
         /\ forgone \subseteq forgone'
BY DEF Ages, VendLapses, Dismiss, DismissalLapses, LoseSession, RestorePeer, PeerReregisters, Forgoes, peerVars

LEMMA InventoryAges ==
  ASSUME Inventory, NEW p \in Peer, Ages(p)
  PROVE  Inventory'
<1>1. /\ UNCHANGED <<ownerVars, ramVars, rpcVars, member, served, rows, given>>
      /\ minted' = minted /\ DOMAIN vends' \subseteq DOMAIN vends
  BY AgesMean DEF ownerVars
<1>2. Born' = Born /\ Restorable \subseteq Peer
  BY <1>1, ConstantsAssumption DEF Born
<1>3. Owned' /\ Sent'
  BY <1>1, <1>2 DEF ownerVars, ramVars, rpcVars, Inventory, Owned, Sent
<1>4. Stocked'
  <2>1. \A q \in DOMAIN vends' : vends'[q] \in [id : Pair, fresh : BOOLEAN]
    BY <1>1, AgesMean DEF Inventory, Stocked
  <2> QED
    BY <1>1, <1>2, <2>1 DEF Inventory, Stocked
<1>5. /\ session \subseteq Peer /\ stale \subseteq Restorable /\ given \subseteq Born \X Peer
      /\ DOMAIN dismissed \subseteq Peer /\ \A q \in DOMAIN dismissed : dismissed[q] \in Pair \cup {0}
      /\ initials \subseteq Initial /\ \A m \in initials : m.spk.pair \in Born
      /\ forgone \subseteq Pair \X Peer
  BY DEF Inventory, Dealt
<1>6. VendedTo(p) \in Pair \cup {0}
  <2>1. CASE Repeats(p)
    BY <2>1, RowsAre DEF Repeats, VendedTo, Inventory, Stocked
  <2> QED
    BY <2>1 DEF VendedTo
<1>7. session' \subseteq Peer /\ stale' \subseteq Restorable
  BY <1>2, <1>5 DEF Ages, VendLapses, Dismiss, DismissalLapses, LoseSession, RestorePeer, PeerReregisters, peerVars
<1>8. DOMAIN dismissed' \subseteq Peer /\ \A q \in DOMAIN dismissed' : dismissed'[q] \in Pair \cup {0}
  <2>1. CASE Dismiss(p)
    BY <1>5, <1>6, <2>1 DEF Dismiss, Without
  <2>2. CASE DismissalLapses(p) \/ RestorePeer(p)
    BY <1>5, <2>2 DEF DismissalLapses, RestorePeer, Without
  <2>3. CASE VendLapses(p) \/ LoseSession(p) \/ PeerReregisters(p)
    BY <1>5, <2>3 DEF VendLapses, LoseSession, PeerReregisters, peerVars
  <2> QED
    BY <2>1, <2>2, <2>3 DEF Ages
<1>9. initials' \subseteq Initial /\ \A m \in initials' : m.spk.pair \in Born
  <2>1. CASE RestorePeer(p)
    <3>1. initials' = {IF m.from = p THEN [m EXCEPT !.doubt = @ \cup {"peer"}] ELSE m : m \in initials}
      BY <2>1 DEF RestorePeer
    <3>2. \A m \in initials : LET n == [m EXCEPT !.doubt = @ \cup {"peer"}]
                              IN n \in Initial /\ n.spk = m.spk
      BY <1>5 DEF Initial, Doubt
    <3> QED
      BY <1>5, <3>1, <3>2
  <2>2. CASE initials' = initials
    BY <1>5, <2>2
  <2> QED
    BY <2>1, <2>2 DEF Ages, VendLapses, Dismiss, DismissalLapses, LoseSession, PeerReregisters, initialVars
<1>10. forgone' \subseteq Pair \X Peer
  BY <1>5, <1>6, ForgoneGrows DEF Forgoes
<1>11. Dealt'
  BY <1>1, <1>2, <1>5, <1>7, <1>8, <1>9, <1>10 DEF Dealt
<1> QED
  BY <1>3, <1>4, <1>11 DEF Inventory

\* What becomes of an initial.
Ends(m) == OpenInitial(m) \/ DropInitial(m)

LEMMA EndsMean ==
  ASSUME Inventory, NEW m \in initials, Ends(m)
  PROVE  /\ initials' = initials \ {m}
         /\ UNCHANGED <<minted, spks, published, unconfirmed, task, rpcVars, dirVars, peerVars, given>>
         /\ opks' \in Batches /\ \A i \in DOMAIN opks' : i \in DOMAIN opks /\ opks'[i] = opks[i]
         /\ \/ opks' = opks
            \/ Answers(m) /\ \A i \in DOMAIN opks \ DOMAIN opks' : \E k \in m.opk : i = k.id
         /\ stock' \in {stock, OneLess(stock)}
<1>1. opks \in Batches
  BY DEF Inventory, Owned
<1>2. CASE opks' = opks
  BY <1>1, <1>2 DEF Ends, OpenInitial, DropInitial, ownerVars, ramVars
<1>3. CASE Answers(m) /\ opks' = Without(opks, {k.id : k \in m.opk})
  <2>1. PICK S : S = {k.id : k \in m.opk}
    OBVIOUS
  <2>2. /\ Without(opks, S) \in Batches /\ DOMAIN Without(opks, S) = DOMAIN opks \ S
        /\ \A i \in DOMAIN opks \ S : Without(opks, S)[i] = opks[i]
    BY <1>1, WithoutIs
  <2>3. /\ opks' \in Batches /\ \A i \in DOMAIN opks' : i \in DOMAIN opks /\ opks'[i] = opks[i]
        /\ \A i \in DOMAIN opks \ DOMAIN opks' : i \in S
    BY <1>3, <2>1, <2>2
  <2>4. /\ initials' = initials \ {m}
        /\ UNCHANGED <<minted, spks, published, unconfirmed, task, rpcVars, dirVars, peerVars, given>>
        /\ stock' \in {stock, OneLess(stock)}
    BY DEF Ends, OpenInitial, DropInitial, ownerVars, ramVars
  <2> QED
    BY <1>3, <2>1, <2>3, <2>4
<1> QED
  BY <1>2, <1>3 DEF Ends, OpenInitial, DropInitial, ownerVars

LEMMA InventoryEnds ==
  ASSUME Inventory, NEW m \in initials, Ends(m)
  PROVE  Inventory'
<1>1. /\ initials' = initials \ {m}
      /\ UNCHANGED <<minted, spks, published, unconfirmed, task, rpcVars, dirVars, peerVars, given>>
      /\ opks' \in Batches /\ \A i \in DOMAIN opks' : i \in DOMAIN opks /\ opks'[i] = opks[i]
      /\ stock' \in {stock, OneLess(stock)}
  BY EndsMean
<1>2. Born' = Born
  BY <1>1 DEF Born
<1>3. stock' \in Nat
  BY <1>1 DEF Inventory, Owned, OneLess
<1>4. Owned'
  BY <1>1, <1>2, <1>3 DEF Inventory, Owned
<1>5. Sent' /\ Stocked' /\ Dealt'
  BY <1>1, <1>2 DEF Inventory, Sent, Stocked, Dealt, rpcVars, dirVars, peerVars
<1> QED
  BY <1>4, <1>5 DEF Inventory

LEMMA LoseRequestMeans ==
  ASSUME Inventory, LoseRequest
  PROVE  /\ Inventory' /\ wire # <<>> /\ wire' = Tail(wire)
         /\ UNCHANGED <<ownerVars, ramVars, reply, dirVars, peerVars, initialVars>>
<1>1. /\ wire # <<>> /\ wire' = Tail(wire)
      /\ UNCHANGED <<ownerVars, ramVars, reply, dirVars, peerVars, initialVars>>
  BY DEF LoseRequest
<1>2. minted' = minted /\ Born' = Born /\ reply' \subseteq [spk : Pair, count : Nat]
  BY <1>1 DEF ownerVars, Born, Inventory, Sent
<1>3. Sent'
  BY <1>1, <1>2, TailMeans DEF Inventory
<1>4. Owned' /\ Stocked' /\ Dealt'
  BY <1>1, <1>2 DEF Inventory, Owned, Stocked, Dealt, ownerVars, ramVars, dirVars, peerVars, initialVars
<1> QED
  BY <1>1, <1>3, <1>4 DEF Inventory

-----------------------------------------------------------------------------
(* Offered once, vended to one.                                            *)

LEMMA Steps ==
  Next => \/ Starts \/ Minds \/ LoseRequest \/ DirRegister \/ DirPublish
          \/ \E p \in Peer : Fetches(p) \/ Ages(p)
          \/ \E m \in initials : Ends(m)
BY DEF Next, Owner, Directory, PeerStep, Starts, Minds, Fetches, Ages, Ends

LEMMA InventoryStays ==
  ASSUME Inventory, VendedTheirs, [Next]_vars
  PROVE  Inventory'
<1>1. CASE Starts
  <2>1. PICK r : Asked(r)
    BY <1>1, StartsMean DEF Inventory
  <2> QED
    BY <2>1, InventoryStarts
<1>2. CASE DirRegister \/ DirPublish
  <2>1. PICK r : Serves(r)
    BY <1>2, ServesMean DEF Inventory
  <2> QED
    BY <2>1, InventoryServes
<1>3. CASE UNCHANGED vars
  <2>1. minted' \in minted .. MaxPairs
    BY <1>3 DEF vars, ownerVars, Inventory, Owned
  <2>2. Owned' /\ Stocked' /\ Dealt'
    BY <1>3, <2>1, StillBorn DEF vars, ownerVars, ramVars, Inventory, Owned
  <2>3. Sent'
    BY <1>3 DEF vars, ownerVars, rpcVars, Inventory, Sent, Born
  <2> QED
    BY <2>2, <2>3 DEF Inventory
<1> QED
  BY <1>1, <1>2, <1>3, Steps, InventoryMinds, LoseRequestMeans, InventoryFetches, InventoryAges, InventoryEnds

\* What a fetch hands out was not handed to another peer, and is not on offer.
LEMMA HandsOut ==
  ASSUME Inventory, Offered, VendedTheirs, NEW p \in Peer, NEW k, Vended(p, k)
  PROVE  /\ \A q \in DOMAIN vends \ {p} : vends[q].id # k.id /\ rows[vends[q].id].pair # k.pair
         /\ \A x \in given : x[1] = k.pair => x[2] = p
         /\ \A i \in DOMAIN wire : \A x \in DOMAIN wire[i].opks : wire[i].opks[x] # k.pair
<1>1. k.id \in DOMAIN rows /\ rows[k.id].pair = k.pair
  BY DEF Vended
<1>2. CASE Repeats(p) /\ k = Again(p)
  BY <1>1, <1>2 DEF Repeats, Again, Offered, VendedTheirs
<1>3. CASE k.id \in AvailableIn(rows)
  <2>1. ~rows[k.id].vended /\ k.pair \notin GivenPairs
    BY <1>1, <1>3 DEF AvailableIn, Offered
  <2>2. \A q \in DOMAIN vends : vends[q].id \in DOMAIN rows /\ vends[q].id # k.id
    BY <2>1 DEF VendedTheirs
  <2> QED
    BY <1>1, <2>1, <2>2 DEF Offered, GivenPairs
<1> QED
  BY <1>2, <1>3 DEF Vended

LEMMA OfferedSame ==
  ASSUME Offered, UNCHANGED <<rows, given>>, DOMAIN wire' = DOMAIN wire,
         \A i \in DOMAIN wire : wire'[i].opks = wire[i].opks
  PROVE  Offered'
BY DEF Offered, GivenPairs, AvailableIn

LEMMA OfferedTail ==
  ASSUME Inventory, Offered, UNCHANGED <<rows, given>>, wire # <<>>, wire' = Tail(wire)
  PROVE  Offered'
<1>1. \A i \in DOMAIN wire' : i \in Nat /\ i + 1 \in DOMAIN wire /\ wire'[i] = wire[i + 1]
  BY Leaves DEF Inventory, Sent
<1>2. \A i, j \in DOMAIN wire' : \A x \in DOMAIN wire'[i].opks, y \in DOMAIN wire'[j].opks :
        wire'[i].opks[x] = wire'[j].opks[y] => i = j /\ x = y
  BY <1>1 DEF Offered
<1> QED
  BY <1>1, <1>2 DEF Offered, GivenPairs, AvailableIn

LEMMA OfferedStarts ==
  ASSUME Inventory, Offered, NEW r, Asked(r)
  PROVE  Offered'
<1>1. /\ wire \in Seq(Requests) /\ r \in Requests /\ wire' = Append(wire, r)
      /\ UNCHANGED <<rows, given>>
  BY DEF Asked, Inventory, Sent, dirVars, initialVars
<1>2. /\ DOMAIN wire' = DOMAIN wire \cup {Len(wire) + 1} /\ Len(wire) + 1 \notin DOMAIN wire
      /\ \A i \in DOMAIN wire : wire'[i] = wire[i]
      /\ wire'[Len(wire) + 1] = r
  BY <1>1, Joins
<1>3. /\ \A x, y \in DOMAIN r.opks : r.opks[x] = r.opks[y] => x = y
      /\ \A x \in DOMAIN r.opks : r.opks[x] \notin Born
  <2>1. minted \in Nat
    BY DEF Inventory, Owned
  <2> QED
    BY <2>1 DEF Asked, Born
<1>4. /\ \A i \in DOMAIN wire : \A x \in DOMAIN wire[i].opks : wire[i].opks[x] \in Born
      /\ \A y \in DOMAIN rows : rows[y].pair \in Born
      /\ GivenPairs \subseteq Born
  BY DEF Inventory, Sent, Stocked, Dealt, GivenPairs
<1>5. \A i, j \in DOMAIN wire' : \A x \in DOMAIN wire'[i].opks, y \in DOMAIN wire'[j].opks :
        wire'[i].opks[x] = wire'[j].opks[y] => i = j /\ x = y
  BY <1>2, <1>3, <1>4 DEF Offered
<1>6. GivenPairs' = GivenPairs
  BY <1>1 DEF GivenPairs
<1>7. \A i \in DOMAIN wire' : \A x \in DOMAIN wire'[i].opks :
        /\ wire'[i].opks[x] \notin GivenPairs
        /\ \A y \in DOMAIN rows : rows[y].pair # wire'[i].opks[x]
  BY <1>2, <1>3, <1>4 DEF Offered
<1> QED
  BY <1>1, <1>5, <1>6, <1>7 DEF Offered, AvailableIn

LEMMA OfferedServes ==
  ASSUME Inventory, Offered, NEW r, Serves(r)
  PROVE  Offered'
<1>1. /\ \A i \in DOMAIN wire' : i \in Nat /\ i + 1 \in DOMAIN wire /\ wire'[i] = wire[i + 1] /\ i + 1 # 1
      /\ 1 \in DOMAIN wire /\ r = wire[1]
  <2>1. \A i \in DOMAIN wire' : i \in Nat /\ i + 1 \in DOMAIN wire /\ wire'[i] = wire[i + 1]
    BY Leaves DEF Serves, Inventory, Sent
  <2>2. DOMAIN wire' = 1 .. Len(wire')
    BY Leaves DEF Serves, Inventory, Sent
  <2>3. 1 \in DOMAIN wire /\ r = wire[1]
    BY Leaves DEF Serves, Inventory, Sent
  <2> QED
    BY <2>1, <2>2, <2>3
<1>2. given' = given /\ GivenPairs' = GivenPairs /\ r.op \in {"register", "publish"}
  <2>1. r \in Requests
    BY <1>1 DEF Inventory, Sent
  <2> QED
    BY <2>1, RequestsAre DEF Serves, initialVars, GivenPairs
<1>3. \A i, j \in DOMAIN wire' : \A x \in DOMAIN wire'[i].opks, y \in DOMAIN wire'[j].opks :
        wire'[i].opks[x] = wire'[j].opks[y] => i = j /\ x = y
  BY <1>1 DEF Offered
<1>4. \A x \in DOMAIN r.opks : /\ r.opks[x] \notin GivenPairs
                               /\ \A y \in DOMAIN rows : rows[y].pair # r.opks[x]
                               /\ \A y \in DOMAIN r.opks : r.opks[x] = r.opks[y] => x = y
                               /\ \A i \in DOMAIN wire' : \A y \in DOMAIN wire'[i].opks : wire'[i].opks[y] # r.opks[x]
  BY <1>1 DEF Offered
<1>5. \A i \in DOMAIN rows' : \/ i \in DOMAIN rows /\ rows'[i] = rows[i]
                              \/ i \in DOMAIN r.opks /\ rows'[i].pair = r.opks[i] /\ ~rows'[i].vended
  BY DEF Serves, Taking
<1>6. \A x, y \in DOMAIN rows' : rows'[x].pair = rows'[y].pair => x = y
  BY <1>4, <1>5 DEF Offered
<1>7. \A x \in AvailableIn(rows)' : rows'[x].pair \notin GivenPairs
  BY <1>4, <1>5 DEF Offered, AvailableIn
<1>8. \A i \in DOMAIN wire' : \A x \in DOMAIN wire'[i].opks :
        /\ wire'[i].opks[x] \notin GivenPairs
        /\ \A y \in DOMAIN rows' : rows'[y].pair # wire'[i].opks[x]
  <2>1. \A i \in DOMAIN wire' : \A x \in DOMAIN wire'[i].opks :
          /\ wire'[i].opks[x] \notin GivenPairs
          /\ \A y \in DOMAIN rows : rows[y].pair # wire'[i].opks[x]
    BY <1>1 DEF Offered
  <2> QED
    BY <1>4, <1>5, <2>1
<1> QED
  BY <1>2, <1>3, <1>6, <1>7, <1>8 DEF Offered

LEMMA OfferedFetches ==
  ASSUME Inventory, Offered, VendedTheirs, NEW p \in Peer, Fetches(p)
  PROVE  Offered'
<1>1. Fetch(p) /\ wire' = wire
  BY FetchesMean DEF rpcVars
<1>2. /\ DOMAIN rows' \subseteq DOMAIN rows
      /\ \A i \in DOMAIN rows' : /\ rows'[i].pair = rows[i].pair
                                 /\ rows[i].vended => rows'[i].vended
  BY <1>1, FetchMeans
<1>3. CASE OpkFor(p) = {} /\ given' = given
  BY <1>1, <1>2, <1>3 DEF Offered, GivenPairs, AvailableIn
<1>4. ASSUME NEW k, Vended(p, k)
      PROVE  Offered'
  <2>1. /\ k.id \in DOMAIN rows /\ rows[k.id].pair = k.pair
        /\ k.id \in DOMAIN rows' /\ rows'[k.id].vended
        /\ given' = given \cup {<<k.pair, p>>}
    BY <1>4 DEF Vended
  <2>2. GivenPairs' = GivenPairs \cup {k.pair}
    <3>1. <<k.pair, p>>[1] = k.pair
      OBVIOUS
    <3>2. \A x \in given' : x \in given \/ x = <<k.pair, p>>
      BY <2>1
    <3>3. given \subseteq given' /\ <<k.pair, p>> \in given'
      BY <2>1
    <3> QED
      BY <3>1, <3>2, <3>3 DEF GivenPairs
  <2>3. \A x \in AvailableIn(rows)' : x \in AvailableIn(rows) /\ rows'[x].pair = rows[x].pair /\ x # k.id
    BY <1>2, <2>1 DEF AvailableIn
  <2>4. \A x \in AvailableIn(rows)' : rows'[x].pair \notin GivenPairs'
    BY <2>1, <2>2, <2>3 DEF Offered, AvailableIn
  <2>5. \A i \in DOMAIN wire : \A x \in DOMAIN wire[i].opks :
          /\ wire[i].opks[x] \notin GivenPairs'
          /\ \A y \in DOMAIN rows' : rows'[y].pair # wire[i].opks[x]
    BY <1>2, <1>4, <2>2, HandsOut DEF Offered
  <2> QED
    BY <1>1, <1>2, <2>4, <2>5 DEF Offered
<1> QED
  BY <1>1, <1>3, <1>4, FetchMeans

LEMMA MindsLeave ==
  ASSUME Inventory, Minds
  PROVE  /\ UNCHANGED <<minted, dirVars, peerVars, initialVars>>
         /\ DOMAIN wire' = DOMAIN wire
         /\ \A i \in DOMAIN wire : /\ wire'[i].spk = wire[i].spk /\ wire'[i].opks = wire[i].opks
                                   /\ wire'[i] = wire[i] \/ ~wire'[i].live
<1>1. UNCHANGED <<minted, dirVars, peerVars, initialVars>>
  BY DEF Minds, Prune, HearReply, GiveUp, Reconnect, RestoreOwner, ownerVars
<1>2. CASE HangUp
  BY <1>1, <1>2, HangUpMeans DEF Inventory
<1>3. CASE wire' = wire
  BY <1>1, <1>3
<1> QED
  BY <1>2, <1>3 DEF Minds, Prune, HearReply, GiveUp, Reconnect, RestoreOwner, rpcVars

LEMMA OfferedStays ==
  ASSUME Inventory, Offered, VendedTheirs, [Next]_vars
  PROVE  Offered'
<1>1. CASE Starts
  <2>1. PICK r : Asked(r)
    BY <1>1, StartsMean DEF Inventory
  <2> QED
    BY <2>1, OfferedStarts
<1>2. CASE DirRegister \/ DirPublish
  <2>1. PICK r : Serves(r)
    BY <1>2, ServesMean DEF Inventory
  <2> QED
    BY <2>1, OfferedServes
<1>3. CASE Minds
  BY <1>3, MindsLeave, OfferedSame DEF dirVars, initialVars
<1>4. CASE LoseRequest
  BY <1>4, LoseRequestMeans, OfferedTail DEF dirVars, initialVars
<1>5. ASSUME NEW p \in Peer, Ages(p)
      PROVE  Offered'
  BY <1>5, AgesMean, OfferedSame DEF rpcVars
<1>6. ASSUME NEW m \in initials, Ends(m)
      PROVE  Offered'
  BY <1>6, EndsMean, OfferedSame DEF rpcVars, dirVars
<1>7. CASE UNCHANGED vars
  BY <1>7, OfferedSame DEF vars, rpcVars, dirVars, initialVars
<1> QED
  BY <1>1, <1>2, <1>3, <1>4, <1>5, <1>6, <1>7, Steps, OfferedFetches

LEMMA TheirsSame ==
  ASSUME VendedTheirs, given' = given,
         \A i \in DOMAIN rows : i \in DOMAIN rows' /\ rows'[i] = rows[i],
         DOMAIN vends' \subseteq DOMAIN vends, \A q \in DOMAIN vends' : vends'[q].id = vends[q].id,
         \A n \in initials' : \E m \in initials : n.from = m.from /\ n.opk = m.opk
  PROVE  VendedTheirs'
<1>1. \A q \in DOMAIN vends' : /\ vends'[q].id \in DOMAIN rows' /\ rows'[vends'[q].id].vended
                               /\ \A x \in given' : x[1] = rows'[vends'[q].id].pair => x[2] = q
  BY DEF VendedTheirs
<1>2. \A p, q \in DOMAIN vends' : vends'[p].id = vends'[q].id => p = q
  BY DEF VendedTheirs
<1>3. \A n \in initials' : \A k \in n.opk : <<k.pair, n.from>> \in given'
  BY DEF VendedTheirs
<1> QED
  BY <1>1, <1>2, <1>3 DEF VendedTheirs

LEMMA TheirsFetches ==
  ASSUME Inventory, Offered, VendedTheirs, VendedOnce, NEW p \in Peer, Fetches(p)
  PROVE  VendedTheirs' /\ VendedOnce'
<1>1. Fetch(p)
  BY FetchesMean
<1>2. /\ \A i \in DOMAIN rows' : /\ rows'[i].pair = rows[i].pair
                                 /\ rows[i].vended => rows'[i].vended
      /\ \A q \in DOMAIN vends \ {p} : /\ q \in DOMAIN vends' /\ vends'[q] = vends[q]
                                       /\ vends[q].id \in DOMAIN rows'
      /\ DOMAIN vends' \subseteq DOMAIN vends \cup {p}
  BY <1>1, FetchMeans
<1>3. \A n \in initials' : n \in initials \/ n \in Begun(p)
  BY FetchesMean
<1>4. \A n \in Begun(p) : n.from = p /\ n.opk \subseteq OpkFor(p)
  BY DEF Begun, Usable
<1>5. CASE OpkFor(p) = {} /\ given' = given /\ p \notin DOMAIN vends'
  <2>1. VendedOnce'
    BY <1>5 DEF VendedOnce
  <2>2. \A q \in DOMAIN vends' : q \in DOMAIN vends \ {p}
    BY <1>2, <1>5
  <2>3. \A q \in DOMAIN vends' : /\ vends'[q].id \in DOMAIN rows' /\ rows'[vends'[q].id].vended
                                 /\ \A x \in given' : x[1] = rows'[vends'[q].id].pair => x[2] = q
    BY <1>2, <1>5, <2>2 DEF VendedTheirs
  <2>4. \A x, q \in DOMAIN vends' : vends'[x].id = vends'[q].id => x = q
    BY <1>2, <2>2 DEF VendedTheirs
  <2>5. \A n \in initials' : \A k \in n.opk : <<k.pair, n.from>> \in given'
    BY <1>3, <1>4, <1>5 DEF VendedTheirs
  <2> QED
    BY <2>1, <2>3, <2>4, <2>5 DEF VendedTheirs
<1>6. ASSUME NEW k, Vended(p, k)
      PROVE  VendedTheirs' /\ VendedOnce'
  <2>1. /\ k.id \in DOMAIN rows' /\ rows'[k.id].vended /\ rows[k.id].pair = k.pair
        /\ p \in DOMAIN vends' /\ vends'[p].id = k.id
        /\ OpkFor(p) = {k} /\ given' = given \cup {<<k.pair, p>>}
    BY <1>6 DEF Vended
  <2>2. /\ \A q \in DOMAIN vends \ {p} : vends[q].id # k.id /\ rows[vends[q].id].pair # k.pair
        /\ \A x \in given : x[1] = k.pair => x[2] = p
    BY <1>6, HandsOut
  <2>3. \A x \in given' : x \in given \/ x = <<k.pair, p>>
    BY <2>1
  <2>4. given \subseteq Born \X Peer
    BY DEF Inventory, Dealt
  <2>5. VendedOnce'
    <3> SUFFICES ASSUME NEW x \in given', NEW y \in given', x[1] = y[1]
                 PROVE  x = y
      BY DEF VendedOnce
    <3>1. CASE x \in given /\ y \in given
      BY <3>1 DEF VendedOnce
    <3>2. ASSUME NEW z \in given, z[1] = k.pair
          PROVE  z = <<k.pair, p>>
      BY <2>2, <2>4, <3>2
    <3> QED
      BY <2>3, <3>1, <3>2
  <2>6. \A q \in DOMAIN vends' \ {p} : q \in DOMAIN vends \ {p} /\ vends'[q] = vends[q]
    BY <1>2
  <2>7. \A q \in DOMAIN vends' : vends'[q].id \in DOMAIN rows' /\ rows'[vends'[q].id].vended
    BY <1>2, <2>1, <2>6 DEF VendedTheirs
  <2>8. \A q \in DOMAIN vends' : \A x \in given' : x[1] = rows'[vends'[q].id].pair => x[2] = q
    <3> SUFFICES ASSUME NEW q \in DOMAIN vends', NEW x \in given', x[1] = rows'[vends'[q].id].pair
                 PROVE  x[2] = q
      OBVIOUS
    <3>1. CASE q = p
      BY <1>2, <2>1, <2>2, <2>3, <3>1
    <3>2. CASE q # p
      <4>1. q \in DOMAIN vends \ {p} /\ x[1] = rows[vends[q].id].pair
        BY <1>2, <2>6, <2>7, <3>2
      <4>2. x \in given
        BY <2>2, <2>3, <4>1
      <4> QED
        BY <4>1, <4>2 DEF VendedTheirs
    <3> QED
      BY <3>1, <3>2
  <2>9. \A x, q \in DOMAIN vends' : vends'[x].id = vends'[q].id => x = q
    BY <2>1, <2>2, <2>6 DEF VendedTheirs
  <2>10. \A n \in initials' : \A l \in n.opk : <<l.pair, n.from>> \in given'
    BY <1>3, <1>4, <2>1 DEF VendedTheirs
  <2> QED
    BY <2>5, <2>7, <2>8, <2>9, <2>10 DEF VendedTheirs
<1> QED
  BY <1>1, <1>5, <1>6, FetchMeans

LEMMA TheirsStay ==
  ASSUME Inventory, Offered, VendedTheirs, VendedOnce, [Next]_vars
  PROVE  VendedTheirs' /\ VendedOnce'
<1>1. given' = given => VendedOnce'
  BY DEF VendedOnce
<1>2. CASE UNCHANGED <<rows, vends, initials, given>>
  BY <1>1, <1>2, TheirsSame
<1>3. CASE Starts
  <2>1. PICK r : Asked(r)
    BY <1>3, StartsMean DEF Inventory
  <2> QED
    BY <1>2, <2>1 DEF Asked, dirVars, initialVars
<1>4. CASE DirRegister \/ DirPublish
  <2>1. PICK r : Serves(r)
    BY <1>4, ServesMean DEF Inventory
  <2>2. UNCHANGED <<initials, given>>
    BY <2>1 DEF Serves, initialVars
  <2>3. r.op \in {"register", "publish"}
    BY <2>1, RequestsAre, Leaves DEF Serves, Inventory, Sent
  <2>4. CASE r.op = "register"
    <3>1. DOMAIN vends' = {}
      BY <2>1, <2>4 DEF Serves
    <3> QED
      BY <1>1, <2>2, <3>1 DEF VendedTheirs
  <2>5. CASE r.op = "publish"
    <3>1. vends' = vends /\ \A i \in DOMAIN rows : i \in DOMAIN rows' /\ rows'[i] = rows[i]
      BY <2>1, <2>5 DEF Serves, Taking
    <3> QED
      BY <1>1, <2>2, <3>1, TheirsSame
  <2> QED
    BY <2>3, <2>4, <2>5
<1>5. CASE Minds \/ LoseRequest
  BY <1>2, <1>5, MindsLeave, LoseRequestMeans DEF dirVars, initialVars
<1>6. ASSUME NEW p \in Peer, Ages(p)
      PROVE  VendedTheirs' /\ VendedOnce'
  <2>1. /\ UNCHANGED <<rows, given>> /\ DOMAIN vends' \subseteq DOMAIN vends
        /\ \A q \in DOMAIN vends' : vends'[q].id = vends[q].id
    BY <1>6, AgesMean
  <2>2. \A n \in initials' : \E m \in initials : n.from = m.from /\ n.opk = m.opk
    <3>1. CASE RestorePeer(p)
      <4>1. initials' = {IF m.from = p THEN [m EXCEPT !.doubt = @ \cup {"peer"}] ELSE m : m \in initials}
        BY <3>1 DEF RestorePeer
      <4>2. \A m \in initials : LET n == [m EXCEPT !.doubt = @ \cup {"peer"}]
                                IN n.from = m.from /\ n.opk = m.opk
        BY DEF Inventory, Dealt, Initial
      <4> QED
        BY <4>1, <4>2
    <3>2. CASE initials' = initials
      BY <3>2
    <3> QED
      BY <1>6, <3>1, <3>2 DEF Ages, VendLapses, Dismiss, DismissalLapses, LoseSession, PeerReregisters, initialVars
  <2> QED
    BY <1>1, <2>1, <2>2, TheirsSame
<1>7. ASSUME NEW m \in initials, Ends(m)
      PROVE  VendedTheirs' /\ VendedOnce'
  <2>1. initials' = initials \ {m} /\ UNCHANGED <<rows, vends, given>>
    BY <1>7, EndsMean DEF dirVars
  <2> QED
    BY <1>1, <2>1, TheirsSame
<1>8. CASE UNCHANGED vars
  BY <1>2, <1>8 DEF vars, dirVars, initialVars
<1> QED
  BY <1>3, <1>4, <1>5, <1>6, <1>7, <1>8, Steps, TheirsFetches

LEMMA VendingInit == Init => Vending
<1> SUFFICES ASSUME Init
             PROVE  Vending
  OBVIOUS
<1>1. /\ minted = 0 /\ spks = Nothing /\ opks = Nothing
      /\ published = 0 /\ unconfirmed = FALSE /\ stock = 0 /\ task = "idle"
      /\ wire = <<>> /\ reply = {}
      /\ member = FALSE /\ served = {} /\ rows = Nothing /\ vends = Nothing
      /\ session = {} /\ dismissed = Nothing /\ stale = {} /\ forgone = {}
      /\ initials = {} /\ given = {}
  BY DEF Init
<1>2. Nothing \in Batches /\ DOMAIN Nothing = {} /\ MaxPairs \in Nat
  BY EmptyIsNothing, ConstantsAssumption
<1>3. Nothing \in Rows
  <2> DEFINE e == [i \in {} |-> i]
  <2>1. e = << >>
    OBVIOUS
  <2>2. e \in [{} -> [pair : Pair, vended : BOOLEAN]]
    OBVIOUS
  <2> QED
    BY <2>1, <2>2 DEF Nothing, Rows
<1>4. wire \in Seq(Requests) /\ DOMAIN wire = {}
  BY <1>1
<1>5. Inventory
  <2>1. Owned
    <3>1. spks \in Batches /\ DOMAIN spks = {} /\ opks \in Batches /\ DOMAIN opks = {}
      BY <1>1, <1>2
    <3>2. unconfirmed \in BOOLEAN /\ task \in {"idle", "register", "publish"}
      BY <1>1
    <3>3. minted \in 0 .. MaxPairs /\ published \in Nat /\ stock \in Nat
      BY <1>1, <1>2
    <3> QED
      BY <3>1, <3>2, <3>3 DEF Owned
  <2>2. Sent
    BY <1>1, <1>4 DEF Sent
  <2>3. Stocked
    BY <1>1, <1>2, <1>3 DEF Stocked
  <2>4. Dealt
    BY <1>1, <1>2 DEF Dealt
  <2> QED
    BY <2>1, <2>2, <2>3, <2>4 DEF Inventory
<1>6. Offered /\ VendedTheirs /\ VendedOnce
  BY <1>1, <1>2, <1>4 DEF Offered, VendedTheirs, VendedOnce, AvailableIn
<1> QED
  BY <1>5, <1>6 DEF Vending

LEMMA VendingStays == Vending /\ [Next]_vars => Vending'
BY InventoryStays, OfferedStays, TheirsStay DEF Vending

LEMMA InventoryIsTyped == Inventory => TypeOK
<1> SUFFICES ASSUME Inventory
             PROVE  TypeOK
  OBVIOUS
<1>1. Pair \subseteq Id /\ Pair \subseteq Nat
  BY DEF Pair, Id
<1>2. \A f \in Batches : Ring(f)
  BY <1>1, BatchesAre DEF Ring
<1>3. \A i \in DOMAIN wire : Request(wire[i])
  <2> SUFFICES ASSUME NEW i \in DOMAIN wire
               PROVE  Request(wire[i])
    OBVIOUS
  <2>1. wire[i] \in Requests
    BY DEF Inventory, Sent
  <2>2. wire[i].spk \in Prekey
    BY <1>1, <2>1 DEF Requests, Prekey
  <2> QED
    BY <1>2, <2>1, <2>2, RequestsAre DEF Request
<1>4. /\ minted \in 0 .. MaxPairs /\ Ring(spks) /\ Ring(opks)
      /\ published \in Nat /\ unconfirmed \in BOOLEAN
      /\ stock \in Nat /\ task \in {"idle", "register", "publish"}
  BY <1>2 DEF Inventory, Owned
<1>5. reply \subseteq [spk : Id, count : Nat]
  BY <1>1 DEF Inventory, Sent
<1>6. /\ member \in BOOLEAN /\ served \subseteq Prekey
      /\ DOMAIN rows \subseteq Id /\ \A i \in DOMAIN rows : rows[i] \in [pair : Pair, vended : BOOLEAN]
      /\ DOMAIN vends \subseteq Peer /\ \A p \in DOMAIN vends : vends[p] \in [id : Id, fresh : BOOLEAN]
  BY <1>1, RowsAre DEF Inventory, Stocked, Prekey
<1>7. /\ session \subseteq Peer /\ stale \subseteq Restorable
      /\ DOMAIN dismissed \subseteq Peer /\ \A p \in DOMAIN dismissed : dismissed[p] \in Pair \cup {0}
      /\ initials \subseteq Initial /\ given \cup forgone \subseteq Pair \X Peer
  <2>1. Born \subseteq Pair
    BY ConstantsAssumption DEF Inventory, Owned, Born, Pair
  <2> QED
    BY <2>1 DEF Inventory, Dealt
<1> QED
  BY <1>3, <1>4, <1>5, <1>6, <1>7 DEF TypeOK

\* Whatever is lost, retried, vended again or generated, every variable of the
\* owner, the Directory and the peers stays in its type.
THEOREM PrekeysTypesHold == Spec => []TypeOK
<1>1. Vending => TypeOK
  BY InventoryIsTyped DEF Vending
<1> QED
  BY <1>1, VendingInit, VendingStays, PTL DEF Spec

\* vendOpk never hands one one-time prekey to two peers: not when a peer fetches
\* again, nor after a lapsed vend, a re-registration or an id used again.
THEOREM VendedOnceHolds == Spec => []VendedOnce
<1>1. Vending => VendedOnce
  BY DEF Vending
<1> QED
  BY <1>1, VendingInit, VendingStays, PTL DEF Spec

-----------------------------------------------------------------------------
(* What the Directory serves, the owner holds.                             *)

\* An initial that is answered takes only what was given with it.
LEMMA Consumed ==
  ASSUME Vending, NEW m \in initials, Ends(m)
  PROVE  \A i \in DOMAIN opks : opks[i] \notin GivenPairs => i \in DOMAIN opks' /\ opks'[i] = opks[i]
<1> SUFFICES ASSUME NEW i \in DOMAIN opks, opks[i] \notin GivenPairs, i \notin DOMAIN opks'
             PROVE  FALSE
  BY EndsMean DEF Vending
<1>1. PICK k \in m.opk : Answers(m) /\ i = k.id
  BY EndsMean DEF Vending
<1>2. opks[i] = k.pair
  BY <1>1 DEF Answers, Holds
<1>3. <<k.pair, m.from>> \in given
  BY DEF Vending, VendedTheirs
<1>4. <<k.pair, m.from>>[1] = k.pair
  OBVIOUS
<1> QED
  BY <1>2, <1>3, <1>4 DEF GivenPairs

LEMMA ListeningStarts ==
  ASSUME Vending, Listening, NEW r, Asked(r)
  PROVE  Listening'
<1>1. /\ wire \in Seq(Requests) /\ r \in Requests /\ wire' = Append(wire, r)
      /\ reply' = reply /\ task = "idle" /\ task' = r.op
  BY DEF Asked, Vending, Inventory, Sent
<1>2. /\ DOMAIN wire' = DOMAIN wire \cup {Len(wire) + 1} /\ Len(wire') = Len(wire) + 1
      /\ \A i \in DOMAIN wire : wire'[i] = wire[i]
      /\ wire'[Len(wire) + 1] = r
  BY <1>1, Joins
<1>3. reply' = {} /\ \A i \in DOMAIN wire : ~wire[i].live
  BY <1>1 DEF Listening
<1>4. task' # "idle"
  BY <1>1, RequestsAre
<1>5. \A i \in DOMAIN wire' : wire'[i].live => i = Len(wire') /\ wire'[i] = r
  BY <1>2, <1>3
<1>6. CASE r.op = "register"
  <2>1. unconfirmed' /\ spks' # Nothing
    BY <1>6 DEF Asked
  <2>2. Holds(spks', r.spk)
    BY DEF Asked, Holds
  <2>3. \A i \in DOMAIN r.opks : Holds(opks', [id |-> i, pair |-> r.opks[i]])
    BY DEF Asked, Holds
  <2>4. \A i \in DOMAIN wire' : wire'[i].live => wire'[i].op = "register" /\ Backed(wire[i])'
    BY <1>5, <1>6, <2>2, <2>3 DEF Backed
  <2> QED
    BY <1>3, <1>4, <1>5, <2>1, <2>4 DEF Listening
<1>7. CASE r.op # "register"
  BY <1>1, <1>3, <1>4, <1>5, <1>7 DEF Listening
<1> QED
  BY <1>6, <1>7

LEMMA ListeningServes ==
  ASSUME Vending, Listening, NEW r, Serves(r)
  PROVE  /\ Listening'
         /\ reply' # {} => r.live /\ (task = "register" => r.op = "register" /\ Backed(r))
<1>1. /\ wire \in Seq(Requests) /\ wire # <<>> /\ wire' = Tail(wire) /\ served' = {r.spk}
      /\ r = Head(wire)
      /\ UNCHANGED <<spks, opks, unconfirmed, task>>
  BY DEF Serves, Vending, Inventory, Sent, ownerVars, ramVars
<1>2. /\ wire' \in Seq(Requests) /\ Len(wire') = Len(wire) - 1 /\ Len(wire) \in Nat
      /\ \A i \in DOMAIN wire' : i \in Nat /\ i + 1 \in DOMAIN wire /\ wire'[i] = wire[i + 1]
      /\ 1 \in DOMAIN wire /\ r = wire[1]
  BY <1>1, Leaves
<1>3. \A i \in DOMAIN wire' : wire'[i].live => i = Len(wire') /\ task # "idle"
  BY <1>2 DEF Listening
<1>4. task = "register" => /\ unconfirmed /\ spks # Nothing
                           /\ \A i \in DOMAIN wire' : wire'[i].live => wire'[i].op = "register" /\ Backed(wire[i])'
  BY <1>1, <1>2 DEF Listening, Backed
<1>5. reply = {}
  BY <1>1 DEF Listening
<1>6. reply' # {} => r.live
  BY <1>5 DEF Serves
<1>7. r.live => wire' = <<>> /\ task # "idle"
  <2>1. r.live => 1 = Len(wire) /\ task # "idle"
    BY <1>2 DEF Listening
  <2>2. Len(wire') = 0 => wire' = <<>>
    BY <1>2
  <2> QED
    BY <1>2, <2>1, <2>2
<1>8. r.live /\ task = "register" => r.op = "register" /\ Backed(r)
  BY <1>2 DEF Listening
<1>9. \A q \in reply', k \in served' : q.spk = k.id
  BY <1>1, <1>5 DEF Serves
<1> QED
  BY <1>1, <1>3, <1>4, <1>6, <1>7, <1>8, <1>9 DEF Listening

LEMMA ListeningStays ==
  ASSUME Vending, Listening, [Next]_vars
  PROVE  Listening'
<1>0. Inventory
  BY DEF Vending
<1>1. CASE Starts
  BY <1>0, <1>1, StartsMean, ListeningStarts DEF Inventory
<1>2. CASE DirRegister \/ DirPublish
  BY <1>0, <1>2, ServesMean, ListeningServes DEF Inventory
<1>3. CASE UNCHANGED <<wire, reply, task, unconfirmed, spks, opks, served>>
  BY <1>3 DEF Listening, Backed
<1>4. CASE Minds
  <2>1. DOMAIN wire' = DOMAIN wire /\ \A i \in DOMAIN wire : wire'[i] = wire[i] \/ ~wire'[i].live
    BY <1>0, <1>4, MindsLeave
  <2>2. reply' = {} /\ task' = "idle"
    BY <1>4 DEF Minds, Prune, HearReply, GiveUp, Reconnect, RestoreOwner, HangUp, ramVars, rpcVars, Listening
  <2>3. \A i \in DOMAIN wire' : ~wire'[i].live
    <3>1. CASE HangUp
      BY <1>0, <3>1, <1>4, HangUpMeans, MindsLeave DEF Inventory
    <3>2. CASE Prune
      BY <2>1, <3>2 DEF Prune, rpcVars, Listening
    <3>3. CASE HearReply
      BY <2>1, <3>3 DEF HearReply, Listening
    <3> QED
      BY <1>4, <3>1, <3>2, <3>3 DEF Minds, GiveUp, Reconnect, RestoreOwner
  <2> QED
    BY <2>2, <2>3 DEF Listening
<1>5. CASE LoseRequest
  <2>1. /\ wire \in Seq(Requests) /\ wire # <<>> /\ wire' = Tail(wire)
        /\ UNCHANGED <<spks, opks, unconfirmed, task, reply, served>>
    BY <1>5 DEF LoseRequest, Vending, Inventory, Sent, ownerVars, ramVars, dirVars
  <2>2. /\ Len(wire') = Len(wire) - 1 /\ Len(wire) \in Nat
        /\ \A i \in DOMAIN wire' : i \in Nat /\ i + 1 \in DOMAIN wire /\ wire'[i] = wire[i + 1]
    BY <2>1, Leaves
  <2>3. \A i \in DOMAIN wire' : wire'[i].live => i = Len(wire') /\ task # "idle"
    BY <2>2 DEF Listening
  <2>4. reply' = {}
    BY <2>1 DEF Listening
  <2>5. task = "register" => /\ unconfirmed /\ spks # Nothing
                             /\ \A i \in DOMAIN wire' : wire'[i].live => wire'[i].op = "register" /\ Backed(wire[i])'
    BY <2>1, <2>2 DEF Listening, Backed
  <2> QED
    BY <2>1, <2>3, <2>4, <2>5 DEF Listening
<1>6. ASSUME NEW p \in Peer, Fetches(p)
      PROVE  Listening'
  BY <1>3, <1>6, FetchesMean DEF ownerVars, ramVars, rpcVars
<1>7. ASSUME NEW p \in Peer, Ages(p)
      PROVE  Listening'
  BY <1>0, <1>3, <1>7, AgesMean DEF ownerVars, ramVars, rpcVars
<1>8. ASSUME NEW m \in initials, Ends(m)
      PROVE  Listening'
  <2>1. UNCHANGED <<wire, reply, task, unconfirmed, spks, served>>
    BY <1>0, <1>8, EndsMean DEF rpcVars, dirVars
  <2>2. \A i \in DOMAIN wire : Backed(wire[i]) => Backed(wire[i])'
    BY <1>8, <2>1, Consumed DEF Backed, Holds, Vending, Offered
  <2> QED
    BY <2>1, <2>2 DEF Listening
<1>9. CASE UNCHANGED vars
  BY <1>3, <1>9 DEF vars, ownerVars, ramVars, rpcVars, dirVars
<1> QED
  BY <1>1, <1>2, <1>4, <1>5, <1>6, <1>7, <1>8, <1>9, Steps

\* An available row, and a request on the wire, offer what nobody was given.
LEMMA NotGiven ==
  ASSUME Vending
  PROVE  /\ \A i \in AvailableIn(rows) : i \in DOMAIN rows /\ rows[i].pair \notin GivenPairs
         /\ \A i \in DOMAIN wire : \A j \in DOMAIN wire[i].opks : wire[i].opks[j] \notin GivenPairs
BY DEF Vending, Offered, AvailableIn

\* The owner's prekeys only grow, and the Directory serves the same.
LEMMA KeptGrows ==
  ASSUME Kept, Current' => Current, Clean' => Clean,
         \A k \in served' : k \in served,
         \A i \in AvailableIn(rows)' : i \in AvailableIn(rows) /\ rows'[i].pair = rows[i].pair,
         Current => \A i \in DOMAIN spks : i \in DOMAIN spks' /\ spks'[i] = spks[i],
         Current => \A i \in DOMAIN opks : i \in DOMAIN opks' /\ opks'[i] = opks[i]
  PROVE  Current' => /\ \A k \in served' : Holds(spks', k)
                     /\ \A i \in AvailableIn(rows)' : Holds(opks', [id |-> i, pair |-> rows'[i].pair])
<1> SUFFICES ASSUME Current'
             PROVE  /\ \A k \in served' : Holds(spks', k)
                    /\ \A i \in AvailableIn(rows)' : Holds(opks', [id |-> i, pair |-> rows'[i].pair])
  OBVIOUS
<1>1. /\ \A k \in served : Holds(spks, k)
      /\ \A i \in AvailableIn(rows) : Holds(opks, [id |-> i, pair |-> rows[i].pair])
  BY DEF Kept
<1> QED
  BY <1>1 DEF Holds

LEMMA KeptStarts ==
  ASSUME Vending, Listening, Kept, NEW r, Asked(r)
  PROVE  Kept' /\ (Current' => Current /\ r.op = "publish")
<1>1. /\ wire \in Seq(Requests) /\ r \in Requests /\ wire' = Append(wire, r)
      /\ reply' = reply /\ task = "idle" /\ task' = r.op /\ UNCHANGED <<served, rows>>
  BY DEF Asked, Vending, Inventory, Sent, dirVars
<1>2. reply' = {}
  BY <1>1 DEF Listening
<1>3. r.op \in {"register", "publish"}
  BY <1>1, RequestsAre
<1>4. CASE r.op = "register"
  <2>1. ~Clean' /\ ~Current'
    BY <1>2, <1>4 DEF Asked, Clean, Current
  <2> QED
    BY <2>1 DEF Kept
<1>5. CASE r.op = "publish"
  <2>1. /\ UNCHANGED <<unconfirmed, published>> /\ spks # Nothing
        /\ Grows(spks, spks') /\ Grows(opks, opks')
        /\ spks' = spks \/ NewestId(spks') > NewestId(spks)
        /\ r.spk.id = NewestId(spks') /\ Backed(r)'
    <3>1. Holds(spks', r.spk) /\ \A i \in DOMAIN r.opks : Holds(opks', [id |-> i, pair |-> r.opks[i]])
      BY DEF Asked, Holds
    <3>2. Backed(r)'
      BY <3>1 DEF Backed
    <3> QED
      BY <1>5, <3>2 DEF Asked
  <2>2. (Clean' => Clean) /\ (Current' => Clean)
    BY <1>2, <2>1 DEF Clean, Current
  <2>3. Clean => Current
    BY DEF Current
  <2>4. Current' => /\ \A k \in served' : Holds(spks', k)
                    /\ \A i \in AvailableIn(rows)' : Holds(opks', [id |-> i, pair |-> rows'[i].pair])
    BY <1>1, <2>1, <2>2, <2>3, KeptGrows DEF Grows
  <2>5. ASSUME Clean'
        PROVE  /\ \A i \in DOMAIN wire' : Backed(wire[i])'
               /\ published' <= NewestId(spks')
               /\ published' = NewestId(spks') => /\ \A k \in served' : k.id = published'
                                                  /\ \A i \in DOMAIN wire' : wire'[i].spk.id = published'
    <3>0. Clean
      BY <2>2, <2>5
    <3>1. /\ DOMAIN wire' = DOMAIN wire \cup {Len(wire) + 1}
          /\ \A i \in DOMAIN wire : wire'[i] = wire[i]
          /\ wire'[Len(wire) + 1] = r
      BY <1>1, Joins
    <3>2. \A i \in DOMAIN wire : Backed(wire[i])'
      BY <2>1, <3>0, <3>1 DEF Kept, Backed, Holds, Grows
    <3>3. \A i \in DOMAIN wire' : Backed(wire[i])'
      BY <2>1, <3>1, <3>2 DEF Backed
    <3>4. /\ published \in Nat /\ NewestId(spks) \in Nat /\ NewestId(spks') \in Nat
      <4>1. minted \in 0 .. MaxPairs /\ spks \in Batches /\ DOMAIN spks \subseteq Born
        BY DEF Vending, Inventory, Owned
      <4>2. r.spk.id \in Nat
        BY <1>1, RequestsAre DEF Pair
      <4> QED
        BY <2>1, <4>1, <4>2, NewestIs DEF Vending, Inventory, Owned
    <3>5. published' <= NewestId(spks')
      BY <2>1, <3>0, <3>4 DEF Kept
    <3>6. published' = NewestId(spks') => spks' = spks
      BY <2>1, <3>0, <3>4 DEF Kept
    <3>7. published' = NewestId(spks') => /\ \A k \in served' : k.id = published'
                                          /\ \A i \in DOMAIN wire' : wire'[i].spk.id = published'
      BY <1>1, <2>1, <3>0, <3>1, <3>6 DEF Kept
    <3> QED
      BY <3>3, <3>5, <3>7
  <2>6. Kept'
    BY <2>4, <2>5 DEF Kept
  <2> QED
    BY <1>5, <2>2, <2>3, <2>6
<1> QED
  BY <1>3, <1>4, <1>5

LEMMA KeptServes ==
  ASSUME Vending, Listening, Kept, NEW r, Serves(r)
  PROVE  Kept' /\ (Current' => Clean \/ r.op = "register")
<1>1. /\ wire \in Seq(Requests) /\ wire # <<>> /\ wire' = Tail(wire) /\ served' = {r.spk}
      /\ r = Head(wire) /\ UNCHANGED <<spks, opks, unconfirmed, task, published>>
  BY DEF Serves, Vending, Inventory, Sent, ownerVars, ramVars
<1>2. /\ \A i \in DOMAIN wire' : i + 1 \in DOMAIN wire /\ wire'[i] = wire[i + 1]
      /\ 1 \in DOMAIN wire /\ r = wire[1] /\ r \in Requests
  BY <1>1, Leaves
<1>3. r.op \in {"register", "publish"}
  BY <1>2, RequestsAre
<1>4. Clean' = Clean
  BY <1>1 DEF Clean
<1>5. reply' # {} /\ task = "register" => r.op = "register" /\ Backed(r)
  BY ListeningServes
<1>6. Current' => Backed(r) /\ (Clean \/ r.op = "register")
  <2>1. Clean => Backed(r)
    BY <1>2 DEF Kept
  <2> QED
    BY <1>1, <1>4, <1>5, <2>1 DEF Current
<1>7. \A i \in AvailableIn(rows)' : \/ r.op = "publish" /\ i \in AvailableIn(rows) /\ rows'[i] = rows[i]
                                    \/ i \in DOMAIN r.opks /\ rows'[i].pair = r.opks[i]
  BY DEF Serves, Taking, AvailableIn
<1>8. ASSUME Current'
      PROVE  /\ \A k \in served' : Holds(spks', k)
             /\ \A i \in AvailableIn(rows)' : Holds(opks', [id |-> i, pair |-> rows'[i].pair])
  <2>1. \A k \in served' : Holds(spks', k)
    BY <1>1, <1>6, <1>8 DEF Backed
  <2>2. r.op = "publish" => \A i \in AvailableIn(rows) : Holds(opks, [id |-> i, pair |-> rows[i].pair])
    BY <1>6, <1>8 DEF Kept, Current
  <2>3. \A i \in DOMAIN r.opks : Holds(opks, [id |-> i, pair |-> r.opks[i]])
    BY <1>6, <1>8 DEF Backed
  <2>4. \A i \in AvailableIn(rows)' : Holds(opks', [id |-> i, pair |-> rows'[i].pair])
    BY <1>1, <1>7, <2>2, <2>3 DEF Holds
  <2> QED
    BY <2>1, <2>4
<1>9. ASSUME Clean'
      PROVE  /\ \A i \in DOMAIN wire' : Backed(wire[i])'
             /\ published' <= NewestId(spks')
             /\ published' = NewestId(spks') => /\ \A k \in served' : k.id = published'
                                                /\ \A i \in DOMAIN wire' : wire'[i].spk.id = published'
  <2>1. Clean
    BY <1>4, <1>9
  <2>2. \A i \in DOMAIN wire' : Backed(wire[i])'
    BY <1>1, <1>2, <2>1 DEF Kept, Backed
  <2>3. published' <= NewestId(spks')
    BY <1>1, <2>1 DEF Kept
  <2>4. published' = NewestId(spks') => /\ \A k \in served' : k.id = published'
                                        /\ \A i \in DOMAIN wire' : wire'[i].spk.id = published'
    BY <1>1, <1>2, <2>1 DEF Kept
  <2> QED
    BY <2>2, <2>3, <2>4
<1>10. Kept'
  BY <1>8, <1>9 DEF Kept
<1> QED
  BY <1>6, <1>10

LEMMA KeptPrunes ==
  ASSUME Vending, Listening, Kept, Prune
  PROVE  Kept' /\ (Current' => Current)
<1>0. /\ minted \in 0 .. MaxPairs /\ spks \in Batches /\ DOMAIN spks \subseteq Born
  BY DEF Vending, Inventory, Owned
<1>1. PICK gone \in SUBSET Retired : spks' = Without(spks, gone)
  BY DEF Prune
<1>2. /\ task = "idle" /\ published = NewestId(spks) /\ Clean
      /\ UNCHANGED <<opks, published, unconfirmed, task, wire, reply, served, rows>>
  BY DEF Prune, RecoveryDue, Clean, ramVars, rpcVars, dirVars
<1>3. /\ spks' \in Batches /\ DOMAIN spks' = DOMAIN spks \ gone
      /\ \A i \in DOMAIN spks' : spks'[i] = spks[i]
  <2>1. /\ Without(spks, gone) \in Batches /\ DOMAIN Without(spks, gone) = DOMAIN spks \ gone
        /\ \A i \in DOMAIN spks \ gone : Without(spks, gone)[i] = spks[i]
    BY <1>0, WithoutIs
  <2> QED
    BY <1>1, <2>1
<1>4. PICK n : n = NewestId(spks)
  OBVIOUS
<1>5. n \in DOMAIN spks /\ n \notin gone /\ n \in 0 .. minted /\ \A i \in DOMAIN spks : n >= i
  BY <1>0, <1>1, <1>2, <1>4, NewestIs DEF Clean, Retired
<1>6. NewestId(spks') = n
  <2>1. DOMAIN spks' \in SUBSET (1 .. minted) /\ n \in DOMAIN spks'
    BY <1>0, <1>3, <1>5 DEF Born
  <2>2. PICK b : b = Biggest(DOMAIN spks')
    OBVIOUS
  <2>3. b \in DOMAIN spks' /\ b >= n
    BY <1>0, <2>1, <2>2, Greatest
  <2>4. n >= b
    BY <1>3, <1>5, <2>3
  <2>5. b \in 1 .. minted
    BY <2>1, <2>3
  <2>6. b = n
    BY <1>0, <1>5, <2>3, <2>4, <2>5
  <2> QED
    BY <2>2, <2>6 DEF NewestId
<1>7. \A k \in served : Holds(spks', k)
  BY <1>2, <1>3, <1>4, <1>5 DEF Kept, Current, Holds
<1>8. \A i \in AvailableIn(rows) : Holds(opks, [id |-> i, pair |-> rows[i].pair])
  BY <1>2 DEF Kept, Current
<1>9. \A i \in DOMAIN wire' : Backed(wire[i])'
  <2>1. \A i \in DOMAIN wire : Backed(wire[i]) /\ wire[i].spk.id = n
    BY <1>2, <1>4 DEF Kept
  <2> QED
    BY <1>2, <1>3, <1>5, <2>1 DEF Backed, Holds
<1>10. Kept'
  <2>1. published' <= NewestId(spks')
    BY <1>0, <1>2, <1>4, <1>5, <1>6
  <2>2. /\ \A k \in served' : k.id = published'
        /\ \A i \in DOMAIN wire' : wire'[i].spk.id = published'
    BY <1>2 DEF Kept
  <2> QED
    BY <1>2, <1>7, <1>8, <1>9, <2>1, <2>2 DEF Kept
<1> QED
  BY <1>2, <1>10 DEF Current

LEMMA KeptHears ==
  ASSUME Vending, Listening, Kept, HearReply
  PROVE  Kept' /\ (Current' => Current)
<1>1. PICK q \in reply : /\ reply' = {} /\ task' = "idle"
                         /\ UNCHANGED <<minted, spks, opks, wire, dirVars, peerVars, initialVars>>
                         /\ \/ published' = q.spk /\ unconfirmed' = (unconfirmed /\ task # "register")
                            \/ UNCHANGED <<published, unconfirmed>>
  BY DEF HearReply
<1>2. /\ wire = <<>> /\ wire' = <<>> /\ served' = served /\ rows' = rows
      /\ \A k \in served : q.spk = k.id
      /\ served # {}
  BY <1>1 DEF Listening, dirVars
<1>3. Current' => Clean'
  BY <1>1 DEF Current
<1>4. Clean' => Current
  BY <1>1 DEF Current, Clean
<1>5. ASSUME Current
      PROVE  /\ \A k \in served' : Holds(spks', k)
             /\ \A i \in AvailableIn(rows)' : Holds(opks', [id |-> i, pair |-> rows'[i].pair])
  BY <1>1, <1>2, <1>5 DEF Kept, AvailableIn
<1>6. \A i \in DOMAIN wire' : Backed(wire[i])'
  BY <1>2
<1>7. ASSUME Clean'
      PROVE  /\ published' <= NewestId(spks')
             /\ published' = NewestId(spks') => /\ \A k \in served' : k.id = published'
                                                /\ \A i \in DOMAIN wire' : wire'[i].spk.id = published'
  <2>1. CASE published' = q.spk
    <3>1. PICK k \in served : k.id = q.spk /\ Holds(spks, k)
      BY <1>2, <1>4, <1>7 DEF Kept
    <3>2. q.spk \in DOMAIN spks /\ spks' = spks
      BY <1>1, <3>1 DEF Holds
    <3>3. q.spk <= NewestId(spks)
      <4>1. minted \in 0 .. MaxPairs /\ spks \in Batches /\ DOMAIN spks \subseteq Born
        BY DEF Vending, Inventory, Owned
      <4> QED
        BY <3>2, <4>1, NewestIs DEF Born
    <3> QED
      BY <1>2, <2>1, <3>2, <3>3
  <2>2. CASE UNCHANGED <<published, unconfirmed>>
    <3>1. Clean /\ spks' = spks
      BY <1>1, <1>7, <2>2 DEF Clean
    <3> QED
      BY <1>2, <2>2, <3>1 DEF Kept
  <2> QED
    BY <1>1, <2>1, <2>2
<1>8. Kept'
  BY <1>3, <1>4, <1>5, <1>6, <1>7 DEF Kept
<1> QED
  BY <1>3, <1>4, <1>8

\* Nothing that counts here changes, but that the wire and the ring of one-time
\* prekeys lose some.
LEMMA KeptShrinks ==
  ASSUME Kept, UNCHANGED <<spks, published, unconfirmed, served>>, Current' => Current,
         \A i \in DOMAIN wire' : \E j \in DOMAIN wire : /\ wire'[i].spk = wire[j].spk
                                                        /\ wire'[i].opks = wire[j].opks
                                                        /\ \A x \in DOMAIN wire[j].opks : wire[j].opks[x] \notin GivenPairs,
         \A i \in AvailableIn(rows)' : /\ i \in AvailableIn(rows) /\ rows'[i].pair = rows[i].pair
                                       /\ rows[i].pair \notin GivenPairs,
         \A i \in DOMAIN opks : opks[i] \notin GivenPairs => i \in DOMAIN opks' /\ opks'[i] = opks[i]
  PROVE  Kept'
<1>1. ASSUME Current'
      PROVE  /\ \A k \in served' : Holds(spks', k)
             /\ \A i \in AvailableIn(rows)' : Holds(opks', [id |-> i, pair |-> rows'[i].pair])
  <2>1. /\ \A k \in served : Holds(spks, k)
        /\ \A i \in AvailableIn(rows) : Holds(opks, [id |-> i, pair |-> rows[i].pair])
    BY <1>1 DEF Kept
  <2> QED
    BY <2>1 DEF Holds
<1>2. ASSUME Clean'
      PROVE  /\ \A i \in DOMAIN wire' : Backed(wire[i])'
             /\ published' <= NewestId(spks')
             /\ published' = NewestId(spks') => /\ \A k \in served' : k.id = published'
                                                /\ \A i \in DOMAIN wire' : wire'[i].spk.id = published'
  <2>1. Clean
    BY <1>2 DEF Clean
  <2>2. \A i \in DOMAIN wire' : Backed(wire[i])'
    BY <2>1 DEF Kept, Backed, Holds
  <2> QED
    BY <2>1, <2>2 DEF Kept
<1> QED
  BY <1>1, <1>2 DEF Kept

LEMMA KeptStays ==
  ASSUME Vending, Listening, Kept, [Next]_vars
  PROVE  Kept' /\ (Current' => Current \/ DirRegister)
<1>0. Inventory /\ VendedTheirs /\ wire \in Seq(Requests)
  BY DEF Vending, Inventory, Sent
<1>1. CASE Starts
  BY <1>0, <1>1, StartsMean, KeptStarts DEF Inventory
<1>2. CASE DirRegister \/ DirPublish
  <2>1. PICK r : Serves(r)
    BY <1>0, <1>2, ServesMean DEF Inventory
  <2>2. DirPublish => r.op # "register"
    BY <2>1 DEF DirPublish, Serve, Serves
  <2> QED
    BY <1>2, <2>1, <2>2, KeptServes DEF Current
<1>3. CASE HangUp /\ (GiveUp \/ Reconnect \/ RestoreOwner)
  <2>1. /\ DOMAIN wire' = DOMAIN wire /\ task' = "idle"
        /\ \A i \in DOMAIN wire : wire'[i].spk = wire[i].spk /\ wire'[i].opks = wire[i].opks
        /\ UNCHANGED <<rows, served>>
    BY <1>0, <1>3, HangUpMeans, MindsLeave DEF Minds, Inventory, dirVars
  <2>2. CASE GiveUp \/ Reconnect
    <3>1. UNCHANGED <<spks, opks, published, unconfirmed>>
      BY <2>2 DEF GiveUp, Reconnect, ownerVars
    <3>2. Current' => Current
      BY <2>1, <3>1 DEF Current, Clean
    <3> QED
      BY <2>1, <3>1, <3>2, KeptShrinks, NotGiven DEF AvailableIn
  <2>3. CASE RestoreOwner
    <3>1. ~Clean' /\ ~Current'
      BY <2>1, <2>3 DEF RestoreOwner, Clean, Current
    <3> QED
      BY <3>1 DEF Kept
  <2> QED
    BY <1>3, <2>2, <2>3
<1>4. CASE Prune \/ HearReply
  BY <1>4, KeptPrunes, KeptHears
<1>5. CASE LoseRequest
  <2>1. /\ wire # <<>> /\ wire' = Tail(wire)
        /\ UNCHANGED <<spks, opks, published, unconfirmed, task, reply, served, rows>>
    BY <1>5 DEF LoseRequest, ownerVars, ramVars, dirVars
  <2>2. \A i \in DOMAIN wire' : i + 1 \in DOMAIN wire /\ wire'[i] = wire[i + 1]
    BY <1>0, <2>1, Leaves
  <2>3. Current' => Current
    BY <2>1 DEF Current, Clean
  <2> QED
    BY <2>1, <2>2, <2>3, KeptShrinks, NotGiven DEF AvailableIn
<1>6. ASSUME NEW p \in Peer, Fetches(p)
      PROVE  Kept' /\ (Current' => Current)
  <2>1. Fetch(p) /\ UNCHANGED <<spks, opks, published, unconfirmed, task, wire, reply, served>>
    BY <1>6, FetchesMean DEF ownerVars, ramVars, rpcVars
  <2>2. \A i \in AvailableIn(rows)' : i \in AvailableIn(rows) /\ rows'[i].pair = rows[i].pair
    <3>1. /\ DOMAIN rows' \subseteq DOMAIN rows
          /\ \A i \in DOMAIN rows' : /\ rows'[i].pair = rows[i].pair
                                     /\ rows[i].vended => rows'[i].vended
      BY <1>0, <2>1, FetchMeans
    <3> QED
      BY <3>1 DEF AvailableIn
  <2>3. Current' => Current
    BY <2>1 DEF Current, Clean
  <2> QED
    BY <2>1, <2>2, <2>3, KeptShrinks, NotGiven
<1>7. ASSUME NEW p \in Peer, Ages(p)
      PROVE  Kept' /\ (Current' => Current)
  <2>1. UNCHANGED <<spks, opks, published, unconfirmed, task, wire, reply, served, rows>>
    BY <1>0, <1>7, AgesMean DEF ownerVars, ramVars, rpcVars
  <2>2. Current' => Current
    BY <2>1 DEF Current, Clean
  <2> QED
    BY <2>1, <2>2, KeptShrinks, NotGiven DEF AvailableIn
<1>8. ASSUME NEW m \in initials, Ends(m)
      PROVE  Kept' /\ (Current' => Current)
  <2>1. UNCHANGED <<spks, published, unconfirmed, task, wire, reply, served, rows>>
    BY <1>0, <1>8, EndsMean DEF rpcVars, dirVars
  <2>2. Current' => Current
    BY <2>1 DEF Current, Clean
  <2> QED
    BY <1>8, <2>1, <2>2, Consumed, KeptShrinks, NotGiven DEF AvailableIn
<1>9. CASE UNCHANGED vars
  <2>1. UNCHANGED <<spks, opks, published, unconfirmed, task, wire, reply, served, rows>>
    BY <1>9 DEF vars, ownerVars, ramVars, rpcVars, dirVars
  <2>2. Current' => Current
    BY <2>1 DEF Current, Clean
  <2> QED
    BY <2>1, <2>2, KeptShrinks, NotGiven DEF AvailableIn
<1> QED
  BY <1>1, <1>2, <1>3, <1>4, <1>5, <1>6, <1>7, <1>8, <1>9, Steps DEF Minds, GiveUp, Reconnect, RestoreOwner

LEMMA ServingInit == Init => Serving
<1> SUFFICES ASSUME Init
             PROVE  Serving
  OBVIOUS
<1>1. wire = <<>> /\ reply = {} /\ task = "idle" /\ spks = Nothing
  BY DEF Init
<1>2. ~Clean /\ ~Current
  BY <1>1 DEF Clean, Current
<1>3. Listening /\ Kept
  BY <1>1, <1>2 DEF Listening, Kept
<1> QED
  BY <1>3, VendingInit DEF Serving

LEMMA ServingStays == Serving /\ [Next]_vars => Serving'
BY VendingStays, ListeningStays, KeptStays DEF Serving

\* What the Directory serves next, the owner can answer, whichever of its requests
\* were lost, served late or answered too late to be heard: until a registration is
\* under way again.
THEOREM ServedIsHeldHolds == Spec => []ServedIsHeld
<1>1. Serving => ServedIsHeld
  BY DEF Serving, Kept, Current, Clean, ServedIsHeld
<1> QED
  BY <1>1, ServingInit, ServingStays, PTL DEF Spec

-----------------------------------------------------------------------------
(* An initial built in no doubt opens.                                     *)

\* What the Directory would hand to q again stays, and so does what bars q.
LEMMA AgainSame ==
  ASSUME VendedTheirs, NEW q \in DOMAIN vends, q \in DOMAIN vends', vends'[q] = vends[q],
         vends[q].id \in DOMAIN rows', rows'[vends[q].id].pair = rows[vends[q].id].pair
  PROVE  /\ Again(q)' = Again(q) /\ VendedTo(q)' = VendedTo(q)
         /\ UNCHANGED peerVars => (Barred(q)' <=> Barred(q))
<1>1. Again(q)' = Again(q)
  BY DEF Again
<1>2. vends[q].id \in DOMAIN rows
  BY DEF VendedTheirs
<1>3. VendedTo(q)' = VendedTo(q)
  BY <1>2 DEF VendedTo, Repeats
<1> QED
  BY <1>1, <1>3 DEF Barred, peerVars

\* The peers and their initials stay, and the owner's prekeys only grow.
LEMMA UnspoiltSame ==
  ASSUME VendedTheirs, Unspoilt, UNCHANGED <<peerVars, initials>>,
         \A q \in DOMAIN vends' : /\ q \in DOMAIN vends /\ vends'[q] = vends[q]
                                  /\ vends[q].id \in DOMAIN rows'
                                  /\ rows'[vends[q].id].pair = rows[vends[q].id].pair,
         DOMAIN vends' = {} \/ (Current' => /\ Current
                                            /\ \A i \in DOMAIN opks : i \in DOMAIN opks' /\ opks'[i] = opks[i]),
         \A m \in initials : Holds(spks', m.spk) => /\ Holds(spks, m.spk)
                                                    /\ \A i \in DOMAIN opks : i \in DOMAIN opks' /\ opks'[i] = opks[i]
  PROVE  Unspoilt'
<1>1. \A m \in initials' : m.from \in stale' => "peer" \in m.doubt
  BY DEF Unspoilt, peerVars
<1>2. ASSUME NEW q \in DOMAIN vends', vends'[q].fresh /\ ~Barred(q)'
      PROVE  /\ Current' => Holds(opks', Again(q)')
             /\ \A m \in initials' : \A k \in m.opk : k.pair # Again(q)'.pair
  <2>1. Again(q)' = Again(q) /\ vends[q].fresh /\ ~Barred(q)
    BY <1>2, AgainSame
  <2>2. /\ Current => Holds(opks, Again(q))
        /\ \A m \in initials : \A k \in m.opk : k.pair # Again(q).pair
    BY <2>1 DEF Unspoilt
  <2> QED
    BY <2>1, <2>2 DEF Holds
<1>3. ASSUME NEW m \in initials', Sure(m)'
      PROVE  /\ Opens(m)'
             /\ \A n \in initials' \ {m} : \A k \in m.opk, l \in n.opk : k.pair # l.pair
  <2>0. m \in initials /\ Sure(m)
    BY <1>3 DEF Sure, peerVars
  <2>1. Opens(m)
    BY <2>0 DEF Unspoilt
  <2>2. Opens(m)'
    BY <2>0, <2>1 DEF Opens, Answers, Holds
  <2> QED
    BY <2>0, <2>2 DEF Unspoilt
<1> QED
  BY <1>1, <1>2, <1>3 DEF Unspoilt

LEMMA UnspoiltStarts ==
  ASSUME Serving, Unspoilt, NEW r, Asked(r)
  PROVE  Unspoilt'
<1>1. /\ VendedTheirs /\ UNCHANGED <<peerVars, initials, vends, rows>>
  BY DEF Serving, Vending, Asked, dirVars, initialVars
<1>2. Current' => Current /\ r.op = "publish"
  BY KeptStarts DEF Serving
<1>3. r.op = "publish" => \A i \in DOMAIN opks : i \in DOMAIN opks' /\ opks'[i] = opks[i]
  BY DEF Asked, Grows
<1>4. ASSUME NEW m \in initials, Holds(spks', m.spk)
      PROVE  Holds(spks, m.spk) /\ r.op = "publish"
  <2>1. m.spk.pair <= minted
    BY DEF Serving, Vending, Inventory, Owned, Dealt, Born
  <2>2. m.spk.id \in DOMAIN spks' /\ spks'[m.spk.id] = m.spk.pair
    BY <1>4 DEF Holds
  <2>3. minted \in Nat
    BY DEF Serving, Vending, Inventory, Owned
  <2>4. ~(m.spk.pair > minted)
    <3>1. m.spk.pair \in Nat
      BY DEF Serving, Vending, Inventory, Dealt, Born
    <3> QED
      BY <2>1, <2>3, <3>1
  <2> QED
    BY <2>2, <2>4 DEF Asked, Grows, Holds
<1>5. \A q \in DOMAIN vends : vends[q].id \in DOMAIN rows
  BY <1>1 DEF VendedTheirs
<1> QED
  BY <1>1, <1>2, <1>3, <1>4, <1>5, UnspoiltSame

LEMMA UnspoiltServes ==
  ASSUME Serving, Unspoilt, NEW r, Serves(r)
  PROVE  Unspoilt'
<1>1. VendedTheirs /\ UNCHANGED <<peerVars, initials, spks, opks>>
  BY DEF Serving, Vending, Serves, ownerVars, initialVars
<1>2. r.op \in {"register", "publish"}
  BY RequestsAre, Leaves DEF Serves, Serving, Vending, Inventory, Sent
<1>3. CASE r.op = "register"
  <2>1. DOMAIN vends' = {}
    BY <1>3 DEF Serves
  <2> QED
    BY <1>1, <2>1, UnspoiltSame
<1>4. CASE r.op = "publish"
  <2>1. vends' = vends /\ \A i \in DOMAIN rows : i \in DOMAIN rows' /\ rows'[i] = rows[i]
    BY <1>4 DEF Serves, Taking
  <2>2. \A q \in DOMAIN vends : vends[q].id \in DOMAIN rows
    BY <1>1 DEF VendedTheirs
  <2>3. Current' => Current
    BY <1>4, KeptServes DEF Serving, Current
  <2> QED
    BY <1>1, <2>1, <2>2, <2>3, UnspoiltSame
<1> QED
  BY <1>2, <1>3, <1>4

LEMMA UnspoiltMinds ==
  ASSUME Serving, Unspoilt, Minds \/ LoseRequest
  PROVE  Unspoilt'
<1>1. VendedTheirs /\ Inventory
  BY DEF Serving, Vending
<1>2. UNCHANGED <<peerVars, initials, vends, rows>>
  BY <1>1, MindsLeave, LoseRequestMeans DEF dirVars, initialVars
<1>3. \A q \in DOMAIN vends : vends[q].id \in DOMAIN rows
  BY <1>1 DEF VendedTheirs
<1>4. CASE RestoreOwner
  <2>1. spks' = Nothing /\ opks' = Nothing /\ task' = "idle"
    BY <1>4 DEF RestoreOwner, HangUp
  <2>2. ~Current' /\ \A m \in initials : ~Holds(spks', m.spk)
    BY <2>1, EmptyIsNothing DEF Current, Clean, Holds
  <2> QED
    BY <1>1, <1>2, <1>3, <2>2, UnspoiltSame
<1>5. CASE ~RestoreOwner
  <2>1. opks' = opks
    BY <1>5 DEF Minds, Prune, HearReply, GiveUp, Reconnect, LoseRequest, ownerVars
  <2>2. \A m \in initials : Holds(spks', m.spk) => Holds(spks, m.spk)
    <3>1. CASE Prune
      BY <3>1 DEF Prune, Without, Holds
    <3>2. CASE spks' = spks
      BY <3>2 DEF Holds
    <3> QED
      BY <1>5, <3>1, <3>2 DEF Minds, HearReply, GiveUp, Reconnect, LoseRequest, ownerVars
  <2>3. Current' => Current
    <3>1. CASE Prune \/ HearReply
      BY <3>1, KeptPrunes, KeptHears DEF Serving
    <3>2. CASE GiveUp \/ Reconnect \/ LoseRequest
      BY <3>2 DEF GiveUp, Reconnect, LoseRequest, HangUp, ownerVars, ramVars, Current, Clean
    <3> QED
      BY <1>5, <3>1, <3>2 DEF Minds
  <2> QED
    BY <1>1, <1>2, <1>3, <2>1, <2>2, <2>3, UnspoiltSame
<1> QED
  BY <1>4, <1>5

LEMMA UnspoiltEnds ==
  ASSUME Serving, Unspoilt, NEW m \in initials, Ends(m)
  PROVE  Unspoilt'
<1>1. Inventory /\ VendedTheirs /\ Vending
  BY DEF Serving, Vending
<1>2. /\ initials' = initials \ {m}
      /\ UNCHANGED <<spks, unconfirmed, task, reply, rows, vends, peerVars>>
      /\ \A i \in DOMAIN opks' : i \in DOMAIN opks /\ opks'[i] = opks[i]
      /\ opks' = opks \/ (Answers(m) /\ \A i \in DOMAIN opks \ DOMAIN opks' : \E k \in m.opk : i = k.id)
  BY <1>1, EndsMean DEF rpcVars, dirVars
<1>3. Current' = Current
  BY <1>2 DEF Current, Clean
<1>4. ASSUME NEW e, Holds(opks, e), \A k \in m.opk : k.pair # e.pair
      PROVE  Holds(opks', e)
  <2>1. e.id \in DOMAIN opks /\ opks[e.id] = e.pair
    BY <1>4 DEF Holds
  <2>2. e.id \notin DOMAIN opks' => \E k \in m.opk : e.id = k.id /\ opks[k.id] = k.pair
    BY <1>2, <2>1 DEF Answers, Holds
  <2>3. e.id \in DOMAIN opks'
    BY <1>4, <2>1, <2>2
  <2> QED
    BY <1>2, <2>1, <2>3 DEF Holds
<1>5. \A n \in initials' : n.from \in stale' => "peer" \in n.doubt
  BY <1>2 DEF Unspoilt, peerVars
<1>6. ASSUME NEW q \in DOMAIN vends', vends'[q].fresh /\ ~Barred(q)'
      PROVE  /\ Current' => Holds(opks', Again(q)')
             /\ \A n \in initials' : \A k \in n.opk : k.pair # Again(q)'.pair
  <2>1. Again(q)' = Again(q) /\ vends[q].fresh /\ ~Barred(q) /\ q \in DOMAIN vends
    <3>1. q \in DOMAIN vends /\ vends[q].id \in DOMAIN rows
      BY <1>1, <1>2 DEF VendedTheirs
    <3> QED
      BY <1>1, <1>2, <1>6, <3>1, AgainSame
  <2>2. /\ Current => Holds(opks, Again(q))
        /\ \A n \in initials : \A k \in n.opk : k.pair # Again(q).pair
    BY <2>1 DEF Unspoilt
  <2> QED
    BY <1>2, <1>3, <1>4, <2>1, <2>2
<1>7. ASSUME NEW n \in initials', Sure(n)'
      PROVE  /\ Opens(n)'
             /\ \A o \in initials' \ {n} : \A k \in n.opk, l \in o.opk : k.pair # l.pair
  <2>1. n \in initials /\ n # m /\ Sure(n)
    BY <1>2, <1>7 DEF Sure, peerVars
  <2>2. Opens(n) /\ \A o \in initials \ {n} : \A k \in n.opk, l \in o.opk : k.pair # l.pair
    BY <2>1 DEF Unspoilt
  <2>3. \A k \in n.opk : Holds(opks, k) => Holds(opks', k)
    BY <1>4, <2>1, <2>2
  <2>4. Opens(n)'
    <3>1. Holds(spks', n.spk) => Holds(spks, n.spk)
      BY <1>2 DEF Holds
    <3> QED
      BY <2>2, <2>3, <3>1, <1>2 DEF Opens, Answers
  <2> QED
    BY <1>2, <2>2, <2>4
<1> QED
  BY <1>5, <1>6, <1>7 DEF Unspoilt

\* What may bar a peer from its prekey lasts for as long as the vend is fresh; where the
\* session or the marker that did goes, the prekey is forgone.
LEMMA BarsLast ==
  ASSUME Vending, NEW p \in Peer, Ages(p),
         NEW q \in DOMAIN vends', vends'[q].fresh, Barred(q)
  PROVE  Barred(q)'
<1>1. /\ q \in DOMAIN vends /\ vends'[q].id = vends[q].id /\ vends[q].fresh
      /\ rows' = rows /\ vends[q].id \in DOMAIN rows
  BY AgesMean DEF Vending, VendedTheirs
<1>2. VendedTo(q)' = VendedTo(q) /\ VendedTo(q) = rows[vends[q].id].pair
  BY <1>1 DEF VendedTo, Repeats
<1>3. VendedTo(q) \in Pair /\ 0 \notin Pair
  BY <1>1, <1>2, RowsAre DEF Vending, Inventory, Stocked, Pair
<1>4. ASSUME Forgoes(p), q = p
      PROVE  Barred(q)'
  <2>1. <<VendedTo(q), q>> \in forgone'
    BY <1>3, <1>4 DEF Forgoes
  <2> QED
    BY <1>2, <2>1 DEF Barred
<1>5. CASE <<VendedTo(q), q>> \in forgone
  BY <1>2, <1>5, ForgoneGrows DEF Barred
<1>6. CASE <<VendedTo(q), q>> \notin forgone
  <2>1. CASE VendLapses(p)
    BY <1>2, <1>6, <2>1 DEF VendLapses, Barred, peerVars
  <2>2. CASE Dismiss(p)
    <3>1. session' = session /\ stale' = stale
      BY <2>2 DEF Dismiss
    <3>2. CASE p \in session
      <4>1. dismissed' = [x \in DOMAIN dismissed \cup {p} |-> IF x = p THEN VendedTo(p) ELSE dismissed[x]]
        BY <2>2, <3>2 DEF Dismiss
      <4> QED
        BY <1>2, <1>6, <3>1, <4>1 DEF Barred
    <3>3. CASE p \notin session
      <4>1. Forgoes(p) /\ dismissed' = Without(dismissed, {p})
        BY <2>2, <3>3 DEF Dismiss
      <4>2. CASE q # p
        BY <1>2, <1>6, <3>1, <4>1, <4>2 DEF Barred, Without
      <4> QED
        BY <1>4, <4>1, <4>2
    <3> QED
      BY <3>2, <3>3
  <2>3. CASE DismissalLapses(p)
    <3>1. /\ session' = session /\ stale' = stale /\ dismissed' = Without(dismissed, {p})
          /\ p \in DOMAIN dismissed /\ VendedTo(p) \in {0} \cup (Pair \ {dismissed[p]})
      BY <2>3 DEF DismissalLapses
    <3>2. CASE q = p
      BY <1>2, <1>3, <1>6, <3>1, <3>2 DEF Barred
    <3>3. CASE q # p
      BY <1>2, <1>6, <3>1, <3>3 DEF Barred, Without
    <3> QED
      BY <3>2, <3>3
  <2>4. CASE LoseSession(p)
    <3>1. session' = session \ {p} /\ UNCHANGED <<dismissed, stale>>
          /\ (p \in DOMAIN dismissed \/ Forgoes(p))
      BY <2>4 DEF LoseSession
    <3>2. CASE q # p \/ p \in DOMAIN dismissed
      BY <1>2, <1>6, <3>1, <3>2 DEF Barred
    <3> QED
      BY <1>4, <3>1, <3>2
  <2>5. CASE RestorePeer(p)
    BY <1>2, <1>6, <2>5 DEF RestorePeer, Barred, Without
  <2>6. CASE PeerReregisters(p)
    <3>1. q # p
      BY <2>6 DEF PeerReregisters, Without
    <3> QED
      BY <1>2, <1>6, <2>6, <3>1 DEF PeerReregisters, Barred
  <2> QED
    BY <2>1, <2>2, <2>3, <2>4, <2>5, <2>6 DEF Ages
<1> QED
  BY <1>5, <1>6

\* A peer's initials keep their prekeys, and those in no doubt are as they were.
LEMMA InitialsAge ==
  ASSUME Vending, NEW p \in Peer, Ages(p)
  PROVE  \A n \in initials' :
           /\ \E m \in initials : n.from = m.from /\ n.opk = m.opk /\ m.doubt \subseteq n.doubt
           /\ RestorePeer(p) /\ n.from = p => "peer" \in n.doubt
           /\ n.doubt = {} => n \in initials
<1>1. CASE RestorePeer(p)
  <2> SUFFICES ASSUME NEW n \in initials'
               PROVE  /\ \E m \in initials : n.from = m.from /\ n.opk = m.opk /\ m.doubt \subseteq n.doubt
                      /\ n.from = p => "peer" \in n.doubt
                      /\ n.doubt = {} => n \in initials
    OBVIOUS
  <2>1. PICK m \in initials : n = IF m.from = p THEN [m EXCEPT !.doubt = @ \cup {"peer"}] ELSE m
    BY <1>1 DEF RestorePeer
  <2>2. m \in Initial
    BY DEF Vending, Inventory, Dealt
  <2>3. CASE m.from = p
    <3>1. /\ n.from = m.from /\ n.opk = m.opk /\ m.doubt \subseteq n.doubt /\ "peer" \in n.doubt
      BY <2>1, <2>2, <2>3 DEF Initial
    <3> QED
      BY <3>1
  <2>4. CASE m.from # p
    BY <2>1, <2>4
  <2> QED
    BY <2>3, <2>4
<1>2. CASE initials' = initials /\ ~RestorePeer(p)
  BY <1>2
<1>3. RestorePeer(p) \/ initials' = initials
  BY DEF Ages, VendLapses, Dismiss, DismissalLapses, LoseSession, PeerReregisters, initialVars
<1> QED
  BY <1>1, <1>2, <1>3

LEMMA UnspoiltAges ==
  ASSUME Serving, Unspoilt, NEW p \in Peer, Ages(p)
  PROVE  Unspoilt'
<1>1. /\ Vending /\ Inventory /\ VendedTheirs
      /\ UNCHANGED <<spks, opks, unconfirmed, task, reply, rows>>
  BY AgesMean DEF Serving, Vending, ownerVars, ramVars, rpcVars
<1>2. Current' = Current
  BY <1>1 DEF Current, Clean
<1>3. \A n \in initials' : n.from \in stale' => "peer" \in n.doubt
  <2>1. stale' \subseteq stale \/ (RestorePeer(p) /\ stale' = stale \cup {p})
    BY DEF Ages, VendLapses, Dismiss, DismissalLapses, LoseSession, RestorePeer, PeerReregisters, peerVars
  <2> QED
    BY <1>1, <2>1, InitialsAge DEF Unspoilt
<1>4. ASSUME NEW q \in DOMAIN vends', vends'[q].fresh /\ ~Barred(q)'
      PROVE  /\ Current' => Holds(opks', Again(q)')
             /\ \A m \in initials' : \A k \in m.opk : k.pair # Again(q)'.pair
  <2>1. q \in DOMAIN vends /\ vends'[q].id = vends[q].id /\ vends[q].fresh
    BY <1>1, <1>4, AgesMean
  <2>2. ~Barred(q)
    BY <1>1, <1>4, BarsLast
  <2>3. Again(q)' = Again(q)
    BY <1>1, <2>1 DEF Again
  <2>4. /\ Current => Holds(opks, Again(q))
        /\ \A m \in initials : \A k \in m.opk : k.pair # Again(q).pair
    BY <2>1, <2>2 DEF Unspoilt
  <2>5. \A n \in initials' : \E m \in initials : n.opk = m.opk
    BY <1>1, InitialsAge
  <2> QED
    BY <1>1, <1>2, <2>3, <2>4, <2>5
<1>5. ASSUME NEW m \in initials', Sure(m)'
      PROVE  /\ Opens(m)'
             /\ \A n \in initials' \ {m} : \A k \in m.opk, l \in n.opk : k.pair # l.pair
  <2>0. m.doubt = {} /\ \A k \in m.opk : <<k.pair, m.from>> \notin forgone
    BY <1>5, ForgoneGrows DEF Sure
  <2>1. m \in initials /\ ~(RestorePeer(p) /\ m.from = p)
    BY <1>1, <2>0, InitialsAge
  <2>2. /\ Opens(m)
        /\ \A n \in initials \ {m} : \A k \in m.opk, l \in n.opk : k.pair # l.pair
    BY <2>0, <2>1 DEF Unspoilt, Sure
  <2>3. Opens(m)'
    BY <1>1, <2>2 DEF Opens, Answers
  <2>4. \A n \in initials' \ {m} : \E o \in initials \ {m} : n.opk = o.opk
    <3> SUFFICES ASSUME NEW n \in initials' \ {m}
                 PROVE  \E o \in initials \ {m} : n.opk = o.opk
      OBVIOUS
    <3>1. CASE RestorePeer(p)
      <4>1. PICK o \in initials : n = IF o.from = p THEN [o EXCEPT !.doubt = @ \cup {"peer"}] ELSE o
        BY <3>1 DEF RestorePeer
      <4>2. [o EXCEPT !.doubt = @ \cup {"peer"}].opk = o.opk
        BY <1>1 DEF Inventory, Dealt, Initial
      <4>3. o # m
        BY <2>1, <3>1, <4>1
      <4> QED
        BY <4>1, <4>2, <4>3
    <3>2. CASE initials' = initials
      BY <3>2
    <3> QED
      BY <3>1, <3>2 DEF Ages, VendLapses, Dismiss, DismissalLapses, LoseSession, PeerReregisters, initialVars
  <2> QED
    BY <2>2, <2>3, <2>4
<1> QED
  BY <1>3, <1>4, <1>5 DEF Unspoilt

LEMMA UnspoiltFetches ==
  ASSUME Serving, Unspoilt, NEW p \in Peer, Fetches(p)
  PROVE  Unspoilt'
<1>1. /\ Vending /\ Inventory /\ Offered /\ VendedTheirs
      /\ Fetch(p) /\ UNCHANGED <<spks, opks, unconfirmed, task, reply, served, dismissed, stale, forgone>>
  BY FetchesMean DEF Serving, Vending, ownerVars, ramVars, rpcVars
<1>2. Current' = Current
  BY <1>1 DEF Current, Clean
<1>3. /\ \A i \in DOMAIN rows' : /\ rows'[i].pair = rows[i].pair
                                 /\ rows[i].vended => rows'[i].vended
      /\ \A q \in DOMAIN vends \ {p} : /\ q \in DOMAIN vends' /\ vends'[q] = vends[q]
                                       /\ vends[q].id \in DOMAIN rows'
      /\ DOMAIN vends' \subseteq DOMAIN vends \cup {p}
  BY <1>1, FetchMeans
<1>4. \/ OpkFor(p) = {} /\ p \notin DOMAIN vends'
      \/ \E k : Vended(p, k)
  BY <1>1, FetchMeans
<1>5. \/ session' = session /\ initials' = initials
      \/ /\ p \notin session /\ session' = session \cup {p}
         /\ \E n \in Begun(p) : initials' = initials \cup {n}
  BY FetchesMean
<1>6. \A n \in Begun(p) : n.from = p /\ n.opk = Usable(p) /\ n.doubt = DoubtOf(p) /\ n.spk \in served
  BY DEF Begun
<1>7. /\ Usable(p) \subseteq OpkFor(p)
      /\ p \in DOMAIN dismissed => Usable(p) = {}
      /\ DoubtOf(p) = {} => ~unconfirmed /\ p \notin stale
      /\ p \in stale => "peer" \in DoubtOf(p)
  <2>1. /\ unconfirmed => "owner" \in DoubtOf(p)
        /\ p \in stale => "peer" \in DoubtOf(p)
    BY DEF DoubtOf
  <2> QED
    BY <2>1 DEF Usable
\* What is handed out is not in an initial of another peer, nor in one of p's own
\* but when p is barred or the prekey was vended to it before.
<1>8. ASSUME NEW k, Vended(p, k)
      PROVE  /\ Current /\ ~Barred(p) => Holds(opks, k)
             /\ ~Barred(p) => \A m \in initials : \A l \in m.opk : l.pair # k.pair
             /\ \A m \in initials : \A l \in m.opk : l.pair = k.pair => m.from = p
             /\ k.id \in AvailableIn(rows) => /\ Current => Holds(opks, k)
                                              /\ \A m \in initials : \A l \in m.opk : l.pair # k.pair
  <2>1. \A m \in initials : \A l \in m.opk : <<l.pair, m.from>> \in given
    BY <1>1 DEF VendedTheirs
  <2>2. \A x \in given : x[1] = k.pair => x[2] = p
    BY <1>1, <1>8, HandsOut
  <2>3. \A m \in initials : \A l \in m.opk : l.pair = k.pair => m.from = p
    BY <2>1, <2>2
  <2>4. ASSUME k.id \in AvailableIn(rows)
        PROVE  /\ Current => Holds(opks, k)
               /\ \A m \in initials : \A l \in m.opk : l.pair # k.pair
    <3>1. rows[k.id].pair = k.pair /\ k.pair \notin GivenPairs
      BY <1>1, <1>8, <2>4, NotGiven DEF Vended
    <3>2. Current => Holds(opks, k)
      BY <2>4, <3>1 DEF Serving, Kept, Holds
    <3>3. \A m \in initials : \A l \in m.opk : l.pair \in GivenPairs
      <4> SUFFICES ASSUME NEW m \in initials, NEW l \in m.opk
                   PROVE  l.pair \in GivenPairs
        OBVIOUS
      <4>1. <<l.pair, m.from>> \in given /\ <<l.pair, m.from>>[1] = l.pair
        BY <2>1
      <4> QED
        BY <4>1 DEF GivenPairs
    <3> QED
      BY <3>1, <3>2, <3>3
  <2>5. ASSUME Repeats(p), k = Again(p), ~Barred(p)
        PROVE  /\ Current => Holds(opks, k)
               /\ \A m \in initials : \A l \in m.opk : l.pair # k.pair
    BY <2>5 DEF Unspoilt, Repeats
  <2> QED
    BY <1>8, <2>3, <2>4, <2>5 DEF Vended
<1>9. \A m \in initials' : m.from \in stale' => "peer" \in m.doubt
  BY <1>1, <1>5, <1>6, <1>7 DEF Unspoilt
\* A fetch that begins a session bars p, unless it used no one-time prekey.
<1>10. ASSUME NEW q \in DOMAIN vends', vends'[q].fresh /\ ~Barred(q)'
       PROVE  /\ Current' => Holds(opks', Again(q)')
              /\ \A m \in initials' : \A k \in m.opk : k.pair # Again(q)'.pair
  <2>1. CASE q = p
    <3>1. PICK k : Vended(p, k)
      BY <1>4, <2>1
    <3>2. Again(p)' = k
      BY <1>3, <3>1 DEF Again, Vended
    <3>3. ~Barred(p) \/ k.id \in AvailableIn(rows)
      <4>1. CASE Repeats(p) /\ rows' = rows /\ vends' = vends
        <5>1. VendedTo(p)' = VendedTo(p)
          BY <4>1 DEF VendedTo, Repeats
        <5>2. session \subseteq session'
          BY <1>5
        <5> QED
          BY <1>1, <1>10, <2>1, <5>1, <5>2 DEF Barred
      <4> QED
        BY <3>1, <4>1 DEF Vended
    <3>4. /\ Current => Holds(opks, k)
          /\ \A m \in initials : \A l \in m.opk : l.pair # k.pair
      BY <1>8, <3>1, <3>3
    <3>5. \A m \in initials' : m \in initials \/ m.opk = {}
      <4>1. p \in session' => p \in DOMAIN dismissed
        BY <1>1, <1>10, <2>1 DEF Barred
      <4> QED
        BY <1>5, <1>6, <1>7, <4>1
    <3> QED
      BY <1>1, <1>2, <2>1, <3>2, <3>4, <3>5
  <2>2. CASE q # p
    <3>1. /\ q \in DOMAIN vends \ {p} /\ vends'[q] = vends[q] /\ vends[q].id \in DOMAIN rows'
          /\ rows'[vends[q].id].pair = rows[vends[q].id].pair
      BY <1>3, <2>2
    <3>2. Again(q)' = Again(q) /\ VendedTo(q)' = VendedTo(q)
      BY <1>1, <3>1, AgainSame
    <3>3. ~Barred(q)
      BY <1>1, <1>5, <1>10, <3>2 DEF Barred
    <3>4. /\ Current => Holds(opks, Again(q))
          /\ \A m \in initials : \A k \in m.opk : k.pair # Again(q).pair
      BY <1>10, <3>1, <3>3 DEF Unspoilt
    <3>5. \A k \in OpkFor(p) : k.pair # Again(q).pair
      <4>1. ASSUME NEW k, Vended(p, k)
            PROVE  \A l \in OpkFor(p) : l.pair # Again(q).pair
        BY <1>1, <3>1, <4>1, HandsOut DEF Vended, Again
      <4> QED
        BY <1>4, <4>1
    <3>6. \A m \in initials' : m \in initials \/ m.opk \subseteq OpkFor(p)
      BY <1>5, <1>6, <1>7
    <3> QED
      BY <1>1, <1>2, <3>2, <3>4, <3>5, <3>6
  <2> QED
    BY <2>1, <2>2
<1>11. ASSUME NEW m \in initials', Sure(m)'
       PROVE  /\ Opens(m)'
              /\ \A n \in initials' \ {m} : \A k \in m.opk, l \in n.opk : k.pair # l.pair
  <2>0. Sure(m)
    BY <1>1, <1>11 DEF Sure
  <2>1. Opens(m)' <=> Opens(m)
    BY <1>1 DEF Opens, Answers
  <2>2. ASSUME m \in initials
        PROVE  /\ Opens(m)
               /\ \A n \in initials \ {m} : \A k \in m.opk, l \in n.opk : k.pair # l.pair
    BY <2>0, <2>2 DEF Unspoilt
  <2>3. CASE initials' = initials
    BY <2>1, <2>2, <2>3
  <2>4. ASSUME NEW n \in Begun(p), initials' = initials \cup {n}, p \notin session
        PROVE  /\ Opens(m)
               /\ \A o \in initials' \ {m} : \A k \in m.opk, l \in o.opk : k.pair # l.pair
    <3>1. n.from = p /\ n.opk = Usable(p) /\ n.doubt = DoubtOf(p) /\ n.spk \in served
      BY <1>6
    \* The prekey of a sure initial is no other's.
    <3>2. ASSUME NEW k, Vended(p, k), p \notin DOMAIN dismissed, p \notin stale,
                 <<k.pair, p>> \notin forgone
          PROVE  /\ Current => Holds(opks, k)
                 /\ \A o \in initials : \A l \in o.opk : l.pair # k.pair
      <4>1. CASE k.id \in AvailableIn(rows)
        BY <1>8, <3>2, <4>1
      <4>2. CASE Repeats(p) /\ k = Again(p)
        <5>1. VendedTo(p) = k.pair
          BY <4>2 DEF VendedTo, Again
        <5>2. ~Barred(p)
          BY <2>4, <3>2, <5>1 DEF Barred
        <5> QED
          BY <1>8, <3>2, <5>2
      <4> QED
        BY <3>2, <4>1, <4>2 DEF Vended
    <3>3. ASSUME Sure(n)
          PROVE  /\ Opens(n)
                 /\ \A o \in initials : \A k \in n.opk, l \in o.opk : k.pair # l.pair
      <4>1. ~unconfirmed /\ p \notin stale
        BY <1>7, <3>1, <3>3 DEF Sure
      <4>2. CASE n.opk = {}
        BY <4>2 DEF Opens, Answers
      <4>3. CASE n.opk # {}
        <5>1. p \notin DOMAIN dismissed /\ n.opk \subseteq OpkFor(p) /\ OpkFor(p) # {}
          BY <1>7, <3>1, <4>3
        <5>2. PICK k : Vended(p, k)
          BY <1>4, <5>1
        <5>3. OpkFor(p) = {k} /\ n.opk = {k}
          BY <4>3, <5>1, <5>2 DEF Vended
        <5>4. <<k.pair, p>> \notin forgone
          BY <3>1, <3>3, <5>3 DEF Sure
        <5>5. /\ Current => Holds(opks, k)
              /\ \A o \in initials : \A l \in o.opk : l.pair # k.pair
          BY <3>2, <4>1, <5>1, <5>2, <5>4
        <5>6. Holds(spks, n.spk) => Current
          BY <4>1, EmptyIsNothing DEF Holds, Current, Clean
        <5>7. Opens(n)
          BY <5>3, <5>5, <5>6 DEF Opens, Answers
        <5> QED
          BY <5>3, <5>5, <5>7
      <4> QED
        BY <4>2, <4>3
    \* Nor is one that is handed out the prekey of a sure initial.
    <3>4. ASSUME m \in initials, NEW k \in m.opk, NEW l \in n.opk, k.pair = l.pair
          PROVE  FALSE
      <4>1. p \notin DOMAIN dismissed /\ l \in OpkFor(p)
        BY <1>7, <3>1, <3>4
      <4>2. PICK h : Vended(p, h) /\ l = h
        <5>1. PICK h : Vended(p, h)
          BY <1>4, <4>1
        <5> QED
          BY <4>1, <5>1 DEF Vended
      <4>3. m.from = p
        BY <1>8, <3>4, <4>2
      <4>4. <<l.pair, p>> \notin forgone /\ m.doubt = {}
        BY <2>0, <3>4, <4>3 DEF Sure
      <4>5. p \notin stale
        BY <3>4, <4>3, <4>4 DEF Unspoilt
      <4> QED
        BY <3>2, <3>4, <4>1, <4>2, <4>4, <4>5
    <3>5. CASE m \in initials
      BY <2>2, <2>4, <3>4, <3>5
    <3>6. CASE m = n
      BY <2>0, <2>4, <3>3, <3>6
    <3> QED
      BY <2>4, <3>5, <3>6
  <2> QED
    BY <1>5, <2>1, <2>3, <2>4
<1> QED
  BY <1>9, <1>10, <1>11 DEF Unspoilt

LEMMA OpeningStays == Opening /\ [Next]_vars => Opening'
<1> SUFFICES ASSUME Opening, [Next]_vars
             PROVE  Opening'
  OBVIOUS
<1>0. Serving /\ Unspoilt /\ Inventory /\ Serving'
  BY ServingStays DEF Opening, Serving, Vending
<1>1. CASE Starts
  BY <1>0, <1>1, StartsMean, UnspoiltStarts DEF Inventory, Opening
<1>2. CASE DirRegister \/ DirPublish
  BY <1>0, <1>2, ServesMean, UnspoiltServes DEF Inventory, Opening
<1>3. CASE Minds \/ LoseRequest
  BY <1>0, <1>3, UnspoiltMinds DEF Opening
<1>4. ASSUME NEW p \in Peer, Fetches(p) \/ Ages(p)
      PROVE  Opening'
  BY <1>0, <1>4, UnspoiltFetches, UnspoiltAges DEF Opening
<1>5. ASSUME NEW m \in initials, Ends(m)
      PROVE  Opening'
  BY <1>0, <1>5, UnspoiltEnds DEF Opening
<1>6. CASE UNCHANGED vars
  <2>1. UNCHANGED <<peerVars, initials, vends, rows, spks, opks>> /\ Current' = Current
    BY <1>6 DEF vars, ownerVars, ramVars, rpcVars, dirVars, initialVars, Current, Clean
  <2>2. VendedTheirs /\ \A q \in DOMAIN vends : vends[q].id \in DOMAIN rows
    BY <1>0 DEF Serving, Vending, VendedTheirs
  <2> QED
    BY <1>0, <2>1, <2>2, UnspoiltSame DEF Opening
<1> QED
  BY <1>1, <1>2, <1>3, <1>4, <1>5, <1>6, Steps

\* An initial built on what a confirmed registration serves opens for as long as the
\* owner holds the signed prekey it cites, whichever peers lose sessions, are restored or
\* delete the owner again and again: no rotation, pruning, retry, lapsed vend, deletion
\* or move takes its one-time prekey away, but for a prekey vended to a peer that lost
\* every trace of the vend.
THEOREM SureInitialsOpenHolds == Spec => []SureInitialsOpen
<1>1. Init => Opening
  <2> SUFFICES ASSUME Init
               PROVE  Opening
    OBVIOUS
  <2>1. initials = {} /\ vends = Nothing
    BY DEF Init
  <2>2. Unspoilt
    BY <2>1, EmptyIsNothing DEF Unspoilt
  <2> QED
    BY <2>2, ServingInit DEF Opening
<1>2. Opening /\ [Next]_vars => Opening'
  BY OpeningStays
<1>3. Opening => SureInitialsOpen
  BY DEF Opening, Unspoilt, SureInitialsOpen
<1> QED
  BY <1>1, <1>2, <1>3, PTL DEF Spec
=============================================================================
