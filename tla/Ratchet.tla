------------------------------ MODULE Ratchet ------------------------------
(***************************************************************************)
(* One Double Ratchet session between the two ends of a conversation:      *)
(* src/src/crypto/ratchet.ts, with the compute-save-release discipline of  *)
(* src/src/session/ratchetSession.ts.                                      *)
(*                                                                         *)
(* The cryptography is symbolic.  A DH public key is the pair of an end    *)
(* and the number of the key pair; a root key is the sequence of DH        *)
(* agreements mixed into it; the chain key that comes out of the same KDF  *)
(* call has that sequence for a name; a message key is a chain and an      *)
(* index.  Ciphertexts open exactly when the receiver derives the message  *)
(* key they were sealed under.  The network keeps every envelope ever      *)
(* released and may deliver any of them, any number of times, in any       *)
(* order: loss is a delivery that never happens.                           *)
(***************************************************************************)
EXTENDS Integers, Sequences, FiniteSets, SequencesExt, Lists

CONSTANTS
    MaxSkip,     \* MAX_SKIP: how far a chain may be skipped, how many keys are kept
    KeyExpiry,   \* SKIPPED_KEY_EXPIRY_MS, in days
    MaxDay,      \* bound: days the clock runs
    MaxSent      \* bound: envelopes each end releases, [End -> Nat]

End == {"initiator", "responder"}
Other(p) == IF p = "initiator" THEN "responder" ELSE "initiator"

ASSUME RatchetAssumption ==
    /\ MaxSkip \in Nat \ {0} /\ KeyExpiry \in Nat /\ MaxDay \in Nat
    /\ MaxSent \in [End -> Nat]

NoKey == <<>>
NoChain == <<>>

VARIABLES
    st,        \* the RatchetState each end has saved
    draft,     \* an encryption computed under the session lock and not saved yet
    net,       \* envelopes released
    day,
    count,     \* history: envelopes composed by each end, to tell them apart
    opened,    \* history: envelopes each end has opened
    overrun    \* history: message keys pushed out of a full skipped store

ratchetVars == <<st, draft, net, day, count, opened, overrun>>

---------------------------------------------------------------------------
(* The ratchet's pure functions. *)

\* The root (and so the chain) that mixing one more DH agreement gives.
KdfRk(root, mine, theirs) == Append(root, {mine, theirs})

MessageKey(chain, n) == <<chain, n>>

InitRatchetInitiator ==
    [dhs |-> <<"initiator", 1>>, dhr |-> <<"responder", 0>>,
     rk |-> KdfRk(<<>>, <<"initiator", 1>>, <<"responder", 0>>),
     cks |-> KdfRk(<<>>, <<"initiator", 1>>, <<"responder", 0>>),
     ckr |-> NoChain, ns |-> 0, nr |-> 0, pn |-> 0, skipped |-> <<>>]

\* The responder's first key pair is its signed prekey.
InitRatchetResponder ==
    [dhs |-> <<"responder", 0>>, dhr |-> NoKey, rk |-> <<>>,
     cks |-> NoChain, ckr |-> NoChain,
     ns |-> 0, nr |-> 0, pn |-> 0, skipped |-> <<>>]

CanEncrypt(s) == s.cks # NoChain

RatchetEncrypt(s, p, id, now) ==
    [state |-> [s EXCEPT !.ns = @ + 1],
     env |-> [to |-> Other(p), id |-> id, at |-> now, dh |-> s.dhs,
              pn |-> s.pn, n |-> s.ns, mk |-> MessageKey(s.cks, s.ns)]]

\* assertWithinSkipBound: checked on the header alone, before any key is derived
\* or looked up.
WithinSkipBound(s, m) ==
    IF m.dh = s.dhr
    THEN m.n - s.nr <= MaxSkip
    ELSE /\ s.ckr = NoChain \/ m.pn - s.nr <= MaxSkip
         /\ m.n <= MaxSkip

\* The keys skipMessageKeys stores to reach message "until" of the current chain.
SkippedTo(s, until, now) ==
    IF s.ckr = NoChain \/ until <= s.nr THEN <<>>
    ELSE [i \in 1 .. until - s.nr |->
            [dh |-> s.dhr, n |-> s.nr + i - 1,
             mk |-> MessageKey(s.ckr, s.nr + i - 1), ts |-> now]]

\* Mutant: a full store grows.
NewestUnbounded(keys) == keys

Newest(keys) ==
    IF Len(keys) <= MaxSkip THEN keys
    ELSE SubSeq(keys, Len(keys) - MaxSkip + 1, Len(keys))

\* A full store gives up its oldest key for each key put in.
SkipMessageKeys(s, until, now) ==
    LET fresh == SkippedTo(s, until, now)
    IN  [s EXCEPT !.skipped = IF fresh = <<>> THEN @ ELSE Newest(@ \o fresh),
                  !.nr = @ + Len(fresh)]

DhRatchet(s, p, dh) ==
    LET recv == KdfRk(s.rk, s.dhs, dh)
        mine == <<p, s.dhs[2] + 1>>
        send == KdfRk(recv, mine, dh)
    IN  [s EXCEPT !.pn = s.ns, !.ns = 0, !.nr = 0, !.dhr = dh, !.dhs = mine,
                  !.rk = send, !.ckr = recv, !.cks = send]

\* Mutant: what is left of the old receiving chain is not skipped to pn.
CaughtUpPastOldChain(s, p, m, now) ==
    LET stepped == IF m.dh = s.dhr THEN s ELSE DhRatchet(s, p, m.dh)
    IN  SkipMessageKeys(stepped, m.n, now)

\* The receiving chain brought up to the envelope's message.
CaughtUp(s, p, m, now) ==
    LET stepped == IF m.dh = s.dhr THEN s
                   ELSE DhRatchet(SkipMessageKeys(s, m.pn, now), p, m.dh)
    IN  SkipMessageKeys(stepped, m.n, now)

StoredKeys(s, m) == {k \in Range(s.skipped) : k.dh = m.dh /\ k.n = m.n}

\* Mutant: the key stays in the store.
ForgetNothing(s, m) == s

Forget(s, m) == [s EXCEPT !.skipped = Remaining(@, StoredKeys(s, m))]

\* ratchetDecrypt: the state to save and whether the envelope opened.  It works
\* on a clone, so a failure leaves the saved state as it was.
RatchetDecrypt(s, p, m, now) ==
    LET caught == CaughtUp(s, p, m, now)
        failed == [ok |-> FALSE, state |-> s]
    IN  IF ~WithinSkipBound(s, m) THEN failed
        ELSE IF StoredKeys(s, m) # {}
        THEN IF \E k \in StoredKeys(s, m) : k.mk = m.mk
             THEN [ok |-> TRUE, state |-> Forget(s, m)]
             ELSE failed
        ELSE IF caught.ckr # NoChain /\ MessageKey(caught.ckr, caught.nr) = m.mk
        THEN [ok |-> TRUE, state |-> [caught EXCEPT !.nr = @ + 1]]
        ELSE failed

PruneSkippedKeys(s, now) ==
    [s EXCEPT !.skipped = Remaining(@, {k \in Range(@) : now - k.ts > KeyExpiry})]

---------------------------------------------------------------------------
RatchetInit ==
    /\ st = [p \in End |-> IF p = "initiator" THEN InitRatchetInitiator
                           ELSE InitRatchetResponder]
    /\ draft = [p \in End |-> {}]
    /\ net = {} /\ day = 0
    /\ count = [p \in End |-> 0]
    /\ opened = [p \in End |-> {}]
    /\ overrun = {}

\* encrypt, under the session lock: the next state and the envelope are computed
\* from the state last saved.
Compute(p) ==
    /\ draft[p] = {}
    /\ CanEncrypt(st[p])
    /\ count[p] < MaxSent[p]
    /\ count' = [count EXCEPT ![p] = @ + 1]
    /\ draft' = [draft EXCEPT ![p] = {RatchetEncrypt(st[p], p, count[p], day)}]
    /\ UNCHANGED <<st, net, day, opened, overrun>>

\* ... saved first, and only then handed to the transport.
Save(p) ==
    \E d \in draft[p] :
        /\ st[p] # d.state
        /\ st' = [st EXCEPT ![p] = d.state]
        /\ UNCHANGED <<draft, net, day, count, opened, overrun>>

\* Mutant: sent before it is saved.
ReleaseUnsaved(p) ==
    \E d \in draft[p] :
        /\ net' = net \union {d.env}
        /\ draft' = [draft EXCEPT ![p] = {}]
        /\ UNCHANGED <<st, day, count, opened, overrun>>

Release(p) ==
    \E d \in draft[p] :
        /\ st[p] = d.state
        /\ net' = net \union {d.env}
        /\ draft' = [draft EXCEPT ![p] = {}]
        /\ UNCHANGED <<st, day, count, opened, overrun>>

\* The program ends between two of those steps: what was only in memory is gone.
Crash(p) ==
    /\ draft[p] # {}
    /\ draft' = [draft EXCEPT ![p] = {}]
    /\ UNCHANGED <<st, net, day, count, opened, overrun>>

\* The message keys the store had no room for when the envelope opened.
Overrun(s, p, m) ==
    LET before == SkippedTo(s, m.pn, day)
        stepped == IF m.dh = s.dhr THEN s
                   ELSE DhRatchet(SkipMessageKeys(s, m.pn, day), p, m.dh)
        keys == IF m.dh = s.dhr THEN s.skipped \o SkippedTo(s, m.n, day)
                ELSE s.skipped \o before \o SkippedTo(stepped, m.n, day)
        excess == Len(keys) - MaxSkip
    IN  IF StoredKeys(s, m) # {} \/ excess <= 0 THEN {}
        ELSE {keys[i].mk : i \in 1 .. excess}

\* decrypt, under the session lock and so never between Compute and Release of
\* the same end: opened on a clone, expired skipped keys dropped, saved.
Receive(p, m) ==
    /\ m.to = p
    /\ draft[p] = {}
    /\ LET r == RatchetDecrypt(st[p], p, m, day)
       IN  /\ st' = [st EXCEPT ![p] =
                        IF r.ok THEN PruneSkippedKeys(r.state, day) ELSE r.state]
           /\ opened' = [opened EXCEPT ![p] = IF r.ok THEN @ \union {m} ELSE @]
           /\ overrun' = IF r.ok THEN overrun \union Overrun(st[p], p, m) ELSE overrun
    /\ UNCHANGED <<draft, net, day, count>>

Tick ==
    /\ day < MaxDay
    /\ day' = day + 1
    /\ UNCHANGED <<st, draft, net, count, opened, overrun>>

RatchetNext ==
    \/ \E p \in End : Compute(p) \/ Save(p) \/ Release(p) \/ Crash(p)
    \/ \E m \in net : Receive(m.to, m)
    \/ Tick

RatchetSpec == RatchetInit /\ [][RatchetNext]_ratchetVars

---------------------------------------------------------------------------
Roots == Seq(SUBSET (End \X Nat))

RatchetState ==
    [dhs : End \X Nat, dhr : (End \X Nat) \union {NoKey}, rk : Roots,
     cks : Roots, ckr : Roots, ns : Nat, nr : Nat, pn : Nat,
     skipped : Seq([dh : End \X Nat, n : Nat, mk : Roots \X Nat, ts : Nat])]

Envelope == [to : End, id : Nat, at : Nat, dh : End \X Nat, pn : Nat, n : Nat,
             mk : Roots \X Nat]

\* Types, and the bound of the skipped store however far the chains are skipped.
RatchetTypeOK ==
    /\ st \in [End -> RatchetState]
    /\ \A p \in End : Len(st[p].skipped) <= MaxSkip
    /\ \A p \in End : draft[p] \subseteq [state : RatchetState, env : Envelope]
    /\ net \subseteq Envelope
    /\ day \in 0 .. MaxDay /\ count \in [End -> Nat]
    /\ \A p \in End : opened[p] \subseteq net
    /\ overrun \subseteq (Roots \X Nat)

\* No message key, and so no AEAD nonce, ever seals two different envelopes:
\* not after a crash between computing an envelope and saving the state, and
\* not on two chains (ratchet.ts ratchetEncrypt, ratchetSession.ts encrypt).
KeysUsedOnce == \A m1, m2 \in net : m1.mk = m2.mk => m1 = m2

\* An envelope that never opened still opens if it is delivered now, whatever
\* was lost, reordered or repeated around it, unless its key was pushed out of a
\* full store, the header is past the skip bound, or it is older than the time a
\* skipped key is kept (ratchet.ts ratchetDecrypt, skipMessageKeys, dhRatchet).
UnopenedOpens ==
    \A m \in net \ (opened["initiator"] \union opened["responder"]) :
        \/ RatchetDecrypt(st[m.to], m.to, m, day).ok
        \/ ~WithinSkipBound(st[m.to], m)
        \/ m.mk \in overrun
        \/ day - m.at > KeyExpiry

\* Forward secrecy on the receiving end: once an envelope has opened, the saved
\* state holds nothing that opens it again (the skipped key is deleted, the chain
\* key has moved past it).
OpenedIsForgotten ==
    \A p \in End : \A m \in opened[p] :
        /\ ~RatchetDecrypt(st[p], p, m, day).ok
        /\ \A k \in Range(st[p].skipped) : k.mk # m.mk
        /\ ~(st[p].ckr = m.mk[1] /\ st[p].nr <= m.mk[2])

\* What the comment in ratchetDecrypt says: "A stored skipped key handles an
\* out-of-order arrival directly".
StoredKeyOpens ==
    \A m \in net : StoredKeys(st[m.to], m) # {}
                     => RatchetDecrypt(st[m.to], m.to, m, day).ok
=============================================================================
