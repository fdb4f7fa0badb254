------------------------------- MODULE Wakeup -------------------------------
(***************************************************************************)
(* How a device that is not looked at is woken, and how the Inbox empties  *)
(* itself: presence, push subscriptions, the nudge and the alarm           *)
(* (doPushSubscribe to alarm of src/worker/inbox.ts, src/worker/push.ts,   *)
(* src/public/sw.js and the visibility handlers of useNightjar.ts).        *)
(*                                                                         *)
(* Time is counted in heartbeats.  A frame arrives within one, or its      *)
(* socket is dead; the Inbox may be slow to notice that.                   *)
(***************************************************************************)
EXTENDS Naturals, Sequences, FiniteSets, SequencesExt

CONSTANTS
    Endpoint,      \* push endpoints of the device
    Line,          \* sockets, used again once the Inbox forgot them
    Name,          \* envelopes
    MaxSubs,       \* MAX_PUSH_SUBS
    Fresh,         \* PRESENCE_FRESH_MS, in heartbeats
    EnvelopeTtl, SeenTtl, SubTtl,
    MaxTime,       \* bound: heartbeats counted
    MaxToggles     \* bound: how often the page is shown, hidden, closed or cut off

ASSUME WakeupAssumption ==
    /\ IsFiniteSet(Endpoint) /\ IsFiniteSet(Line) /\ IsFiniteSet(Name)
    /\ MaxSubs \in Nat \ {0} /\ Fresh \in Nat \ {0}
    /\ {EnvelopeTtl, SeenTtl, SubTtl, MaxTime, MaxToggles} \subseteq Nat

VARIABLES
    page,        \* what the user sees of the app
    hiddenFor,   \* heartbeats since the page was last visible, up to Fresh + 1
    lines,       \* [Line -> the socket: how it is, what the Inbox attached, what is on its way]
    rows,        \* the tables of the Inbox: kind, name, created_at
    armed,       \* its alarm is set
    nudging,     \* endpoints a nudge is on its way to
    now, toggles

wakeupVars == <<page, hiddenFor, lines, rows, armed, nudging, now, toggles>>

NoLine == [is |-> "none", auth |-> "none", watching |-> 0, said |-> 0, queue |-> <<>>]
Subs == {r.name : r \in {x \in rows : x.kind = "sub"}}
Ttl(kind) == CASE kind = "envelope" -> EnvelopeTtl [] kind = "seen" -> SeenTtl [] OTHER -> SubTtl
Expired == {r \in rows : now - r.born > Ttl(r.kind)}
Row(kind, name, silent) == [kind |-> kind, name |-> name, born |-> now, silent |-> silent]

Authed(l) == lines[l].auth # "none"
Stamp(visible) == IF visible THEN Fresh ELSE 0
Visible == page = "visible"

\* The Inbox counts a watcher for as long as its last word is fresh.
HasFreshWatcher == \E l \in Line : Authed(l) /\ lines[l].watching > 0

---------------------------------------------------------------------------
(* The page. *)

\* sendPresence on the socket that is open.
Saying(frame) ==
    lines' = [l \in Line |-> IF lines[l].is = "live"
                             THEN [lines[l] EXCEPT !.queue = Append(@, frame)] ELSE lines[l]]

\* visibilitychange.
Toggle(to) ==
    /\ page \in {"visible", "hidden"} /\ to \in {"visible", "hidden"} /\ to # page
    /\ toggles < MaxToggles /\ toggles' = toggles + 1
    /\ page' = to
    /\ hiddenFor' = 0
    /\ Saying([t |-> "presence", watching |-> to = "visible"])
    /\ UNCHANGED <<rows, armed, nudging, now>>

\* The heartbeat: only a visible page says so.
Beat ==
    /\ Visible /\ \A l \in Line : lines[l].queue = <<>>
    /\ Saying([t |-> "presence", watching |-> TRUE])
    /\ lines' # lines
    /\ UNCHANGED <<page, hiddenFor, rows, armed, nudging, now, toggles>>

\* The challenge is answered with what the page is at that moment.
SocketOpens(l) ==
    /\ page # "closed" /\ lines[l] = NoLine
    /\ \A k \in Line : lines[k].is # "live"
    /\ lines' = [lines EXCEPT ![l] = [NoLine EXCEPT !.is = "live",
                                        !.queue = <<[t |-> "auth", watching |-> Visible]>>]]
    /\ UNCHANGED <<page, hiddenFor, rows, armed, nudging, now, toggles>>

\* The connection is gone, and the Inbox has not noticed.
CutOff(l) ==
    /\ lines[l].is = "live"
    /\ toggles < MaxToggles /\ toggles' = toggles + 1
    /\ lines' = [lines EXCEPT ![l].is = "dead", ![l].queue = <<>>]
    /\ \/ UNCHANGED <<page, hiddenFor>>
       \/ page' = "closed" /\ hiddenFor' = IF Visible THEN 0 ELSE hiddenFor
    /\ UNCHANGED <<rows, armed, nudging, now>>

---------------------------------------------------------------------------
(* The Inbox. *)

Hear(l) ==
    /\ lines[l].queue # <<>>
    /\ LET f == Head(lines[l].queue) rest == Tail(lines[l].queue) stamp == Stamp(f.watching) IN
       lines' = [lines EXCEPT ![l] =
          IF f.t = "auth"
          THEN [@ EXCEPT !.queue = rest, !.auth = "checking", !.watching = stamp, !.said = stamp]
          ELSE [@ EXCEPT !.queue = rest, !.watching = stamp]]
    /\ UNCHANGED <<page, hiddenFor, rows, armed, nudging, now, toggles>>

\* Mutant: what it read before it asked the Directory is written back.
RegisteredStale(l) == [lines[l] EXCEPT !.auth = "ready", !.watching = lines[l].said]

\* The Directory answered; what was attached meanwhile is kept.
Registered(l) == [lines[l] EXCEPT !.auth = "ready"]

AuthDone(l) ==
    /\ lines[l].auth = "checking"
    /\ lines' = [lines EXCEPT ![l] = Registered(l)]
    /\ UNCHANGED <<page, hiddenFor, rows, armed, nudging, now, toggles>>

Notice(l) ==
    /\ lines[l].is = "dead"
    /\ lines' = [lines EXCEPT ![l] = NoLine]
    /\ UNCHANGED <<page, hiddenFor, rows, armed, nudging, now, toggles>>

\* Mutant: the bound is noticed one row too late.
SurplusLate(count) == IF count > MaxSubs THEN count - MaxSubs + 1 ELSE 0

\* How many rows go so that one more fits.
Surplus(count) == IF count >= MaxSubs THEN count - MaxSubs + 1 ELSE 0

\* doPushSubscribe: the row of a known endpoint is replaced; for a new one the oldest go.
Subscribe(e) ==
    /\ \E l \in Line : lines[l].is = "live" /\ lines[l].auth = "ready"
    /\ LET old == {r \in rows : r.kind = "sub" /\ r.name = e}
           others == {r \in rows : r.kind = "sub"} \ old
           count == IF old = {} THEN Surplus(Cardinality(others)) ELSE 0
       IN  /\ old # {Row("sub", e, FALSE)}
           /\ \E gone \in SUBSET others :
                 /\ Cardinality(gone) = count
                 /\ \A g \in gone, o \in others \ gone : g.born <= o.born
                 /\ rows' = (rows \ (old \union gone)) \union {Row("sub", e, FALSE)}
    /\ armed' = TRUE
    /\ UNCHANGED <<page, hiddenFor, lines, nudging, now, toggles>>

Dropped(e) == {r \in rows : ~(r.kind = "sub" /\ r.name = e)}

Unsubscribe(e) ==
    /\ \E l \in Line : lines[l].is = "live"
    /\ e \in Subs /\ rows' = Dropped(e)
    /\ UNCHANGED <<page, hiddenFor, lines, armed, nudging, now, toggles>>

\* Mutant: a watcher of any time counts.
NudgeUnlessEverWatched(silent) ==
    nudging' = IF ~silent /\ ~(\E l \in Line : Authed(l) /\ lines[l].said > 0)
               THEN nudging \union Subs ELSE nudging

NudgeUnlessWatched(silent) ==
    nudging' = IF ~silent /\ ~HasFreshWatcher THEN nudging \union Subs ELSE nudging

\* handleDeliver of an envelope it does not have.
Deliver(n, silent) ==
    /\ \A r \in rows : r.name # n
    /\ rows' = rows \union {Row("envelope", n, silent)}
    /\ armed' = TRUE
    /\ NudgeUnlessWatched(silent)
    /\ UNCHANGED <<page, hiddenFor, lines, now, toggles>>

\* doAck.
AckEnvelope(n) ==
    /\ \E l \in Line : lines[l].is = "live" /\ Authed(l)
    /\ \E r \in rows : r.kind = "envelope" /\ r.name = n
    /\ rows' = {r \in rows : r.name # n} \union {Row("seen", n, FALSE)}
    /\ armed' = TRUE
    /\ UNCHANGED <<page, hiddenFor, lines, nudging, now, toggles>>

\* The push service takes it, cannot be reached, or says that the endpoint is gone.
PushAnswered(e) ==
    /\ e \in nudging /\ nudging' = nudging \ {e}
    /\ \/ UNCHANGED rows
       \/ rows' = Dropped(e)
    /\ UNCHANGED <<page, hiddenFor, lines, armed, now, toggles>>

Again(left) == left # {}

Alarm ==
    /\ armed
    /\ rows' = rows \ Expired
    /\ armed' = Again(rows')
    /\ UNCHANGED <<page, hiddenFor, lines, nudging, now, toggles>>

Tick ==
    /\ now < MaxTime /\ now' = now + 1
    /\ \A l \in Line : lines[l].queue = <<>>
    /\ lines' = [l \in Line |->
          [lines[l] EXCEPT !.watching = IF @ = 0 THEN 0 ELSE @ - 1]]
    /\ hiddenFor' = IF Visible \/ hiddenFor > Fresh THEN hiddenFor ELSE hiddenFor + 1
    /\ UNCHANGED <<page, rows, armed, nudging, toggles>>

---------------------------------------------------------------------------
WakeupInit ==
    /\ page = "visible" /\ hiddenFor = 0 /\ lines = [l \in Line |-> NoLine]
    /\ rows = {} /\ armed = FALSE /\ nudging = {}
    /\ now = 0 /\ toggles = 0

WakeupNext ==
    \/ \E to \in {"visible", "hidden"} : Toggle(to)
    \/ Beat \/ Alarm \/ Tick
    \/ \E l \in Line : SocketOpens(l) \/ CutOff(l) \/ Hear(l) \/ AuthDone(l) \/ Notice(l)
    \/ \E e \in Endpoint : Subscribe(e) \/ Unsubscribe(e) \/ PushAnswered(e)
    \/ \E n \in Name : AckEnvelope(n) \/ \E silent \in BOOLEAN : Deliver(n, silent)

\* An alarm that is set goes off.
FairWakeup == WF_wakeupVars(Alarm)
WakeupSpec == WakeupInit /\ [][WakeupNext]_wakeupVars /\ FairWakeup

---------------------------------------------------------------------------
WakeupTypeOK ==
    /\ page \in {"visible", "hidden", "closed"} /\ hiddenFor \in 0 .. Fresh + 1
    /\ lines \in [Line -> [is : {"none", "live", "dead"}, auth : {"none", "checking", "ready"},
                           watching : 0 .. Fresh, said : 0 .. Fresh,
                           queue : Seq([t : {"auth", "presence"}, watching : BOOLEAN])]]
    /\ rows \subseteq [kind : {"envelope", "seen", "sub"}, name : Name \union Endpoint,
                       born : 0 .. MaxTime, silent : BOOLEAN]
    /\ armed \in BOOLEAN /\ nudging \subseteq Endpoint
    /\ now \in 0 .. MaxTime /\ toggles \in 0 .. MaxToggles
    /\ Cardinality(Subs) <= MaxSubs

\* The Inbox can know that nobody looks: it heard so on every socket it has, or the page
\* has been hidden for longer than any word of it stays fresh.
NobodyLooks ==
    /\ ~Visible
    /\ \/ hiddenFor > Fresh
       \/ \A l \in Line : lines[l].is # "dead" /\ lines[l].queue = <<>>

\* A message that makes a sound nudges every subscription whenever the Inbox can know
\* that nobody looks, whatever dead sockets it holds and however authentication and
\* presence interleave (inbox.ts hasFreshWatcher, handleAuth).
HiddenIsNudged ==
    [][\A r \in rows' \ rows :
          r.kind = "envelope" /\ ~r.silent /\ NobodyLooks => Subs \subseteq nudging']_wakeupVars

\* What is past its time goes, also when nothing arrives any more.
ExpiredGoes == Expired # {} ~> Expired = {}
=============================================================================
