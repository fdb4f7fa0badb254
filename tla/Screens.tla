------------------------------ MODULE Screens ------------------------------
(***************************************************************************)
(* What the open windows of one device show of one conversation: the       *)
(* in-memory conversation of src/src/ui/useNightjar.ts, filled from the    *)
(* saved history once (activate, mergeHistory), kept up by the handlers of *)
(* the window that takes an envelope, and by the render events it posts to *)
(* the others (src/src/net/crossTab.ts).                                   *)
(*                                                                         *)
(* Every window has a client of its own on the same store; an envelope is  *)
(* taken by one of them.  Only received texts, the deletes of their        *)
(* senders and the clearing of the whole conversation are here.  A handler *)
(* commits first and tells later (client.ts handleDeliver asks in between  *)
(* whom to attribute it to), and a window may lock or close in between.    *)
(***************************************************************************)
EXTENDS Naturals, Sequences, FiniteSets

CONSTANTS
    Window,         \* tabs of the device
    Note,           \* texts the person sends
    MaxClears,      \* bound: times the user empties the conversation
    MaxLeaves       \* bound: windows locked or closed

ASSUME ScreensAssumption ==
    /\ IsFiniteSet(Window) /\ IsFiniteSet(Note) /\ {MaxClears, MaxLeaves} \subseteq Nat

VARIABLES
    saved, entombed,  \* the store: rows, and the markers of deleted ones
    stage,            \* [Window -> how far activate is]
    loaded,           \* RAM: [Window -> rows read by historyLoadAll]
    bubbles,          \* RAM: [Window -> the conversation as shown]
    telling,          \* RAM: [Window -> what its handlers have committed and not told]
    posted,           \* [Window -> render events it has not handled]
    clearing,         \* RAM: windows between the sweep and what follows it
    came, erased,     \* history: texts and deletes taken
    crossed,          \* history: texts that met a clear, a lock or their delete on the way
    clears, leaves

screenVars == <<saved, entombed, stage, loaded, bubbles, telling, posted, clearing, came,
                erased, crossed, clears, leaves>>

Append1(n) == [kind |-> "append", note |-> n]
Delete1(n) == [kind |-> "delete", note |-> n]
Removed == [kind |-> "conversationRemoved"]
Event == [kind : {"append", "delete"}, note : Note] \union {Removed}
In(s, e) == \E i \in DOMAIN s : s[i] = e
Up(w) == stage[w] # "off"

\* appendMessage, removeBubble and dropConversation; the first drops what is there.
Applied(shown, e) ==
    CASE e.kind = "append" -> shown \union {e.note}
      [] e.kind = "delete" -> shown \ {e.note}
      [] OTHER -> {}

\* A channel never echoes; a window that has none open posts nothing.
Posted(w, e) ==
    [x \in Window |-> IF x # w /\ Up(w) /\ Up(x) THEN Append(posted[x], e) ELSE posted[x]]

---------------------------------------------------------------------------
(* A window starts: the channel, the connection, then the history. *)

Activate(w) ==
    /\ stage[w] = "off" /\ stage' = [stage EXCEPT ![w] = "connecting"]
    /\ UNCHANGED <<saved, entombed, loaded, bubbles, telling, posted, clearing, came, erased,
                   crossed, clears, leaves>>

\* loadAllHistory: the rows are read first ...
HistoryLoadAll(w) ==
    /\ stage[w] = "connecting" /\ stage' = [stage EXCEPT ![w] = "loading"]
    /\ loaded' = [loaded EXCEPT ![w] = saved]
    /\ UNCHANGED <<saved, entombed, bubbles, telling, posted, clearing, came, erased, crossed,
                   clears, leaves>>

\* Mutant: what came while the history was read is dropped for what was read.
MergeHistoryOver(w) == loaded[w] \ entombed
\* Mutant: the markers are not asked for.
MergeHistoryRaw(w) == loaded[w] \union bubbles[w]

MergeHistory(w) == (loaded[w] \ entombed) \union bubbles[w]

\* ... then the tombstones, and the answer to that is shown in the same task, beside what
\* came meanwhile.  A history that cannot be read leaves the window as it is.
Hydrate(w) ==
    /\ stage[w] = "loading"
    /\ \/ stage' = [stage EXCEPT ![w] = "ready"]
          /\ bubbles' = [bubbles EXCEPT ![w] = MergeHistory(w)]
       \/ stage' = [stage EXCEPT ![w] = "blind"] /\ UNCHANGED bubbles
    /\ loaded' = [loaded EXCEPT ![w] = {}]
    /\ UNCHANGED <<saved, entombed, telling, posted, clearing, came, erased, crossed, clears,
                   leaves>>

---------------------------------------------------------------------------
(* Envelopes: the transaction, and what its handler tells after it. *)

TextArrives(w, n) ==
    /\ Up(w) /\ n \notin came
    /\ came' = came \union {n}
    /\ IF n \in entombed THEN UNCHANGED <<saved, telling>>
       ELSE /\ saved' = saved \union {n}
            /\ telling' = [telling EXCEPT ![w] = Append(@, Append1(n))]
    /\ UNCHANGED <<entombed, stage, loaded, bubbles, posted, clearing, erased, crossed, clears,
                   leaves>>

\* The text is still to be told by another window, or to be heard by this one.
OnItsWay(w, n) ==
    \/ \E x \in Window \ {w} : In(telling[x], Append1(n))
    \/ In(posted[w], Append1(n))

DeleteArrives(w, n) ==
    /\ Up(w) /\ n \notin erased
    /\ erased' = erased \union {n}
    /\ saved' = saved \ {n} /\ entombed' = entombed \union {n}
    /\ telling' = [telling EXCEPT ![w] = Append(@, Delete1(n))]
    /\ crossed' = IF OnItsWay(w, n) THEN crossed \union {n} ELSE crossed
    /\ UNCHANGED <<stage, loaded, bubbles, posted, clearing, came, clears, leaves>>

\* onMessage, onDelete: this window first, then the others.  A handler that outlives its
\* window's client still shows what it holds, and tells nobody.
Tell(w) ==
    /\ telling[w] # <<>>
    /\ LET e == Head(telling[w]) IN
       /\ bubbles' = [bubbles EXCEPT ![w] = Applied(@, e)]
       /\ posted' = Posted(w, e)
       /\ crossed' = IF Up(w) THEN crossed ELSE crossed \union {e.note}
    /\ telling' = [telling EXCEPT ![w] = Tail(@)]
    /\ UNCHANGED <<saved, entombed, stage, loaded, clearing, came, erased, clears, leaves>>

Hear(w) ==
    /\ posted[w] # <<>>
    /\ LET e == Head(posted[w]) IN
       /\ bubbles' = [bubbles EXCEPT ![w] = Applied(@, e)]
       /\ crossed' = IF e = Removed THEN crossed \union (saved \intersect bubbles[w]) ELSE crossed
    /\ posted' = [posted EXCEPT ![w] = Tail(@)]
    /\ UNCHANGED <<saved, entombed, stage, loaded, telling, clearing, came, erased, clears,
                   leaves>>

---------------------------------------------------------------------------
(* The user. *)

\* clearMessages and deleteConversation: the store is swept ...
Sweep(w) ==
    /\ stage[w] = "ready" /\ w \notin clearing /\ clears < MaxClears
    /\ clears' = clears + 1
    /\ saved' = {} /\ clearing' = clearing \union {w}
    /\ UNCHANGED <<entombed, stage, loaded, bubbles, telling, posted, came, erased, crossed,
                   leaves>>

\* ... then the conversation is dropped, here and, told so, in the others.
DropConversation(w) ==
    /\ w \in clearing /\ clearing' = clearing \ {w}
    /\ bubbles' = [bubbles EXCEPT ![w] = {}]
    /\ posted' = Posted(w, Removed)
    /\ crossed' = crossed \union (saved \intersect bubbles[w])
    /\ UNCHANGED <<saved, entombed, stage, loaded, telling, came, erased, clears, leaves>>

\* lockNow, or the end of the window, with which its handlers end too.
Leave(w) ==
    /\ Up(w) /\ leaves < MaxLeaves /\ leaves' = leaves + 1
    /\ stage' = [stage EXCEPT ![w] = "off"]
    /\ loaded' = [loaded EXCEPT ![w] = {}]
    /\ bubbles' = [bubbles EXCEPT ![w] = {}]
    /\ posted' = [posted EXCEPT ![w] = <<>>]
    /\ \/ UNCHANGED <<telling, clearing, crossed>>
       \/ /\ telling' = [telling EXCEPT ![w] = <<>>]
          /\ clearing' = clearing \ {w}
          /\ crossed' = crossed \union {n \in Note : \E k \in {"append", "delete"} :
                                          In(telling[w], [kind |-> k, note |-> n])}
    /\ UNCHANGED <<saved, entombed, came, erased, clears>>

---------------------------------------------------------------------------
ScreensInit ==
    /\ saved \in SUBSET Note /\ entombed = {}
    /\ stage = [w \in Window |-> "off"] /\ loaded = [w \in Window |-> {}]
    /\ bubbles = loaded
    /\ telling = [w \in Window |-> <<>>] /\ posted = telling /\ clearing = {}
    /\ came = saved /\ erased = {} /\ crossed = {} /\ clears = 0 /\ leaves = 0

ScreensNext ==
    \E w \in Window :
        \/ Activate(w) \/ HistoryLoadAll(w) \/ Hydrate(w)
        \/ \E n \in Note : TextArrives(w, n) \/ DeleteArrives(w, n)
        \/ Tell(w) \/ Hear(w)
        \/ Sweep(w) \/ DropConversation(w) \/ Leave(w)

ScreensSpec == ScreensInit /\ [][ScreensNext]_screenVars

---------------------------------------------------------------------------
ScreensTypeOK ==
    /\ saved \subseteq came /\ entombed = erased /\ saved \intersect entombed = {}
    /\ stage \in [Window -> {"off", "connecting", "loading", "ready", "blind"}]
    /\ \A w \in Window :
          /\ loaded[w] \subseteq Note /\ bubbles[w] \subseteq came
          /\ \A i \in DOMAIN telling[w] : telling[w][i] \in Event \ {Removed}
          /\ \A i \in DOMAIN posted[w] : posted[w][i] \in Event
          /\ ~Up(w) => posted[w] = <<>>

Told == clearing = {} /\ \A w \in Window : telling[w] = <<>> /\ posted[w] = <<>>

\* Once everything has been told and heard, a window that has loaded shows every received
\* text that is saved and none that its sender deleted, although texts and deletes arrive
\* in any window while another reads the history: the channel is open before the read,
\* what came meanwhile is kept, and the markers are read after the rows (useNightjar.ts
\* activate, mergeHistory; client.ts loadAllHistory).  Excepted are the texts that met a
\* clear, a lock or their own delete between their commit and their telling.
ScreensAgree ==
    Told => \A w \in Window : stage[w] = "ready" =>
        /\ saved \ crossed \subseteq bubbles[w]
        /\ bubbles[w] \intersect (entombed \ crossed) = {}
=============================================================================
