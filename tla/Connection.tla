----------------------------- MODULE Connection -----------------------------
(***************************************************************************)
(* One device's connection to its Inbox: sockets, authentication, the      *)
(* request table and reconnection (src/src/net/transport.ts, connect to    *)
(* close of src/src/net/client.ts, and the socket handlers of              *)
(* src/worker/inbox.ts).                                                   *)
(*                                                                         *)
(* The page's handlers, the timers and the awaits of the Inbox interleave. *)
(* Frames of one socket arrive in order, or the socket dies; answers of    *)
(* the Inbox come in the order of its awaits, not of the requests.         *)
(***************************************************************************)
EXTENDS Naturals, Sequences, FiniteSets, SequencesExt

CONSTANTS
    Asked,        \* requests of the directory client
    Linked,       \* requests that carry a chunk of a link transfer
    MaxSockets,   \* bound: sockets ever opened
    MaxStray      \* bound: frames sent that expect no answer

ASSUME ConnectionAssumption ==
    /\ IsFiniteSet(Asked) /\ IsFiniteSet(Linked) /\ Asked \cap Linked = {}
    /\ MaxSockets \in Nat /\ MaxStray \in Nat

Request == Asked \union Linked
Socket == 1 .. MaxSockets
Routine == {"first", "retry"}

VARIABLES
    current,    \* this.ws, 0 for null
    opened,     \* sockets opened so far
    link,       \* [Socket -> readyState, "closing" until its close event]
    waiting,    \* [Socket -> the routine whose connect() it has yet to settle, or "none"]
    server,     \* [Socket -> what the Inbox attached to it]
    up, down,   \* [Socket -> frames on their way]
    routine,    \* [Routine -> where it is]
    timer,      \* reconnectTimer
    online,     \* the last onConnection
    outcome,    \* [Request -> how it ended]; "pending" while in the table
    jobs,       \* requests the Inbox awaits an answer to, with their socket
    stray       \* frames sent that expect no answer

clientState == <<current, waiting, routine, timer, online, outcome>>
connectionVars == <<clientState, opened, link, server, up, down, jobs, stray>>

IsOpen == current # 0 /\ link[current] = "open"
Connecting == routine["retry"] # "idle"

\* What the reply to a request names: the table has that entry, or none.  sendLinkPayload
\* draws one id for the table and another for the frame.
Correlated(r) == r \in Asked

Answer(r, ok) == [t |-> "answer", req |-> r, ok |-> ok]
Plain(t) == [t |-> t, req |-> "none", ok |-> TRUE]

---------------------------------------------------------------------------
(* Connecting. *)

\* new WebSocket, and the wait for "authed".
Connect(by) ==
    LET s == opened + 1 IN
    /\ s \in Socket
    /\ opened' = s /\ current' = s
    /\ link' = [link EXCEPT ![s] = "opening"]
    /\ waiting' = [waiting EXCEPT ![s] = by]
    /\ routine' = [routine EXCEPT ![by] = "connecting"]

FirstConnect ==
    /\ routine["first"] = "idle" /\ current = 0 /\ opened = 0
    /\ Connect("first")
    /\ UNCHANGED <<server, up, down, timer, online, outcome, jobs, stray>>

\* Mutant: a second attempt beside the one under way.
TryReconnectBeside ==
    IF IsOpen THEN UNCHANGED <<current, opened, link, waiting, routine>> ELSE Connect("retry")

TryReconnect ==
    IF IsOpen \/ Connecting THEN UNCHANGED <<current, opened, link, waiting, routine>>
    ELSE Connect("retry")

TimerFires ==
    /\ timer /\ timer' = FALSE
    /\ TryReconnect
    /\ UNCHANGED <<server, up, down, online, outcome, jobs, stray>>

\* reconnectNow: the page became visible, or the network came back.
Kick ==
    /\ routine["first"] = "done" /\ ~IsOpen
    /\ timer' = FALSE
    /\ TryReconnect
    /\ UNCHANGED <<server, up, down, online, outcome, jobs, stray>>

\* A connect() that did not succeed: of tryReconnect, which schedules another, or of
\* activate, which shows the error.
Rejected(s) ==
    /\ waiting' = [waiting EXCEPT ![s] = "none"]
    /\ CASE waiting[s] = "retry" -> routine' = [routine EXCEPT !["retry"] = "idle"] /\ timer' = TRUE
         [] waiting[s] = "first" -> routine' = [routine EXCEPT !["first"] = "done"] /\ UNCHANGED timer
         [] OTHER -> UNCHANGED <<routine, timer>>

\* The network, the server or a suspended page: frames on their way are lost, and so is
\* what the Inbox has yet to say.
Dying(s) ==
    /\ link' = [link EXCEPT ![s] = "closing"]
    /\ up' = [up EXCEPT ![s] = <<>>] /\ down' = [down EXCEPT ![s] = <<>>]
    /\ jobs' = {j \in jobs : j.on # s}
    /\ server' = [server EXCEPT ![s] = "none"]

ConnectTimeout(s) ==
    /\ waiting[s] # "none" /\ link[s] \in {"opening", "open", "closing"}
    /\ Rejected(s)
    /\ Dying(s)
    /\ UNCHANGED <<current, opened, online, outcome, stray>>

Lose(s) ==
    /\ link[s] \in {"opening", "open"}
    /\ Dying(s)
    /\ UNCHANGED <<clientState, opened, stray>>

\* failAllPending.
FailAll == [r \in Request |-> IF outcome[r] = "pending" THEN "dropped" ELSE outcome[r]]

\* Its handlers are mute once it was superseded.
CloseEvent(s) ==
    /\ link[s] = "closing"
    /\ link' = [link EXCEPT ![s] = "closed"]
    /\ IF current # s
       THEN UNCHANGED clientState
       ELSE /\ current' = 0
            /\ waiting' = [waiting EXCEPT ![s] = "none"]
            /\ routine' = [b \in Routine |->
                  IF waiting[s] = b THEN (IF b = "first" THEN "done" ELSE "idle") ELSE routine[b]]
            /\ outcome' = FailAll
            /\ online' = FALSE
            /\ timer' = TRUE
    /\ UNCHANGED <<opened, server, up, down, jobs, stray>>

\* The flush of the outbox, which afterConnect awaits, ends; if it throws, tryReconnect
\* schedules another attempt, and activate shows the error.
Connected(by) ==
    /\ routine[by] = "after"
    /\ routine' = [routine EXCEPT ![by] = IF by = "first" THEN "done" ELSE "idle"]
    /\ timer' \in {timer, timer \/ by = "retry"}
    /\ UNCHANGED <<current, waiting, online, outcome, opened, link, server, up, down, jobs,
                   stray>>

---------------------------------------------------------------------------
(* Frames. *)

\* handleConnect.
Accept(s) ==
    /\ link[s] = "opening"
    /\ link' = [link EXCEPT ![s] = "open"]
    /\ server' = [server EXCEPT ![s] = "challenged"]
    /\ down' = [down EXCEPT ![s] = <<Plain("challenge")>>]
    /\ UNCHANGED <<clientState, opened, up, jobs, stray>>

\* raw: on the current socket, if it is open.
RequestSent(r) ==
    /\ outcome[r] = "none" /\ online
    /\ IF IsOpen
       THEN /\ outcome' = [outcome EXCEPT ![r] = "pending"]
            /\ up' = [up EXCEPT ![current] = Append(@, [t |-> "request", req |-> r, ok |-> TRUE])]
       ELSE outcome' = [outcome EXCEPT ![r] = "unsent"] /\ UNCHANGED up
    /\ UNCHANGED <<current, waiting, routine, timer, online, opened, link, server, down, jobs,
                   stray>>

\* A message, an ack, presence.
SendStray ==
    /\ IsOpen /\ routine["first"] # "connecting"
    /\ stray < MaxStray /\ stray' = stray + 1
    /\ up' = [up EXCEPT ![current] = Append(@, Plain("other"))]
    /\ UNCHANGED <<clientState, opened, link, server, down, jobs>>

\* webSocketMessage: before it is authenticated a socket may only say "auth".
InboxHears(s) ==
    /\ link[s] = "open" /\ up[s] # <<>>
    /\ up' = [up EXCEPT ![s] = Tail(@)]
    /\ LET f == Head(up[s]) IN
       CASE f.t = "auth" /\ server[s] = "challenged" ->
                server' = [server EXCEPT ![s] = "checking"] /\ UNCHANGED <<down, jobs>>
         [] f.t # "auth" /\ server[s] = "challenged" ->
                /\ down' = [down EXCEPT ![s] = Append(@, Plain("unauthenticated"))]
                /\ UNCHANGED <<server, jobs>>
         [] f.t = "request" /\ server[s] # "challenged" ->
                jobs' = jobs \union {[req |-> f.req, on |-> s]} /\ UNCHANGED <<server, down>>
         [] OTHER -> UNCHANGED <<server, down, jobs>>
    /\ UNCHANGED <<clientState, opened, link, stray>>

\* handleAuth, once the Directory said whether the device is registered.
Authenticated(s) ==
    /\ server[s] = "checking"
    /\ server' = [server EXCEPT ![s] = "ready"]
    /\ down' = [down EXCEPT ![s] = Append(@, Plain("authed"))]
    /\ UNCHANGED <<clientState, opened, link, up, jobs, stray>>

\* What the Directory or the other Inbox answered.
InboxAnswers(j) ==
    /\ jobs' = jobs \ {j}
    /\ \E ok \in BOOLEAN : down' = [down EXCEPT ![j.on] = Append(@, Answer(j.req, ok))]
    /\ UNCHANGED <<clientState, opened, link, server, up, stray>>

\* Mutant: a late answer still resolves its request.
ResolveLate(f) ==
    outcome' = IF Correlated(f.req)
               THEN [outcome EXCEPT ![f.req] = IF f.ok THEN "answered" ELSE "refused"]
               ELSE outcome

\* dispatch: an answer for no entry of the table is dropped.
Resolve(f) ==
    outcome' = IF Correlated(f.req) /\ outcome[f.req] = "pending"
               THEN [outcome EXCEPT ![f.req] = IF f.ok THEN "answered" ELSE "refused"]
               ELSE outcome

ClientHears(s) ==
    /\ link[s] = "open" /\ down[s] # <<>> /\ current = s
    /\ down' = [down EXCEPT ![s] = Tail(@)]
    /\ LET f == Head(down[s]) IN
       \/ /\ f.t = "challenge"
          /\ up' = [up EXCEPT ![s] = Append(@, Plain("auth"))]
          /\ UNCHANGED <<waiting, routine, timer, online, outcome>>
       \/ /\ f.t = "authed" /\ UNCHANGED <<up, timer, outcome>>
          /\ IF waiting[s] = "none" THEN UNCHANGED <<waiting, routine, online>>
             ELSE /\ waiting' = [waiting EXCEPT ![s] = "none"]
                  /\ routine' = [routine EXCEPT ![waiting[s]] = "after"]
                  /\ online' = TRUE
       \/ f.t = "unauthenticated" /\ Rejected(s) /\ UNCHANGED <<up, online, outcome>>
       \/ f.t = "answer" /\ Resolve(f) /\ UNCHANGED <<up, waiting, routine, timer, online>>
    /\ UNCHANGED <<current, opened, link, server, jobs, stray>>

RequestTimeout(r) ==
    /\ outcome[r] = "pending"
    /\ outcome' = [outcome EXCEPT ![r] = "timed out"]
    /\ UNCHANGED <<current, waiting, routine, timer, online, opened, link, server, up, down, jobs,
                   stray>>

---------------------------------------------------------------------------
ConnectionInit ==
    /\ current = 0 /\ opened = 0 /\ timer = FALSE /\ online = FALSE /\ stray = 0
    /\ link = [s \in Socket |-> "none"] /\ waiting = [s \in Socket |-> "none"]
    /\ server = [s \in Socket |-> "none"]
    /\ up = [s \in Socket |-> <<>>] /\ down = [s \in Socket |-> <<>>]
    /\ routine = [b \in Routine |-> "idle"]
    /\ outcome = [r \in Request |-> "none"] /\ jobs = {}

ConnectionNext ==
    \/ FirstConnect \/ TimerFires \/ Kick \/ SendStray
    \/ \E by \in Routine : Connected(by)
    \/ \E s \in Socket :
          \/ ConnectTimeout(s) \/ Lose(s) \/ CloseEvent(s)
          \/ Accept(s) \/ InboxHears(s) \/ Authenticated(s) \/ ClientHears(s)
    \/ \E r \in Request : RequestSent(r) \/ RequestTimeout(r)
    \/ \E j \in jobs : InboxAnswers(j)

\* Deadlines fire.
FairConnection == \A r \in Request : WF_connectionVars(RequestTimeout(r))
ConnectionSpec == ConnectionInit /\ [][ConnectionNext]_connectionVars /\ FairConnection

---------------------------------------------------------------------------
Frame == [t : {"challenge", "auth", "authed", "unauthenticated", "request", "answer", "other"},
          req : Request \union {"none"}, ok : BOOLEAN]

ConnectionTypeOK ==
    /\ current \in Socket \union {0} /\ opened \in 0 .. MaxSockets
    /\ link \in [Socket -> {"none", "opening", "open", "closing", "closed"}]
    /\ waiting \in [Socket -> Routine \union {"none"}]
    /\ \A s \in Socket : waiting[s] # "none" => routine[waiting[s]] = "connecting"
    /\ server \in [Socket -> {"none", "challenged", "checking", "ready"}]
    /\ \A s \in Socket : Range(up[s]) \union Range(down[s]) \subseteq Frame
    /\ routine \in [Routine -> {"idle", "connecting", "after", "done"}]
    /\ {timer, online} \subseteq BOOLEAN
    /\ outcome \in [Request -> {"none", "pending", "unsent", "answered", "refused", "dropped",
                                "timed out"}]
    /\ jobs \subseteq [req : Request, on : Socket] /\ stray \in Nat

\* A live socket is never superseded, by whatever timers, kicks and late events: the one
\* that could be lost would keep receiving the mail that the page drops.
OneSocket == \A s \in Socket : link[s] \in {"opening", "open"} => current = s

\* However a request ended, what comes later does not change it.
LateIsIgnored ==
    [][\A r \in Request : outcome[r] \notin {"none", "pending"} => outcome'[r] = outcome[r]]_connectionVars

\* Every request ends: answered, refused, dropped with its socket, or at its deadline.
RequestsEnd == \A r \in Request : outcome[r] = "pending" ~> outcome[r] # "pending"

\* What client.ts says of a dropped socket, that it "self-heals": once there was a first
\* attempt, there is a connection or something that will make one.
SelfHeals ==
    routine["first"] = "done" =>
        \/ timer \/ Connecting
        \/ current # 0 /\ (online \/ link[current] = "closing")

\* What transport.ts says of the deadline, that it is for "a request whose response
\* never arrives": a response that arrives in time ends its request.
ArrivedIsHeard ==
    [][\A s \in Socket :
          current = s /\ link'[s] = "open" /\ down[s] # <<>> /\ Head(down[s]).t = "answer"
                      /\ down'[s] = Tail(down[s])
              => outcome'[Head(down[s]).req] # "pending"]_connectionVars
=============================================================================
