------------------------------ MODULE WebShare ------------------------------
(***************************************************************************)
(* One shared terminal, termua/src/web/mod.rs: the access rules            *)
(* (ShareAccess), one handler task per websocket (serve_websocket), the    *)
(* broadcaster, the desktop's approval and input loops                     *)
(* (window/main_window/actions.rs) and shutdown.                           *)
(*                                                                         *)
(* A step is what runs under one hold of the state lock, or between two    *)
(* awaits.  A client is one websocket: a browser that reconnects is        *)
(* another client.  Screens are in WebScreens, the share's start, expiry   *)
(* and lock in WebShareDesktop.                                            *)
(***************************************************************************)
EXTENDS Integers, Sequences, FiniteSets

CONSTANTS Clients,     \* websockets
          NoClient,    \* no controller, no prompt
          MaxOut,      \* capacity of a client's message queue (64)
          MaxControl,  \* capacity of the control channel (16)
          MaxInput,    \* capacity of the input channel (256)
          MaxRequests  \* bound: control requests granted an id

Request == [id : 1..MaxRequests, client : Clients]

ASSUME WebShareAssumption ==
    /\ NoClient \notin Clients \cup Request
    /\ MaxOut \in Nat /\ MaxOut >= 2
    /\ MaxControl \in Nat \ {0} /\ MaxInput \in Nat \ {0} /\ MaxRequests \in Nat

VARIABLES
    phase,       \* where each handler is in serve_websocket
    listed,      \* ServerState::clients
    known,       \* ShareAccess::clients
    controller,  \* ShareAccess::controller
    pending,     \* ShareAccess::pending, as a set of requests
    nextId,      \* ShareAccess::next_request_id
    queued,      \* length of each client's message queue
    view,        \* the last access message queued for each client
    missed,      \* history: clients whose last access message found no room
    cut,         \* clients whose socket the server has shut down
    asking,      \* the requests a handler is sending to the desktop
    controlQ,    \* the control channel
    prompt,      \* the request whose dialog is open
    inputQ,      \* the input channel: the sender of each input
    listening,   \* the desktop's input loop runs
    late,        \* history: inputs each client got written since it lost control
    dirty,       \* an update token waits for the broadcaster
    closed       \* WebShareServer::closed

accessVars == <<known, controller, pending, nextId>>
outVars == <<queued, view, missed>>
deskVars == <<asking, controlQ, prompt>>
inputVars == <<inputQ, listening, late>>
serverVars == <<listed, cut, dirty, closed>>
vars == <<phase, accessVars, outVars, deskVars, inputVars, serverVars>>

Phases == {"new", "open", "auth", "asking", "typing", "ended", "failed"}

Init ==
    /\ phase = [c \in Clients |-> "new"]
    /\ listed = {} /\ known = {} /\ controller = NoClient
    /\ pending = {} /\ nextId = 1
    /\ queued = [c \in Clients |-> 0]
    /\ view = [c \in Clients |-> "none"]
    /\ missed = {} /\ cut = {}
    /\ asking = {} /\ controlQ = <<>> /\ prompt = NoClient
    /\ inputQ = <<>> /\ listening = TRUE /\ late = [c \in Clients |-> 0]
    /\ dirty = FALSE /\ closed = FALSE

-----------------------------------------------------------------------------
(* Message queues and access rules. *)

\* try_send succeeds: there is room and the handler still holds the receiver.
Fits(c) == phase[c] # "failed" /\ queued[c] < MaxOut

\* try_send to one client; a full queue drops the message.
Offer(c) == queued' = [queued EXCEPT ![c] = IF Fits(c) THEN @ + 1 ELSE @]

Access(c, ctl) == IF ctl = c THEN "control" ELSE "read"

\* broadcast_access to the clients S, with controller ctl.
BroadcastAccess(S, ctl) ==
    LET told == {c \in S : Fits(c)}
    IN  /\ queued' = [c \in Clients |-> IF c \in told THEN queued[c] + 1 ELSE queued[c]]
        /\ view' = [c \in Clients |-> IF c \in told THEN Access(c, ctl) ELSE view[c]]
        /\ missed' = (missed \ told) \cup (S \ told)

\* Mutant: a client that leaves keeps its access.
DisconnectKeepsAccess(S) ==
    /\ pending' = {r \in pending : r.client \notin S}
    /\ controller' = IF controller \in S THEN NoClient ELSE controller
    /\ UNCHANGED known

\* ShareAccess::disconnect for the clients S.
Disconnect(S) ==
    /\ known' = known \ S
    /\ pending' = {r \in pending : r.client \notin S}
    /\ controller' = IF controller \in S THEN NoClient ELSE controller

-----------------------------------------------------------------------------
(* The handler of a websocket. *)

\* The request finds the session in the hub and the handshake begins; the
\* share may be shut down before the handler looks at it again.
Accept(c) ==
    /\ phase[c] = "new"
    /\ ~closed
    /\ phase' = [phase EXCEPT ![c] = "open"]
    /\ UNCHANGED <<accessVars, outVars, deskVars, inputVars, serverVars>>

\* Authenticate with the right token: listed, told it is read-only, and sent
\* the screen.
Authenticate(c) ==
    /\ phase[c] = "open"
    /\ phase' = [phase EXCEPT ![c] = "auth"]
    /\ known' = known \cup {c}
    /\ listed' = listed \cup {c}
    /\ queued' = [queued EXCEPT ![c] = @ + 2]
    /\ view' = [view EXCEPT ![c] = "read"]
    /\ UNCHANGED <<controller, pending, nextId, missed, deskVars, inputVars, cut, dirty, closed>>

\* The loop ends by a close frame, the end of the stream or a wrong token.
Leave(c) ==
    /\ phase[c] \in {"open", "auth"}
    /\ phase' = [phase EXCEPT ![c] = "ended"]
    /\ listed' = listed \ {c}
    /\ Disconnect({c})
    /\ BroadcastAccess(listed \ {c}, controller')
    /\ UNCHANGED <<nextId, deskVars, inputVars, cut, dirty, closed>>

\* Reading or writing the socket fails and the `?` returns at once.
Fail(c) ==
    /\ phase[c] \in {"open", "auth"}
    /\ phase' = [phase EXCEPT ![c] = "failed"]
    /\ UNCHANGED <<accessVars, outVars, deskVars, inputVars, serverVars>>

\* A queued message is written to the socket.
SendOut(c) ==
    /\ phase[c] \in {"open", "auth"}
    /\ queued[c] > 0
    /\ queued' = [queued EXCEPT ![c] = @ - 1]
    /\ UNCHANGED <<phase, accessVars, view, missed, deskVars, inputVars, serverVars>>

\* RequestControl, granted an id: the handler goes on to hand it to the desktop.
RequestControl(c) ==
    /\ phase[c] = "auth"
    /\ c \in known /\ controller # c /\ pending = {}
    /\ nextId <= MaxRequests
    /\ LET r == [id |-> nextId, client |-> c]
       IN  pending' = {r} /\ asking' = asking \cup {r}
    /\ nextId' = nextId + 1
    /\ phase' = [phase EXCEPT ![c] = "asking"]
    /\ UNCHANGED <<known, controller, outVars, controlQ, prompt, inputVars, serverVars>>

\* RequestControl, refused: the client already controls, or a request is open.
RequestRefused(c) ==
    /\ phase[c] = "auth"
    /\ c \in known /\ (controller = c \/ pending # {})
    /\ Offer(c)
    /\ UNCHANGED <<phase, accessVars, view, missed, deskVars, inputVars, serverVars>>

\* tx.send(request) finds room in the control channel.
SendRequest(c) ==
    /\ phase[c] = "asking"
    /\ Len(controlQ) < MaxControl
    /\ \E r \in asking :
          /\ r.client = c
          /\ asking' = asking \ {r}
          /\ controlQ' = Append(controlQ, r)
    /\ phase' = [phase EXCEPT ![c] = "auth"]
    /\ UNCHANGED <<accessVars, outVars, prompt, inputVars, serverVars>>

\* Mutant: the clients are not told that control is free again.
ReleaseSilently(c) ==
    /\ phase[c] = "auth" /\ controller = c
    /\ controller' = NoClient
    /\ UNCHANGED <<phase, known, pending, nextId, outVars, deskVars, inputVars, serverVars>>

\* ReleaseControl from the controller.
ReleaseControl(c) ==
    /\ phase[c] = "auth" /\ controller = c
    /\ controller' = NoClient
    /\ BroadcastAccess(listed, NoClient)
    /\ UNCHANGED <<phase, known, pending, nextId, deskVars, inputVars, serverVars>>

\* Mutant: input is taken from anyone who ever had control.
InputUnchecked(c) ==
    /\ phase[c] = "auth" /\ view[c] = "control"
    /\ phase' = [phase EXCEPT ![c] = "typing"]
    /\ UNCHANGED <<accessVars, outVars, deskVars, inputVars, serverVars>>

\* Input from the controller; the lock is given up before the input is sent on.
Input(c) ==
    /\ phase[c] = "auth" /\ controller = c
    /\ phase' = [phase EXCEPT ![c] = "typing"]
    /\ UNCHANGED <<accessVars, outVars, deskVars, inputVars, serverVars>>

\* tx.send(input) finds room in the input channel.
SendInput(c) ==
    /\ phase[c] = "typing"
    /\ Len(inputQ) < MaxInput
    /\ inputQ' = Append(inputQ, c)
    /\ phase' = [phase EXCEPT ![c] = "auth"]
    /\ UNCHANGED <<accessVars, outVars, deskVars, listening, late, serverVars>>

-----------------------------------------------------------------------------
(* The broadcaster and the desktop. *)

\* update_snapshot with a new screen leaves one token for the broadcaster.
UpdateSnapshot ==
    /\ ~closed /\ ~dirty
    /\ dirty' = TRUE
    /\ UNCHANGED <<phase, accessVars, outVars, deskVars, inputVars, listed, cut, closed>>

\* The broadcaster sends the update; a client it cannot reach is cut off.
Broadcast ==
    /\ dirty
    /\ dirty' = FALSE
    /\ LET lost == {c \in listed : ~Fits(c)}
       IN  /\ queued' = [c \in Clients |->
                            IF c \in listed \ lost THEN queued[c] + 1 ELSE queued[c]]
           /\ listed' = listed \ lost
           /\ cut' = cut \cup lost
           /\ Disconnect(lost)
    /\ UNCHANGED <<phase, nextId, view, missed, deskVars, inputVars, closed>>

\* The approval loop takes a request and opens its dialog (the window outlives
\* its shares).
OpenPrompt ==
    /\ prompt = NoClient /\ controlQ # <<>>
    /\ prompt' = Head(controlQ)
    /\ controlQ' = Tail(controlQ)
    /\ UNCHANGED <<phase, accessVars, outVars, asking, inputVars, serverVars>>

\* Mutant: the request is not looked up among the pending ones.
ApproveStale ==
    /\ prompt # NoClient
    /\ controller' = prompt.client
    /\ pending' = {}
    /\ BroadcastAccess(listed, controller')
    /\ late' = [late EXCEPT ![prompt.client] = 0]
    /\ prompt' = NoClient
    /\ UNCHANGED <<phase, known, nextId, asking, controlQ, inputQ, listening, serverVars>>

\* approve_control: a request no longer pending is an error and changes nothing.
Approve ==
    /\ prompt # NoClient
    /\ IF prompt \in pending /\ prompt.client \in known
       THEN /\ controller' = prompt.client
            /\ pending' = {}
            /\ BroadcastAccess(listed, controller')
            /\ late' = [late EXCEPT ![prompt.client] = 0]
       ELSE /\ pending' = pending \ {prompt}
            /\ UNCHANGED <<controller, outVars, late>>
    /\ prompt' = NoClient
    /\ UNCHANGED <<phase, known, nextId, asking, controlQ, inputQ, listening, serverVars>>

\* Mutant: a dismissed dialog leaves the request pending.
DenyForgets ==
    /\ prompt # NoClient
    /\ prompt' = NoClient
    /\ UNCHANGED <<phase, accessVars, outVars, asking, controlQ, inputVars, serverVars>>

\* deny_control, on a refusal or when the dialog goes away.
Deny ==
    /\ prompt # NoClient
    /\ pending' = pending \ {prompt}
    /\ prompt' = NoClient
    /\ UNCHANGED <<phase, known, controller, nextId, outVars, asking, controlQ,
                   inputVars, serverVars>>

\* revoke_control, from the menu of a share that is still active.
Revoke ==
    /\ ~closed /\ controller # NoClient
    /\ controller' = NoClient
    /\ BroadcastAccess(listed, NoClient)
    /\ UNCHANGED <<phase, known, pending, nextId, deskVars, inputVars, serverVars>>

\* terminal.input of the oldest input, whoever controls by now.
WriteInput ==
    /\ late' = [late EXCEPT ![Head(inputQ)] = IF controller = Head(inputQ) THEN 0 ELSE @ + 1]
    /\ UNCHANGED listening

\* Mutant: the input loop stops with the share.
TakeInputWhileOpen ==
    /\ inputQ # <<>> /\ listening /\ ~closed
    /\ inputQ' = Tail(inputQ)
    /\ WriteInput
    /\ UNCHANGED <<phase, accessVars, outVars, deskVars, serverVars>>

\* The input loop takes the next input; when the terminal is gone it ends, and what
\* follows stays in the channel.
TakeInput ==
    /\ inputQ # <<>> /\ listening
    /\ inputQ' = Tail(inputQ)
    /\ WriteInput \/ (listening' = FALSE /\ UNCHANGED late)
    /\ UNCHANGED <<phase, accessVars, outVars, deskVars, serverVars>>

\* shutdown: sockets are shut down and the list is cleared; the access rules
\* and the handlers are left to the handlers' own ends.
Shutdown ==
    /\ ~closed
    /\ closed' = TRUE
    /\ cut' = cut \cup listed
    /\ listed' = {}
    /\ UNCHANGED <<phase, accessVars, outVars, deskVars, inputVars, dirty>>

Handler(c) ==
    \/ Accept(c) \/ Authenticate(c) \/ Leave(c) \/ Fail(c) \/ SendOut(c)
    \/ RequestControl(c) \/ RequestRefused(c) \/ SendRequest(c)
    \/ ReleaseControl(c) \/ Input(c) \/ SendInput(c)

Desktop == OpenPrompt \/ Approve \/ Deny \/ Revoke \/ TakeInput \/ Shutdown

Next == (\E c \in Clients : Handler(c)) \/ UpdateSnapshot \/ Broadcast \/ Desktop

\* The executors run what is ready.  A socket that was shut down holds finitely
\* many messages, then ends the stream or fails, and a handler that waits for
\* room in the input channel is woken in turn; nobody has to write, ask, answer
\* or change the screen.
Fairness ==
    /\ \A c \in Clients : /\ SF_phase(SendInput(c))
                         /\ SF_phase(c \in cut /\ (Leave(c) \/ Fail(c)))
    /\ WF_dirty(Broadcast) /\ WF_prompt(OpenPrompt) /\ WF_inputQ(TakeInput)

Spec == Init /\ [][Next]_vars
FairSpec == Spec /\ Fairness

-----------------------------------------------------------------------------

TypeOK ==
    /\ phase \in [Clients -> Phases]
    /\ listed \subseteq Clients /\ known \subseteq Clients /\ cut \subseteq Clients
    /\ controller \in Clients \cup {NoClient}
    /\ pending \subseteq Request /\ asking \subseteq Request
    /\ nextId \in 1..(MaxRequests + 1)
    /\ queued \in [Clients -> 0..MaxOut]
    /\ view \in [Clients -> {"none", "read", "control"}]
    /\ missed \subseteq Clients
    /\ controlQ \in Seq(Request) /\ Len(controlQ) <= MaxControl
    /\ prompt \in Request \cup {NoClient}
    /\ inputQ \in Seq(Clients) /\ Len(inputQ) <= MaxInput
    /\ listening \in BOOLEAN /\ late \in [Clients -> Nat]
    /\ dirty \in BOOLEAN /\ closed \in BOOLEAN

\* The server's list and the access rules name the same clients, whatever way
\* each came and went, until the share is shut down; and a client that left by
\* the end of its loop is in neither.
SameClients ==
    /\ ~closed => listed = known
    /\ \A c \in Clients : phase[c] = "ended" => c \notin listed \cup known

\* Control and the open request belong to clients the access rules know.
ControlIsKnown ==
    /\ controller \in known \cup {NoClient}
    /\ \A r \in pending : r.client \in known

\* The server's list and the access rules never tell different stories.
AccessConsistent == SameClients /\ ControlIsKnown

\* The open request, which shuts out every other, is always on its way to an
\* answer: with its handler, in the control channel or in the open dialog.
PendingReachesDesktop ==
    \A r \in pending : r \in asking \/ r = prompt \/ \E i \in DOMAIN controlQ : controlQ[i] = r

\* What a listed client was last told about control is true, unless its queue
\* had no room for the news.
ViewTrue ==
    ~closed => \A c \in listed \ missed : view[c] = Access(c, controller)

\* The input loop does not look at the access rules again, so what a client typed
\* while it had control is still written after it lost it: what fits in the channel
\* and the one input its handler was sending.  Nothing typed later gets through.
LateInputBounded == \A c \in Clients : late[c] <= MaxInput + 1

\* Approving a dialog whose client has left or whose request was replaced
\* gives control to nobody and does not take it from its holder.
StaleApprovalsIgnored ==
    [][controller' # controller /\ controller' # NoClient =>
          \E r \in pending : r = prompt /\ r.client = controller' /\ r.client \in known]_vars

\* A client the server cut off goes away, unless it waits for the desktop to
\* take its request or for a terminal that is gone to take its input.
CutClientsLeave ==
    \A c \in Clients :
        c \in cut ~> \/ phase[c] \in {"ended", "failed", "asking"}
                     \/ phase[c] = "typing" /\ ~listening

\* disconnecting_controller_releases_control, whatever way it disconnects.
DisconnectReleasesControl ==
    \A c \in Clients : phase[c] = "failed" ~> (controller # c \/ closed)
=============================================================================
