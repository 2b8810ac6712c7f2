----------------------------- MODULE WebScreens -----------------------------
(***************************************************************************)
(* How the screen of a shared terminal reaches the browsers,               *)
(* termua/src/web/mod.rs: update_snapshot on the UI thread, the            *)
(* broadcaster task, and the first screen of a client.  An update holds    *)
(* the rows that differ between the last broadcast and the snapshot        *)
(* (serialize_terminal_screen_update_ansi of gpui_term/src/cast.rs).       *)
(*                                                                         *)
(* A screen is its rows.  The screen's size, the cursor and the selection  *)
(* go along with every message whole, so only the rows can go wrong.       *)
(***************************************************************************)
EXTENDS Integers, Sequences

CONSTANTS Rows,     \* rows of the terminal
          Texts,    \* what a row may hold
          Browsers,  \* websockets
          Blank     \* a row of the browser's terminal never written

ASSUME ScreensAssumption == Blank \notin Texts

Screens == [Rows -> Texts]

VARIABLES
    terminal,   \* the terminal's rows, as the UI thread sees them
    snapshot,   \* ServerState::snapshot
    broadcast,  \* ServerState::broadcast_screen
    token,      \* the channel of capacity one between the two
    updating,   \* update_snapshot has given up the lock, not yet sent its token
    sender,     \* the broadcaster: "idle", "waiting" (16 ms), "drained"
    shown,      \* the rows each browser shows once it has read its queue
    joined,     \* clients that authenticated
    inStep      \* history: those that did while nothing was unsent

screenVars == <<terminal, snapshot, broadcast, token, updating, sender, shown, joined, inStep>>

ScreenInit ==
    /\ terminal \in Screens
    /\ snapshot = terminal /\ broadcast = terminal
    /\ token = FALSE /\ updating = FALSE /\ sender = "idle"
    /\ shown = [c \in Browsers |-> [r \in Rows |-> Blank]]
    /\ joined = {} /\ inStep = {}

-----------------------------------------------------------------------------

\* The program writes to the terminal, one row at a time.
Write(r, t) ==
    /\ ~updating
    /\ terminal' = [terminal EXCEPT ![r] = t]
    /\ UNCHANGED <<snapshot, broadcast, token, updating, sender, shown, joined, inStep>>

\* update_snapshot under the lock; an equal screen returns early.
StoreSnapshot ==
    /\ ~updating
    /\ snapshot # terminal
    /\ snapshot' = terminal
    /\ updating' = TRUE
    /\ UNCHANGED <<terminal, broadcast, token, sender, shown, joined, inStep>>

\* The token is sent after the lock is given up; a full channel drops it.
SendToken ==
    /\ updating
    /\ token' = TRUE
    /\ updating' = FALSE
    /\ UNCHANGED <<terminal, snapshot, broadcast, sender, shown, joined, inStep>>

\* The broadcaster receives a token and sleeps for a frame.
Wake ==
    /\ sender = "idle" /\ token
    /\ token' = FALSE
    /\ sender' = "waiting"
    /\ UNCHANGED <<terminal, snapshot, broadcast, updating, shown, joined, inStep>>

\* Mutant: what is drained is not looked at again before the next token.
DrainAndSleep ==
    /\ sender = "waiting"
    /\ token' = FALSE
    /\ sender' = "idle"
    /\ UNCHANGED <<terminal, snapshot, broadcast, updating, shown, joined, inStep>>

\* After the sleep it takes the tokens that came in meanwhile.
Drain ==
    /\ sender = "waiting"
    /\ token' = FALSE
    /\ sender' = "drained"
    /\ UNCHANGED <<terminal, snapshot, broadcast, updating, shown, joined, inStep>>

\* Mutant: the rows are compared with what the terminal shows by now.
ChangedSince == {r \in Rows : broadcast[r] # terminal[r]}

\* The rows of an update.
Changed == {r \in Rows : broadcast[r] # snapshot[r]}

\* Under the lock, the update is queued for every client.
BroadcastScreen ==
    /\ sender = "drained"
    /\ shown' = [c \in Browsers |-> [r \in Rows |->
                    IF c \in joined /\ r \in Changed THEN snapshot[r] ELSE shown[c][r]]]
    /\ broadcast' = snapshot
    /\ sender' = "idle"
    /\ UNCHANGED <<terminal, snapshot, token, updating, joined, inStep>>

\* A client authenticates and is sent the whole snapshot.
SendFirstScreen(c) ==
    /\ c \notin joined
    /\ joined' = joined \cup {c}
    /\ inStep' = IF snapshot = broadcast THEN inStep \cup {c} ELSE inStep
    /\ shown' = [shown EXCEPT ![c] = snapshot]
    /\ UNCHANGED <<terminal, snapshot, broadcast, token, updating, sender>>

ScreenNext ==
    \/ \E r \in Rows, t \in Texts : Write(r, t)
    \/ StoreSnapshot \/ SendToken
    \/ Wake \/ Drain \/ BroadcastScreen
    \/ \E c \in Browsers : SendFirstScreen(c)

\* The UI thread and the broadcaster go on; the terminal may fall silent.
ScreenFairness ==
    /\ WF_screenVars(StoreSnapshot) /\ WF_screenVars(SendToken)
    /\ WF_screenVars(Wake) /\ WF_screenVars(Drain) /\ WF_screenVars(BroadcastScreen)

ScreenSpec == ScreenInit /\ [][ScreenNext]_screenVars
ScreenFairSpec == ScreenSpec /\ ScreenFairness

-----------------------------------------------------------------------------

ScreenTypeOK ==
    /\ terminal \in Screens /\ snapshot \in Screens /\ broadcast \in Screens
    /\ token \in BOOLEAN /\ updating \in BOOLEAN
    /\ sender \in {"idle", "waiting", "drained"}
    /\ shown \in [Browsers -> [Rows -> Texts \cup {Blank}]]
    /\ joined \subseteq Browsers /\ inStep \subseteq joined

\* A snapshot that was not broadcast is never forgotten: a token is in the
\* channel or on its way, or the broadcaster is already awake.  In particular
\* the token drained with the lock not yet taken is no loss.
UpdateNotLost ==
    snapshot # broadcast => token \/ updating \/ sender # "idle"

\* A browser that joined while nothing was unsent shows the last broadcast at
\* all times: the updates, each against the one before, add up.
UpdatesAddUp == \A c \in inStep : shown[c] = broadcast

\* Once the terminal is silent, the last broadcast is its screen.
BroadcastCatchesUp == \A s \in Screens : <>[](terminal = s) => <>[](broadcast = s)

\* Nothing is left to send.
Quiet == terminal = snapshot /\ snapshot = broadcast /\ ~token /\ ~updating /\ sender = "idle"

\* rapid_snapshots_do_not_revoke_client_access waits for the latest snapshot to
\* reach the browser: with nothing left to send, every browser shows it.
BrowsersShowSnapshot == Quiet => \A c \in joined : shown[c] = snapshot
=============================================================================
