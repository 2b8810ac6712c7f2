--------------------------- MODULE WebShareDesktop ---------------------------
(***************************************************************************)
(* Web shares as the window keeps them: the toggle of a terminal tab, the  *)
(* asynchronous start, expiry, the screen lock and closed tabs             *)
(* (termua/src/window/main_window/actions.rs and state.rs), and the        *)
(* listener that the shares of one port have in common (WebShareManager    *)
(* and WebShareHub of termua/src/web/mod.rs).                              *)
(*                                                                         *)
(* The window's code runs on the UI thread: a step is one of its tasks     *)
(* from one await to the next, with the observers it triggers.             *)
(***************************************************************************)
EXTENDS Naturals, FiniteSets

CONSTANTS Terminals,  \* terminals with a tab; a closed tab does not come back
          Starts,     \* attempts to start a share, each its own server
          None        \* no share

ASSUME StartsAssumption == None \notin Starts \cup Terminals

VARIABLES
    of,         \* the terminal each attempt is for, None before it is made
    server,     \* what became of each attempt's server
    starting,   \* web_shares_starting
    shares,     \* web_shares: the server of each terminal, or None
    indicator,  \* terminals that the share indicator shows as active
    counted,    \* the server whose client count is shown for each terminal
    expiring,   \* servers whose expiry loop runs
    tabs,       \* terminals whose tab is open
    locked,     \* LockState::locked, as observed
    sessions,   \* WebShareHub::sessions of the port's hub
    hub,        \* the port's hub: "none", "open" or "closed"
    listener    \* the hub's task holds the listening socket

windowVars == <<starting, shares, indicator, counted, expiring>>
hubVars == <<sessions, hub, listener>>
shareVars == <<of, server, windowVars, tabs, locked, hubVars>>

WindowInit ==
    /\ of = [a \in Starts |-> None]
    /\ server = [a \in Starts |-> "unused"]
    /\ starting = {} /\ indicator = {} /\ expiring = {}
    /\ shares = [t \in Terminals |-> None]
    /\ counted = [t \in Terminals |-> None]
    /\ tabs = Terminals
    /\ locked = FALSE
    /\ sessions = {} /\ hub = "none" /\ listener = FALSE

Running(a) == server[a] \in {"bound", "open"}
Shared == {t \in Terminals : shares[t] # None}

-----------------------------------------------------------------------------
(* Servers and their hub. *)

\* Mutant: the hub stays open with no session left.
KeepHub(rest) == hub

HubAfter(rest) == IF rest = {} THEN "closed" ELSE hub

\* shutdown of the servers S, those already closed aside: the sessions go, and
\* with the last one the hub closes for good.
ShutDown(S) ==
    LET live == {a \in S : Running(a)}
    IN  /\ server' = [a \in Starts |-> IF a \in live THEN "shut" ELSE server[a]]
        /\ sessions' = sessions \ live
        /\ hub' = IF live = {} THEN hub ELSE HubAfter(sessions \ live)
        /\ UNCHANGED listener

\* bind_with_manager: the session joins the hub of its port; without one the
\* port is bound, which fails while somebody listens on it, another program or
\* the closed hub's task that has not ended yet.
Bind(a) ==
    /\ server[a] = "binding"
    /\ \/ /\ hub = "open" \/ ~listener
          /\ server' = [server EXCEPT ![a] = "bound"]
          /\ sessions' = sessions \cup {a}
          /\ hub' = "open"
          /\ listener' = IF hub = "open" THEN listener ELSE TRUE
       \/ /\ hub # "open"
          /\ server' = [server EXCEPT ![a] = "refused"]
          /\ UNCHANGED hubVars
    /\ UNCHANGED <<of, windowVars, tabs, locked>>

\* The accept loop of the hub ends, on the shutdown message or on an error of
\* accept; an error does not close the hub.
ListenerEnds ==
    /\ listener
    /\ listener' = FALSE
    /\ UNCHANGED <<of, server, windowVars, tabs, locked, sessions, hub>>

-----------------------------------------------------------------------------
(* The window. *)

\* The toggle on a terminal that is not shared: the attempt a begins.
Start(t, a) ==
    /\ ~locked /\ t \in tabs
    /\ shares[t] = None /\ t \notin starting
    /\ server[a] = "unused"
    /\ starting' = starting \cup {t}
    /\ of' = [of EXCEPT ![a] = t]
    /\ server' = [server EXCEPT ![a] = "binding"]
    /\ UNCHANGED <<shares, indicator, counted, expiring, tabs, locked, hubVars>>

\* stop_web_share_for_terminal, for the terminals T.
StopShares(T) ==
    /\ starting' = starting \ T
    /\ shares' = [t \in Terminals |-> IF t \in T THEN None ELSE shares[t]]
    /\ indicator' = indicator \ T
    /\ ShutDown({shares[t] : t \in T \cap Shared})

\* The toggle on a shared terminal.
Stop(t) ==
    /\ ~locked /\ t \in tabs
    /\ shares[t] # None
    /\ StopShares({t})
    /\ UNCHANGED <<of, counted, expiring, tabs, locked>>

\* Mutant: the slot is not looked at when the start completes.
CompleteAnyway(a) ==
    /\ server[a] = "bound"
    /\ starting' = starting \ {of[a]}
    /\ shares' = [shares EXCEPT ![of[a]] = a]
    /\ indicator' = indicator \cup {of[a]}
    /\ counted' = [counted EXCEPT ![of[a]] = a]
    /\ expiring' = expiring \cup {a}
    /\ server' = [server EXCEPT ![a] = "open"]
    /\ UNCHANGED <<of, tabs, locked, hubVars>>

\* Mutant: the terminal's slot outlives a failed start.
CompleteKeepsSlot(a) ==
    /\ server[a] = "refused"
    /\ server' = [server EXCEPT ![a] = "failed"]
    /\ UNCHANGED <<of, windowVars, tabs, locked, hubVars>>

\* The start of a completes; the terminal's slot is used up.  A server that is
\* no longer wanted, or that comes up under the lock, is shut down again.
Complete(a) ==
    /\ server[a] \in {"bound", "refused"}
    /\ starting' = starting \ {of[a]}
    /\ IF server[a] = "bound" /\ of[a] \in starting /\ ~locked
       THEN /\ shares' = [shares EXCEPT ![of[a]] = a]
            /\ indicator' = indicator \cup {of[a]}
            /\ counted' = [counted EXCEPT ![of[a]] = a]
            /\ expiring' = expiring \cup {a}
            /\ server' = [server EXCEPT ![a] = "open"]
            /\ UNCHANGED hubVars
       ELSE /\ IF server[a] = "bound" THEN ShutDown({a})
               ELSE server' = [server EXCEPT ![a] = "failed"] /\ UNCHANGED hubVars
            /\ UNCHANGED <<shares, indicator, counted, expiring>>
    /\ UNCHANGED <<of, tabs, locked>>

\* Mutants: the loop does not see that its server is closed; the share that
\* ends is not compared with the one in the map.
TickOn(a) ==
    /\ a \in expiring
    /\ counted' = [counted EXCEPT ![of[a]] = IF of[a] \in indicator THEN a ELSE @]
    /\ UNCHANGED <<of, server, starting, shares, indicator, expiring, tabs, locked, hubVars>>

ExpireAny(a) ==
    /\ shares' = [shares EXCEPT ![of[a]] = None]
    /\ indicator' = indicator \ {of[a]}

\* The window forgets the share that ended, if it is still the terminal's.
ExpireOwn(a) ==
    IF shares[of[a]] = a
    THEN /\ shares' = [shares EXCEPT ![of[a]] = None]
         /\ indicator' = indicator \ {of[a]}
    ELSE UNCHANGED <<shares, indicator>>

\* A second has passed in the loop of server a: the count is shown, and the
\* loop ends when the server is closed, its terminal is gone or nobody was
\* active for the timeout.
Tick(a) ==
    /\ a \in expiring
    /\ counted' = [counted EXCEPT ![of[a]] = IF of[a] \in indicator THEN a ELSE @]
    /\ \/ /\ server[a] = "open" /\ of[a] \in tabs
          /\ UNCHANGED <<server, shares, indicator, expiring, hubVars>>
       \/ /\ ExpireOwn(a)
          /\ ShutDown({a})
          /\ expiring' = expiring \ {a}
    /\ UNCHANGED <<of, starting, tabs, locked>>

\* The tab is closed; the layout event stops the shares without a tab and gives
\* up the starts.
CloseTab(t) ==
    /\ t \in tabs
    /\ tabs' = tabs \ {t}
    /\ StopShares({t})
    /\ UNCHANGED <<of, counted, expiring, locked>>

\* The screen locks; the observer shuts every share down.
Lock ==
    /\ ~locked
    /\ locked' = TRUE
    /\ StopShares(Terminals)
    /\ UNCHANGED <<of, counted, expiring, tabs>>

Unlock ==
    /\ locked
    /\ locked' = FALSE
    /\ UNCHANGED <<of, server, windowVars, tabs, hubVars>>

WindowNext ==
    \/ \E t \in Terminals : (\E a \in Starts : Start(t, a)) \/ Stop(t) \/ CloseTab(t)
    \/ \E a \in Starts : Bind(a) \/ Complete(a) \/ Tick(a)
    \/ ListenerEnds \/ Lock \/ Unlock

WindowSpec == WindowInit /\ [][WindowNext]_shareVars

-----------------------------------------------------------------------------

WindowTypeOK ==
    /\ of \in [Starts -> Terminals \cup {None}]
    /\ server \in [Starts -> {"unused", "binding", "bound", "refused", "open", "shut", "failed"}]
    /\ \A a \in Starts : of[a] = None <=> server[a] = "unused"
    /\ starting \subseteq Terminals /\ indicator \subseteq Terminals /\ tabs \subseteq Terminals
    /\ shares \in [Terminals -> Starts \cup {None}]
    /\ counted \in [Terminals -> Starts \cup {None}]
    /\ expiring \subseteq Starts /\ sessions \subseteq Starts
    /\ locked \in BOOLEAN /\ listener \in BOOLEAN
    /\ hub \in {"none", "open", "closed"}

\* Every open server is the one the window keeps for its terminal, so that the
\* toggle, the lock and the tab's end can still stop it, and the other way
\* round: no entry is left for a server that ended.  The indicator shows just
\* these terminals.
NoOrphans ==
    /\ \A a \in Starts : server[a] = "open" <=> of[a] \in Terminals /\ shares[of[a]] = a
    /\ indicator = Shared

\* While the screen is locked or the tab is gone nothing is shared, including
\* shares whose start was under way.
NothingUnderLock ==
    \A a \in Starts : server[a] = "open" => ~locked /\ of[a] \in tabs

\* A terminal being started is not shared, so a start that completes never
\* overwrites a running share; and a start is under way for it, so the toggle
\* does not wait for nothing.
SlotIsOpen ==
    \A t \in starting :
        /\ shares[t] = None
        /\ \E a \in Starts : of[a] = t /\ server[a] \in {"binding", "bound", "refused"}

\* A count shown for a shared terminal that comes from an earlier share is the
\* last word of a loop that ended, and the loop of the share goes on to
\* correct it.
CountSoonRight ==
    \A t \in Shared :
        counted[t] # shares[t] => counted[t] \notin expiring /\ shares[t] \in expiring

\* The hub of the port is open exactly while a server needs it and knows
\* exactly the servers that run, so no start joins a hub that is closing.
HubServesRunning ==
    /\ sessions = {a \in Starts : Running(a)}
    /\ hub = "open" <=> sessions # {}
=============================================================================
