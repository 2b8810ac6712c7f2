------------------------------ MODULE SshOpen ------------------------------
(***************************************************************************)
(* Opening SSH sessions: the sidebar and its connecting flags              *)
(* (panel/sessions_sidebar/actions.rs), the window that starts attempts,   *)
(* asks about host keys and shows how they end                             *)
(* (window/main_window/actions/ssh.rs), the login on a background thread   *)
(* (crates/gpui_term/src/backends/ssh.rs) and the session thread it talks  *)
(* to over a channel of events (crates/wezterm-ssh, backend ssh2).         *)
(*                                                                         *)
(* An attempt is three actors that share only channels: the session thread *)
(* (which blocks on each question it asks), the login (which waits with    *)
(* timeouts) and the window (whose dialogs outlive the questions).  All    *)
(* attempts share the known_hosts file.                                    *)
(***************************************************************************)
EXTENDS Integers, Sequences, FiniteSets

CONSTANTS Sessions,     \* SSH sessions
          Passworded,   \* those that log in with a saved password
          Hosts,        \* servers, jump servers among them
          Route,        \* the servers each session logs in to, its own last
          KnownAtStart, \* what known_hosts says of each host
          Tabs,         \* SSH tabs of the saved workspace
          Link,         \* the session each of them is linked to, or None
          None,
          MaxAttempts,  \* bound: attempts made
          MaxPasswordPrompts   \* MAX_PASSWORD_PROMPTS, 3 in the code

Entries == {"absent", "right", "wrong"}

ASSUME SshAssumption ==
    /\ Passworded \subseteq Sessions
    /\ None \notin Sessions \cup Tabs
    /\ Route \in [Sessions -> Seq(Hosts)]
    /\ \A s \in Sessions : Route[s] # <<>>
    /\ KnownAtStart \in [Hosts -> Entries]
    /\ Link \in [Tabs -> Sessions \cup {None}]
    /\ MaxAttempts \in Nat /\ MaxPasswordPrompts \in Nat

Attempts == 1..MaxAttempts

VARIABLES
    connecting,  \* connecting_session_ids of the sidebar
    deleting,    \* deleting_session_ids
    stored,      \* sessions in the database
    complete,    \* sessions saved with a host and, if they need one, a password
    tab,         \* restored SSH tabs
    unvisited,   \* tabs restore_pending_ssh_panels has not come to
    dialogs,     \* stack of open dialogs, the top one last
    made,        \* attempts made so far
    of, linked, into,   \* params, session_id and replacement of an attempt
    phase,       \* where each login is, and how it was shown to end
    asked,       \* password_prompt_count
    question,    \* the prompt about the current host key, on its way to the user
    reply,       \* what its reply channel holds
    thread,      \* where each session thread is
    hop,         \* the host of the route it is at
    events,      \* the channel of SessionEvent
    snapshot,    \* known_hosts as the thread read it, while it waits for the user
    exists,      \* there is a known_hosts file, which the program never makes
    file,        \* known_hosts, if there is one
    trusted      \* history: hosts the user vouched for while the login waited

sidebarVars == <<connecting, deleting, stored, complete>>
jobVars == <<made, of, linked, into>>
loginVars == <<phase, asked, question, reply>>
threadVars == <<thread, hop, events, snapshot>>
windowVars == <<tab, unvisited, dialogs>>
keyVars == <<exists, file, trusted>>
vars == <<sidebarVars, jobVars, loginVars, threadVars, windowVars, keyVars>>

Running == {"login", "asking", "pty"}
Results == {"connected", "error", "mismatch"}   \* not shown by the window yet
Ended == {"opened", "refused", "mismatched"}
UnderWay(a) == phase[a] \in Running \cup Results

Here(a) == Route[of[a]][hop[a]]
Last(a) == hop[a] = Len(Route[of[a]])

\* What host_verification knows before it has read anything.
NoKeys == [h \in Hosts |-> "absent"]

Kinds == {"Banner", "HostVerify", "HostVerificationFailed", "Password", "Question",
          "Authenticated", "Error"}

Init ==
    /\ connecting = {} /\ deleting = {} /\ stored \in SUBSET Sessions
    /\ complete \in SUBSET Sessions
    /\ tab = [t \in Tabs |-> "restoring"] /\ unvisited = Tabs
    /\ dialogs = <<>>
    /\ made = 0
    /\ of = [a \in Attempts |-> None]
    /\ linked = [a \in Attempts |-> FALSE]
    /\ into = [a \in Attempts |-> None]
    /\ phase = [a \in Attempts |-> "idle"]
    /\ asked = [a \in Attempts |-> 0]
    /\ question = [a \in Attempts |-> "none"]
    /\ reply = [a \in Attempts |-> "none"]
    /\ thread = [a \in Attempts |-> "none"]
    /\ hop = [a \in Attempts |-> 1]
    /\ events = [a \in Attempts |-> <<>>]
    /\ snapshot = [a \in Attempts |-> NoKeys]
    /\ exists \in BOOLEAN /\ file = KnownAtStart
    /\ trusted = {}

\* add_ssh_terminal_with_params_at: the tasks of one more attempt.
StartAttempt(s, isLinked, t) ==
    LET a == made + 1 IN
    /\ made < MaxAttempts
    /\ made' = a
    /\ of' = [of EXCEPT ![a] = s]
    /\ linked' = [linked EXCEPT ![a] = isLinked]
    /\ into' = [into EXCEPT ![a] = t]
    /\ phase' = [phase EXCEPT ![a] = "login"]
    /\ thread' = [thread EXCEPT ![a] = "dial"]
    /\ UNCHANGED <<asked, question, reply, hop, events, snapshot>>

\* The window is being built: nothing is clicked before its tabs are restored.
Ready == unvisited = {}

-----------------------------------------------------------------------------
(* The sidebar. *)

\* open_session_by_id and open_saved_ssh_session_at return early when the
\* session is gone, or has no host or no password; nobody clears the flag.
OpenSession(s) ==
    IF s \in stored \cap complete
    THEN StartAttempt(s, TRUE, None)
    ELSE UNCHANGED <<jobVars, loginVars, threadVars>>

\* handle_session_click on a listed session.
Click(s) ==
    /\ Ready /\ s \in stored \cup deleting
    /\ s \notin connecting
    /\ connecting' = connecting \cup {s}
    /\ OpenSession(s)
    /\ UNCHANGED <<deleting, stored, complete, windowVars, keyVars>>

\* delete_session_by_id; the row stays until the list is loaded again.
Delete(s) ==
    /\ Ready /\ s \in stored \ deleting
    /\ deleting' = deleting \cup {s}
    /\ connecting' = connecting \ {s}
    /\ UNCHANGED <<stored, complete, jobVars, loginVars, threadVars, windowVars, keyVars>>

DeleteReturns(s) ==
    /\ s \in deleting
    /\ stored' \in {stored, stored \ {s}}
    /\ deleting' = deleting \ {s}
    /\ UNCHANGED <<connecting, complete, jobVars, loginVars, threadVars, windowVars, keyVars>>

\* Mutant: the early return for a changed key leaves the flag.
ClearConnectingOwn(a) ==
    connecting' = IF linked[a] /\ phase[a] # "mismatch" THEN connecting \ {of[a]} ELSE connecting

\* clear_connecting_session, when an attempt has been shown to end.
ClearConnecting(a) ==
    connecting' = IF linked[a] THEN connecting \ {of[a]} ELSE connecting

-----------------------------------------------------------------------------
(* The tabs of the saved workspace: restore_pending_ssh_panels. *)

Restorable(t) == Link[t] \in stored \cap complete

RestoreTab(t) ==
    /\ t \in unvisited
    /\ unvisited' = unvisited \ {t}
    /\ IF Restorable(t)
       THEN StartAttempt(Link[t], TRUE, t)
       ELSE UNCHANGED <<jobVars, loginVars, threadVars>>
    /\ tab' = IF Link[t] \notin stored THEN [tab EXCEPT ![t] = "error"] ELSE tab
    /\ UNCHANGED <<dialogs, sidebarVars, keyVars>>

CloseTab(t) ==
    /\ Ready /\ tab[t] # "closed"
    /\ tab' = [tab EXCEPT ![t] = "closed"]
    /\ UNCHANGED <<unvisited, dialogs, sidebarVars, jobVars, loginVars, threadVars, keyVars>>

-----------------------------------------------------------------------------
(* The session thread (SessionInner::run_impl_ssh2, with one login for each *)
(* host of the route).                                                      *)

Post(a, e, next) ==
    /\ thread' = [thread EXCEPT ![a] = next]
    /\ events' = [events EXCEPT ![a] = Append(@, e)]

\* The connection and the handshake stand, or an error ended them.
ThreadDials(a) ==
    /\ thread[a] = "dial"
    /\ \/ Post(a, "Banner", "verify")
       \/ Post(a, "Error", "gone")
    /\ UNCHANGED <<hop, snapshot, jobVars, loginVars, sidebarVars, windowVars, keyVars>>

\* The file was read: the host is looked up in it.
LookUp(a) ==
    \/ /\ file[Here(a)] = "right"
       /\ thread' = [thread EXCEPT ![a] = "auth"]
       /\ UNCHANGED <<events, snapshot>>
    \/ /\ file[Here(a)] = "absent"
       /\ Post(a, "HostVerify", "confirm")
       /\ snapshot' = [snapshot EXCEPT ![a] = file]
    \/ /\ file[Here(a)] = "wrong"
       /\ Post(a, "HostVerificationFailed", "gone")
       /\ snapshot' = snapshot

\* host_verification: a file that is not there is skipped, and nobody is asked
\* about the host; reading it, the host's key or the check may fail.
ThreadVerifies(a) ==
    /\ thread[a] = "verify"
    /\ \/ exists /\ LookUp(a)
       \/ /\ ~exists
          /\ thread' = [thread EXCEPT ![a] = "auth"]
          /\ UNCHANGED <<events, snapshot>>
       \/ /\ Post(a, "Error", "gone")
          /\ snapshot' = snapshot
    /\ UNCHANGED <<hop, jobVars, loginVars, sidebarVars, windowVars, keyVars>>

\* host_verification returns, and what it had read is gone.
Forget(a) == snapshot' = [snapshot EXCEPT ![a] = NoKeys]

\* What a write of these entries that fails may have left of the file.
PartOf(known) == {[h \in Hosts |-> IF h \in S THEN known[h] ELSE "absent"] : S \in SUBSET Hosts}

\* The answer to HostVerify: the key joins what was read, and write_file
\* writes all of that over the file.  add fails before the file is touched,
\* write_file before that or on the way.
ThreadConfirmed(a) ==
    LET known == [snapshot[a] EXCEPT ![Here(a)] = "right"] IN
    /\ thread[a] = "trusted"
    /\ \/ /\ file' = known
          /\ thread' = [thread EXCEPT ![a] = "auth"]
          /\ events' = events
       \/ /\ file' \in {file} \cup PartOf(known)
          /\ Post(a, "Error", "gone")
    /\ Forget(a)
    /\ UNCHANGED <<hop, jobVars, loginVars, sidebarVars, windowVars, exists, trusted>>

ThreadDeclined(a) ==
    /\ thread[a] = "declined"
    /\ Post(a, "Error", "gone")
    /\ Forget(a)
    /\ UNCHANGED <<hop, jobVars, loginVars, sidebarVars, windowVars, keyVars>>

\* authenticate: the server lets us in, on to the next host or to the end;
\* or a password, a passphrase or something else is asked for; or it fails.
ThreadAuthenticates(a) ==
    /\ thread[a] = "auth"
    /\ \/ /\ ~Last(a)
          /\ hop' = [hop EXCEPT ![a] = @ + 1]
          /\ thread' = [thread EXCEPT ![a] = "dial"]
          /\ events' = events
       \/ /\ Last(a)
          /\ Post(a, "Authenticated", "up")
          /\ hop' = hop
       \/ /\ \/ \E e \in {"Password", "Question"} : Post(a, e, "answer")
             \/ Post(a, "Error", "gone")
          /\ hop' = hop
    /\ UNCHANGED <<snapshot, jobVars, loginVars, sidebarVars, windowVars, keyVars>>

\* request_loop stops when the session was dropped without a channel.
ThreadStops(a) ==
    /\ thread[a] = "up" /\ phase[a] \in {"error", "refused"}
    /\ thread' = [thread EXCEPT ![a] = "gone"]
    /\ UNCHANGED <<hop, events, snapshot, jobVars, loginVars, sidebarVars, windowVars,
                   keyVars>>

-----------------------------------------------------------------------------
(* The login: authenticate_session and connect_async.                      *)

Received(a) ==
    /\ phase[a] = "login" /\ events[a] # <<>>
    /\ events' = [events EXCEPT ![a] = Tail(@)]

\* Answering a question about a password lets the session thread go on.
Answer(a) == thread' = [thread EXCEPT ![a] = "auth"]

GetBanner(a) ==
    /\ Received(a) /\ Head(events[a]) = "Banner"
    /\ UNCHANGED <<phase, asked, question, reply, thread, hop, snapshot, jobVars,
                   sidebarVars, windowVars, keyVars>>

\* prompt_trust_unknown_host: the window is asked, for HOST_VERIFICATION_TIMEOUT_SECS.
GetHostVerify(a) ==
    /\ Received(a) /\ Head(events[a]) = "HostVerify"
    /\ phase' = [phase EXCEPT ![a] = "asking"]
    /\ question' = [question EXCEPT ![a] = "queued"]
    /\ reply' = [reply EXCEPT ![a] = "none"]
    /\ UNCHANGED <<asked, thread, hop, snapshot, jobVars, sidebarVars, windowVars, keyVars>>

\* A prompt is answered with the saved password, if there is one and it asks
\* for it and has not asked too often; otherwise it is answered and the
\* attempt aborted.
MayAnswer(a) ==
    /\ Head(events[a]) = "Password" /\ of[a] \in Passworded
    /\ asked[a] < MaxPasswordPrompts

GetPrompt(a) ==
    /\ Received(a) /\ Head(events[a]) \in {"Password", "Question"}
    /\ Answer(a)
    /\ IF MayAnswer(a)
       THEN /\ asked' = [asked EXCEPT ![a] = @ + 1]
            /\ phase' = phase
       ELSE /\ asked' = asked
            /\ phase' = [phase EXCEPT ![a] = "error"]
    /\ UNCHANGED <<question, reply, hop, snapshot, jobVars, sidebarVars, windowVars, keyVars>>

\* The last event: an error, a key that differs, or success, after which
\* request_pty waits for the session thread as long as it takes.
GetEnd(a) ==
    /\ Received(a)
    /\ \/ /\ Head(events[a]) = "Error"
          /\ phase' = [phase EXCEPT ![a] = "error"]
       \/ /\ Head(events[a]) = "HostVerificationFailed"
          /\ phase' = [phase EXCEPT ![a] = "mismatch"]
       \/ /\ Head(events[a]) = "Authenticated"
          /\ phase' = [phase EXCEPT ![a] = "pty"]
    /\ UNCHANGED <<asked, question, reply, thread, hop, snapshot, jobVars, sidebarVars,
                   windowVars, keyVars>>

PtyReturns(a) ==
    /\ phase[a] = "pty"
    /\ \E r \in {"connected", "error"} : phase' = [phase EXCEPT ![a] = r]
    /\ UNCHANGED <<asked, question, reply, threadVars, jobVars, sidebarVars, windowVars,
                   keyVars>>

\* AUTHENTICATION_TIMEOUT_SECS after the last event; select_biased prefers an
\* event to the timer.  The timer also runs while the user is asked, so the
\* loop may find it elapsed as soon as it has passed the user's trust on.
LoginTimesOut(a) ==
    /\ phase[a] = "login" /\ events[a] = <<>>
    /\ phase' = [phase EXCEPT ![a] = "error"]
    /\ UNCHANGED <<asked, question, reply, threadVars, jobVars, sidebarVars, windowVars,
                   keyVars>>

\* The user's decision is passed on to the session thread, and a refusal
\* aborts the attempt; nobody listens to the question any more.
Decide(a, trust) ==
    /\ thread' = [thread EXCEPT ![a] = IF trust THEN "trusted" ELSE "declined"]
    /\ phase' = [phase EXCEPT ![a] = IF trust THEN "login" ELSE "error"]
    /\ reply' = [reply EXCEPT ![a] = "none"]
    /\ UNCHANGED <<asked, question, hop, events, snapshot, jobVars,
                   sidebarVars, windowVars, keyVars>>

GetDecision(a) ==
    /\ phase[a] = "asking" /\ reply[a] # "none"
    /\ Decide(a, reply[a] = "trust")

\* Mutant: the timeout guards only a question nobody has shown.
QuestionTimesOutUnshown(a) ==
    /\ phase[a] = "asking" /\ question[a] = "queued"
    /\ Decide(a, FALSE)

\* The timeout of the question, whose dialog stays open.
QuestionTimesOut(a) ==
    /\ phase[a] = "asking" /\ reply[a] = "none"
    /\ Decide(a, FALSE)

\* Mutant: the drain answers yes to everything.
DrainedWithYes(e, at) ==
    CASE e = "HostVerify" -> "trusted"
      [] e \in {"Password", "Question"} -> "auth"
      [] OTHER -> at

\* What the drain's answer to an event makes of a thread.
Drained(e, at) ==
    CASE e = "HostVerify" -> "declined"
      [] e \in {"Password", "Question"} -> "auth"
      [] OTHER -> at

\* spawn_session_event_drain: an aborted attempt leaves a thread behind that
\* declines host keys and answers prompts with nothing.
Drain(a) ==
    /\ phase[a] \in {"error", "refused"} /\ events[a] # <<>>
    /\ events' = [events EXCEPT ![a] = Tail(@)]
    /\ thread' = [thread EXCEPT ![a] = Drained(Head(events[a]), @)]
    /\ UNCHANGED <<hop, snapshot, loginVars, jobVars, sidebarVars, windowVars, keyVars>>

-----------------------------------------------------------------------------
(* The window. *)

\* The task of an attempt that shows its questions: one dialog each.
ShowQuestion(a) ==
    /\ Ready /\ question[a] = "queued"
    /\ question' = [question EXCEPT ![a] = "shown"]
    /\ dialogs' = Append(dialogs, [kind |-> "verify", attempt |-> a])
    /\ UNCHANGED <<phase, asked, reply, threadVars, jobVars, tab, unvisited, sidebarVars,
                   keyVars>>

Top == dialogs[Len(dialogs)]
\* Mutant: the oldest dialog is closed.
CloseBottom == dialogs' = Tail(dialogs)

CloseTop == dialogs' = SubSeq(dialogs, 1, Len(dialogs) - 1)

\* The user answers the question on top; the answer is lost on a login that
\* does not wait any more.
AnswerQuestion ==
    /\ dialogs # <<>> /\ Top.kind = "verify"
    /\ CloseTop
    /\ \E d \in {"trust", "reject"} :
          LET a == Top.attempt IN
          /\ reply' = IF phase[a] = "asking" THEN [reply EXCEPT ![a] = d] ELSE reply
          /\ trusted' = IF phase[a] = "asking" /\ d = "trust"
                        THEN trusted \cup {Here(a)} ELSE trusted
          /\ question' = [question EXCEPT ![a] = "none"]
    /\ UNCHANGED <<phase, asked, threadVars, jobVars, tab, unvisited, sidebarVars,
                   exists, file>>

\* The dialog about a changed key: Cancel, Retry, or Remove old key & Retry,
\* which is left open when remove_known_host_entry fails.  The attempt of a
\* retry is a pending command, run as soon as the handler has returned.
OnMismatch ==
    /\ dialogs # <<>> /\ Top.kind = "mismatch"
    /\ CloseTop
    /\ UNCHANGED <<tab, unvisited, sidebarVars, exists, trusted>>

CancelMismatch ==
    /\ OnMismatch
    /\ UNCHANGED <<jobVars, loginVars, threadVars, file>>

RetryMismatch ==
    /\ OnMismatch
    /\ StartAttempt(of[Top.attempt], FALSE, None)
    /\ file' \in {file, [file EXCEPT ![Here(Top.attempt)] = "absent"]}

\* The restored tab the attempt was made for is replaced by the terminal or
\* gets the message of an error, which nobody sees when it was closed; every
\* other end is shown in a new tab.  A changed key is shown in its dialog only.
ShowIn(a) ==
    tab' = IF into[a] \in Tabs /\ phase[a] # "mismatch" /\ tab[into[a]] # "closed"
           THEN [tab EXCEPT ![into[a]] = IF phase[a] = "error" THEN "error" ELSE "terminal"]
           ELSE tab

\* finish_add_ssh_terminal_task.
Finish(a) ==
    /\ Ready /\ phase[a] \in Results
    /\ phase' = [phase EXCEPT ![a] = CASE @ = "connected" -> "opened"
                                       [] @ = "error" -> "refused"
                                       [] @ = "mismatch" -> "mismatched"]
    /\ ShowIn(a)
    /\ dialogs' = IF phase[a] = "mismatch"
                  THEN Append(dialogs, [kind |-> "mismatch", attempt |-> a]) ELSE dialogs
    /\ ClearConnecting(a)
    /\ UNCHANGED <<deleting, stored, complete, asked, question, reply, threadVars, jobVars,
                   unvisited, keyVars>>

-----------------------------------------------------------------------------
Sidebar(s) == Click(s) \/ Delete(s) \/ DeleteReturns(s)

SessionThread(a) ==
    \/ ThreadDials(a) \/ ThreadVerifies(a) \/ ThreadConfirmed(a) \/ ThreadDeclined(a)
    \/ ThreadAuthenticates(a) \/ ThreadStops(a)

Login(a) ==
    \/ GetBanner(a) \/ GetHostVerify(a) \/ GetPrompt(a) \/ GetEnd(a)
    \/ LoginTimesOut(a) \/ GetDecision(a) \/ QuestionTimesOut(a)

Next ==
    \/ \E s \in Sessions : Sidebar(s)
    \/ \E t \in Tabs : RestoreTab(t) \/ CloseTab(t)
    \/ \E a \in Attempts : \/ SessionThread(a) \/ Login(a) \/ PtyReturns(a) \/ Drain(a)
                           \/ ShowQuestion(a) \/ Finish(a)
    \/ AnswerQuestion \/ CancelMismatch \/ RetryMismatch

Spec == Init /\ [][Next]_vars

\* The login's executor and timers, the window's tasks and its start-up run;
\* servers, the user and request_pty may keep everybody waiting.
FairSpec ==
    /\ Spec
    /\ \A t \in Tabs : WF_vars(RestoreTab(t))
    /\ \A a \in Attempts : WF_vars(Login(a)) /\ WF_vars(Finish(a))

-----------------------------------------------------------------------------
TypeOK ==
    /\ connecting \subseteq Sessions /\ deleting \subseteq Sessions /\ stored \subseteq Sessions
    /\ complete \subseteq Sessions
    /\ tab \in [Tabs -> {"restoring", "error", "terminal", "closed"}] /\ unvisited \subseteq Tabs
    /\ dialogs \in Seq([kind : {"verify", "mismatch"}, attempt : Attempts])
    /\ made \in 0..MaxAttempts
    /\ of \in [Attempts -> Sessions \cup {None}] /\ linked \in [Attempts -> BOOLEAN]
    /\ into \in [Attempts -> Tabs \cup {None}]
    /\ phase \in [Attempts -> {"idle"} \cup Running \cup Results \cup Ended]
    /\ asked \in [Attempts -> 0..MaxPasswordPrompts]
    /\ question \in [Attempts -> {"none", "queued", "shown"}]
    /\ reply \in [Attempts -> {"none", "trust", "reject"}]
    /\ thread \in [Attempts -> {"none", "dial", "verify", "confirm", "trusted", "declined",
                                "auth", "answer", "up", "gone"}]
    /\ hop \in [Attempts -> Nat \ {0}]
    /\ events \in [Attempts -> Seq(Kinds)]
    /\ snapshot \in [Attempts -> [Hosts -> Entries]] /\ file \in [Hosts -> Entries]
    /\ exists \in BOOLEAN /\ trusted \subseteq Hosts

\* A session whose row is marked as connecting (and ignores clicks) has an
\* attempt under way that will clear the mark, whatever ends it and whatever
\* other attempts of the session there are.  The early returns of
\* open_session_by_id and open_saved_ssh_session_at are the exception.
MarkedIsUnderWay ==
    \A s \in connecting \cap stored \cap complete :
        \E a \in Attempts : of[a] = s /\ linked[a] /\ UnderWay(a)

\* A restored tab says "Restoring" only while an attempt will replace it or
\* set its message; a changed host key is the exception, and a session that
\* cannot be opened as it is saved.
RestoringIsUnderWay ==
    \A t \in Tabs \ unvisited : tab[t] = "restoring" =>
        \/ \E a \in Attempts : into[a] = t /\ (UnderWay(a) \/ phase[a] = "mismatched")
        \/ Link[t] \in Sessions \ complete

\* What the window shows as being opened is being opened.
ShownIsUnderWay == MarkedIsUnderWay /\ RestoringIsUnderWay

\* A login that waits for the user is waiting for a dialog on the screen, a
\* task about to open it, or an answer on its way: closing one dialog never
\* takes another attempt's question away.
AskedIsShown ==
    \A a \in Attempts : phase[a] = "asking" =>
        \/ reply[a] # "none" \/ question[a] = "queued"
        \/ \E i \in DOMAIN dialogs : dialogs[i] = [kind |-> "verify", attempt |-> a]

\* Hosts the user vouched for, now or before.
Vouched == trusted \cup {h \in Hosts : KnownAtStart[h] = "right"}
AllVouched(a) == \A i \in DOMAIN Route[of[a]] : Route[of[a]][i] \in Vouched

\* Where there is a known_hosts file, a host key enters it, and a terminal
\* opens behind it, only after the user trusted it while a login still waited
\* for the answer: timeouts, late answers, failed writes and abandoned threads
\* never count as trust.  Without a file host_verification asks nobody, and
\* any server is let in: of that case the property says nothing.
TrustIsAsked ==
    exists => /\ \A h \in Hosts : file[h] = "right" => h \in Vouched
              /\ \A a \in Attempts : phase[a] \in {"connected", "opened"} => AllVouched(a)

\* Every attempt is shown to end, whatever the server and the user do, or has
\* logged in and waits for its terminal, which no timeout bounds.
AttemptsEnd == \A a \in Attempts : UnderWay(a) ~> phase[a] \in Ended \cup {"pty"}
=============================================================================
