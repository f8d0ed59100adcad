---------------------------- MODULE BrowserLogin ----------------------------
(***************************************************************************)
(* Logging in through the browser: App.tsx, the desktop's                  *)
(* wait_for_session_login and cancel_session_login, and the wait of        *)
(* ConnectionManager for the token on a WebSocket.  One slot holds the     *)
(* cancel sender of the newest wait; a sender that is dropped wakes its    *)
(* wait as one that sends does.                                            *)
(***************************************************************************)
EXTENDS Naturals

CONSTANTS Waits,    \* calls of wait_for_session_login
          NoWait

ASSUME LoginConstants == NoWait \notin Waits

VARIABLES loading,  \* isLoading of the window
          banner,   \* isWaitingForBrowser: Cancel can be clicked
          loggedIn, \* isLoggedIn
          cancel,   \* a Cancel was clicked whose answer the window awaits
          view,     \* what the window awaits of each login
          wait,     \* where each call of wait_for_session_login is
          result,   \* what it waited for
          slot,     \* login_cancel_tx: the wait it belongs to
          signal,   \* the cancel channel of each wait: "open", "sent", "dropped"
          asked     \* waits the user gave up: by Cancel or by a newer login

winVars == <<loading, banner, loggedIn, cancel, view>>
logVars == <<winVars, wait, result, slot, signal, asked>>

LogInit ==
  /\ loading = FALSE /\ banner = FALSE /\ loggedIn = FALSE /\ cancel = FALSE
  /\ slot = NoWait /\ asked = {}
  /\ view = [w \in Waits |-> "none"]
  /\ wait = [w \in Waits |-> "idle"]
  /\ result = [w \in Waits |-> "none"]
  /\ signal = [w \in Waits |-> "open"]

\* The waits whose sender has been stored, and those under way.
Running(w) == wait[w] \in {"connecting", "waiting"}
UnderWay(w) == wait[w] = "entering" \/ Running(w)

Signalled(how) == IF slot = NoWait THEN signal ELSE [signal EXCEPT ![slot] = IF @ = "open" THEN how ELSE @]

-----------------------------------------------------------------------------
(* The window *)

\* The flags are cleared, whichever login they were set for.
Settled == loading' = FALSE /\ banner' = FALSE

\* handleBrowserLogin is refused while one is under way or somebody is logged in.
StartLogin(w) ==
  /\ ~loading /\ ~banner /\ ~loggedIn /\ view[w] = "none"
  /\ loading' = TRUE /\ view' = [view EXCEPT ![w] = "session"]
  /\ UNCHANGED <<banner, loggedIn, cancel, wait, result, slot, signal, asked>>

\* start_session_login: Cancel is shown and wait_for_session_login called.
SessionStarts(w) ==
  /\ view[w] = "session" /\ view' = [view EXCEPT ![w] = "opening"]
  /\ banner' = TRUE /\ wait' = [wait EXCEPT ![w] = "entering"]
  /\ UNCHANGED <<loading, loggedIn, cancel, result, slot, signal, asked>>

SessionFails(w) ==
  /\ view[w] = "session" /\ view' = [view EXCEPT ![w] = "over"]
  /\ Settled
  /\ UNCHANGED <<loggedIn, cancel, wait, result, slot, signal, asked>>

\* A browser that cannot be opened ends the login for the window; the wait goes on.
OpenBrowser(w, ok) ==
  /\ view[w] = "opening" /\ view' = [view EXCEPT ![w] = IF ok THEN "awaiting" ELSE "over"]
  /\ IF ok THEN UNCHANGED <<loading, banner>> ELSE Settled
  /\ UNCHANGED <<loggedIn, cancel, wait, result, slot, signal, asked>>

\* handleSuccessfulLogin asks the API, which may fail, or the error is shown.
WindowTold(w) ==
  /\ view[w] = "awaiting" /\ wait[w] = "done"
  /\ view' = [view EXCEPT ![w] = "over"]
  /\ Settled /\ loggedIn' \in {loggedIn, loggedIn \/ result[w] = "token"}
  /\ UNCHANGED <<cancel, wait, result, slot, signal, asked>>

\* cancel_session_login; the window does not wait for the end of the login.
CancelLogin ==
  /\ banner /\ cancel' = TRUE
  /\ slot' = NoWait /\ signal' = Signalled("sent")
  /\ asked' = asked \cup {v \in Waits : UnderWay(v)}
  /\ UNCHANGED <<loading, banner, loggedIn, view, wait, result>>

CancelAnswered ==
  /\ cancel /\ cancel' = FALSE /\ Settled
  /\ UNCHANGED <<loggedIn, view, wait, result, slot, signal, asked>>

\* Password, device flow and auto-login use the manager as well.
OtherLogin ==
  /\ ~loggedIn /\ loggedIn' = TRUE
  /\ UNCHANGED <<loading, banner, cancel, view, wait, result, slot, signal, asked>>

Logout ==
  /\ loggedIn /\ loggedIn' = FALSE
  /\ UNCHANGED <<loading, banner, cancel, view, wait, result, slot, signal, asked>>

-----------------------------------------------------------------------------
(* wait_for_session_login *)

\* Once it has had the manager's lock, which a call of another login may hold
\* for long, the previous wait is told and the sender of this one stored.
StoreSender(w) ==
  /\ wait[w] = "entering" /\ wait' = [wait EXCEPT ![w] = "connecting"]
  /\ slot' = w /\ signal' = Signalled("sent")
  /\ asked' = asked \cup {v \in Waits : Running(v)}
  /\ UNCHANGED <<winVars, result>>

Ends(w, r) ==
  /\ wait' = [wait EXCEPT ![w] = "clearing"]
  /\ result' = [result EXCEPT ![w] = r]
  /\ UNCHANGED <<winVars, slot, signal, asked>>

\* The handshake has 15 seconds and does not look at the cancel channel.
Connected(w) ==
  /\ wait[w] = "connecting" /\ wait' = [wait EXCEPT ![w] = "waiting"]
  /\ UNCHANGED <<winVars, result, slot, signal, asked>>

\* Mutant: the handshake has no timeout.
HandshakeForever(w) == FALSE

HandshakeFails(w) == wait[w] = "connecting" /\ Ends(w, "failed")

\* A text or binary message with a token; others are skipped.
TokenArrives(w) == wait[w] = "waiting" /\ Ends(w, "token")

\* 15 minutes, a close frame, an error or the end of the stream.
WaitFails(w) == wait[w] = "waiting" /\ Ends(w, "failed")

CancelSeen(w) == wait[w] = "waiting" /\ signal[w] # "open" /\ Ends(w, "cancelled")

\* The slot is emptied, whoever's sender is in it; an error is returned.
ClearSlot(w) ==
  /\ wait[w] = "clearing"
  /\ wait' = [wait EXCEPT ![w] = IF result[w] = "token" THEN "finishing" ELSE "done"]
  /\ slot' = NoWait /\ signal' = Signalled("dropped")
  /\ UNCHANGED <<winVars, result, asked>>

\* handle_login_token, under the manager's lock.
FinishLogin(w) ==
  /\ wait[w] = "finishing" /\ wait' = [wait EXCEPT ![w] = "done"]
  /\ UNCHANGED <<winVars, result, slot, signal, asked>>

LogNext ==
  \/ \E w \in Waits : \/ StartLogin(w) \/ SessionStarts(w) \/ SessionFails(w) \/ WindowTold(w)
                      \/ StoreSender(w) \/ Connected(w) \/ HandshakeFails(w) \/ TokenArrives(w)
                      \/ WaitFails(w) \/ CancelSeen(w) \/ ClearSlot(w) \/ FinishLogin(w)
                      \/ \E ok \in BOOLEAN : OpenBrowser(w, ok)
  \/ CancelLogin \/ CancelAnswered \/ OtherLogin \/ Logout

\* Timers fire and tasks run; a token need not come, a handshake succeed nor
\* the manager's lock be free.
LogFairness ==
  \A w \in Waits : /\ WF_logVars(HandshakeFails(w)) /\ WF_logVars(WaitFails(w))
                   /\ WF_logVars(CancelSeen(w)) /\ WF_logVars(ClearSlot(w))

LogSpec == LogInit /\ [][LogNext]_logVars

-----------------------------------------------------------------------------
(* Properties *)

\* Cancel reaches every login that has stored its sender: one whose channel is
\* still open has it in the slot, however logins overlap (the slot is taken,
\* replaced and emptied by three functions).  A Cancel before that, while
\* wait_for_session_login waits for the manager's lock, reaches nothing:
\* CancelIsHeard below.
CancelReaches == \A w \in Waits : Running(w) /\ signal[w] = "open" => slot = w

\* A login that was cancelled ends, also one in its handshake: again and again
\* none is under way, and none is begun twice.  At most the saving of a token
\* that came first is left (wait_for_session_login and its timeouts).
CancelledEnds == []<>(\A w \in Waits : signal[w] # "open" => wait[w] \in {"finishing", "done"})

\* Cancelling works for a login that has stored its sender: it reaches the
\* login, and the login ends (cancel_session_login, wait_for_session_login).
CancelWorks == []CancelReaches /\ CancelledEnds

\* A login the user gave up has been told so ("Cancel", App.tsx).
\* The code does not keep it: README, "Statements the code does not keep".
CancelIsHeard == \A w \in asked : Running(w) => signal[w] # "open"

\* A login that ends with "Login cancelled by user" was given up by the user
\* (ConnectionManager::wait_for_session_login, its cancel branch).
\* The code does not keep it: README, "Statements the code does not keep".
CancelledByUser == \A w \in Waits : result[w] = "cancelled" => w \in asked
=============================================================================
