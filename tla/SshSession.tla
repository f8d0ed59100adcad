----------------------------- MODULE SshSession -----------------------------
(***************************************************************************)
(* One authenticated SSH connection of omni-ssh: the connection handler    *)
(* (SshConnectionHandler), its channels, and for every shell or exec the   *)
(* three actors that serve it: the blocking PTY loop of AsyncPtySession,   *)
(* the I/O task spawn_pty_io_task starts, and the process on the terminal. *)
(*                                                                         *)
(* The handler runs one request at a time.  Output moves in chunks and     *)
(* input in messages; what they contain is left out.  Both mpsc channels   *)
(* have room for QCap (256 in the code).                                   *)
(***************************************************************************)
EXTENDS Naturals, FiniteSets

CONSTANTS Chans,      \* channel ids of the connection
          Ptys,       \* identities for the PTY sessions started
          Cmds,       \* commands a client may ask to run
          Writes,     \* the commands is_write_command recognises
          Filters,    \* the filters an SshAction may carry
          QCap,       \* capacity of the input and output channels
          None        \* no PTY / no allow list

ASSUME SsnConstants ==
  /\ QCap \in Nat \ {0}
  /\ Writes \subseteq Cmds
  /\ Filters \subseteq [blocked: SUBSET Cmds, allowed: (SUBSET Cmds) \cup {None},
                        readOnly: BOOLEAN, sftp: BOOLEAN]
  /\ None \notin Ptys \cup Filters

VARIABLES
  alive,     \* the connection is up
  action,    \* the SshAction of the connection, None before auth_none accepts
  chan,      \* ChannelState of every channel; ids are not used twice
  hand,      \* what the handler awaits: idle, the lock of a PTY, room, an event
  pty,       \* the PTY sessions
  sftp,      \* per channel, the number of SFTP tasks that own its stream
  events     \* SessionStarted and SessionEnded events seen by the backend

ssnVars == <<alive, action, chan, hand, pty, sftp, events>>

-----------------------------------------------------------------------------
(* The command filter *)

\* Invalid patterns were dropped by CommandFilter::new; a pattern is the set of
\* commands it matches.
CheckCommand(f, cmd) ==
  IF cmd \in f.blocked THEN "blocked"
  ELSE IF f.allowed # None /\ cmd \notin f.allowed THEN "blocked"
  ELSE IF f.readOnly /\ cmd \in Writes THEN "readOnly"
  ELSE "allowed"

-----------------------------------------------------------------------------
(* State *)

Idle == [op |-> "idle", of |-> None]

NoSession ==
  [kind |-> "none", cmd |-> None, ch |-> None, proc |-> "none", pend |-> FALSE,
   inq |-> 0, outq |-> 0, loop |-> "none", io |-> "none", lock |-> "free",
   exit |-> "no"]

SsnInit ==
  /\ alive = TRUE
  /\ action = None
  /\ chan = [k \in Chans |-> [st |-> "none", raw |-> FALSE, size |-> "default", pty |-> None]]
  /\ hand = Idle
  /\ pty = [p \in Ptys |-> NoSession]
  /\ sftp = [k \in Chans |-> 0]
  /\ events = [started |-> 0, ended |-> 0]

Ready == alive /\ hand = Idle

Open(k) == chan[k].st = "open"

\* The task that holds the PTY mutex is the I/O task waiting for output, or
\* the handler waiting for room in the input channel.
Free(p) == pty[p].lock = "free"

\* output_rx lives as long as somebody holds the Arc of the session.
Held(p) == \/ pty[p].io # "done"
           \/ \E k \in Chans : Open(k) /\ chan[k].pty = p
           \/ hand.of = p

-----------------------------------------------------------------------------
(* Requests of the client, each handled to its end or to its first await *)

AuthNone ==
  /\ Ready /\ action = None
  /\ action' \in Filters
  /\ UNCHANGED <<alive, chan, hand, pty, sftp, events>>

ChannelOpenSession(k) ==
  /\ Ready /\ action # None /\ chan[k].st = "none"
  /\ chan' = [chan EXCEPT ![k].st = "open", ![k].raw = TRUE]
  /\ UNCHANGED <<alive, action, hand, pty, sftp, events>>

\* The size is stored for the next session of the channel; window_change_request
\* only rewrites what is stored, a running terminal keeps its size.  With
\* enable_pty off the request changes nothing: a client that asks for no terminal.
PtyRequest(k) ==
  /\ Ready /\ Open(k) /\ chan[k].size = "default"
  /\ chan' = [chan EXCEPT ![k].size = "asked"]
  /\ UNCHANGED <<alive, action, hand, pty, sftp, events>>

\* AsyncPtySession::new, create_recorder, the channel's state, the I/O task;
\* SessionStarted is still to be emitted.  A session the channel had before
\* stays with its own tasks.
StartSession(k, p, kind, cmd) ==
  /\ pty' = [pty EXCEPT ![p] =
       [NoSession EXCEPT !.kind = kind, !.cmd = cmd, !.ch = k, !.proc = "busy",
                         !.inq = IF kind = "exec" THEN 1 ELSE 0,
                         !.loop = "input", !.io = "lock"]]
  /\ chan' = [chan EXCEPT ![k].pty = p]
  /\ hand' = [op |-> "started", of |-> p]
  /\ UNCHANGED <<alive, action, sftp, events>>

ShellRequest(k, p) ==
  /\ Ready /\ Open(k) /\ pty[p] = NoSession
  /\ StartSession(k, p, "shell", None)

\* A command the filter refuses ends with an error message, exit status 1,
\* EOF and close, and no PTY.
ExecRequest(k, p, cmd) ==
  /\ Ready /\ Open(k) /\ pty[p] = NoSession
  /\ CheckCommand(action, cmd) = "allowed"
  /\ StartSession(k, p, "exec", cmd)

SubsystemRequest(k) ==
  /\ Ready /\ Open(k) /\ action.sftp /\ chan[k].raw
  /\ chan' = [chan EXCEPT ![k].raw = FALSE]
  /\ sftp' = [sftp EXCEPT ![k] = @ + 1]
  /\ events' = [events EXCEPT !.started = @ + 1]
  /\ UNCHANGED <<alive, action, hand, pty>>

\* data(): the message is recorded, then the PTY mutex is awaited, then room
\* in the input channel with the mutex held.
Data(k) ==
  /\ Ready /\ Open(k) /\ chan[k].pty # None
  /\ hand' = [op |-> "lock", of |-> chan[k].pty]
  /\ UNCHANGED <<alive, action, chan, pty, sftp, events>>

ChannelClose(k) ==
  /\ Ready /\ Open(k)
  /\ chan' = [chan EXCEPT ![k].st = "closed"]
  /\ UNCHANGED <<alive, action, hand, pty, sftp, events>>

\* The connection ends and the handler is dropped.  A handler that awaits
\* something does not notice: russh polls the socket in the same task.
DropHandler ==
  /\ Ready
  /\ alive' = FALSE
  /\ chan' = [k \in Chans |-> [chan[k] EXCEPT !.st = "closed"]]
  /\ UNCHANGED <<action, hand, pty, sftp, events>>

\* The handler goes on after an await.
HandlerStarted ==
  /\ hand.op = "started"
  /\ events' = [events EXCEPT !.started = @ + 1]
  /\ hand' = Idle
  /\ UNCHANGED <<alive, action, chan, pty, sftp>>

HandlerLocks ==
  /\ hand.op = "lock" /\ Free(hand.of)
  /\ pty' = [pty EXCEPT ![hand.of].lock = "handler"]
  /\ hand' = [hand EXCEPT !.op = "room"]
  /\ UNCHANGED <<alive, action, chan, sftp, events>>

\* send_input ends: with the message queued, or with an error once the PTY
\* loop has dropped its receiver.
HandlerSends ==
  /\ hand.op = "room"
  /\ LET p == hand.of IN
     \/ /\ pty[p].loop # "ended" /\ pty[p].inq < QCap
        /\ pty' = [pty EXCEPT ![p].inq = @ + 1, ![p].lock = "free"]
     \/ /\ pty[p].loop = "ended"
        /\ pty' = [pty EXCEPT ![p].lock = "free"]
  /\ hand' = Idle
  /\ UNCHANGED <<alive, action, chan, sftp, events>>

-----------------------------------------------------------------------------
(* The PTY loop: spawn_blocking in AsyncPtySession::new *)

Loop(p, step) == pty[p].loop = step

Advance(p, new) ==
  /\ pty' = [pty EXCEPT ![p] = new]
  /\ UNCHANGED <<alive, action, chan, hand, sftp, events>>

\* At most one message is taken per turn; the terminal echoes what is written.
LoopInput(p) ==
  /\ Loop(p, "input")
  /\ Advance(p, IF pty[p].inq > 0 /\ pty[p].proc # "dead"
                THEN [pty[p] EXCEPT !.inq = @ - 1, !.proc = "busy", !.pend = TRUE,
                                    !.loop = "read"]
                ELSE IF pty[p].inq > 0
                THEN [pty[p] EXCEPT !.inq = @ - 1, !.loop = "ended"]
                ELSE [pty[p] EXCEPT !.loop = "read"])

\* The read blocks until there is output; it ends the loop at end of file.
LoopRead(p) ==
  /\ Loop(p, "read")
  /\ \/ pty[p].pend /\ Advance(p, [pty[p] EXCEPT !.pend = FALSE, !.loop = "send"])
     \/ /\ ~pty[p].pend /\ pty[p].proc = "dead"
        /\ Advance(p, [pty[p] EXCEPT !.loop = "ended"])

\* blocking_send waits for room and fails once the receiver is gone; then
\* try_wait ends the loop of a process that has exited, unread output or not.
LoopSend(p) ==
  /\ Loop(p, "send")
  /\ \/ /\ Held(p) /\ pty[p].outq < QCap
        /\ Advance(p, IF pty[p].proc = "dead"
                      THEN [pty[p] EXCEPT !.outq = @ + 1, !.exit = "sent", !.loop = "ended"]
                      ELSE [pty[p] EXCEPT !.outq = @ + 1, !.loop = "input"])
     \/ ~Held(p) /\ Advance(p, [pty[p] EXCEPT !.loop = "ended"])

-----------------------------------------------------------------------------
(* The process on the terminal (external): it prints, waits for input, exits *)

Prints(p) ==
  /\ pty[p].proc = "busy" /\ ~pty[p].pend
  /\ Advance(p, [pty[p] EXCEPT !.pend = TRUE])

\* A shell that has run what it was given waits for the next line.
Waits(p) ==
  /\ pty[p].proc = "busy"
  /\ Advance(p, [pty[p] EXCEPT !.proc = "waiting"])

Exits(p) ==
  /\ pty[p].proc = "busy"
  /\ Advance(p, [pty[p] EXCEPT !.proc = "dead"])

-----------------------------------------------------------------------------
(* The I/O task: spawn_pty_io_task *)

\* The mutex is held across recv_output.
IoLocks(p) ==
  /\ pty[p].io = "lock" /\ Free(p)
  /\ Advance(p, [pty[p] EXCEPT !.lock = "io", !.io = "recv"])

\* A chunk, or the end of the output: then the exit status, EOF and close.
IoReceives(p) ==
  /\ pty[p].io = "recv"
  /\ \/ /\ pty[p].outq > 0
        /\ Advance(p, [pty[p] EXCEPT !.outq = @ - 1, !.lock = "free", !.io = "deliver"])
     \/ /\ pty[p].outq = 0 /\ Loop(p, "ended")
        /\ Advance(p, [pty[p] EXCEPT !.lock = "free", !.io = "finish"])

\* The chunk goes to the client, unless the session is gone, which ends the
\* loop.  handle.data queues the chunk for the connection's own task: while
\* the handler awaits something there may be no room.
IoDelivers(p) ==
  /\ pty[p].io = "deliver"
  /\ \/ alive /\ Advance(p, [pty[p] EXCEPT !.io = "status"])
     \/ ~alive /\ Advance(p, [pty[p] EXCEPT !.io = "finish"])

\* The exit status ends the loop even when chunks are still queued.
IoStatus(p) ==
  /\ pty[p].io = "status" /\ Free(p)
  /\ Advance(p, IF pty[p].exit = "sent"
                THEN [pty[p] EXCEPT !.exit = "taken", !.io = "finish"]
                ELSE [pty[p] EXCEPT !.io = "lock"])

IoFinishesBad(p) ==
  /\ pty[p].io = "finish"
  /\ pty' = [pty EXCEPT ![p].io = "lock"]
  /\ UNCHANGED <<alive, action, chan, hand, sftp, events>>

\* The recording is finalised (SshRecorder), then SessionEnded is emitted.
IoFinishes(p) ==
  /\ pty[p].io = "finish"
  /\ pty' = [pty EXCEPT ![p].io = "done"]
  /\ events' = [events EXCEPT !.ended = @ + 1]
  /\ UNCHANGED <<alive, action, chan, hand, sftp>>

\* The SFTP server on a channel's stream ends with the stream.
SftpEnds(k) ==
  /\ sftp[k] > 0 /\ ~Open(k)
  /\ sftp' = [sftp EXCEPT ![k] = @ - 1]
  /\ events' = [events EXCEPT !.ended = @ + 1]
  /\ UNCHANGED <<alive, action, chan, hand, pty>>

Requests ==
  \/ AuthNone \/ DropHandler
  \/ \E k \in Chans : \/ ChannelOpenSession(k) \/ PtyRequest(k)
                      \/ SubsystemRequest(k) \/ Data(k) \/ ChannelClose(k)
                      \/ \E p \in Ptys : \/ ShellRequest(k, p)
                                         \/ \E cmd \in Cmds : ExecRequest(k, p, cmd)

HandlerStep == HandlerStarted \/ HandlerLocks \/ HandlerSends

LoopStep(p) == LoopInput(p) \/ LoopRead(p) \/ LoopSend(p)

IoStep(p) == IoLocks(p) \/ IoReceives(p) \/ IoDelivers(p) \/ IoStatus(p) \/ IoFinishes(p)

\* The steps of the I/O task that do not depend on room at the handler.
IoProceeds(p) == IoStep(p) /\ (pty[p].io = "deliver" => hand = Idle)

SsnNext ==
  \/ Requests \/ HandlerStep
  \/ \E p \in Ptys : \/ LoopStep(p) \/ IoStep(p)
                     \/ Prints(p) \/ Waits(p) \/ Exits(p)
  \/ \E k \in Chans : SftpEnds(k)

\* The runtime runs its tasks and threads; a process that is busy gets done.
SsnFairness ==
  /\ WF_ssnVars(HandlerStep)
  /\ \A p \in Ptys : /\ WF_ssnVars(LoopStep(p)) /\ SF_ssnVars(IoProceeds(p))
                     /\ WF_ssnVars(Waits(p) \/ Exits(p))

-----------------------------------------------------------------------------
(* Properties *)

\* SessionEnded may overtake SessionStarted, because the I/O task is spawned
\* before the event is emitted, but by one session only: the handler starts
\* sessions one at a time (start_shell, exec_command).
EndedOvertakesByOne ==
  events.ended <= events.started + (IF hand.op = "started" THEN 1 ELSE 0)

\* A process that exits ends its session: the loop sees the end of the output,
\* the I/O task closes the channel and SessionEnded is emitted, unless the
\* handler hangs for good in data() (spawn_pty_io_task).
ExitEndsSession ==
  (<>[](hand # Idle)) \/ \A p \in Ptys : pty[p].proc = "dead" ~> pty[p].io = "done"

\* A session whose process exits ends, and its SessionEnded is at most one
\* ahead of the SessionStarted events (spawn_pty_io_task, start_shell).
SessionsEnd == []EndedOvertakesByOne /\ ExitEndsSession

\* What the comment in exec_command says, "Create PTY session for exec (using
\* shell -c command)": a command that has done its work ends its session.
\* The code does not keep it: README, "Statements the code does not keep".
ExecEnds ==
  \A p \in Ptys : (pty[p].kind = "exec" /\ pty[p].proc = "waiting") ~> pty[p].io = "done"
=============================================================================
