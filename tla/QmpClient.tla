----------------------------- MODULE QmpClient -----------------------------
(***************************************************************************)
(* The asynchronous QMP client of QEMU's Python package (protocol.py and   *)
(* qmp_client.py in aqemu/tools/build_x86/python/qemu/qmp), which drives a *)
(* QEMU by its monitor.  Everything runs as tasks of one asyncio event     *)
(* loop.  One task of the program, the owner, opens and closes sessions,   *)
(* others execute a command each; the client adds a reader and a writer    *)
(* task per session, and a task that disconnects.                          *)
(*                                                                         *)
(* asyncio is external.  Its loop is the queue of handles that are ready   *)
(* to run, in FIFO order: a task is in it when it can go on, "dc_done" and *)
(* "bh_done" are the callbacks through which asyncio.wait hears of the end *)
(* of the disconnect task and of the last of reader and writer, and        *)
(* "knock", "made" and "incoming" are the rounds that an accepted          *)
(* connection takes up to its handler.  The handle at the head runs up to  *)
(* its next await; one that goes on without suspending stays at the head.  *)
(* Stream events fall between the steps.                                   *)
(***************************************************************************)
EXTENDS Naturals, Sequences, SequencesExt

CONSTANTS
  Owner,        \* the task that connects, accepts and disconnects
  Exec,         \* executions, and the tasks that call execute()
  MaxSessions,  \* bound: attempts to open a session
  MaxCancel     \* bound: cancellations of an await, by a timeout say

Arriving == {"knock", "made", "incoming"}

Internal == {"reader", "writer", "dc", "dc_done", "bh_done"} \cup Arriving

ASSUME TasksAssumption ==
  /\ Owner \notin Exec \cup Internal
  /\ Exec \cap (Internal \cup {"none", "interrupted"}) = {}
  /\ MaxSessions \in Nat /\ MaxCancel \in Nat

VARIABLES
  ready,      \* the handles that are ready to run
  runstate,   \* _runstate
  pc,         \* the await the owner is suspended at; "out": in no call
  sessions,   \* attempts to open a session so far
  outcome,    \* outcome[e]: how execution e stands
  cancelled,  \* the tasks to throw a CancelledError into
  cancels,    \* cancellations so far
  rd,         \* _reader_task
  wr,         \* _writer_task
  dc,         \* _dc_task: the await it is at
  server,     \* _server
  accepted,   \* _accepted
  writer,     \* _writer (and _reader): is there one, is it being closed?
  outgoing,   \* _outgoing: the messages that are not sent yet
  pending,    \* _pending: the queue of each id that awaits a reply
  sock,       \* the socket of _writer, or of the one before
  mode,       \* was it made by connect(), or by a server, and in time?
  inbox,      \* messages in the StreamReader
  eof,        \* has the peer hung up?
  peer,       \* what the peer has seen so far
  got,        \* executions the peer has received and not replied to
  broken      \* has one of the library's assertions failed?

ownerVars  == <<pc, sessions>>
cancelVars == <<cancelled, cancels>>
taskVars   == <<rd, wr, dc>>
serverVars == <<server, accepted>>
queueVars  == <<outgoing, pending>>
linkVars   == <<sock, mode, inbox, eof, peer, got>>
vars == <<ready, runstate, ownerVars, outcome, cancelVars, taskVars, serverVars,
          writer, queueVars, linkVars, broken>>

Tasks == Exec \cup {Owner}

(* A reply is named by the execution whose command it answers; the code    *)
(* only ever looks at its id.                                              *)
Message ==
  [kind : {"greeting", "ok", "bad"}, to : {"none"}] \cup [kind : {"reply"}, to : Exec]

(* Fault: the id of a command is absent. *)
NoId(e) == "none"

(* _execute_id counts up: every execution has an id of its own. *)
ExecId(e) == e

(* Calls of the owner within a session guard. *)
Opening == {"c_sleep", "c_open", "s_sleep", "s_bind", "a_wait", "greet", "caps", "e_sleep"}

TypeOK ==
  /\ ready \in Seq(Tasks \cup Internal)
  /\ runstate \in {"idle", "connecting", "running", "disconnecting"}
  /\ pc \in Opening \cup {"out", "dc_wait", "dc_guard"}
  /\ sessions \in 0 .. MaxSessions
  /\ outcome \in [Exec -> {"new", "waiting", "replied", "misrouted",
                           "interrupted", "cancelled"}]
  /\ cancelled \in SUBSET (Tasks \cup {"reader", "writer"})
  /\ cancels \in 0 .. MaxCancel
  /\ rd \in {"none", "run", "done", "failed"}
  /\ wr \in {"none", "run", "done", "failed"}
  /\ dc \in {"none", "start", "join", "drain", "wait", "close", "done"}
  /\ server \in {"none", "unassigned", "listening"}
  /\ accepted \in {"none", "unset", "set"}
  /\ writer \in {"none", "open", "closing"}
  /\ outgoing \in Seq(Exec)
  /\ DOMAIN pending \subseteq Exec
  /\ \A id \in DOMAIN pending : pending[id] \in SUBSET (Exec \cup {"interrupted"})
  /\ sock \in {"none", "open", "closed"}
  /\ mode \in {"none", "connect", "serve", "late"}
  /\ inbox \in Seq(Message)
  /\ eof \in BOOLEAN
  /\ peer \in {"none", "made", "greeted", "asked", "up"}
  /\ got \in SUBSET Exec
  /\ broken \in BOOLEAN

Init ==
  /\ ready = <<>> /\ runstate = "idle"
  /\ pc = "out" /\ sessions = 0
  /\ outcome = [e \in Exec |-> "new"]
  /\ cancelled = {} /\ cancels = 0
  /\ rd = "none" /\ wr = "none" /\ dc = "none"
  /\ server = "none" /\ accepted = "none"
  /\ writer = "none" /\ outgoing = <<>> /\ pending = <<>>
  /\ sock = "none" /\ mode = "none" /\ inbox = <<>> /\ eof = FALSE
  /\ peer = "none" /\ got = {}
  /\ broken = FALSE

-----------------------------------------------------------------------------
(* The event loop                                                          *)

Queued(t) == Contains(ready, t)

Runs(t) == ready # <<>> /\ Head(ready) = t

Rest == Tail(ready)

OnlyReady ==
  UNCHANGED <<runstate, ownerVars, outcome, cancelVars, taskVars, serverVars,
              writer, queueVars, linkVars, broken>>

(* The future that t awaits is done: t is ready, unless it was already. *)
Woken(q, t) == IF Contains(q, t) THEN q ELSE Append(q, t)

(* A task of the program that is in no call. *)
Out(t) == IF t = Owner THEN pc = "out" ELSE outcome[t] # "waiting"

(* It comes to the loop: to open or close a session, or to execute while   *)
(* there is, or may soon be, a session.                                    *)
Tick(t) ==
  /\ ~ Queued(t)
  /\ IF t = Owner THEN pc = "out" /\ (runstate # "idle" \/ sessions < MaxSessions)
     ELSE outcome[t] = "new" /\ runstate \in {"connecting", "running"}
  /\ ready' = Append(ready, t)
  /\ OnlyReady

(* It goes on to something else; execute() is refused by @require(RUNNING). *)
Leave(t) ==
  /\ Runs(t)
  /\ Out(t)
  /\ t = Owner \/ runstate # "running"
  /\ ready' = Rest
  /\ OnlyReady

(* asyncio.wait_for times out, or the task is cancelled otherwise.  Only   *)
(* the start of a server is never cancelled, as in legacy.py.              *)
Cancel(t) ==
  /\ ~ Out(t)
  /\ t = Owner => pc \notin {"s_sleep", "s_bind"}
  /\ t \notin cancelled
  /\ cancels < MaxCancel
  /\ cancels' = cancels + 1
  /\ cancelled' = cancelled \cup {t}
  /\ ready' = Woken(ready, t)
  /\ UNCHANGED <<runstate, ownerVars, outcome, taskVars, serverVars, writer,
                 queueVars, linkVars, broken>>

-----------------------------------------------------------------------------
(* Opening a session: connect(), or start_server() and accept()            *)

OwnerStep == UNCHANGED <<outcome, cancels, broken>>

Call(at) ==
  /\ Runs(Owner)
  /\ pc = "out"
  /\ pc' = at

(* The owner goes from one await to the next. *)
Goto(from, to) ==
  /\ Runs(Owner)
  /\ pc = from
  /\ Owner \notin cancelled
  /\ pc' = to
  /\ UNCHANGED <<sessions, cancelled>>

(* The start of connect() and of start_server(): sleep(0) lets others see  *)
(* CONNECTING. *)
Connect ==
  /\ runstate = "idle"
  /\ sessions < MaxSessions
  /\ sessions' = sessions + 1
  /\ \/ Call("c_sleep") /\ UNCHANGED accepted
     \/ Call("s_sleep") /\ accepted' = "unset"
  /\ runstate' = "connecting"
  /\ ready' = Append(Rest, Owner)
  /\ UNCHANGED <<cancelled, taskVars, server, writer, queueVars, linkVars>> /\ OwnerStep

OpenConnection ==
  /\ Goto("c_sleep", "c_open")
  /\ ready' = Rest
  /\ sock' = "none"
  /\ UNCHANGED <<runstate, taskVars, serverVars, writer, queueVars,
                 mode, inbox, eof, peer, got>> /\ OwnerStep

(* A new connection: its socket, its StreamReader, a peer yet to greet. *)
NewLink(how) ==
  /\ sock' = "open" /\ mode' = how
  /\ inbox' = <<>> /\ eof' = FALSE /\ peer' = "made" /\ got' = {}

(* External: open_connection ends. *)
OpenEnds ==
  /\ pc = "c_open"
  /\ ~ Queued(Owner)
  /\ ready' = Append(ready, Owner)
  /\ \/ NewLink("connect")
     \/ sock' = "none" /\ UNCHANGED <<mode, inbox, eof, peer, got>>
  /\ UNCHANGED <<runstate, ownerVars, outcome, cancelVars, taskVars, serverVars,
                 writer, queueVars, broken>>

Connected ==
  /\ Goto("c_open", "greet")
  /\ sock = "open"
  /\ writer' = "open"
  /\ pending' = <<>>
  /\ UNCHANGED <<ready, runstate, taskVars, serverVars, outgoing, linkVars>> /\ OwnerStep

(* The server listens before its start is over. *)
StartListening ==
  /\ Goto("s_sleep", "s_bind")
  /\ server' = "unassigned"
  /\ ready' = Append(Rest, Owner)
  /\ UNCHANGED <<runstate, taskVars, accepted, writer, queueVars, linkVars>> /\ OwnerStep

ServerStarted ==
  /\ Goto("s_bind", "out")
  /\ server' = "listening"
  /\ UNCHANGED <<ready, runstate, taskVars, accepted, writer, queueVars, linkVars>> /\ OwnerStep

Accept ==
  /\ Call("a_wait")
  /\ runstate = "connecting" /\ accepted # "none"
  /\ ready' = IF accepted = "set" THEN ready ELSE Rest
  /\ UNCHANGED <<sessions, cancelled, runstate, taskVars, serverVars, writer,
                 queueVars, linkVars>> /\ OwnerStep

(* External: a peer connects to the listening socket; with the backlog of  *)
(* 1 a second one may before the first is dealt with. *)
PeerConnects ==
  /\ server # "none"
  /\ Cardinality({i \in DOMAIN ready : ready[i] \in Arriving}) < 2
  /\ ready' = Append(ready, "knock")
  /\ OnlyReady

(* External: the connection is accepted, its streams are made. *)
Arrive(from, to) ==
  /\ Runs(from)
  /\ ready' = Append(Rest, to)
  /\ OnlyReady

(* _stop_server; Server.wait_closed() returns at once, as in every Python   *)
(* before 3.12. *)
StopServer == server' = IF server = "listening" THEN "none" ELSE server

(* _incoming: an extraneous connection is closed at once; one that comes   *)
(* when nobody accepts fails an assertion of this task, and stays open;    *)
(* one that comes when the disconnect task is over but not cleaned up      *)
(* after is late.                                                          *)
Incoming ==
  /\ Runs("incoming")
  /\ IF writer # "none" \/ accepted = "none"
     THEN ready' = Rest /\ UNCHANGED <<serverVars, writer, linkVars>>
     ELSE /\ StopServer
          /\ writer' = "open"
          /\ NewLink(IF dc = "done" THEN "late" ELSE "serve")
          /\ accepted' = "set"
          /\ ready' = IF pc = "a_wait" THEN Woken(Rest, Owner) ELSE Rest
  /\ UNCHANGED <<runstate, ownerVars, outcome, cancelVars, taskVars, queueVars, broken>>

(* _do_accept goes on; assert self._server is None. *)
Accepted ==
  /\ Goto("a_wait", "greet")
  /\ accepted = "set" /\ server = "none"
  /\ accepted' = "none"
  /\ pending' = <<>>
  /\ UNCHANGED <<ready, runstate, taskVars, server, writer, outgoing, linkVars>> /\ OwnerStep

(* The owner reads a message, or waits for one. *)
Reads(kind) == inbox # <<>> /\ Head(inbox).kind = kind /\ inbox' = Tail(inbox)

AwaitMessage ==
  /\ Runs(Owner)
  /\ pc \in {"greet", "caps"} /\ Owner \notin cancelled
  /\ inbox = <<>> /\ ~ eof
  /\ ready' = Rest
  /\ OnlyReady

Greeting ==
  /\ Goto("greet", "caps")
  /\ Reads("greeting")
  /\ peer' = "asked"
  /\ UNCHANGED <<ready, runstate, taskVars, serverVars, writer, queueVars,
                 sock, mode, eof, got>> /\ OwnerStep

(* The end of _negotiate, and the superclass's _establish_session. *)
Negotiated ==
  /\ Goto("caps", "e_sleep")
  /\ runstate = "connecting"
  /\ Reads("ok")
  /\ outgoing' = <<>>
  /\ rd' = "run" /\ wr' = "run"
  /\ runstate' = "running"
  /\ ready' = Append(Append(Append(Rest, "reader"), "writer"), Owner)
  /\ UNCHANGED <<dc, serverVars, writer, pending, sock, mode, eof, peer, got>> /\ OwnerStep

(* connect() and accept() end with assert self.runstate == RUNNING, which  *)
(* fails, outside of the guard, if the session is lost already.            *)
Established ==
  /\ Runs(Owner)
  /\ pc = "e_sleep" /\ Owner \notin cancelled
  /\ pc' = "out"
  /\ UNCHANGED <<ready, runstate, sessions, cancelled, taskVars, serverVars, writer,
                 queueVars, linkVars>> /\ OwnerStep

-----------------------------------------------------------------------------
(* Disconnecting                                                           *)

(* Fault: the state is only set when the disconnect task starts. *)
ScheduleOnly(q) ==
  IF dc = "none" THEN dc' = "start" /\ ready' = Append(q, "dc") /\ UNCHANGED runstate
  ELSE ready' = q /\ UNCHANGED <<runstate, dc>>

(* _schedule_disconnect; q are the handles that become ready before. *)
ScheduleDisconnect(q) ==
  IF dc = "none"
  THEN /\ runstate' = "disconnecting"
       /\ dc' = "start"
       /\ ready' = Append(q, "dc")
  ELSE /\ ready' = q
       /\ UNCHANGED <<runstate, dc>>

(* disconnect(): when the task it waits for is done already, asyncio.wait  *)
(* still takes a round.                                                    *)
AwaitDisconnect ==
  ScheduleDisconnect(IF dc = "done" THEN Append(Rest, "dc_done") ELSE Rest)

Disconnect ==
  /\ Call("dc_wait")
  /\ AwaitDisconnect
  /\ UNCHANGED <<sessions, cancelled, rd, wr, serverVars, writer, queueVars,
                 linkVars>> /\ OwnerStep

(* The errors within a session guard, failed assertions included; bind     *)
(* fails without an await.                                                 *)
CannotOpen ==
  \/ Owner \in cancelled
  \/ pc = "c_open" /\ sock # "open"
  \/ pc = "a_wait" /\ accepted = "set" /\ server # "none"
  \/ pc = "s_sleep"
  \/ /\ pc \in {"greet", "caps"}
     /\ IF inbox = <<>> THEN eof
        ELSE Head(inbox).kind # (IF pc = "greet" THEN "greeting" ELSE "ok")

(* _session_guard: whatever the error, disconnect().  A connection that is *)
(* made in the moment of the cancellation is closed by asyncio.            *)
OpenFails ==
  /\ Runs(Owner)
  /\ pc \in Opening
  /\ CannotOpen
  /\ pc' = "dc_guard"
  /\ cancelled' = cancelled \ {Owner}
  /\ AwaitDisconnect
  /\ sock' = IF pc = "c_open" /\ sock = "open" THEN "closed" ELSE sock
  /\ UNCHANGED <<sessions, rd, wr, serverVars, writer, queueVars,
                 mode, inbox, eof, peer, got>> /\ OwnerStep

(* asyncio.wait hears of the end of the disconnect task. *)
DisconnectDone ==
  /\ Runs("dc_done")
  /\ ready' = IF pc \in {"dc_wait", "dc_guard"} THEN Woken(Rest, Owner) ELSE Rest
  /\ OnlyReady

(* The rest of _wait_disconnect, with both _cleanup. *)
CleanUp ==
  /\ Runs(Owner)
  /\ pc \in {"dc_wait", "dc_guard"} /\ Owner \notin cancelled
  /\ broken' = (\/ broken
                \/ runstate # "disconnecting" \/ dc # "done" \/ "run" \in {rd, wr}
                \/ DOMAIN pending # {})
  /\ rd' = "none" /\ wr' = "none" /\ dc' = "none"
  /\ writer' = "none" /\ accepted' = "none"
  /\ runstate' = "idle"
  /\ pc' = "out"
  /\ UNCHANGED <<ready, sessions, outcome, cancelVars, server, queueVars, linkVars>>

(* A cancelled disconnect() leaves the clean-up to the next one. *)
DisconnectCancelled ==
  /\ Runs(Owner)
  /\ pc \in {"dc_wait", "dc_guard"} /\ Owner \in cancelled
  /\ pc' = "out"
  /\ cancelled' = cancelled \ {Owner}
  /\ UNCHANGED <<ready, runstate, sessions, taskVars, serverVars, writer,
                 queueVars, linkVars>> /\ OwnerStep

(* _bh_disconnect; q are the handles that are ready behind it.             *)

(* Fault: nobody tells the executions. *)
InterruptNone(q) ==
  dc' = "done" /\ ready' = Append(q, "dc_done") /\ UNCHANGED <<pending, broken>>

(* Its end, in QMPClient: every pending execution is interrupted. *)
Interrupted(q) ==
  LET waiting == {e \in Exec : outcome[e] = "waiting" /\ ~ Contains(q, e)}
  IN  /\ pending' = [id \in DOMAIN pending |->
                       IF pending[id] = {} THEN {"interrupted"} ELSE pending[id]]
      /\ broken' = (broken \/ \E id \in DOMAIN pending : pending[id] # {})
      /\ dc' = "done"
      /\ ready' = Append(q \o SetToSeq(waiting), "dc_done")

(* Fault: the stream is left to the garbage collector. *)
LeaveStream(q) == Interrupted(q) /\ UNCHANGED writer

(* _bh_close_stream. *)
CloseStream(q) ==
  IF writer = "none"
  THEN Interrupted(q) /\ UNCHANGED writer
  ELSE /\ writer' = "closing"
       /\ dc' = "close"
       /\ ready' = q
       /\ UNCHANGED <<pending, broken>>

(* Fault: only the writer is cancelled. *)
WriterOnly == IF wr = "run" THEN {"writer"} ELSE {}

Running == {t \in {"reader", "writer"} : (IF t = "reader" THEN rd ELSE wr) = "run"}

(* The finally of _bh_disconnect; asyncio.wait takes a round in any case. *)
CancelTasks ==
  IF wr = "none"
  THEN CloseStream(Rest) /\ UNCHANGED cancelled
  ELSE /\ cancelled' = cancelled \cup Running
       /\ LET q == IF "writer" \in Running THEN Woken(Rest, "writer") ELSE Rest
          IN  ready' = IF Running = {} THEN Append(Rest, "bh_done")
                       ELSE IF "reader" \in Running THEN Woken(q, "reader") ELSE q
       /\ dc' = "wait"
       /\ UNCHANGED <<pending, writer, broken>>

DcStep ==
  /\ Runs("dc")
  /\ UNCHANGED <<runstate, ownerVars, outcome, cancels, rd, wr, accepted, outgoing, linkVars>>

ErrorPathway ==
  \/ rd \in {"done", "failed"} \/ wr \in {"done", "failed"}
  \/ wr = "none" /\ writer # "none"

(* With a writer to flush it waits for _outgoing to be empty, and then for *)
(* the socket to take what was written, if it has not yet.                 *)
DcStart ==
  /\ dc = "start"
  /\ DcStep
  /\ StopServer
  /\ \/ CancelTasks /\ (ErrorPathway \/ wr = "none" \/ outgoing = <<>>)
     \/ /\ wr # "none" /\ ~ ErrorPathway
        /\ dc' = IF outgoing = <<>> THEN "drain" ELSE "join"
        /\ ready' = Rest
        /\ UNCHANGED <<cancelled, pending, writer, broken>>

DcFlushed ==
  /\ dc = "drain"
  /\ DcStep
  /\ CancelTasks
  /\ UNCHANGED server

DcCloses ==
  /\ dc = "wait"
  /\ DcStep
  /\ CloseStream(Rest)
  /\ UNCHANGED <<cancelled, server>>

DcEnds ==
  /\ dc = "close"
  /\ DcStep
  /\ Interrupted(Rest)
  /\ UNCHANGED <<cancelled, writer, server>>

(* asyncio.wait hears of the end of reader and writer. *)
TasksDone ==
  /\ Runs("bh_done")
  /\ ready' = Woken(Rest, "dc")
  /\ OnlyReady

-----------------------------------------------------------------------------
(* Reader and writer                                                       *)

(* The handles after the last step of a task, when the other one is in the *)
(* given state. *)
Ended(other) == IF dc = "wait" /\ other # "run" THEN Append(Rest, "bh_done") ELSE Rest

TaskStep == UNCHANGED <<ownerVars, outcome, cancels, serverVars, writer, broken>>

TaskCancelled ==
  /\ \/ Runs("reader") /\ "reader" \in cancelled
        /\ rd' = "done" /\ ready' = Ended(wr) /\ UNCHANGED wr
     \/ Runs("writer") /\ "writer" \in cancelled
        /\ wr' = "done" /\ ready' = Ended(rd) /\ UNCHANGED rd
  /\ cancelled' = cancelled \ {Head(ready)}
  /\ UNCHANGED <<runstate, dc, queueVars, linkVars>> /\ TaskStep

(* The fault-free steps of a task that is not cancelled. *)
TaskRuns(t) ==
  /\ Runs(t) /\ t \notin cancelled
  /\ UNCHANGED <<cancelled, sock, mode, eof, peer>> /\ TaskStep

(* _on_message: a reply goes to the execution with its id, or is dropped.  *)
(* The peer replies once: the queue of maxsize 1 has room.                 *)
Receive ==
  /\ TaskRuns("reader")
  /\ Reads("reply")
  /\ LET e == Head(inbox).to
         id == ExecId(e)
         asked == {x \in Exec : outcome[x] = "waiting" /\ ExecId(x) = id /\ ~ Queued(x)}
     IN  IF id \in DOMAIN pending
         THEN /\ pending' = [pending EXCEPT ![id] = {e}]
              /\ ready' = ready \o SetToSeq(asked)
         ELSE UNCHANGED <<pending, ready>>
  /\ UNCHANGED <<runstate, taskVars, outgoing, got>>

(* A message it does not understand, an error without an id, or the end of *)
(* the stream. *)
ReaderFails ==
  /\ TaskRuns("reader")
  /\ \/ Reads("bad")
     \/ inbox = <<>> /\ eof /\ UNCHANGED inbox
  /\ rd' = "failed"
  /\ ScheduleDisconnect(Ended(wr))
  /\ UNCHANGED <<wr, queueVars, got>>

Send ==
  /\ TaskRuns("writer")
  /\ outgoing # <<>>
  /\ outgoing' = Tail(outgoing)
  /\ got' = got \cup {Head(outgoing)}
  /\ ready' = IF dc = "join" /\ Len(outgoing) = 1 THEN Woken(ready, "dc") ELSE ready
  /\ UNCHANGED <<runstate, taskVars, pending, inbox>>

(* _do_send raises for what JSON cannot express. *)
WriterFails ==
  /\ TaskRuns("writer")
  /\ outgoing # <<>>
  /\ outgoing' = Tail(outgoing)
  /\ wr' = "failed"
  /\ ScheduleDisconnect(Ended(rd))
  /\ UNCHANGED <<rd, pending, inbox, got>>

TaskIdles ==
  /\ \/ TaskRuns("reader") /\ inbox = <<>> /\ ~ eof
     \/ TaskRuns("writer") /\ outgoing = <<>>
  /\ ready' = Rest
  /\ UNCHANGED <<runstate, taskVars, queueVars, inbox, got>>

-----------------------------------------------------------------------------
(* execute()                                                               *)

CallerStep ==
  UNCHANGED <<runstate, ownerVars, cancels, taskVars, serverVars, writer, linkVars, broken>>

(* Fault: execute() does not look at the state. *)
ExecuteAnytime(e) ==
  /\ Runs(e)
  /\ outcome[e] = "new"
  /\ outcome' = [outcome EXCEPT ![e] = "waiting"]
  /\ outgoing' = Append(outgoing, e)
  /\ pending' = [id \in DOMAIN pending \cup {ExecId(e)} |->
                   IF id = ExecId(e) THEN {} ELSE pending[id]]
  /\ ready' = IF wr = "run" THEN Woken(Rest, "writer") ELSE Rest
  /\ UNCHANGED cancelled /\ CallerStep

(* @require(RUNNING), _issue, and _reply up to the wait for the queue. *)
Execute(e) ==
  /\ Runs(e)
  /\ outcome[e] = "new"
  /\ runstate = "running"
  /\ outcome' = [outcome EXCEPT ![e] = "waiting"]
  /\ outgoing' = Append(outgoing, e)
  /\ pending' = [id \in DOMAIN pending \cup {ExecId(e)} |->
                   IF id = ExecId(e) THEN {} ELSE pending[id]]
  /\ ready' = IF wr = "run" THEN Woken(Rest, "writer") ELSE Rest
  /\ UNCHANGED cancelled /\ CallerStep

(* Fault: a cancelled execution leaves its queue behind. *)
ExecuteEndsDirty(e) ==
  /\ Runs(e)
  /\ outcome[e] = "waiting"
  /\ outcome' = [outcome EXCEPT ![e] = IF e \in cancelled THEN "cancelled" ELSE "replied"]
  /\ pending' = [id \in {i \in DOMAIN pending : e \in cancelled \/ i # e} |-> pending[id]]
  /\ cancelled' = cancelled \ {e}
  /\ ready' = Rest
  /\ UNCHANGED outgoing /\ CallerStep

(* The end of _reply: the queue is deleted, whatever came. *)
ExecuteEnds(e) ==
  /\ Runs(e)
  /\ outcome[e] = "waiting"
  /\ LET came == pending[ExecId(e)]
     IN  outcome' = [outcome EXCEPT ![e] =
                       IF e \in cancelled THEN "cancelled"
                       ELSE IF came = {"interrupted"} THEN "interrupted"
                       ELSE IF came = {e} THEN "replied" ELSE "misrouted"]
  /\ pending' = [id \in DOMAIN pending \ {ExecId(e)} |-> pending[id]]
  /\ cancelled' = cancelled \ {e}
  /\ ready' = Rest
  /\ UNCHANGED outgoing /\ CallerStep

-----------------------------------------------------------------------------
(* External: the streams                                                   *)

(* Whoever reads becomes ready. *)
Fed ==
  ready' = IF rd = "run" THEN Woken(ready, "reader")
           ELSE IF pc \in {"greet", "caps"} THEN Woken(ready, Owner) ELSE ready

(* What the peer does counts as long as somebody will read on. *)
Read ==
  /\ sock = "open" /\ ~ eof
  /\ rd = "run" \/ pc \in Opening
  /\ \A i \in DOMAIN inbox : inbox[i].kind # "bad"

StreamStep ==
  UNCHANGED <<runstate, ownerVars, outcome, cancelVars, taskVars, serverVars,
              writer, queueVars, broken>>

(* As QEMU does, the peer replies to what it has received, and once.       *)
PeerSends ==
  /\ Read
  /\ \E m \in Message :
       /\ inbox' = Append(inbox, m)
       /\ CASE m.kind = "greeting" -> peer = "made" /\ peer' = "greeted" /\ UNCHANGED got
            [] m.kind = "ok"       -> peer = "asked" /\ peer' = "up" /\ UNCHANGED got
            [] m.kind = "reply"    -> peer = "up" /\ m.to \in got
                                      /\ got' = got \ {m.to} /\ UNCHANGED peer
            [] m.kind = "bad"      -> UNCHANGED <<got, peer>>
  /\ Fed
  /\ UNCHANGED <<sock, mode, eof>> /\ StreamStep

PeerHangsUp ==
  /\ Read
  /\ eof' = TRUE
  /\ Fed
  /\ UNCHANGED <<sock, mode, inbox, peer, got>> /\ StreamStep

(* The socket has taken everything, or drain() has failed. *)
Drained ==
  /\ dc = "drain" /\ ~ Queued("dc")
  /\ ready' = Append(ready, "dc")
  /\ UNCHANGED linkVars /\ StreamStep

ConnectionLost ==
  /\ writer = "closing" /\ sock = "open"
  /\ sock' = "closed" /\ inbox' = <<>> /\ eof' = FALSE /\ peer' = "none" /\ got' = {}
  /\ ready' = Append(ready, "dc")
  /\ UNCHANGED mode /\ StreamStep

-----------------------------------------------------------------------------
LoopStep ==
  \/ Connect \/ OpenConnection \/ Connected
  \/ StartListening \/ ServerStarted \/ Accept \/ Incoming \/ Accepted
  \/ Arrive("knock", "made") \/ Arrive("made", "incoming")
  \/ AwaitMessage \/ Greeting \/ Negotiated \/ Established
  \/ Disconnect \/ OpenFails \/ DisconnectDone \/ CleanUp \/ DisconnectCancelled
  \/ DcStart \/ DcFlushed \/ DcCloses \/ DcEnds \/ TasksDone
  \/ TaskCancelled \/ Receive \/ ReaderFails \/ Send \/ WriterFails \/ TaskIdles
  \/ \E e \in Exec : Execute(e) \/ ExecuteEnds(e)
  \/ \E t \in Tasks : Leave(t)

Next ==
  \/ LoopStep
  \/ \E t \in Tasks : Tick(t) \/ Cancel(t)
  \/ OpenEnds \/ PeerConnects \/ PeerSends \/ PeerHangsUp \/ Drained \/ ConnectionLost

(* The loop runs what is ready; an attempt to connect ends; what has been  *)
(* written is taken by the socket, or the connection fails.                *)
Fairness ==
  /\ WF_vars(LoopStep)
  /\ WF_vars(OpenEnds)
  /\ WF_vars(Drained)
  /\ WF_vars(ConnectionLost)

Spec == Init /\ [][Next]_vars /\ Fairness

-----------------------------------------------------------------------------
(* Properties                                                              *)

(* A session is cleaned up only when that is sound: in state DISCONNECTING, *)
(* every task of it ended, no execution pending (assert not self._pending,  *)
(* qmp_client.py:339), and the interruption that precedes finds room in     *)
(* every pending queue ("This is a bug in the QMP library").  The peer      *)
(* replies at most once, and the start of a server is not cancelled.        *)
CleanUpSound == ~ broken

(* _bh_disconnect never waits for messages that are still to be sent: by   *)
(* the time it looks they have all been handed to the socket, or the       *)
(* writer has failed, and no join of _outgoing hangs.                      *)
FlushNeverBlocks == dc # "join"

(* An execution never ends with the reply to another one, such as the late *)
(* reply to one that timed out.                                            *)
ReplyIsOwn == \A e \in Exec : outcome[e] # "misrouted"

(* "Fully quiesced and disconnected." (protocol.py:60): in state IDLE no   *)
(* execution waits, no task of the client is left to run, and its          *)
(* connection is closed, connected or accepted.  (Only one that a server   *)
(* accepts between the end of the disconnect task and the clean-up is left *)
(* open.)                                                                  *)
IdleIsQuiet ==
  runstate = "idle" =>
    /\ \A e \in Exec : outcome[e] # "waiting"
    /\ \A t \in Internal \ Arriving : ~ Queued(t)
    /\ sock = "open" => mode = "late"

(* The client implements the session it promises. *)
Session == INSTANCE QmpSession WITH session <- runstate, outcome <- outcome
ImplementsSession == Session!Spec

(* A call that disconnects returns, whatever the peer says and the other   *)
(* tasks do meanwhile; but the peer goes on reading, or the connection     *)
(* fails (see Fairness: drain() and wait_closed() await it).               *)
DisconnectEnds == (pc \in {"dc_wait", "dc_guard"}) ~> (pc = "out")

(* When the session is lost, every execution hears of it. *)
ExecutionsEnd ==
  \A e \in Exec :
    (runstate = "disconnecting" /\ outcome[e] = "waiting") ~> (outcome[e] # "waiting")
=============================================================================
