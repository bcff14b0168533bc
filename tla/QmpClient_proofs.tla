-------------------------- MODULE QmpClient_proofs --------------------------
(***************************************************************************)
(* The QMP client keeps its promises, and implements QmpSession, for any   *)
(* set of executions, any number of sessions and any cancellations.        *)
(*                                                                         *)
(* All of it rests on the order in which the event loop runs its handles.  *)
(* IInv says which handles may be in the queue at all, given how far the   *)
(* session has come, and which are ahead of which: the writer with its     *)
(* messages ahead of the disconnect task that flushes them, an execution   *)
(* that has its reply ahead of the end of the disconnect task, and those   *)
(* that the task has interrupted ahead of the owner that cleans up.        *)
(***************************************************************************)
EXTENDS QmpClient, ReadyQueue

USE TasksAssumption
    DEF ownerVars, cancelVars, taskVars, serverVars, queueVars, linkVars,
        Tasks, Internal, Arriving, Opening

Waiting == {e \in Exec : outcome[e] = "waiting"}

(* The owner waits for the disconnect task, and is to go on and clean up. *)
Disconnecting == pc \in {"dc_wait", "dc_guard"}
GoesOn == Disconnecting /\ Owner \notin cancelled

(* How far the session has come. *)
Control ==
  /\ dc # "none" <=> runstate = "disconnecting"
  /\ pc \in Opening \ {"e_sleep"} => runstate = "connecting"
  /\ pc = "e_sleep" => runstate \in {"running", "disconnecting"}
  /\ Disconnecting => runstate = "disconnecting"
  /\ rd = "none" <=> wr = "none"
  /\ runstate \in {"idle", "connecting"} => rd = "none"
  /\ runstate = "running" => rd = "run" /\ wr = "run"

(* What may be in the queue. *)
Handles ==
  /\ \A t \in Tasks \cup {"reader", "writer", "dc", "bh_done"} : Single(ready, t)
  /\ Queued("reader") => rd = "run"
  /\ Queued("writer") => wr = "run"
  /\ Queued("dc") => dc \notin {"none", "done"}
  /\ Queued("bh_done") => dc = "wait" /\ ~ Queued("dc")
  /\ Queued("dc_done") => dc = "done"

(* Reader and writer are cancelled by the disconnect task, which waits for *)
(* both to end. *)
Ending ==
  /\ "reader" \in cancelled => rd = "run" /\ dc = "wait"
  /\ "writer" \in cancelled => wr = "run" /\ dc = "wait"
  /\ dc = "wait" =>
       /\ rd = "run" => "reader" \in cancelled
       /\ wr = "run" => "writer" \in cancelled
       /\ Queued("dc") \/ Queued("bh_done") => rd # "run" /\ wr # "run"
  /\ dc \in {"close", "done"} => rd # "run" /\ wr # "run"

(* The writer runs before the disconnect task flushes. *)
Flushing ==
  /\ dc \in {"none", "start"} /\ wr = "run" /\ outgoing # <<>> =>
       Queued("writer") /\ Ahead(ready, "writer", "dc")
  /\ dc # "join"

(* What execution e, which waits, may have got, and when it runs. *)
Awaits(e) ==
  /\ pending[e] \in {{}, {e}, {"interrupted"}}
  /\ pending[e] = {"interrupted"} => dc = "done"
  /\ pending[e] # {} =>
       /\ Queued(e)
       /\ dc # "close"
       /\ dc = "wait" => Ahead(ready, e, "bh_done") /\ Ahead(ready, e, "dc")
  /\ Queued(e) => e \in cancelled \/ pending[e] # {}
  /\ dc = "done" =>
       /\ Queued(e)
       /\ Ahead(ready, e, "dc_done")
       /\ GoesOn => Ahead(ready, e, Owner)

Replies ==
  /\ IsFiniteSet(Waiting)
  /\ DOMAIN pending = Waiting
  /\ wr = "none" => Waiting = {}
  /\ \A e \in Waiting : Awaits(e)

(* The owner goes on when the disconnect task, and all that tells of its   *)
(* end, is through. *)
Quiescing ==
  GoesOn /\ Queued(Owner) => dc = "done" /\ AllAhead(ready, "dc_done", Owner)

(* The sockets that the client made, or accepted in time. *)
Link ==
  /\ runstate = "idle" \/ pc \in {"c_sleep", "c_open"} => accepted = "none"
  /\ writer = "closing" => dc \in {"close", "done"}
  /\ dc = "close" => writer = "closing" /\ (sock = "open" => ~ Queued("dc"))
  /\ sock = "open" /\ dc = "done" => writer # "closing"
  /\ sock = "open" /\ mode # "late" =>
       /\ accepted = "none" \/ mode = "serve"
       /\ pc = "c_open" \/ writer # "none"
       /\ dc # "done" /\ runstate # "idle"

IInv ==
  /\ TypeOK
  /\ Control /\ Handles /\ Ending /\ Flushing /\ Replies /\ Quiescing /\ Link
  /\ CleanUpSound /\ ReplyIsOwn

-----------------------------------------------------------------------------
Handle == Tasks \cup Internal

(* What taking off the head of the queue does. *)
LEMMA HeadTaken ==
  ASSUME TypeOK, ready # <<>>
  PROVE  /\ Rest \in Seq(Handle)
         /\ Popped(ready, Head(ready), Rest)
BY PoppedIs DEF TypeOK, Handle, Rest

LEMMA Put ==
  ASSUME NEW q \in Seq(Handle), NEW t \in Handle
  PROVE  /\ Append(q, t) \in Seq(Handle)
         /\ Pushed(q, t, Append(q, t))
BY PushedIs


LEMMA Nothing == <<>> \in Seq(Message)
OBVIOUS

(* Until the disconnect task waits for reader and writer, an execution is  *)
(* only concerned by what changes its own queue, or wakes it.              *)
LEMMA EarlyAwaits ==
  ASSUME NEW e \in Exec, Awaits(e),
         dc \notin {"wait", "close", "done"}, dc' \notin {"wait", "close", "done"},
         pending'[e] = pending[e], e \in cancelled => e \in cancelled',
         Contains(ready', e) <=> Contains(ready, e)
  PROVE  Awaits(e)'
BY DEF Awaits, Queued

(* What ScheduleDisconnect(Rest) and AwaitDisconnect do.                   *)
Scheduled ==
  \/ /\ dc = "none" /\ dc' = "start" /\ runstate' = "disconnecting"
     /\ Pushed(Rest, "dc", ready')
  \/ dc # "none" /\ UNCHANGED <<dc, runstate>> /\ ready' = Rest

Called ==
  \/ dc # "done" /\ Scheduled
  \/ dc = "done" /\ UNCHANGED <<dc, runstate>> /\ Pushed(Rest, "dc_done", ready')

-----------------------------------------------------------------------------
(* The actions, one by one: XKeeps says that action X of the model keeps   *)
(* the invariant.  First what any task may do.                             *)

LEMMA TickKeeps ==
  ASSUME IInv, NEW t \in Tasks, Tick(t)
  PROVE  IInv'
<1>1. ready' \in Seq(Handle) /\ Pushed(ready, t, ready')
  BY Put DEF Handle, IInv, TypeOK, Tick, OnlyReady
<1>2. TypeOK'
  BY <1>1 DEF IInv, TypeOK, Tick, OnlyReady, Handle
<1>3. Control' /\ Ending' /\ Handles' /\ Flushing' /\ Quiescing' /\ Link'
  BY <1>1
     DEF IInv, Control, Ending, Handles, Flushing, Quiescing, Link, Tick,
         OnlyReady, Disconnecting, GoesOn, Queued, Popped, Pushed
<1>4. Replies'
  BY <1>1
     DEF IInv, Replies, Awaits, Waiting, Tick, OnlyReady, Disconnecting,
         GoesOn, Queued, Popped, Pushed
<1>5. CleanUpSound' /\ ReplyIsOwn'
  BY DEF IInv, CleanUpSound, ReplyIsOwn, Tick, OnlyReady, Handle
<1> QED
  BY <1>2, <1>3, <1>4, <1>5 DEF IInv

LEMMA LeaveKeeps ==
  ASSUME IInv, NEW t \in Tasks, Leave(t)
  PROVE  IInv'
<1>1. Rest \in Seq(Handle) /\ Popped(ready, t, Rest)
  BY HeadTaken DEF IInv, Leave, Out, OnlyReady, Runs
<1>2. TypeOK'
  BY <1>1 DEF IInv, TypeOK, Leave, Out, OnlyReady, Runs, Handle
<1>3. Control' /\ Ending' /\ Handles' /\ Flushing' /\ Quiescing' /\ Link'
  BY <1>1
     DEF IInv, Control, Ending, Handles, Flushing, Quiescing, Link, Leave,
         OnlyReady, Disconnecting, GoesOn, Queued, Popped, Pushed
<1>4. Replies'
  BY <1>1
     DEF IInv, Replies, Awaits, Waiting, Leave, Out, OnlyReady, Disconnecting,
         GoesOn, Queued, Popped, Pushed
<1>5. CleanUpSound' /\ ReplyIsOwn'
  BY DEF IInv, CleanUpSound, ReplyIsOwn, Leave, Out, OnlyReady, Runs,
         Handle
<1> QED
  BY <1>2, <1>3, <1>4, <1>5 DEF IInv

LEMMA CancelKeeps ==
  ASSUME IInv, NEW t \in Tasks, Cancel(t)
  PROVE  IInv'
<1>1. Append(ready, t) \in Seq(Handle) /\ Pushed(ready, t, Append(ready, t))
  BY Put DEF Handle, IInv, TypeOK
<1>2. TypeOK'
  BY <1>1 DEF IInv, TypeOK, Cancel, Out, Woken, Handle
<1>3. Control' /\ Ending' /\ Handles' /\ Flushing' /\ Quiescing' /\ Link'
  BY <1>1
     DEF IInv, Control, Ending, Handles, Flushing, Quiescing, Link, Cancel,
         Woken, Disconnecting, GoesOn, Queued, Popped, Pushed
<1>4. Replies'
  BY <1>1
     DEF IInv, Replies, Awaits, Waiting, Cancel, Woken, Disconnecting, GoesOn,
         Queued, Popped, Pushed
<1>5. CleanUpSound' /\ ReplyIsOwn'
  BY DEF IInv, CleanUpSound, ReplyIsOwn, Cancel, Out, Woken, Handle
<1> QED
  BY <1>2, <1>3, <1>4, <1>5 DEF IInv

-----------------------------------------------------------------------------
(* Opening a session                                                       *)

LEMMA ConnectKeeps ==
  ASSUME IInv, Connect
  PROVE  IInv'
<1>1. Rest \in Seq(Handle) /\ Popped(ready, Owner, Rest)
  BY HeadTaken DEF IInv, Connect, Call, Runs, OwnerStep
<1>2. ready' \in Seq(Handle) /\ Pushed(Rest, Owner, ready')
  BY <1>1, Put DEF Handle, Connect, Call, Runs, OwnerStep
<1>3. TypeOK'
  BY <1>1, <1>2 DEF IInv, TypeOK, Connect, Call, Runs, OwnerStep, Handle
<1>4. Control' /\ Ending' /\ Handles' /\ Flushing' /\ Quiescing' /\ Link'
  BY <1>1, <1>2
     DEF IInv, Control, Ending, Handles, Flushing, Quiescing, Link, Connect,
         Call, Disconnecting, GoesOn, Queued, Popped, Pushed
<1>5. Replies'
  BY DEF IInv, Control, Replies, Waiting, Connect, OwnerStep
<1>6. CleanUpSound' /\ ReplyIsOwn'
  BY DEF IInv, CleanUpSound, ReplyIsOwn, Connect, Call, Runs, OwnerStep,
         Handle
<1> QED
  BY <1>3, <1>4, <1>5, <1>6 DEF IInv

LEMMA OpenConnectionKeeps ==
  ASSUME IInv, OpenConnection
  PROVE  IInv'
<1>1. Rest \in Seq(Handle) /\ Popped(ready, Owner, Rest)
  BY HeadTaken DEF IInv, OpenConnection, Goto, Runs, OwnerStep
<1>2. TypeOK'
  BY <1>1 DEF IInv, TypeOK, OpenConnection, Goto, Runs, OwnerStep, Handle
<1>3. Control' /\ Ending' /\ Handles' /\ Flushing' /\ Quiescing' /\ Link'
  BY <1>1
     DEF IInv, Control, Ending, Handles, Flushing, Quiescing, Link,
         OpenConnection, Goto, Disconnecting, Queued, Popped, Pushed
<1>4. Replies'
  BY DEF IInv, Control, Replies, Waiting, OpenConnection, Goto, OwnerStep
<1>5. CleanUpSound' /\ ReplyIsOwn'
  BY DEF IInv, CleanUpSound, ReplyIsOwn, OpenConnection, Goto, Runs,
         OwnerStep, Handle
<1> QED
  BY <1>2, <1>3, <1>4, <1>5 DEF IInv

LEMMA OpenEndsKeeps ==
  ASSUME IInv, OpenEnds
  PROVE  IInv'
<1>1. ready' \in Seq(Handle) /\ Pushed(ready, Owner, ready')
  BY Put DEF IInv, TypeOK, Handle, OpenEnds
<1>2. TypeOK'
  <2>1. inbox' \in Seq(Message)
    BY Nothing DEF IInv, TypeOK, OpenEnds, NewLink
  <2>2. eof' \in BOOLEAN
    BY Zenon DEF IInv, TypeOK, OpenEnds, NewLink
  <2>3. /\ sock' \in {"none", "open", "closed"}
        /\ mode' \in {"none", "connect", "serve", "late"}
        /\ peer' \in {"none", "made", "greeted", "asked", "up"} /\ got' \in SUBSET Exec
    BY DEF IInv, TypeOK, OpenEnds, NewLink
  <2> QED
    BY <1>1, <2>1, <2>2, <2>3 DEF IInv, TypeOK, OpenEnds, Handle
<1>3. Control' /\ Ending' /\ Handles' /\ Flushing' /\ Quiescing' /\ Link'
  BY <1>1
     DEF IInv, Control, Ending, Handles, Flushing, Quiescing, Link, OpenEnds,
         Disconnecting, GoesOn, Queued, Pushed
<1>4. Replies'
  BY <1>1 DEF IInv, Control, Replies, Awaits, Waiting, OpenEnds
<1>5. CleanUpSound' /\ ReplyIsOwn'
  BY DEF IInv, CleanUpSound, ReplyIsOwn, OpenEnds
<1> QED
  BY <1>2, <1>3, <1>4, <1>5 DEF IInv

LEMMA ConnectedKeeps ==
  ASSUME IInv, Connected
  PROVE  IInv'
<1>1. TypeOK'
  BY DEF IInv, TypeOK, Connected, Goto, Runs, OwnerStep, Handle
<1>2. Control' /\ Ending' /\ Handles' /\ Flushing' /\ Quiescing' /\ Link'
  BY DEF IInv, Control, Ending, Handles, Flushing, Quiescing, Link, Connected,
         Goto, Handle, Disconnecting, GoesOn, Queued, Popped, Pushed
<1>3. Replies'
  BY DEF IInv, Control, Replies, Waiting, Connected, Goto, OwnerStep
<1>4. CleanUpSound' /\ ReplyIsOwn'
  BY DEF IInv, CleanUpSound, ReplyIsOwn, Connected, Goto, Runs, OwnerStep,
         Handle
<1> QED
  BY <1>1, <1>2, <1>3, <1>4 DEF IInv

LEMMA StartListeningKeeps ==
  ASSUME IInv, StartListening
  PROVE  IInv'
<1>1. Rest \in Seq(Handle) /\ Popped(ready, Owner, Rest)
  BY HeadTaken DEF IInv, StartListening, Goto, Runs, OwnerStep
<1>2. ready' \in Seq(Handle) /\ Pushed(Rest, Owner, ready')
  BY <1>1, Put DEF Handle, StartListening, Goto, Runs, OwnerStep
<1>3. TypeOK'
  BY <1>1, <1>2 DEF IInv, TypeOK, StartListening, Goto, Runs, OwnerStep, Handle
<1>4. Control' /\ Ending' /\ Handles' /\ Flushing' /\ Quiescing' /\ Link'
  BY <1>1, <1>2
     DEF IInv, Control, Ending, Handles, Flushing, Quiescing, Link,
         StartListening, Goto, Disconnecting, GoesOn, Queued, Popped, Pushed
<1>5. Replies'
  BY DEF IInv, Control, Replies, Waiting, StartListening, Goto, OwnerStep
<1>6. CleanUpSound' /\ ReplyIsOwn'
  BY DEF IInv, CleanUpSound, ReplyIsOwn, StartListening, Goto, Runs,
         OwnerStep, Handle
<1> QED
  BY <1>3, <1>4, <1>5, <1>6 DEF IInv

LEMMA ServerStartedKeeps ==
  ASSUME IInv, ServerStarted
  PROVE  IInv'
<1>1. TypeOK'
  BY DEF IInv, TypeOK, ServerStarted, Goto, Runs, OwnerStep, Handle
<1>2. Control' /\ Ending' /\ Handles' /\ Flushing' /\ Quiescing' /\ Link'
  BY DEF IInv, Control, Ending, Handles, Flushing, Quiescing, Link,
         ServerStarted, Goto, Handle, Disconnecting, GoesOn, Queued, Popped,
         Pushed
<1>3. Replies'
  BY DEF IInv, Control, Replies, Waiting, ServerStarted, Goto, OwnerStep
<1>4. CleanUpSound' /\ ReplyIsOwn'
  BY DEF IInv, CleanUpSound, ReplyIsOwn, ServerStarted, Goto, Runs,
         OwnerStep, Handle
<1> QED
  BY <1>1, <1>2, <1>3, <1>4 DEF IInv

LEMMA AcceptKeeps ==
  ASSUME IInv, Accept
  PROVE  IInv'
<1>1. Rest \in Seq(Handle) /\ Popped(ready, Owner, Rest)
  BY HeadTaken DEF IInv, Accept, Call, Runs, OwnerStep
<1>2. TypeOK'
  BY <1>1 DEF IInv, TypeOK, Accept, Call, Runs, OwnerStep, Handle
<1>3. Control' /\ Ending' /\ Handles' /\ Flushing' /\ Quiescing' /\ Link'
  BY <1>1
     DEF IInv, Control, Ending, Handles, Flushing, Quiescing, Link, Accept,
         Call, Disconnecting, GoesOn, Queued, Popped, Pushed
<1>4. Replies'
  BY DEF IInv, Control, Replies, Waiting, Accept, OwnerStep
<1>5. CleanUpSound' /\ ReplyIsOwn'
  BY DEF IInv, CleanUpSound, ReplyIsOwn, Accept, Call, Runs, OwnerStep,
         Handle
<1> QED
  BY <1>2, <1>3, <1>4, <1>5 DEF IInv

LEMMA PeerConnectsKeeps ==
  ASSUME IInv, PeerConnects
  PROVE  IInv'
<1>1. ready' \in Seq(Handle) /\ Pushed(ready, "knock", ready')
  BY Put DEF Handle, IInv, TypeOK, PeerConnects, OnlyReady
<1>2. TypeOK'
  BY <1>1 DEF IInv, TypeOK, PeerConnects, OnlyReady, Handle
<1>3. Control' /\ Ending' /\ Handles' /\ Flushing' /\ Quiescing' /\ Link'
  BY <1>1
     DEF IInv, Control, Ending, Handles, Flushing, Quiescing, Link,
         PeerConnects, OnlyReady, Disconnecting, GoesOn, Queued, Popped, Pushed
<1>4. Replies'
  BY <1>1
     DEF IInv, Replies, Awaits, Waiting, PeerConnects, OnlyReady,
         Disconnecting, GoesOn, Queued, Popped, Pushed
<1>5. CleanUpSound' /\ ReplyIsOwn'
  BY DEF IInv, CleanUpSound, ReplyIsOwn, PeerConnects, OnlyReady, Handle
<1> QED
  BY <1>2, <1>3, <1>4, <1>5 DEF IInv

LEMMA ArriveKeeps ==
  ASSUME IInv, NEW from \in {"knock", "made"}, NEW to \in {"made", "incoming"},
         Arrive(from, to)
  PROVE  IInv'
<1>1. Rest \in Seq(Handle) /\ Popped(ready, from, Rest)
  BY HeadTaken DEF IInv, Arrive, OnlyReady, Runs
<1>2. ready' \in Seq(Handle) /\ Pushed(Rest, to, ready')
  BY <1>1, Put DEF Handle, Arrive, OnlyReady, Runs
<1>3. TypeOK'
  BY <1>1, <1>2 DEF IInv, TypeOK, Arrive, OnlyReady, Runs, Handle
<1>4. Control' /\ Ending' /\ Handles' /\ Flushing' /\ Quiescing' /\ Link'
  BY <1>1, <1>2
     DEF IInv, Control, Ending, Handles, Flushing, Quiescing, Link, Arrive,
         OnlyReady, Disconnecting, GoesOn, Queued, Popped, Pushed
<1>5. Replies'
  BY <1>1, <1>2
     DEF IInv, Replies, Awaits, Waiting, Arrive, OnlyReady, Disconnecting,
         GoesOn, Queued, Popped, Pushed
<1>6. CleanUpSound' /\ ReplyIsOwn'
  BY DEF IInv, CleanUpSound, ReplyIsOwn, Arrive, OnlyReady, Runs, Handle
<1> QED
  BY <1>3, <1>4, <1>5, <1>6 DEF IInv

LEMMA IncomingKeeps ==
  ASSUME IInv, Incoming
  PROVE  IInv'
<1>1. Rest \in Seq(Handle) /\ Popped(ready, "incoming", Rest)
  BY HeadTaken DEF IInv, Incoming, Runs
<1>2. Append(Rest, Owner) \in Seq(Handle) /\ Pushed(Rest, Owner, Append(Rest, Owner))
  BY <1>1, Put DEF Handle
<1>3. CASE writer # "none" \/ accepted = "none"
  <2>1. ready' = Rest
        /\ UNCHANGED <<runstate, ownerVars, outcome, cancelVars, taskVars, serverVars,
                       writer, queueVars, linkVars, broken>>
    BY <1>3 DEF Incoming
  <2>2. TypeOK'
    BY <1>1, <2>1 DEF IInv, TypeOK, Handle
  <2>3. Control' /\ Ending' /\ Handles' /\ Flushing' /\ Quiescing' /\ Link'
    BY <1>1, <2>1
       DEF IInv, Control, Ending, Handles, Flushing, Quiescing, Link,
           Disconnecting, GoesOn, Queued, Popped
  <2>4. Replies' /\ CleanUpSound' /\ ReplyIsOwn'
    BY <1>1, <2>1
       DEF IInv, Replies, Awaits, Waiting, CleanUpSound, ReplyIsOwn,
           Disconnecting, GoesOn, Queued, Popped
  <2> QED
    BY <2>2, <2>3, <2>4 DEF IInv
<1>4. CASE ~ (writer # "none" \/ accepted = "none")
  <2>1. /\ ready' = IF pc = "a_wait" THEN Woken(Rest, Owner) ELSE Rest
        /\ server' \in {server, "none"} /\ accepted' = "set" /\ writer' = "open"
        /\ sock' = "open" /\ mode' = IF dc = "done" THEN "late" ELSE "serve"
        /\ peer' = "made" /\ got' = {}
        /\ UNCHANGED <<runstate, ownerVars, outcome, cancelVars, taskVars,
                       queueVars, broken>>
    BY <1>4 DEF Incoming, StopServer, NewLink
  <2>2. inbox' \in Seq(Message)
    BY <1>4, Nothing DEF Incoming, NewLink
  <2>3. eof' \in BOOLEAN
    BY <1>4, Zenon DEF Incoming, NewLink
  <2>4. ready' \in Seq(Handle)
    BY <1>1, <1>2, <2>1 DEF Woken
  <2>5. TypeOK'
    BY <2>1, <2>2, <2>3, <2>4 DEF IInv, TypeOK, Handle
  <2>6. Control' /\ Ending' /\ Link'
    BY <1>1, <1>4, <2>1
       DEF IInv, Control, Ending, Link, Disconnecting, Queued, Popped
  <2>7. Handles'
    BY <1>1, <1>2, <2>1 DEF IInv, Handles, Queued, Popped, Pushed, Woken
  <2>8. Flushing' /\ Quiescing'
    BY <1>1, <2>1
       DEF IInv, Control, Flushing, Quiescing, GoesOn, Disconnecting, Queued,
           Popped
  <2>9. Replies'
    BY <1>1, <2>1
       DEF IInv, Control, Replies, Awaits, Waiting, GoesOn, Disconnecting,
           Queued, Popped
  <2>10. CleanUpSound' /\ ReplyIsOwn'
    BY <2>1 DEF IInv, CleanUpSound, ReplyIsOwn
  <2> QED
    BY <2>5, <2>6, <2>7, <2>8, <2>9, <2>10 DEF IInv
<1> QED
  BY <1>3, <1>4

LEMMA AcceptedKeeps ==
  ASSUME IInv, Accepted
  PROVE  IInv'
<1>1. TypeOK'
  BY DEF IInv, TypeOK, Accepted, Goto, Runs, OwnerStep, Handle
<1>2. Control' /\ Ending' /\ Handles' /\ Flushing' /\ Quiescing' /\ Link'
  BY DEF IInv, Control, Ending, Handles, Flushing, Quiescing, Link, Accepted,
         Goto, Handle, Disconnecting, GoesOn, Queued, Popped, Pushed
<1>3. Replies'
  BY DEF IInv, Control, Replies, Waiting, Accepted, Goto, OwnerStep
<1>4. CleanUpSound' /\ ReplyIsOwn'
  BY DEF IInv, CleanUpSound, ReplyIsOwn, Accepted, Goto, Runs, OwnerStep,
         Handle
<1> QED
  BY <1>1, <1>2, <1>3, <1>4 DEF IInv

LEMMA AwaitMessageKeeps ==
  ASSUME IInv, AwaitMessage
  PROVE  IInv'
<1>1. Rest \in Seq(Handle) /\ Popped(ready, Owner, Rest)
  BY HeadTaken DEF IInv, AwaitMessage, OnlyReady, Runs
<1>2. TypeOK'
  BY <1>1 DEF IInv, TypeOK, AwaitMessage, OnlyReady, Runs, Handle
<1>3. Control' /\ Ending' /\ Handles' /\ Flushing' /\ Quiescing' /\ Link'
  BY <1>1
     DEF IInv, Control, Ending, Handles, Flushing, Quiescing, Link,
         AwaitMessage, OnlyReady, Disconnecting, Queued, Popped, Pushed
<1>4. Replies'
  BY DEF IInv, Control, Replies, Waiting, AwaitMessage, OnlyReady
<1>5. CleanUpSound' /\ ReplyIsOwn'
  BY DEF IInv, CleanUpSound, ReplyIsOwn, AwaitMessage, OnlyReady, Runs,
         Handle
<1> QED
  BY <1>2, <1>3, <1>4, <1>5 DEF IInv

LEMMA GreetingKeeps ==
  ASSUME IInv, Greeting
  PROVE  IInv'
<1>1. TypeOK'
  BY DEF IInv, TypeOK, Greeting, Goto, Runs, OwnerStep, Reads, Handle
<1>2. Control' /\ Ending' /\ Handles' /\ Flushing' /\ Quiescing' /\ Link'
  BY DEF IInv, Control, Ending, Handles, Flushing, Quiescing, Link, Greeting,
         Goto, Disconnecting, GoesOn, Queued, Popped, Pushed
<1>3. Replies'
  BY DEF IInv, Control, Replies, Waiting, Greeting, Goto, OwnerStep, Popped,
         Pushed
<1>4. CleanUpSound' /\ ReplyIsOwn'
  BY DEF IInv, CleanUpSound, ReplyIsOwn, Greeting, Goto, Runs, OwnerStep
<1> QED
  BY <1>1, <1>2, <1>3, <1>4 DEF IInv

LEMMA NegotiatedKeeps ==
  ASSUME IInv, Negotiated
  PROVE  IInv'
<1>1. Rest \in Seq(Handle) /\ Popped(ready, Owner, Rest)
  BY HeadTaken DEF IInv, Negotiated, Goto, Runs, OwnerStep, Reads
<1>2. /\ Append(Rest, "reader") \in Seq(Handle)
      /\ Pushed(Rest, "reader", Append(Rest, "reader"))
  BY <1>1, Put DEF Handle
<1>3. /\ Append(Append(Rest, "reader"), "writer") \in Seq(Handle)
      /\ Pushed(Append(Rest, "reader"), "writer",
                Append(Append(Rest, "reader"), "writer"))
  BY <1>2, Put DEF Handle
<1>4. /\ ready' \in Seq(Handle)
      /\ Pushed(Append(Append(Rest, "reader"), "writer"), Owner, ready')
  BY <1>3, Put DEF Handle, Negotiated, Goto, Runs, OwnerStep, Reads
<1>5. TypeOK'
  BY <1>1 DEF IInv, TypeOK, Negotiated, Goto, OwnerStep, Reads, Handle
<1>6. Control' /\ Ending' /\ Handles' /\ Flushing' /\ Quiescing' /\ Link'
  BY <1>1, <1>2, <1>3, <1>4
     DEF IInv, Control, Ending, Handles, Flushing, Quiescing, Link, Negotiated,
         Goto, Disconnecting, GoesOn, Queued, Popped, Pushed
<1>7. Replies'
  BY DEF IInv, Control, Replies, Waiting, Negotiated, OwnerStep
<1>8. CleanUpSound' /\ ReplyIsOwn'
  BY DEF IInv, CleanUpSound, ReplyIsOwn, Negotiated, Goto, Runs, OwnerStep
<1> QED
  BY <1>5, <1>6, <1>7, <1>8 DEF IInv

LEMMA EstablishedKeeps ==
  ASSUME IInv, Established
  PROVE  IInv'
<1>1. TypeOK'
  BY DEF IInv, TypeOK, Established, OwnerStep, Runs, Handle
<1>2. Control' /\ Ending' /\ Handles' /\ Flushing' /\ Quiescing' /\ Link'
  BY DEF IInv, Control, Ending, Handles, Flushing, Quiescing, Link,
         Established, Disconnecting, GoesOn, Queued, Popped, Pushed
<1>3. Replies'
  BY DEF IInv, Replies, Awaits, Waiting, Established, OwnerStep, Disconnecting,
         GoesOn, Queued, Popped, Pushed
<1>4. CleanUpSound' /\ ReplyIsOwn'
  BY DEF IInv, CleanUpSound, ReplyIsOwn, Established, OwnerStep, Runs,
         Handle
<1> QED
  BY <1>1, <1>2, <1>3, <1>4 DEF IInv

-----------------------------------------------------------------------------
(* Closing it                                                              *)

(* disconnect() is called, or a session guard calls it.                    *)
LEMMA DisconnectCalled ==
  ASSUME IInv, Runs(Owner), AwaitDisconnect,
         UNCHANGED <<outcome, wr, outgoing, pending>>,
         cancelled \ {Owner} \subseteq cancelled'
  PROVE  /\ ready' \in Seq(Handle)
         /\ Called
         /\ Flushing'
         /\ Replies'
<1>1. Rest \in Seq(Handle) /\ Popped(ready, Owner, Rest)
  BY HeadTaken DEF IInv, Runs
<1>2. Append(Rest, "dc") \in Seq(Handle) /\ Pushed(Rest, "dc", Append(Rest, "dc"))
  BY <1>1, Put DEF Handle
<1>3. /\ Append(Rest, "dc_done") \in Seq(Handle)
      /\ Pushed(Rest, "dc_done", Append(Rest, "dc_done"))
  BY <1>1, Put DEF Handle
<1>4. \/ /\ dc = "none" /\ dc' = "start" /\ runstate' = "disconnecting"
         /\ ready' = Append(Rest, "dc")
      \/ dc = "done" /\ UNCHANGED <<dc, runstate>> /\ ready' = Append(Rest, "dc_done")
      \/ dc \notin {"none", "done"} /\ UNCHANGED <<dc, runstate>> /\ ready' = Rest
  BY DEF AwaitDisconnect, ScheduleDisconnect
<1>5. /\ ~ Contains(ready', Owner)
      /\ \A e \in Exec : Contains(ready', e) <=> Contains(ready, e)
  BY <1>1, <1>2, <1>3, <1>4 DEF IInv, Handles, Popped, Pushed
<1>6. Flushing'
  <2>1. CASE dc = "none"
    BY <1>1, <1>2, <1>4, <2>1 DEF IInv, Flushing, Queued, Popped, Pushed
  <2>2. CASE dc = "done"
    BY <1>4, <2>2 DEF IInv, Flushing
  <2>3. CASE dc \notin {"none", "done"}
    BY <1>1, <1>4, <2>3 DEF IInv, Flushing, Queued, Popped
  <2> QED
    BY <2>1, <2>2, <2>3
<1>7. Waiting' = Waiting
  BY DEF Waiting
<1>8. ASSUME NEW e \in Waiting
      PROVE  Awaits(e)'
  <2>1. e \in Exec /\ Awaits(e) /\ (e \in cancelled => e \in cancelled')
    BY DEF IInv, Replies, Waiting
  <2>2. CASE dc = "none"
    BY <1>4, <1>5, <2>1, <2>2, EarlyAwaits
  <2>3. CASE dc = "done"
    <3>1. Contains(ready', e) /\ Contains(Rest, e) /\ Ahead(ready, e, "dc_done")
      BY <1>1, <1>5, <2>1, <2>3 DEF Awaits, Queued, Popped
    <3>2. Ahead(ready', e, "dc_done")
      BY <1>1, <1>3, <1>4, <2>1, <2>3, <3>1 DEF Popped, Pushed
    <3>3. Ahead(ready', e, Owner)
      BY <1>5, Absent
    <3> QED
      BY <1>4, <2>1, <2>3, <3>1, <3>2, <3>3 DEF Awaits, Queued
  <2>4. CASE dc \notin {"none", "done"}
    <3>1. ready' = Rest /\ dc' = dc /\ e # Owner
      BY <1>4, <2>1, <2>4
    <3> QED
      BY <1>1, <1>5, <2>1, <2>4, <3>1 DEF Awaits, Queued, Popped
  <2> QED
    BY <2>2, <2>3, <2>4
<1>9. Replies'
  BY <1>7, <1>8 DEF IInv, Replies
<1> QED
  BY <1>1, <1>2, <1>3, <1>4, <1>6, <1>9 DEF Called, Scheduled

LEMMA DisconnectKeeps ==
  ASSUME IInv, Disconnect
  PROVE  IInv'
<1>1. Popped(ready, Owner, Rest)
  BY HeadTaken DEF IInv, Disconnect, Call, Runs
<1>2. /\ ready' \in Seq(Handle)
      /\ Called
      /\ Flushing'
      /\ Replies'
  BY DisconnectCalled DEF Disconnect, Call, OwnerStep
<1>3. TypeOK'
  BY <1>2
     DEF IInv, Called, Scheduled, TypeOK, Disconnect, Call, OwnerStep, Handle
<1>4. Control' /\ Ending'
  BY <1>1, <1>2
     DEF IInv, Called, Scheduled, Control, Ending, Disconnect, Call, Queued,
         Popped
<1>5. Handles' /\ Quiescing'
  BY <1>1, <1>2
     DEF IInv, Called, Scheduled, Handles, Quiescing, Disconnect, Queued,
         Popped, Pushed
<1>6. Link'
  BY <1>1, <1>2
     DEF IInv, Called, Scheduled, Link, Disconnect, Call, Queued, Popped
<1>7. CleanUpSound' /\ ReplyIsOwn'
  BY DEF IInv, CleanUpSound, ReplyIsOwn, Disconnect, OwnerStep
<1> QED
  BY <1>2, <1>3, <1>4, <1>5, <1>6, <1>7 DEF IInv

LEMMA OpenFailsKeeps ==
  ASSUME IInv, OpenFails
  PROVE  IInv'
<1>1. Popped(ready, Owner, Rest)
  BY HeadTaken DEF IInv, OpenFails, Runs
<1>2. /\ ready' \in Seq(Handle)
      /\ Called
      /\ Flushing'
      /\ Replies'
  BY DisconnectCalled DEF OpenFails, OwnerStep
<1>3. TypeOK'
  BY <1>2 DEF IInv, Called, Scheduled, TypeOK, OpenFails, OwnerStep, Handle
<1>4. Control' /\ Ending'
  BY <1>1, <1>2
     DEF IInv, Called, Scheduled, Control, Ending, OpenFails, Queued, Popped
<1>5. Handles' /\ Quiescing'
  BY <1>1, <1>2
     DEF IInv, Called, Scheduled, Handles, Quiescing, OpenFails, Queued,
         Popped, Pushed
<1>6. Link'
  BY <1>1, <1>2 DEF IInv, Called, Scheduled, Link, OpenFails, Queued, Popped
<1>7. CleanUpSound' /\ ReplyIsOwn'
  BY DEF IInv, CleanUpSound, ReplyIsOwn, OpenFails, OwnerStep
<1> QED
  BY <1>2, <1>3, <1>4, <1>5, <1>6, <1>7 DEF IInv

LEMMA DisconnectDoneKeeps ==
  ASSUME IInv, DisconnectDone
  PROVE  IInv'
<1>1. Rest \in Seq(Handle) /\ Popped(ready, "dc_done", Rest)
  BY HeadTaken DEF IInv, DisconnectDone, OnlyReady, Runs, Woken
<1>2. Append(Rest, Owner) \in Seq(Handle) /\ Pushed(Rest, Owner, Append(Rest, Owner))
  BY <1>1, Put DEF Handle
<1>3. ~ Contains(Rest, Owner) => AllAhead(Rest, "dc_done", Owner)
  BY Absent
<1>4. TypeOK'
  BY <1>1, <1>2, <1>3
     DEF IInv, TypeOK, DisconnectDone, OnlyReady, Runs, Woken, Handle
<1>5. Control' /\ Ending' /\ Handles' /\ Flushing' /\ Quiescing' /\ Link'
  BY <1>1, <1>2, <1>3
     DEF IInv, Control, Ending, Handles, Flushing, Quiescing, Link,
         DisconnectDone, OnlyReady, Woken, Disconnecting, GoesOn, Queued,
         Popped, Pushed
<1>6. Replies'
  BY <1>1
     DEF IInv, Handles, Replies, Awaits, Waiting, DisconnectDone, OnlyReady,
         Queued, Popped
<1>7. CleanUpSound' /\ ReplyIsOwn'
  BY DEF IInv, CleanUpSound, ReplyIsOwn, DisconnectDone, OnlyReady, Runs,
         Woken, Handle
<1> QED
  BY <1>4, <1>5, <1>6, <1>7 DEF IInv

(* The assertions of _cleanup: the owner only gets here when the disconnect *)
(* task is done, and every execution it interrupted was ahead of the owner. *)
LEMMA CleanUpKeeps ==
  ASSUME IInv, CleanUp
  PROVE  IInv'
<1>1. Rest \in Seq(Handle) /\ Popped(ready, Owner, Rest)
  BY HeadTaken DEF IInv, CleanUp, Runs
<1>2. dc = "done" /\ ~ Queued("dc_done")
  BY <1>1 DEF IInv, Quiescing, GoesOn, Disconnecting, CleanUp, Queued, Popped
<1>3. Waiting = {} /\ DOMAIN pending = {}
  BY <1>1, <1>2
     DEF IInv, Replies, Awaits, GoesOn, Disconnecting, CleanUp, Popped
<1>4. TypeOK'
  BY <1>1, <1>2, <1>3 DEF IInv, TypeOK, CleanUp, Runs, Handle
<1>5. Control' /\ Ending' /\ Handles' /\ Flushing' /\ Quiescing' /\ Link'
  BY <1>2
     DEF IInv, Control, Ending, Handles, Flushing, Quiescing, Link, CleanUp,
         Disconnecting, GoesOn, Queued
<1>6. Replies'
  BY <1>3 DEF IInv, Replies, Waiting, CleanUp
<1>7. CleanUpSound' /\ ReplyIsOwn'
  BY <1>2, <1>3
     DEF IInv, CleanUpSound, ReplyIsOwn, CleanUp, Control, Ending
<1> QED
  BY <1>4, <1>5, <1>6, <1>7 DEF IInv

LEMMA DisconnectCancelledKeeps ==
  ASSUME IInv, DisconnectCancelled
  PROVE  IInv'
<1>1. TypeOK'
  BY DEF IInv, TypeOK, DisconnectCancelled, OwnerStep, Runs, Handle
<1>2. Control' /\ Ending' /\ Handles' /\ Flushing' /\ Quiescing' /\ Link'
  BY DEF IInv, Control, Ending, Handles, Flushing, Quiescing, Link,
         DisconnectCancelled, Disconnecting, GoesOn, Queued, Popped, Pushed
<1>3. Replies'
  BY DEF IInv, Replies, Awaits, Waiting, DisconnectCancelled, OwnerStep,
         Disconnecting, GoesOn, Queued, Popped, Pushed
<1>4. CleanUpSound' /\ ReplyIsOwn'
  BY DEF IInv, CleanUpSound, ReplyIsOwn, DisconnectCancelled, OwnerStep,
         Runs, Handle
<1> QED
  BY <1>1, <1>2, <1>3, <1>4 DEF IInv

-----------------------------------------------------------------------------
(* The disconnect task                                                     *)

(* The executions that the disconnect task interrupts are put in the queue *)
(* ahead of "dc_done", and so ahead of the owner.                          *)
LEMMA InterruptedKeeps ==
  ASSUME IInv, DcStep, Interrupted(Rest), UNCHANGED <<writer, cancelled>>,
         server' \in {server, "none"},
         rd # "run", wr # "run", \A e \in Waiting : pending[e] = {},
         dc = "close" \/ writer = "none"
  PROVE  IInv'
<1> DEFINE left == {e \in Exec : outcome[e] = "waiting" /\ ~ Contains(Rest, e)}
           r == Rest \o SetToSeq(left)
<1>1. Rest \in Seq(Handle) /\ Popped(ready, "dc", Rest)
  BY HeadTaken DEF IInv, DcStep, Runs
<1>2. /\ ~ Contains(Rest, "dc") /\ ~ Contains(Rest, "bh_done")
      /\ ~ Contains(Rest, "dc_done")
      /\ ~ Contains(Rest, "reader") /\ ~ Contains(Rest, "writer")
      /\ dc \notin {"none", "done"}
      /\ GoesOn => ~ Contains(Rest, Owner)
  BY <1>1 DEF IInv, Handles, Quiescing, Queued, Popped
<1>3. left = Waiting \ {e \in Waiting : Contains(Rest, e)}
  BY DEF Waiting
<1>4. /\ IsFiniteSet(left) /\ left \in SUBSET Waiting /\ left \in SUBSET Handle
      /\ \A u \in left : ~ Contains(Rest, u)
  BY <1>3, FS_Subset DEF IInv, Replies, Waiting, Handle
<1>5. r \in Seq(Handle) /\ Joined(Rest, left, r)
  BY <1>1, <1>4, JoinedIs
<1> HIDE DEF left, r
<1>6. ready' = Append(r, "dc_done") /\ dc' = "done"
  BY DEF Interrupted, r, left
<1>7. ready' \in Seq(Handle) /\ Pushed(r, "dc_done", ready')
  BY <1>5, <1>6, Put DEF Handle
<1>8. pending' = [e \in Waiting |-> {"interrupted"}] /\ broken' = FALSE
  BY DEF Interrupted, IInv, Replies, CleanUpSound
<1>9. /\ \A u : Contains(ready', u) <=> Contains(Rest, u) \/ u \in left \/ u = "dc_done"
      /\ \A t \in Tasks \cup {"reader", "writer", "dc", "bh_done"} : Single(ready', t)
  BY <1>1, <1>2, <1>4, <1>5, <1>7 DEF IInv, Handles, Joined, Pushed, Popped
<1>10. TypeOK'
  <2>1. broken' \in BOOLEAN
    BY <1>8
  <2>2. DOMAIN pending' \subseteq Exec
    BY <1>8 DEF Waiting
  <2>3. \A id \in DOMAIN pending' : pending'[id] \in SUBSET (Exec \cup {"interrupted"})
    BY <1>8
  <2> QED
    BY <1>6, <1>7, <2>1, <2>2, <2>3 DEF IInv, TypeOK, DcStep, Handle
<1>11. Control' /\ Ending' /\ Flushing'
  BY <1>2, <1>6 DEF IInv, Control, Ending, Flushing, DcStep, Disconnecting
<1>12. Handles' /\ Quiescing'
  BY <1>2, <1>4, <1>6, <1>9
     DEF Handles, Quiescing, GoesOn, Disconnecting, Queued, DcStep, Waiting
<1>13. Link'
  BY <1>1, <1>2, <1>6 DEF IInv, Control, Link, Queued, DcStep, Popped
<1>14. Waiting' = Waiting
  BY DEF Waiting, DcStep
<1>15. ASSUME NEW e \in Waiting
       PROVE  Awaits(e)'
  <2>1. Contains(r, e) /\ Contains(ready', e)
    BY <1>3, <1>5, <1>9 DEF Joined
  <2>2. "dc_done" \notin left /\ Owner \notin left
    BY <1>4 DEF Waiting
  <2>3. Ahead(ready', e, "dc_done")
    BY <1>2, <1>5, <1>7, <2>1, <2>2, Absent DEF Joined, Pushed
  <2>4. GoesOn' => Ahead(ready', e, Owner)
    BY <1>2, <1>9, <2>2, Absent DEF GoesOn, Disconnecting, DcStep
  <2> QED
    BY <1>6, <1>8, <2>1, <2>3, <2>4 DEF Awaits, Queued
<1>16. Replies'
  BY <1>8, <1>14, <1>15 DEF IInv, Replies, DcStep
<1>17. CleanUpSound' /\ ReplyIsOwn'
  BY <1>8 DEF IInv, CleanUpSound, ReplyIsOwn, DcStep
<1> QED
  BY <1>10, <1>11, <1>12, <1>13, <1>16, <1>17 DEF IInv

LEMMA CloseStreamKeeps ==
  ASSUME IInv, DcStep, CloseStream(Rest), UNCHANGED cancelled,
         server' \in {server, "none"},
         rd # "run", wr # "run", \A e \in Waiting : pending[e] = {}
  PROVE  IInv'
<1>1. Rest \in Seq(Handle) /\ Popped(ready, "dc", Rest)
  BY HeadTaken DEF IInv, DcStep, Runs
<1>2. CASE writer = "none"
  BY <1>2, InterruptedKeeps DEF CloseStream
<1>3. CASE writer # "none"
  <2>1. /\ writer' = "closing" /\ dc' = "close" /\ ready' = Rest
        /\ UNCHANGED <<pending, broken>>
    BY <1>3 DEF CloseStream
  <2>2. TypeOK'
    BY <1>1, <2>1 DEF IInv, TypeOK, DcStep, Handle
  <2>3. Control' /\ Ending' /\ Handles' /\ Flushing' /\ Quiescing' /\ Link'
    BY <1>1, <2>1
       DEF IInv, Control, Ending, Handles, Flushing, Quiescing, Link, DcStep,
           Disconnecting, GoesOn, Queued, Popped
  <2>4. Waiting' = Waiting
    BY DEF Waiting, DcStep
  <2>5. ASSUME NEW e \in Waiting
        PROVE  Awaits(e)'
    BY <1>1, <2>1, <2>5 DEF IInv, Replies, Awaits, Queued, Popped
  <2>6. Replies'
    BY <2>1, <2>4, <2>5 DEF IInv, Replies, DcStep
  <2>7. CleanUpSound' /\ ReplyIsOwn'
    BY <2>1 DEF IInv, CleanUpSound, ReplyIsOwn, DcStep
  <2> QED
    BY <2>2, <2>3, <2>6, <2>7 DEF IInv
<1> QED
  BY <1>2, <1>3

(* Reader and writer are cancelled, whichever of them still run.           *)
LEMMA CancelTasksKeeps ==
  ASSUME IInv, DcStep, CancelTasks, server' \in {server, "none"},
         dc \in {"start", "drain"}
  PROVE  IInv'
<1>1. Rest \in Seq(Handle) /\ Popped(ready, "dc", Rest)
  BY HeadTaken DEF IInv, DcStep, Runs
<1>2. CASE wr = "none"
  <2>1. rd # "run" /\ wr # "run" /\ \A e \in Waiting : pending[e] = {}
    BY <1>2 DEF IInv, Control, Replies
  <2> QED
    BY <1>2, <2>1, CloseStreamKeeps DEF CancelTasks
<1>3. CASE wr # "none"
  <2>0. /\ ~ Contains(Rest, "dc") /\ ~ Contains(Rest, "bh_done")
        /\ ~ Contains(Rest, "dc_done")
        /\ GoesOn => ~ Contains(Rest, Owner)
    BY <1>1 DEF IInv, Handles, Quiescing, Queued, Popped
  <2>1. /\ dc' = "wait" /\ cancelled' = cancelled \cup Running
        /\ UNCHANGED <<pending, writer, broken>>
    BY <1>3 DEF CancelTasks
  <2>2. /\ "reader" \in Running <=> rd = "run"
        /\ "writer" \in Running <=> wr = "run"
        /\ Running \subseteq {"reader", "writer"}
    BY DEF Running
  <2>3. /\ ready' \in Seq(Handle)
        /\ \A u : Contains(ready', u) <=>
             Contains(Rest, u) \/ u \in Running \/ (Running = {} /\ u = "bh_done")
        /\ \A u : Single(Rest, u) => Single(ready', u)
        /\ \A e \in Exec : Contains(Rest, e) => Ahead(ready', e, "bh_done")
    <3>1. CASE Running = {}
      <4>1. ready' = Append(Rest, "bh_done")
        BY <1>3, <3>1 DEF CancelTasks
      <4>2. ready' \in Seq(Handle) /\ Pushed(Rest, "bh_done", ready')
        BY <1>1, <4>1, Put DEF Handle
      <4> QED
        BY <2>0, <3>1, <4>2, Absent DEF Pushed
    <3>2. CASE Running # {}
      <4> DEFINE q == IF "writer" \in Running THEN Woken(Rest, "writer") ELSE Rest
      <4>1. ready' = IF "reader" \in Running THEN Woken(q, "reader") ELSE q
        BY <1>3, <3>2 DEF CancelTasks
      <4>2. /\ q \in Seq(Handle)
            /\ \A u : Contains(q, u) <=>
                        Contains(Rest, u) \/ u \in Running \cap {"writer"}
            /\ \A u : Single(Rest, u) => Single(q, u)
        BY <1>1, Put DEF Handle, Pushed, Woken
      <4> HIDE DEF q
      <4>3. /\ Append(q, "reader") \in Seq(Handle)
            /\ Pushed(q, "reader", Append(q, "reader"))
        BY <4>2, Put DEF Handle
      <4>4. /\ ready' \in Seq(Handle)
            /\ \A u : Contains(ready', u) <=> Contains(Rest, u) \/ u \in Running
            /\ \A u : Single(Rest, u) => Single(ready', u)
        BY <2>2, <4>1, <4>2, <4>3 DEF Pushed, Woken
      <4> QED
        BY <2>0, <2>2, <3>2, <4>4, Absent
    <3> QED
      BY <3>1, <3>2
  <2>4. TypeOK'
    <3>1. ready' \in Seq(Handle)
      BY <2>3
    <3>2. cancelled' \in SUBSET (Tasks \cup {"reader", "writer"})
      BY <2>1, <2>2 DEF IInv, TypeOK
    <3> QED
      BY <2>1, <3>1, <3>2 DEF IInv, TypeOK, DcStep, Handle
  <2>5. Control' /\ Ending' /\ Flushing'
    BY <2>0, <2>1, <2>2, <2>3
       DEF IInv, Control, Ending, Flushing, DcStep, Queued
  <2>6. Handles' /\ Quiescing' /\ Link'
    BY <1>1, <2>1, <2>2, <2>3
       DEF IInv, Handles, Quiescing, Link, DcStep, Disconnecting, GoesOn,
           Queued, Popped
  <2>7. Waiting' = Waiting
    BY DEF Waiting, DcStep
  <2>8. ASSUME NEW e \in Waiting
        PROVE  Awaits(e)'
    <3>1. e \in Exec /\ Awaits(e)
      BY DEF Waiting, IInv, Replies
    <3>2. /\ (Contains(ready', e) <=> Contains(ready, e))
          /\ (Contains(Rest, e) <=> Contains(ready, e))
      BY <1>1, <2>2, <2>3, <3>1 DEF Popped
    <3>3. Ahead(ready', e, "dc")
      BY <2>0, <2>2, <2>3, Absent
    <3> QED
      BY <2>1, <2>3, <3>1, <3>2, <3>3 DEF Awaits, Queued
  <2>9. Replies'
    BY <2>1, <2>7, <2>8 DEF IInv, Replies, DcStep
  <2>10. CleanUpSound' /\ ReplyIsOwn'
    BY <2>1 DEF IInv, CleanUpSound, ReplyIsOwn, DcStep
  <2> QED
    BY <2>4, <2>5, <2>6, <2>9, <2>10 DEF IInv
<1> QED
  BY <1>2, <1>3

(* The flush finds nothing to wait for but the socket.                     *)
LEMMA DcStartKeeps ==
  ASSUME IInv, DcStart
  PROVE  IInv'
<1>1. Rest \in Seq(Handle) /\ Popped(ready, "dc", Rest)
  BY HeadTaken DEF IInv, DcStart, DcStep, Runs
<1>2. DcStep /\ dc = "start" /\ server' \in {server, "none"}
  BY DEF DcStart, StopServer
<1>3. CASE CancelTasks
  BY <1>2, <1>3, CancelTasksKeeps
<1>4. CASE ~ CancelTasks
  <2>1. /\ wr # "none" /\ ~ ErrorPathway
        /\ dc' = IF outgoing = <<>> THEN "drain" ELSE "join"
        /\ ready' = Rest
        /\ UNCHANGED <<cancelled, pending, writer, broken>>
    BY <1>4 DEF DcStart
  <2>2. wr = "run"
    BY <2>1 DEF ErrorPathway, IInv, TypeOK
  <2>3. outgoing = <<>>
    BY <1>1, <1>2, <2>2 DEF IInv, Flushing, Popped
  <2>4. dc' = "drain"
    BY <2>1, <2>3
  <2>5. TypeOK'
    BY <1>1, <1>2, <2>1, <2>4 DEF IInv, TypeOK, DcStep, Handle
  <2>6. Control' /\ Ending' /\ Handles' /\ Flushing' /\ Quiescing' /\ Link'
    BY <1>1, <1>2, <2>1, <2>4
       DEF IInv, Control, Ending, Handles, Flushing, Quiescing, Link, DcStep,
           Disconnecting, GoesOn, Queued, Popped
  <2>7. Waiting' = Waiting
    BY <1>2 DEF Waiting, DcStep
  <2>8. ASSUME NEW e \in Waiting
        PROVE  Awaits(e)'
    <3>1. Contains(ready', e) <=> Contains(ready, e)
      BY <1>1, <2>1 DEF Popped, Waiting
    <3> QED
      BY <1>2, <2>1, <2>4, <3>1, EarlyAwaits DEF IInv, Replies, Waiting
  <2>9. Replies'
    BY <1>2, <2>1, <2>7, <2>8 DEF IInv, Replies, DcStep
  <2>10. CleanUpSound' /\ ReplyIsOwn'
    BY <1>2, <2>1 DEF IInv, CleanUpSound, ReplyIsOwn, DcStep
  <2> QED
    BY <2>5, <2>6, <2>9, <2>10 DEF IInv
<1> QED
  BY <1>3, <1>4

LEMMA DcFlushedKeeps ==
  ASSUME IInv, DcFlushed
  PROVE  IInv'
BY CancelTasksKeeps DEF DcFlushed

LEMMA DcClosesKeeps ==
  ASSUME IInv, DcCloses
  PROVE  IInv'
<1>1. Popped(ready, "dc", Rest) /\ dc = "wait"
  BY HeadTaken DEF IInv, DcCloses, DcStep, Runs
<1>2. rd # "run" /\ wr # "run"
  BY <1>1 DEF IInv, Ending, Queued, Popped
<1>3. \A e \in Waiting : pending[e] = {}
  BY <1>1 DEF IInv, Replies, Awaits, Popped
<1> QED
  BY <1>2, <1>3, CloseStreamKeeps DEF DcCloses

LEMMA DcEndsKeeps ==
  ASSUME IInv, DcEnds
  PROVE  IInv'
<1>1. rd # "run" /\ wr # "run" /\ \A e \in Waiting : pending[e] = {}
  BY DEF IInv, Ending, Replies, Awaits, DcEnds
<1> QED
  BY <1>1, InterruptedKeeps DEF DcEnds

LEMMA TasksDoneKeeps ==
  ASSUME IInv, TasksDone
  PROVE  IInv'
<1>1. Rest \in Seq(Handle) /\ Popped(ready, "bh_done", Rest)
  BY HeadTaken DEF IInv, TasksDone, OnlyReady, Runs, Woken
<1>2. Append(Rest, "dc") \in Seq(Handle) /\ Pushed(Rest, "dc", Append(Rest, "dc"))
  BY <1>1, Put DEF Handle
<1>3. TypeOK'
  BY <1>1, <1>2 DEF IInv, TypeOK, TasksDone, OnlyReady, Runs, Woken, Handle
<1>4. Control' /\ Ending' /\ Handles' /\ Flushing' /\ Quiescing' /\ Link'
  BY <1>1, <1>2
     DEF IInv, Control, Ending, Handles, Flushing, Quiescing, Link, TasksDone,
         OnlyReady, Woken, Disconnecting, GoesOn, Queued, Popped, Pushed
<1>5. Replies'
  BY <1>1, <1>2
     DEF IInv, Handles, Replies, Awaits, Waiting, TasksDone, OnlyReady, Woken,
         Queued, Popped, Pushed
<1>6. CleanUpSound' /\ ReplyIsOwn'
  BY DEF IInv, CleanUpSound, ReplyIsOwn, TasksDone, OnlyReady, Runs, Woken,
         Handle
<1> QED
  BY <1>3, <1>4, <1>5, <1>6 DEF IInv

LEMMA DrainedKeeps ==
  ASSUME IInv, Drained
  PROVE  IInv'
<1>1. ready' \in Seq(Handle) /\ Pushed(ready, "dc", ready')
  BY Put DEF Handle, IInv, TypeOK, Drained, StreamStep
<1>2. TypeOK'
  BY <1>1 DEF IInv, TypeOK, Drained, StreamStep, Handle
<1>3. Control' /\ Ending' /\ Handles' /\ Flushing' /\ Quiescing' /\ Link'
  BY <1>1
     DEF IInv, Control, Ending, Handles, Flushing, Quiescing, Link, Drained,
         StreamStep, Disconnecting, GoesOn, Queued, Popped, Pushed
<1>4. Replies'
  BY <1>1
     DEF IInv, Replies, Awaits, Waiting, Drained, StreamStep, Queued, Popped,
         Pushed
<1>5. CleanUpSound' /\ ReplyIsOwn'
  BY DEF IInv, CleanUpSound, ReplyIsOwn, Drained, StreamStep, Handle
<1> QED
  BY <1>2, <1>3, <1>4, <1>5 DEF IInv

LEMMA ConnectionLostKeeps ==
  ASSUME IInv, ConnectionLost
  PROVE  IInv'
<1>1. ready' \in Seq(Handle) /\ Pushed(ready, "dc", ready')
  BY Put DEF IInv, TypeOK, Handle, ConnectionLost
<1>2. TypeOK'
  <2>1. inbox' \in Seq(Message)
    BY Nothing DEF ConnectionLost
  <2>2. eof' \in BOOLEAN
    BY Zenon DEF ConnectionLost
  <2> QED
    BY <1>1, <2>1, <2>2 DEF IInv, TypeOK, Handle, ConnectionLost, StreamStep
<1>3. Control' /\ Ending' /\ Handles' /\ Flushing' /\ Quiescing' /\ Link'
  BY <1>1
     DEF IInv, Control, Ending, Handles, Flushing, Quiescing, Link,
         ConnectionLost, StreamStep, Disconnecting, GoesOn, Queued, Pushed
<1>4. Replies'
  BY <1>1
     DEF IInv, Link, Replies, Awaits, Waiting, ConnectionLost, StreamStep,
         Queued, Pushed
<1>5. CleanUpSound' /\ ReplyIsOwn'
  BY DEF IInv, CleanUpSound, ReplyIsOwn, ConnectionLost, StreamStep
<1> QED
  BY <1>2, <1>3, <1>4, <1>5 DEF IInv

-----------------------------------------------------------------------------
(* Reader and writer                                                       *)

(* The end of a cancelled reader or writer.                                *)
LEMMA TaskCancelledKeeps ==
  ASSUME IInv, TaskCancelled
  PROVE  IInv'
<1>1. PICK t \in {"reader", "writer"} :
        /\ Runs(t) /\ t \in cancelled /\ cancelled' = cancelled \ {t}
        /\ IF t = "reader" THEN rd' = "done" /\ wr' = wr ELSE wr' = "done" /\ rd' = rd
        /\ ready' = Ended(IF t = "reader" THEN wr ELSE rd)
  BY DEF TaskCancelled, Runs
<1>2. Rest \in Seq(Handle) /\ Popped(ready, t, Rest)
  BY <1>1, HeadTaken DEF IInv, Runs
<1>3. /\ Append(Rest, "bh_done") \in Seq(Handle)
      /\ Pushed(Rest, "bh_done", Append(Rest, "bh_done"))
  BY <1>2, Put DEF Handle
<1>4. /\ UNCHANGED <<runstate, dc, ownerVars, outcome, cancels, serverVars, writer,
                     queueVars, linkVars, broken>>
      /\ dc = "wait" /\ (IF t = "reader" THEN rd ELSE wr) = "run"
  BY <1>1 DEF IInv, Ending, TaskCancelled, TaskStep
<1>5. ready' = IF (IF t = "reader" THEN wr ELSE rd) # "run"
               THEN Append(Rest, "bh_done") ELSE Rest
  BY <1>1, <1>4 DEF Ended
<1>6. TypeOK'
  <2>1. ready' \in Seq(Handle)
    BY <1>2, <1>3, <1>5
  <2> QED
    BY <1>1, <1>4, <2>1 DEF IInv, TypeOK, Handle
<1>7. Control' /\ Ending' /\ Flushing' /\ Link'
  BY <1>1, <1>2, <1>4, <1>5
     DEF IInv, Control, Ending, Flushing, Link, Queued, Popped
<1>8. Handles' /\ Quiescing'
  BY <1>1, <1>2, <1>3, <1>4, <1>5
     DEF IInv, Ending, Handles, Quiescing, GoesOn, Disconnecting, Queued,
         Popped, Pushed
<1>9. ASSUME NEW e \in Waiting
      PROVE  Awaits(e)'
  <2>1. Awaits(e) /\ e \in Exec /\ e # t
    BY DEF IInv, Replies, Waiting
  <2>2. Contains(ready', e) <=> Contains(ready, e)
    BY <1>2, <1>3, <1>5, <2>1 DEF Popped, Pushed
  <2>3. CASE pending[e] # {}
    <3>1. Contains(ready, e) /\ Ahead(ready, e, "bh_done") /\ Ahead(ready, e, "dc")
      BY <1>4, <2>1, <2>3 DEF Awaits, Queued
    <3>2. Contains(Rest, e) /\ Ahead(Rest, e, "bh_done") /\ Ahead(Rest, e, "dc")
      BY <1>2, <2>1, <3>1 DEF Popped
    <3>3. Ahead(ready', e, "bh_done") /\ Ahead(ready', e, "dc")
      BY <1>3, <1>5, <3>2 DEF Pushed
    <3> QED
      BY <1>1, <1>4, <2>1, <2>2, <3>3 DEF Awaits, Queued
  <2>4. CASE pending[e] = {}
    BY <1>1, <1>4, <2>1, <2>2, <2>4 DEF Awaits, Queued
  <2> QED
    BY <2>3, <2>4
<1>10. Replies'
  <2>1. Waiting' = Waiting
    BY <1>4 DEF Waiting
  <2>2. wr' = "none" => wr = "none"
    BY <1>1
  <2> QED
    BY <1>4, <1>9, <2>1, <2>2 DEF IInv, Replies
<1>11. CleanUpSound' /\ ReplyIsOwn'
  BY <1>4 DEF IInv, CleanUpSound, ReplyIsOwn
<1> QED
  BY <1>6, <1>7, <1>8, <1>10, <1>11 DEF IInv

(* A reply reaches its execution, and no other.                            *)
LEMMA ReceiveKeeps ==
  ASSUME IInv, Receive
  PROVE  IInv'
<1> DEFINE e == Head(inbox).to
           asked == {x \in Exec :
                       outcome[x] = "waiting" /\ x = e /\ ~ Contains(ready, x)}
           r == ready \o SetToSeq(asked)
<1>1. inbox # <<>> /\ Head(inbox).kind = "reply" /\ inbox' = Tail(inbox)
  BY DEF Receive, Reads
<1>2. e \in Exec /\ inbox' \in Seq(Message)
  <2>1. Head(inbox) \in Message /\ Tail(inbox) \in Seq(Message)
    BY <1>1, HeadTailProperties DEF IInv, TypeOK
  <2> QED
    BY <1>1, <2>1 DEF Message
<1>3. dc \notin {"wait", "close", "done"}
  <2>1. Queued("reader")
    BY HeadTaken DEF Receive, TaskRuns, Runs, IInv, Popped, Queued
  <2> QED
    BY <2>1 DEF IInv, Handles, Ending, Receive, TaskRuns
<1>4. /\ asked \in SUBSET Handle /\ asked \in SUBSET {e} /\ IsFiniteSet(asked)
      /\ \A u \in asked : u \in Exec /\ ~ Contains(ready, u)
  <2>1. /\ asked \in SUBSET {e} /\ asked \in SUBSET Exec
        /\ \A u \in asked : ~ Contains(ready, u)
    OBVIOUS
  <2>2. IsFiniteSet(asked)
    BY <2>1, FS_Singleton, FS_Subset
  <2> HIDE DEF asked
  <2> QED
    BY <2>1, <2>2 DEF Handle
<1>5. r \in Seq(Handle) /\ Joined(ready, asked, r)
  BY <1>4, JoinedIs DEF IInv, TypeOK, Handle
<1>6. /\ pending' = IF e \in Waiting THEN [pending EXCEPT ![e] = {e}] ELSE pending
      /\ ready' \in {ready, r}
      /\ e \in Waiting => ready' = r
  BY DEF Receive, ExecId, Queued, IInv, Replies
<1>7. e \in Waiting => Contains(r, e)
  BY <1>5 DEF Joined, Waiting
<1> HIDE DEF e, asked, r
<1>8. TypeOK'
  BY <1>2, <1>5, <1>6 DEF IInv, TypeOK, Handle, Receive, TaskRuns, TaskStep
<1>9. Control' /\ Ending'
  BY <1>3 DEF IInv, Control, Ending, Receive, TaskRuns, TaskStep, Disconnecting
<1>10. Handles'
  BY <1>4, <1>5, <1>6 DEF IInv, Handles, Receive, Queued, Joined
<1>11. Flushing' /\ Quiescing'
  BY <1>4, <1>5, <1>6
     DEF IInv, Flushing, Quiescing, GoesOn, Disconnecting, Receive, TaskRuns,
         TaskStep, Queued, Joined
<1>12. Link'
  BY <1>3 DEF IInv, Link, Receive, TaskRuns, TaskStep
<1>13. UNCHANGED <<outcome, dc, wr, cancelled>> /\ Waiting' = Waiting
  BY DEF Receive, TaskRuns, TaskStep, Waiting
<1>14. ASSUME NEW x \in Waiting
       PROVE  Awaits(x)'
  <2>1. CASE x = e
    <3>1. {e} # {"interrupted"} /\ {e} # {} /\ pending'[x] = {e} /\ Contains(ready', x)
      BY <1>2, <1>6, <1>7, <2>1 DEF IInv, Replies, Waiting
    <3> QED
      BY <1>3, <1>13, <2>1, <3>1 DEF Awaits, Queued
  <2>2. CASE x # e
    <3>1. pending'[x] = pending[x] /\ (Contains(ready', x) <=> Contains(ready, x))
      BY <1>4, <1>5, <1>6, <2>2 DEF Joined, IInv, Replies
    <3> QED
      BY <1>3, <1>13, <3>1, EarlyAwaits DEF IInv, Replies, Waiting
  <2> QED
    BY <2>1, <2>2
<1>15. Replies'
  BY <1>6, <1>13, <1>14 DEF IInv, Replies
<1>16. CleanUpSound' /\ ReplyIsOwn'
  BY DEF IInv, CleanUpSound, ReplyIsOwn, Receive, TaskRuns, TaskStep
<1> QED
  BY <1>8, <1>9, <1>10, <1>11, <1>12, <1>15, <1>16 DEF IInv

(* What the failure of reader or writer, t, does to the rest of the client. *)
LEMMA TaskFailed ==
  ASSUME IInv, NEW t \in {"reader", "writer"}, TaskRuns(t), UNCHANGED pending,
         IF t = "reader" THEN rd' = "failed" /\ wr' = wr
                         ELSE wr' = "failed" /\ rd' = rd,
         ScheduleDisconnect(Ended(IF t = "reader" THEN wr ELSE rd))
  PROVE  /\ dc \notin {"wait", "close", "done"}
         /\ (IF t = "reader" THEN rd ELSE wr) = "run"
         /\ Popped(ready, t, Rest)
         /\ Scheduled
         /\ ready' \in Seq(Handle)
         /\ Control' /\ Ending' /\ Handles' /\ Quiescing' /\ Link' /\ Replies'
         /\ CleanUpSound' /\ ReplyIsOwn'
<1>1. Rest \in Seq(Handle) /\ Popped(ready, t, Rest)
  BY HeadTaken DEF IInv, TaskRuns, Runs
<1>2. Append(Rest, "dc") \in Seq(Handle) /\ Pushed(Rest, "dc", Append(Rest, "dc"))
  BY <1>1, Put DEF Handle
<1>3. dc \notin {"wait", "close", "done"} /\ (IF t = "reader" THEN rd ELSE wr) = "run"
  BY <1>1 DEF IInv, Handles, Ending, TaskRuns, Queued, Popped
<1>4. \/ dc = "none" /\ dc' = "start" /\ runstate' = "disconnecting"
         /\ ready' = Append(Rest, "dc")
      \/ dc # "none" /\ UNCHANGED <<dc, runstate>> /\ ready' = Rest
  BY <1>3 DEF Ended, ScheduleDisconnect
<1>5. UNCHANGED <<ownerVars, outcome, cancelVars, serverVars, writer, pending,
                  sock, mode, eof, peer, broken>>
  BY DEF TaskRuns, TaskStep
<1>6. Control' /\ Ending'
  BY <1>1, <1>2, <1>3, <1>4, <1>5 DEF IInv, Control, Ending, Disconnecting
<1>7. Handles' /\ Quiescing'
  BY <1>1, <1>2, <1>3, <1>4, <1>5
     DEF IInv, Handles, Quiescing, GoesOn, Disconnecting, Queued, Popped,
         Pushed
<1>8. Link'
  BY <1>1, <1>2, <1>3, <1>4, <1>5 DEF IInv, Control, Link
<1>9. Replies'
  <2>1. Waiting' = Waiting
    BY <1>5 DEF Waiting
  <2>2. ASSUME NEW e \in Waiting
        PROVE  Awaits(e)'
    <3>1. Contains(ready', e) <=> Contains(ready, e)
      BY <1>1, <1>2, <1>4 DEF Popped, Pushed, Waiting
    <3> QED
      BY <1>3, <1>4, <1>5, <3>1, EarlyAwaits DEF IInv, Replies, Waiting
  <2> QED
    BY <1>3, <1>5, <2>1, <2>2 DEF IInv, Control, Replies
<1>10. CleanUpSound' /\ ReplyIsOwn'
  BY <1>5 DEF IInv, CleanUpSound, ReplyIsOwn
<1> QED
  BY <1>1, <1>2, <1>3, <1>4, <1>6, <1>7, <1>8, <1>9, <1>10 DEF Scheduled

LEMMA ReaderFailsKeeps ==
  ASSUME IInv, ReaderFails
  PROVE  IInv'
<1>1. /\ dc \notin {"wait", "close", "done"} /\ rd = "run"
      /\ Popped(ready, "reader", Rest)
      /\ Scheduled
      /\ ready' \in Seq(Handle)
      /\ Control' /\ Ending' /\ Handles' /\ Quiescing' /\ Link' /\ Replies'
      /\ CleanUpSound' /\ ReplyIsOwn'
  BY TaskFailed DEF ReaderFails
<1>2. inbox' \in Seq(Message)
  <2>1. \/ inbox' = inbox
        \/ inbox # <<>> /\ inbox' = Tail(inbox)
    BY DEF ReaderFails, Reads
  <2>2. inbox \in Seq(Message)
    BY DEF IInv, TypeOK
  <2>3. inbox # <<>> => Tail(inbox) \in Seq(Message)
    BY <2>2, HeadTailProperties
  <2> QED
    BY <2>1, <2>2, <2>3
<1>3. TypeOK'
  BY <1>1, <1>2
     DEF IInv, TypeOK, Handle, Scheduled, ReaderFails, TaskRuns, TaskStep
<1>4. Flushing'
  <2>1. UNCHANGED <<wr, outgoing>>
    BY DEF ReaderFails
  <2> QED
    BY <1>1, <2>1 DEF IInv, Flushing, Scheduled, Queued, Popped, Pushed
<1> QED
  BY <1>1, <1>3, <1>4 DEF IInv

LEMMA SendKeeps ==
  ASSUME IInv, Send
  PROVE  IInv'
<1>1. Append(ready, "dc") \in Seq(Handle) /\ Pushed(ready, "dc", Append(ready, "dc"))
  BY Put DEF Handle, IInv, TypeOK
<1>2. TypeOK'
  BY <1>1 DEF IInv, TypeOK, Send, TaskRuns, TaskStep, Runs, Woken
<1>3. Control' /\ Ending' /\ Handles' /\ Flushing' /\ Quiescing' /\ Link'
  BY DEF IInv, Control, Ending, Handles, Flushing, Quiescing, Link, Send,
         TaskRuns, TaskStep, Disconnecting, GoesOn, Queued
<1>4. Replies'
  BY <1>1
     DEF IInv, Replies, Awaits, Waiting, Send, TaskRuns, TaskStep, Woken,
         Disconnecting, GoesOn, Queued, Popped, Pushed
<1>5. CleanUpSound' /\ ReplyIsOwn'
  BY DEF IInv, CleanUpSound, ReplyIsOwn, Send, TaskRuns, TaskStep
<1> QED
  BY <1>2, <1>3, <1>4, <1>5 DEF IInv

LEMMA WriterFailsKeeps ==
  ASSUME IInv, WriterFails
  PROVE  IInv'
<1>1. /\ dc \notin {"wait", "close", "done"} /\ wr = "run"
      /\ Popped(ready, "writer", Rest)
      /\ Scheduled
      /\ ready' \in Seq(Handle)
      /\ Control' /\ Ending' /\ Handles' /\ Quiescing' /\ Link' /\ Replies'
      /\ CleanUpSound' /\ ReplyIsOwn'
  BY TaskFailed DEF WriterFails
<1>2. outgoing' \in Seq(Exec)
  BY HeadTailProperties DEF IInv, TypeOK, WriterFails
<1>3. TypeOK'
  BY <1>1, <1>2
     DEF IInv, TypeOK, Handle, Scheduled, WriterFails, TaskRuns, TaskStep
<1>4. Flushing'
  BY <1>1 DEF IInv, Flushing, Scheduled, WriterFails
<1> QED
  BY <1>1, <1>3, <1>4 DEF IInv

LEMMA ReaderIdlesKeeps ==
  ASSUME IInv, TaskIdles, Runs("reader")
  PROVE  IInv'
<1>1. Rest \in Seq(Handle) /\ Popped(ready, "reader", Rest)
  BY HeadTaken DEF IInv, TaskIdles, TaskRuns, TaskStep, Runs
<1>2. TypeOK'
  BY <1>1 DEF IInv, TypeOK, TaskIdles, TaskRuns, TaskStep, Runs, Handle
<1>3. Control' /\ Ending' /\ Handles' /\ Flushing' /\ Quiescing' /\ Link'
  BY <1>1
     DEF IInv, Control, Ending, Handles, Flushing, Quiescing, Link, TaskIdles,
         TaskRuns, TaskStep, Disconnecting, GoesOn, Queued, Popped, Pushed
<1>4. Replies'
  BY <1>1
     DEF IInv, Ending, Handles, Replies, Awaits, Waiting, TaskIdles, TaskRuns,
         TaskStep, Queued, Popped, Pushed
<1>5. CleanUpSound' /\ ReplyIsOwn'
  BY DEF IInv, CleanUpSound, ReplyIsOwn, TaskIdles, TaskRuns, TaskStep,
         Runs, Handle
<1> QED
  BY <1>2, <1>3, <1>4, <1>5 DEF IInv

LEMMA WriterIdlesKeeps ==
  ASSUME IInv, TaskIdles, Runs("writer")
  PROVE  IInv'
<1>1. Rest \in Seq(Handle) /\ Popped(ready, "writer", Rest)
  BY HeadTaken DEF IInv, TaskIdles, TaskRuns, TaskStep, Runs
<1>2. TypeOK'
  BY <1>1 DEF IInv, TypeOK, TaskIdles, TaskRuns, TaskStep, Runs, Handle
<1>3. Control' /\ Ending' /\ Handles' /\ Flushing' /\ Quiescing' /\ Link'
  BY <1>1
     DEF IInv, Control, Ending, Handles, Flushing, Quiescing, Link, TaskIdles,
         TaskRuns, TaskStep, Runs, Disconnecting, GoesOn, Queued, Popped,
         Pushed
<1>4. Replies'
  BY <1>1
     DEF IInv, Ending, Handles, Replies, Awaits, Waiting, TaskIdles, TaskRuns,
         TaskStep, Queued, Popped, Pushed
<1>5. CleanUpSound' /\ ReplyIsOwn'
  BY DEF IInv, CleanUpSound, ReplyIsOwn, TaskIdles, TaskRuns, TaskStep,
         Runs, Handle
<1> QED
  BY <1>2, <1>3, <1>4, <1>5 DEF IInv

(* The peer sends something or hangs up, which whoever reads is told.      *)
LEMMA FedKeeps ==
  ASSUME IInv, Read, Fed, StreamStep, UNCHANGED <<sock, mode>>,
         inbox' \in Seq(Message), eof' \in BOOLEAN, got' \in SUBSET Exec,
         peer' \in {"none", "made", "greeted", "asked", "up"}
  PROVE  IInv'
<1>1. /\ Append(ready, "reader") \in Seq(Handle)
      /\ Pushed(ready, "reader", Append(ready, "reader"))
  BY Put DEF IInv, TypeOK, Handle
<1>2. Append(ready, Owner) \in Seq(Handle) /\ Pushed(ready, Owner, Append(ready, Owner))
  BY Put DEF IInv, TypeOK, Handle
<1>3. TypeOK'
  <2>1. ready' \in Seq(Handle)
    BY <1>1, <1>2 DEF IInv, TypeOK, Handle, Fed, Woken
  <2> QED
    BY <2>1 DEF IInv, TypeOK, Handle, StreamStep
<1>4. Control' /\ Ending' /\ Handles' /\ Flushing' /\ Quiescing' /\ Link'
  BY <1>1, <1>2
     DEF IInv, Control, Ending, Handles, Flushing, Quiescing, Link, StreamStep,
         Fed, Woken, Disconnecting, GoesOn, Queued, Pushed
<1>5. Replies'
  BY <1>1, <1>2
     DEF IInv, Replies, Awaits, Waiting, StreamStep, Fed, Woken, Disconnecting,
         GoesOn, Queued, Pushed
<1>6. CleanUpSound' /\ ReplyIsOwn'
  BY DEF IInv, CleanUpSound, ReplyIsOwn, StreamStep
<1> QED
  BY <1>3, <1>4, <1>5, <1>6 DEF IInv

LEMMA PeerSendsKeeps ==
  ASSUME IInv, PeerSends
  PROVE  IInv'
<1>1. PICK m \in Message :
        /\ inbox' = Append(inbox, m)
        /\ CASE m.kind = "greeting" -> peer = "made" /\ peer' = "greeted" /\ UNCHANGED got
             [] m.kind = "ok"       -> peer = "asked" /\ peer' = "up" /\ UNCHANGED got
             [] m.kind = "reply"    -> peer = "up" /\ m.to \in got
                                       /\ got' = got \ {m.to} /\ UNCHANGED peer
             [] m.kind = "bad"      -> UNCHANGED <<got, peer>>
  BY DEF PeerSends
<1>2. inbox' \in Seq(Message)
  BY <1>1 DEF IInv, TypeOK
<1>3. got' \in SUBSET Exec /\ peer' \in {"none", "made", "greeted", "asked", "up"}
  BY <1>1 DEF IInv, TypeOK, Message
<1>4. eof' \in BOOLEAN /\ UNCHANGED <<sock, mode>>
  BY DEF IInv, TypeOK, PeerSends
<1> QED
  BY <1>2, <1>3, <1>4, FedKeeps DEF PeerSends

LEMMA PeerHangsUpKeeps ==
  ASSUME IInv, PeerHangsUp
  PROVE  IInv'
BY FedKeeps DEF PeerHangsUp, IInv, TypeOK

-----------------------------------------------------------------------------
(* execute()                                                               *)

LEMMA ExecuteKeeps ==
  ASSUME IInv, NEW e \in Exec, Execute(e)
  PROVE  IInv'
<1>1. Rest \in Seq(Handle) /\ Popped(ready, e, Rest)
  BY HeadTaken DEF IInv, Execute, Runs
<1>2. /\ Append(Rest, "writer") \in Seq(Handle)
      /\ Pushed(Rest, "writer", Append(Rest, "writer"))
  BY <1>1, Put DEF Handle
<1>3. /\ dc = "none" /\ wr = "run" /\ e \notin Waiting
      /\ ~ Contains(Rest, "dc") /\ ~ Contains(Rest, e)
  BY <1>1 DEF IInv, Control, Handles, Queued, Popped, Execute, Waiting
<1>4. ready' = Woken(Rest, "writer")
  BY <1>3 DEF Execute
<1>5. /\ Contains(ready', "writer")
      /\ \A u : Contains(ready', u) <=> Contains(Rest, u) \/ u = "writer"
  BY <1>2, <1>4 DEF Pushed, Woken
<1>6. TypeOK'
  BY <1>1, <1>2 DEF IInv, TypeOK, Execute, ExecId, CallerStep, Woken, Handle
<1>7. Control' /\ Ending' /\ Link'
  BY <1>1, <1>3, <1>5
     DEF IInv, Control, Ending, Link, Execute, CallerStep, Disconnecting
<1>8. Handles' /\ Quiescing'
  BY <1>1, <1>2
     DEF IInv, Handles, Quiescing, GoesOn, Disconnecting, Execute, CallerStep,
         Queued, Popped, Pushed, Woken
<1>9. Flushing'
  BY <1>3, <1>5, Absent
     DEF IInv, Control, Flushing, Execute, CallerStep, Queued
<1>10. Waiting' = Waiting \cup {e} /\ wr' = wr /\ dc' = dc /\ cancelled' = cancelled
  BY DEF Execute, CallerStep, Waiting, IInv, TypeOK
<1>11. /\ DOMAIN pending' = Waiting \cup {e}
       /\ pending'[e] = {}
       /\ \A x \in Waiting : pending'[x] = pending[x]
  BY <1>3 DEF Execute, ExecId, IInv, Replies
<1>12. ASSUME NEW x \in Waiting \cup {e}
       PROVE  Awaits(x)'
  <2>1. CASE x = e
    BY <1>1, <1>3, <1>5, <1>10, <1>11, <2>1 DEF Awaits, Queued
  <2>2. CASE x # e
    <3>1. x \in Exec /\ Awaits(x) /\ x \in Waiting
      BY <2>2 DEF IInv, Replies, Waiting
    <3>2. Contains(ready', x) <=> Contains(ready, x)
      BY <1>1, <1>5, <2>2, <3>1 DEF Popped
    <3> QED
      BY <1>3, <1>10, <1>11, <3>1, <3>2, EarlyAwaits
  <2> QED
    BY <2>1, <2>2
<1>13. Replies'
  <2>1. IsFiniteSet(Waiting')
    BY <1>10, FS_AddElement DEF IInv, Replies
  <2> QED
    BY <1>3, <1>10, <1>11, <1>12, <2>1 DEF Replies
<1>14. CleanUpSound' /\ ReplyIsOwn'
  BY DEF IInv, TypeOK, CleanUpSound, ReplyIsOwn, Execute, CallerStep
<1> QED
  BY <1>6, <1>7, <1>8, <1>9, <1>13, <1>14 DEF IInv

LEMMA ExecuteEndsKeeps ==
  ASSUME IInv, NEW e \in Exec, ExecuteEnds(e)
  PROVE  IInv'
<1>1. Rest \in Seq(Handle) /\ Popped(ready, e, Rest)
  BY HeadTaken DEF IInv, ExecuteEnds, Runs
<1>2. /\ e \in Waiting /\ Awaits(e)
      /\ e \in cancelled \/ pending[e] \in {{e}, {"interrupted"}}
  BY <1>1 DEF IInv, Replies, Awaits, Queued, Popped, ExecuteEnds, Waiting
<1>3. /\ outcome' \in [Exec -> {"new", "waiting", "replied", "misrouted",
                                "interrupted", "cancelled"}]
      /\ outcome'[e] \in {"replied", "interrupted", "cancelled"}
      /\ \A x \in Exec \ {e} : outcome'[x] = outcome[x]
  BY <1>2 DEF IInv, TypeOK, ExecuteEnds, ExecId
<1>4. /\ UNCHANGED <<runstate, ownerVars, cancels, taskVars, serverVars, writer,
                     outgoing, linkVars, broken>>
      /\ ready' = Rest /\ cancelled' = cancelled \ {e}
      /\ pending' = [id \in Waiting \ {e} |-> pending[id]]
  BY DEF ExecuteEnds, CallerStep, ExecId, IInv, Replies
<1>5. TypeOK'
  <2>1. ready' \in Seq(Handle)
    BY <1>1, <1>4
  <2>2. /\ DOMAIN pending' \subseteq Exec
        /\ \A id \in DOMAIN pending' :
             pending'[id] \in SUBSET (Exec \cup {"interrupted"})
    BY <1>4 DEF IInv, TypeOK, Replies, Waiting
  <2> QED
    BY <1>3, <1>4, <2>1, <2>2 DEF IInv, TypeOK, Handle
<1>6. Control' /\ Ending' /\ Handles' /\ Flushing' /\ Quiescing' /\ Link'
  BY <1>1, <1>4
     DEF IInv, Control, Ending, Handles, Flushing, Quiescing, Link,
         Disconnecting, GoesOn, Queued, Popped
<1>7. Waiting' = Waiting \ {e}
  BY <1>2, <1>3 DEF Waiting
<1>8. ASSUME NEW x \in Waiting \ {e}
      PROVE  Awaits(x)'
  BY <1>1, <1>4
     DEF IInv, Replies, Awaits, Queued, Popped, Waiting, GoesOn, Disconnecting
<1>9. Replies'
  <2>1. IsFiniteSet(Waiting')
    BY <1>7, FS_RemoveElement DEF IInv, Replies
  <2> QED
    BY <1>4, <1>7, <1>8, <2>1 DEF IInv, Replies
<1>10. CleanUpSound' /\ ReplyIsOwn'
  BY <1>3, <1>4 DEF IInv, CleanUpSound, ReplyIsOwn
<1> QED
  BY <1>5, <1>6, <1>9, <1>10 DEF IInv

-----------------------------------------------------------------------------
(* The invariant                                                           *)

LEMMA InitOK == Init => IInv
<1> SUFFICES ASSUME Init
             PROVE  IInv
  OBVIOUS
<1>1. \A u : ~ Contains(ready, u)
  BY DEF Init, Contains
<1>2. Waiting = {} /\ DOMAIN pending = {}
  BY DEF Init, Waiting
<1>3. TypeOK
  <2>1. /\ ready \in Seq(Tasks \cup Internal) /\ inbox \in Seq(Message)
        /\ outgoing \in Seq(Exec)
    BY DEF Init
  <2>2. eof \in BOOLEAN /\ broken \in BOOLEAN
    BY DEF Init
  <2>3. sessions \in 0 .. MaxSessions /\ cancels \in 0 .. MaxCancel
    BY DEF Init
  <2> QED
    BY <1>2, <2>1, <2>2, <2>3 DEF Init, TypeOK
<1>4. Control /\ Ending /\ Handles /\ Flushing /\ Quiescing /\ Link
  BY <1>1, Absent
     DEF Init, Control, Ending, Handles, Flushing, Quiescing, Disconnecting,
         Link, Queued
<1>5. Replies
  BY <1>2, FS_EmptySet DEF Replies
<1>6. CleanUpSound /\ ReplyIsOwn
  BY DEF Init, CleanUpSound, ReplyIsOwn
<1> QED
  BY <1>3, <1>4, <1>5, <1>6 DEF IInv

LEMMA StutterKeeps ==
  ASSUME IInv, UNCHANGED vars
  PROVE  IInv'
<1>1. TypeOK'
  <2>1. eof' \in BOOLEAN /\ broken' \in BOOLEAN
    BY DEF IInv, TypeOK, vars
  <2> QED
    BY <2>1 DEF IInv, TypeOK, vars
<1>2. Control' /\ Ending' /\ Handles' /\ Flushing' /\ Quiescing' /\ Link'
  BY DEF IInv, Control, Ending, Handles, Flushing, Quiescing, GoesOn,
         Disconnecting, Link, Queued, vars
<1>3. Replies'
  BY DEF IInv, Replies, Awaits, Waiting, GoesOn, Disconnecting, Queued, vars
<1>4. CleanUpSound' /\ ReplyIsOwn'
  BY DEF IInv, CleanUpSound, ReplyIsOwn, vars
<1> QED
  BY <1>1, <1>2, <1>3, <1>4 DEF IInv

(* Every step of the client keeps the invariant.                           *)
LEMMA StepKeeps ==
  ASSUME IInv, [Next]_vars
  PROVE  IInv'
<1>1. CASE \/ Connect \/ OpenConnection \/ Connected \/ StartListening
           \/ ServerStarted \/ Accept \/ Incoming \/ Accepted
           \/ Arrive("knock", "made") \/ Arrive("made", "incoming")
  BY <1>1, ConnectKeeps, OpenConnectionKeeps, ConnectedKeeps,
     StartListeningKeeps, ServerStartedKeeps, AcceptKeeps, IncomingKeeps,
     AcceptedKeeps, ArriveKeeps
<1>2. CASE \/ AwaitMessage \/ Greeting \/ Negotiated \/ Established \/ Disconnect
           \/ OpenFails \/ DisconnectDone \/ CleanUp \/ DisconnectCancelled
  BY <1>2, AwaitMessageKeeps, GreetingKeeps, NegotiatedKeeps, EstablishedKeeps,
     DisconnectKeeps, OpenFailsKeeps, DisconnectDoneKeeps, CleanUpKeeps,
     DisconnectCancelledKeeps
<1>3. CASE \/ DcStart \/ DcFlushed \/ DcCloses \/ DcEnds \/ TasksDone
           \/ TaskCancelled \/ Receive \/ ReaderFails \/ Send \/ WriterFails
  BY <1>3, DcStartKeeps, DcFlushedKeeps, DcClosesKeeps, DcEndsKeeps,
     TasksDoneKeeps, TaskCancelledKeeps, ReceiveKeeps, ReaderFailsKeeps,
     SendKeeps, WriterFailsKeeps
<1>4. CASE TaskIdles
  <2>1. Runs("reader") \/ Runs("writer")
    BY <1>4 DEF TaskIdles, TaskRuns
  <2> QED
    BY <1>4, <2>1, ReaderIdlesKeeps, WriterIdlesKeeps
<1>5. CASE \E e \in Exec : Execute(e) \/ ExecuteEnds(e)
  BY <1>5, ExecuteKeeps, ExecuteEndsKeeps
<1>6. CASE \E t \in Tasks : Leave(t) \/ Tick(t) \/ Cancel(t)
  BY <1>6, LeaveKeeps, TickKeeps, CancelKeeps
<1>7. CASE \/ OpenEnds \/ PeerConnects \/ PeerSends \/ PeerHangsUp \/ Drained
           \/ ConnectionLost \/ UNCHANGED vars
  BY <1>7, OpenEndsKeeps, PeerConnectsKeeps, PeerSendsKeeps, PeerHangsUpKeeps,
     DrainedKeeps, ConnectionLostKeeps, StutterKeeps
<1> QED
  BY <1>1, <1>2, <1>3, <1>4, <1>5, <1>6, <1>7 DEF Next, LoopStep

(* In every run the handles are in the queue in an order that a session    *)
(* can be taken down in.                                                   *)
THEOREM Invariance == Spec => []IInv
BY InitOK, StepKeeps, PTL DEF Spec

(* Every variable keeps its type.                                          *)
THEOREM TypeCorrect == Spec => []TypeOK
BY Invariance, PTL DEF IInv

(* Sessions are cleaned up in the right state, with every task of theirs   *)
(* ended, no execution pending and no reply queue overflown, however the   *)
(* steps of owner, executions, reader, writer and disconnect task          *)
(* interleave and whatever await is cancelled but those of start_server(), *)
(* for a peer that replies at most once to each command it got.            *)
THEOREM CleansUpSoundly == Spec => []CleanUpSound
BY Invariance, PTL DEF IInv

(* disconnect() never waits for messages that nobody will send.            *)
THEOREM FlushNeverJoins == Spec => []FlushNeverBlocks
<1>1. IInv => FlushNeverBlocks
  BY DEF IInv, Flushing, FlushNeverBlocks
<1> QED
  BY <1>1, Invariance, PTL

(* No execution ends with the reply to another one.                        *)
THEOREM RepliesRouted == Spec => []ReplyIsOwn
BY Invariance, PTL DEF IInv

(* When the client is idle nothing of the session is left: no execution    *)
(* that waits, no task or callback in the loop, no connection it opened.   *)
THEOREM IdleQuiesced == Spec => []IdleIsQuiet
<1>1. IInv => IdleIsQuiet
  BY DEF IInv, Control, Handles, Replies, Waiting, Link, IdleIsQuiet
<1> QED
  BY <1>1, Invariance, PTL

-----------------------------------------------------------------------------
(* The session the client promises                                         *)

LEMMA InitImplements == Init => Session!Init
BY DEF Init, Session!Init

(* An execution is interrupted only while the session is being left: what  *)
(* it finds in its queue is its reply, or what the disconnect task put there. *)
LEMMA EndsImplements ==
  ASSUME IInv, NEW e \in Exec, ExecuteEnds(e)
  PROVE  Session!End(e)
<1>1. Rest \in Seq(Handle) /\ Popped(ready, e, Rest)
  BY HeadTaken DEF IInv, ExecuteEnds, Runs
<1>2. /\ e \in Waiting /\ Awaits(e)
      /\ e \in cancelled \/ pending[e] \in {{e}, {"interrupted"}}
  BY <1>1 DEF IInv, Replies, Awaits, Queued, Popped, ExecuteEnds, Waiting
<1>3. runstate \in {"running", "disconnecting"}
  BY <1>2 DEF IInv, TypeOK, Control, Replies
<1>4. pending[e] = {"interrupted"} => runstate = "disconnecting"
  BY <1>2 DEF IInv, Control, Awaits
<1>5. PICK how \in {"replied", "cancelled", "interrupted"} :
        /\ outcome' = [outcome EXCEPT ![e] = how]
        /\ how = "interrupted" => pending[e] = {"interrupted"}
  <2>1. {e} # {"interrupted"}
    OBVIOUS
  <2> QED
    BY <1>2, <2>1 DEF ExecuteEnds, ExecId
<1> QED
  BY <1>3, <1>4, <1>5 DEF ExecuteEnds, CallerStep, Session!End

(* The session is over only when nobody waits for a reply.                 *)
LEMMA CleanUpImplements ==
  ASSUME IInv, CleanUp
  PROVE  Session!Quiesce
<1>1. Rest \in Seq(Handle) /\ Popped(ready, Owner, Rest)
  BY HeadTaken DEF IInv, CleanUp, Runs
<1>2. runstate = "disconnecting" /\ dc = "done"
  BY <1>1
     DEF IInv, Control, Quiescing, GoesOn, Disconnecting, CleanUp, Queued,
         Popped
<1>3. Waiting = {}
  BY <1>1, <1>2
     DEF IInv, Replies, Awaits, GoesOn, Disconnecting, CleanUp, Popped
<1> QED
  BY <1>2, <1>3 DEF CleanUp, Waiting, Session!Quiesce

LEMMA DisconnectImplements ==
  ASSUME AwaitDisconnect \/ \E q : ScheduleDisconnect(q), UNCHANGED outcome
  PROVE  Session!Leave \/ UNCHANGED <<runstate, outcome>>
BY DEF AwaitDisconnect, ScheduleDisconnect, Session!Leave

LEMMA StepImplements ==
  ASSUME IInv, [Next]_vars
  PROVE  [Session!Next]_(Session!vars)
<1> SUFFICES Session!Next \/ UNCHANGED <<runstate, outcome>>
  BY DEF Session!vars
<1>1. CASE Connect
  BY <1>1 DEF Connect, OwnerStep, Session!Next, Session!Begin
<1>2. CASE Negotiated
  BY <1>2 DEF Negotiated, OwnerStep, Session!Next, Session!Establish
<1>3. CASE Disconnect \/ OpenFails \/ ReaderFails \/ WriterFails
  BY <1>3, DisconnectImplements
     DEF Disconnect, OpenFails, OwnerStep, ReaderFails, WriterFails, TaskRuns,
         TaskStep, Session!Next
<1>4. CASE CleanUp
  BY <1>4, CleanUpImplements DEF Session!Next
<1>5. ASSUME NEW e \in Exec, Execute(e)
      PROVE  Session!Next
  BY <1>5 DEF Execute, CallerStep, Session!Next, Session!Issue
<1>6. ASSUME NEW e \in Exec, ExecuteEnds(e)
      PROVE  Session!Next
  BY <1>6, EndsImplements DEF Session!Next
<1>7. CASE \/ OpenConnection \/ Connected \/ StartListening \/ ServerStarted \/ Accept
           \/ Incoming \/ Accepted \/ Arrive("knock", "made")
           \/ Arrive("made", "incoming") \/ AwaitMessage \/ Greeting \/ Established
           \/ DisconnectDone \/ DisconnectCancelled
  BY <1>7
     DEF OpenConnection, Connected, StartListening, ServerStarted, Accept,
         Incoming, Accepted, Arrive, AwaitMessage, Greeting, Established,
         DisconnectDone, DisconnectCancelled, OwnerStep, OnlyReady
<1>8. CASE \/ DcStart \/ DcFlushed \/ DcCloses \/ DcEnds \/ TasksDone
           \/ TaskCancelled \/ Receive \/ Send \/ TaskIdles \/ \E t \in Tasks : Leave(t)
  BY <1>8
     DEF DcStart, DcFlushed, DcCloses, DcEnds, DcStep, TasksDone,
         TaskCancelled, Receive, Send, TaskIdles, TaskRuns, TaskStep, Leave,
         OnlyReady
<1>9. CASE \/ \E t \in Tasks : Tick(t) \/ Cancel(t)
           \/ OpenEnds \/ PeerConnects \/ PeerSends \/ PeerHangsUp \/ Drained
           \/ ConnectionLost \/ UNCHANGED vars
  BY <1>9
     DEF Tick, Cancel, OpenEnds, PeerConnects, PeerSends, PeerHangsUp, Drained,
         ConnectionLost, OnlyReady, StreamStep, vars
<1> QED
  BY <1>1, <1>2, <1>3, <1>4, <1>5, <1>6, <1>7, <1>8, <1>9 DEF Next, LoopStep

(* The client implements the session: each of its steps is one of the      *)
(* session's, or leaves run state and outcomes alone.                      *)
THEOREM Refinement == Spec => ImplementsSession
BY InitImplements, StepImplements, Invariance, PTL
   DEF Spec, ImplementsSession, Session!Spec
=============================================================================
