----------------------------- MODULE BluezProofs ----------------------------
(***************************************************************************)
(* Proofs about the central on the BlueZ backend, for every set of slots,  *)
(* characteristics and peripherals, every kind of caller and every amount  *)
(* of traffic: what the central holds, whose answers the caller and the    *)
(* agent are given, that a connect or a pair in flight can still be        *)
(* answered, and that the copy of bluetoothd's objects, with the signals   *)
(* still queued, is its tree.                                              *)
(*                                                                         *)
(* The inductive invariant relates the central to the messages on their    *)
(* way to it: which serials they may carry, which answers cannot be among  *)
(* them, and in which order the signals about one object follow each       *)
(* other.                                                                  *)
(***************************************************************************)
EXTENDS Bluez, WellFoundedInduction, FiniteSetTheorems, SequenceTheorems, TLAPS

-----------------------------------------------------------------------------
(* The invariant. *)

\* An object tree, and what is said in a message about it.
Trees   == UNION {[D -> {"off", "on", "heard", "unheard"}] : D \in SUBSET Paths}
Signals == {"added", "removed", "changed"}
OwnerUp == [m |-> "owner", up |-> TRUE]

\* What is on its way to process().
Messages ==
    [m : {"ask", "authorize", "display"}, kind : {"PASSKEY"}, device : Devices, id : Nat]
    \cup [m : {"cancel", "release"}]
    \cup [m : {"owner"}, up : BOOLEAN]
    \cup [m : {"added", "changed"}, path : Paths, value : {"off", "on", "heard", "unheard"}]
    \cup [m : {"removed"}, path : Paths]
    \cup [m : {"reply"}, serial : Nat, ok : BOOLEAN]
    \cup [m : {"tree"}, serial : Nat, ok : BOOLEAN, tree : Trees]

\* What a call is about, and the calls.
Whats == Slots \cup {"connect", "pair", "disconnect", "objects", "discovery"}
Calls == [serial : Nat, what : Whats, about : Handles \cup Devices \cup {None}]

\* A request, and a connect or a pair, of a central that has made n calls.
Requests(n) ==
    [state : 0 .. 2, token : 0 .. n, result : 0 .. n, timer : BOOLEAN, call : 0 .. n]
Links(n) ==
    [state : 0 .. 2, token : 0 .. n, result : 0 .. n, call : 0 .. n,
     address : Devices \cup {None}]

\* The fetches that the bluetoothds still to be noticed will set off.
OwnersUp(q) == {i \in DOMAIN q : q[i] = OwnerUp}

\* A registration the loop has is known to an entry of watches[].
WatchTyped(w) ==
    /\ w \in [registered : {"none", "in", "out"}, mask : SUBSET {"IN", "OUT"},
             refused : BOOLEAN]
    /\ w.mask # {} <=> w.registered # "none"

\* The central.
CentralTyped ==
    /\ uses \in Uses
    /\ open \in BOOLEAN /\ loop \in BOOLEAN /\ (loop => open)
    /\ req \in [Slots -> Requests(serial)]
    /\ timers \subseteq Slots
    /\ connect \in Links(serial) /\ pair \in Links(serial)
    /\ subscribe_handle \in Handles \cup {None}
    /\ notify_handle \in Handles \cup {None}
    /\ matches \in [Handles -> Nat]
    /\ agent_request \in [kind : {"NONE", "PASSKEY"}, device : Devices \cup {None}]
    /\ agent_pending \in 0 .. asks
    /\ answer \in [device : Devices \cup {None}, waiting : BOOLEAN, consent : BOOLEAN]
    /\ objects \in Trees /\ objects_loaded \in BOOLEAN
    /\ objects_serial \in 0 .. serial
    /\ backlog \subseteq 1 .. serial
    /\ WatchTyped(watch) /\ silent \in BOOLEAN

\* The bus and bluetoothd.
BusTyped ==
    /\ serial \in Nat /\ asks \in Nat /\ changes \in Nat
    /\ calls \subseteq Calls /\ IsFiniteSet(calls)
    /\ \A c \in calls : c.serial \in 1 .. serial
    /\ asking \in [id : 0 .. asks, device : Devices \cup {None}]
    /\ up \in BOOLEAN
    /\ tree \in Trees
    /\ inbox \in Seq(Messages)
    /\ \A i \in DOMAIN inbox :
          /\ inbox[i].m \in {"ask", "authorize", "display"} => inbox[i].id \in 1 .. asks
          /\ inbox[i].m \in {"reply", "tree"} => inbox[i].serial \in 1 .. serial
          /\ inbox[i].m \in {"added", "changed"} => inbox[i].value \in Values(inbox[i].path)

\* The bound on the traffic.
Bounded ==
    /\ IsFiniteSet(OwnersUp(inbox))
    /\ serial + asks + changes + Cardinality(OwnersUp(inbox)) <= MaxTraffic[uses]

\* A request in flight is answered by the reply to its own call.
OwnCalls ==
    /\ \A s \in Slots : req[s].state = 1 => req[s].token = req[s].call /\ req[s].token # 0
    /\ \A l \in {connect, pair} : l.state = 1 => l.token = l.call /\ l.token # 0

\* No two of those in flight wait for the same reply, and a call that a connect,
\* a pair or a fetch waits for is its own.
OneEach ==
    /\ \A s \in Slots : \A l \in {connect, pair} :
          req[s].state = 1 /\ l.state = 1 => req[s].token # l.token
    /\ connect.state = 1 /\ pair.state = 1 => connect.token # pair.token
    /\ \A c \in calls :
          /\ connect.state = 1 /\ c.serial = connect.token => c.what = "connect"
          /\ pair.state = 1 /\ c.serial = pair.token =>
                c.what = "pair" /\ c.about = pair.address
          /\ c.serial = objects_serial => c.what = "objects"

\* No answer to our pair is in the inbox after the message at i.
NoPairReply(i) ==
    \A j \in DOMAIN inbox :
        j > i => ~(inbox[j].m = "reply" /\ inbox[j].serial = pair.token)

\* What bluetoothd waits for: while its question is on the way, or held, the
\* answer to the pair it is about comes after it.
Asked ==
    /\ ~open => agent_pending = 0
    /\ asking.id # 0 /\ asking.id = agent_pending =>
          /\ pair.state = 1 /\ pair.address = asking.device
          /\ NoPairReply(0)
    /\ \A i \in DOMAIN inbox :
          inbox[i].m = "ask" /\ inbox[i].id = asking.id =>
              /\ inbox[i].device = asking.device
              /\ pair.state = 1 /\ pair.address = asking.device => NoPairReply(i)

\* A behaviour that fetches nothing has no copy and hears of no bluetoothd.
Fetching ==
    /\ ~open => ~objects_loaded /\ objects_serial = 0
    /\ "fetch" \notin uses =>
          /\ ~objects_loaded /\ objects_serial = 0 /\ up
          /\ \A i \in DOMAIN inbox : inbox[i].m # "owner"

-----------------------------------------------------------------------------
(* Signals. *)

\* The message at i is about the object p.
About(q, i, p) == i \in DOMAIN q /\ q[i].m \in Signals /\ q[i].path = p

\* No bluetoothd came or went in the messages from i on.
SameOwner(q, i) == \A j \in DOMAIN q : j >= i => q[j].m # "owner"

\* The last signal about p says what t says.
Says(q, i, p, t) ==
    IF q[i].m = "removed" THEN p \notin DOMAIN t ELSE p \in DOMAIN t /\ t[p] = q[i].value

\* The last signal about p from j on agrees with the tree t.
HasLast(q, j, p, t) ==
    \E l \in DOMAIN q :
        /\ l >= j /\ About(q, l, p) /\ Says(q, l, p, t)
        /\ \A k \in DOMAIN q : k > l => ~About(q, k, p)

\* After the signal about p at j, p is removed before it is added again, and
\* added before it is changed or removed again.
Alternates(q, j, p) ==
    \A k \in DOMAIN q : k > j /\ About(q, k, p) =>
        /\ q[k].m = "added" =>
              \E r \in DOMAIN q : j <= r /\ r < k /\ About(q, r, p) /\ q[r].m = "removed"
        /\ q[j].m = "removed" /\ q[k].m # "added" =>
              \E a \in DOMAIN q : j < a /\ a < k /\ About(q, a, p) /\ q[a].m = "added"

\* The signals of one bluetoothd make sense, and lead to the tree t.
Consistent(q, t) ==
    \A j \in DOMAIN q : \A p \in Paths :
        SameOwner(q, j) /\ About(q, j, p) => HasLast(q, j, p, t) /\ Alternates(q, j, p)

\* The message at j is the first about p from i on.
First(q, i, j, p) ==
    /\ j >= i /\ About(q, j, p)
    /\ \A k \in DOMAIN q : k >= i /\ k < j => ~About(q, k, p)

\* It finds p in the copy o as bluetoothd had it, or does not have the last word.
Fits(q, j, p, o) ==
    /\ q[j].m = "added" /\ q[j].value = "unheard" =>
          \/ p \notin DOMAIN o \/ o[p] = "unheard"
          \/ \E k \in DOMAIN q : k > j /\ About(q, k, p)
    /\ q[j].m = "changed" =>
          \/ p \in DOMAIN o
          \/ \E k \in DOMAIN q : k > j /\ About(q, k, p) /\ q[k].m = "removed"

\* The trees o and t say the same of p.
Agree(o, t, p) == (p \in DOMAIN o <=> p \in DOMAIN t) /\ (p \in DOMAIN o => o[p] = t[p])

\* The copy o is as good as the tree t once the messages from i on are applied.
Follows(q, i, o, t) ==
    \A p \in Paths :
        /\ (\A j \in DOMAIN q : j >= i => ~About(q, j, p)) => Agree(o, t, p)
        /\ \A j \in DOMAIN q : First(q, i, j, p) => Fits(q, j, p, o)

\* The copy, and every tree on its way to become one.
Mirror(q, t) ==
    /\ Consistent(q, t)
    /\ \A i \in DOMAIN q :
          q[i].m = "tree" /\ q[i].ok /\ SameOwner(q, i) => Follows(q, i + 1, q[i].tree, t)
Mirrors ==
    "fetch" \in uses =>
        /\ Mirror(inbox, tree)
        /\ objects_loaded /\ SameOwner(inbox, 1) => Follows(inbox, 1, objects, tree)

Inv ==
    /\ CentralTyped /\ BusTyped /\ Bounded
    /\ TimersOwned /\ ValuesAreMatched /\ WatchesCover
    /\ OwnCalls /\ OneEach /\ AnswerIsOwn /\ LinkCanFinish
    /\ Asked /\ AgentAnswersForPair
    /\ Fetching /\ FetchComing /\ Mirrors

-----------------------------------------------------------------------------
(* What a step does to the parts of the state. *)

\* The clauses of the assumptions the proofs use.
LEMMA Assumptions ==
    /\ MaxTraffic \in [Uses -> Nat]
    /\ None \notin Handles /\ None \notin Devices
    /\ Adapter \notin Listed
  BY TrafficAssumption, NamesAssumption, TreeAssumption

\* bluetoothd does nothing to the central.
LEMMA DaemonFrame == Bluetoothd => UNCHANGED Daemon
  <1> SUFFICES ASSUME Bluetoothd PROVE UNCHANGED Daemon
    OBVIOUS
  <1>1. CASE \E c \in calls, ok \in BOOLEAN : DaemonReplies(c, ok)
    BY <1>1 DEF DaemonReplies
  <1>2. CASE \E d \in Devices :
                DaemonAsks("ask", d) \/ DaemonAsks("authorize", d) \/ DaemonAsks("display", d)
    BY <1>2 DEF DaemonAsks
  <1>3. CASE DaemonGivesUp \/ DaemonReleases \/ DaemonDies
    BY <1>3 DEF DaemonGivesUp, DaemonReleases, DaemonDies
  <1>4. CASE DaemonChanges \/ DaemonStarts
    BY <1>4 DEF DaemonChanges, DaemonStarts, Daemon, values, agent
  <1> QED
    BY <1>1, <1>2, <1>3, <1>4 DEF Bluetoothd

\* A request that is finished.
Done(r, result) ==
    [state |-> 2, token |-> 0, result |-> result, timer |-> r.timer, call |-> r.call]

\* pending_finish() makes a request done.
LEMMA DoneRequest ==
    ASSUME CentralTyped, NEW s \in Slots, NEW result
    PROVE  Finished(s, result) = [req EXCEPT ![s] = Done(req[s], result)]
  <1>1. [req[s] EXCEPT !.state = 2]
           = [state |-> 2, token |-> req[s].token, result |-> req[s].result,
              timer |-> req[s].timer, call |-> req[s].call]
    BY DEF CentralTyped, Requests
  <1>2. [[state |-> 2, token |-> req[s].token, result |-> req[s].result,
          timer |-> req[s].timer, call |-> req[s].call] EXCEPT !.result = result]
           = [state |-> 2, token |-> req[s].token, result |-> result,
              timer |-> req[s].timer, call |-> req[s].call]
    OBVIOUS
  <1>3. [[state |-> 2, token |-> req[s].token, result |-> result,
          timer |-> req[s].timer, call |-> req[s].call] EXCEPT !.token = 0]
           = Done(req[s], result)
    BY DEF Done
  <1>4. [req[s] EXCEPT !.state = 2, !.result = result, !.token = 0] = Done(req[s], result)
    BY <1>1, <1>2, <1>3
  <1>5. pending_finish(s, result) = [req EXCEPT ![s] = Done(req[s], result)]
    BY <1>4 DEF pending_finish
  <1> QED
    BY <1>5 DEF Finished, read_finish

\* What a step does to the requests and their timers.
RequestStep ==
    \/ UNCHANGED <<req, timers>> /\ (loop' = loop \/ loop')
    \/ \E S \in SUBSET Slots : pending_cancel(S) /\ (loop' = loop \/ S = Slots)
    \/ /\ serial' = serial + 1 /\ loop' = loop
       /\ \E s \in Slots : pending_start(s, serial + 1)
    \/ /\ loop' = loop /\ UNCHANGED timers
       /\ \E s \in Slots : \E r \in {0, req[s].token} :
             req[s].state = 1 /\ req' = [req EXCEPT ![s] = Done(req[s], r)]
    \/ ~loop' /\ ~open /\ UNCHANGED timers /\ req' = [s \in Slots |-> Idle]

\* Every step of the system does one of these to the requests.
LEMMA RequestSteps ==
    ASSUME CentralTyped, Next
    PROVE  RequestStep
  <1> USE DEF RequestStep
  <1>1. CASE Quiet
    <2>1. CASE Open
      BY <2>1 DEF Open
    <2>2. CASE AttachLoop
      BY <2>2 DEF AttachLoop, requests
    <2>3. CASE DetachLoop
      <3>1. Slots = read_cancel \cup requests_cancel
        BY DEF read_cancel, requests_cancel
      <3> QED
        BY <2>3, <3>1 DEF DetachLoop
    <2>4. CASE Write
      BY <2>4 DEF Write, backend_write, send_call, Called
    <2>5. CASE Read
      BY <2>5 DEF Read, read_start, backend_read, send_call, Called
    <2>6. CASE \E s \in Slots : Query(s) \/ Take(s)
      BY <2>6 DEF Query, Take, backend_query, send_call, Called
    <2>7. CASE \E h \in Handles : Subscribe(h)
      BY <2>7 DEF Subscribe, backend_subscribe, send_call, Called
    <2>8. CASE CancelRequests(requests_cancel) \/ CancelRequests(read_cancel)
      BY <2>8 DEF CancelRequests, requests_cancel, read_cancel
    <2>9. CASE ConnectEnd \/ PairPoll \/ Disconnect
      BY <2>9 DEF ConnectEnd, PairPoll, Disconnect, requests
    <2> QED
      BY <1>1, <2>1, <2>2, <2>3, <2>4, <2>5, <2>6, <2>7, <2>8, <2>9 DEF Quiet
  <1>2. CASE Flushed
    <2>1. CASE \E private \in BOOLEAN : Close(private)
      <3>1. Slots = read_cancel \cup requests_cancel
        BY DEF read_cancel, requests_cancel
      <3> QED
        BY <2>1, <3>1 DEF Close
    <2>2. CASE ConnectBegin \/ \E d \in Devices : PairBegin(d)
      BY <2>2 DEF ConnectBegin, PairBegin, requests
    <2>3. CASE PairCancel \/ AgentRegister \/ AgentUnregister \/ AgentSubmit \/ AgentReject
      BY <2>3 DEF PairCancel, AgentRegister, AgentUnregister, AgentSubmit, AgentReject,
         requests
    <2> QED
      BY <1>2, <2>1, <2>2, <2>3 DEF Flushed
  <1>3. CASE Lookup \/ Discovering \/ Discovery \/ Drain
    BY <1>3 DEF Lookup, Discovering, Discovery, Drain, requests
  <1>4. CASE Process
    <2>1. loop' = loop
      BY <1>4 DEF Process
    <2>2. CASE HandleReply(Head(inbox))
      <3> DEFINE m == Head(inbox)
      <3>1. UNCHANGED timers
        BY <2>2 DEF HandleReply
      <3>2. CASE \E s \in Slots : Awaits(s, m.serial) /\ req' = Finished(s, m.serial)
        <4>1. PICK s \in Slots : Awaits(s, m.serial) /\ req' = Finished(s, m.serial)
          BY <3>2
        <4>2. req[s].state = 1 /\ m.serial = req[s].token
          BY <4>1 DEF Awaits
        <4>3. req' = [req EXCEPT ![s] = Done(req[s], req[s].token)]
          BY <4>1, <4>2, DoneRequest
        <4> QED
          BY <2>1, <3>1, <4>2, <4>3
      <3>3. CASE UNCHANGED req
        BY <2>1, <3>1, <3>3
      <3> QED
        BY <2>2, <3>2, <3>3 DEF HandleReply, HandleSubscribed
    <2>3. CASE ~HandleReply(Head(inbox))
      BY <1>4, <2>1, <2>3 DEF Process, HandleAsk, HandleAuthorize, HandleDisplay, HandleCancel,
          HandleRelease,
         ProcessTree, requests
    <2> QED
      BY <2>2, <2>3
  <1>5. CASE \E s \in Slots : Deadline(s)
    BY <1>5, DoneRequest DEF Deadline, TimerFires, ProcessDeadline, Overdue
  <1>6. CASE Bluetoothd
    BY <1>6, DaemonFrame DEF Daemon, requests
  <1> QED
    BY <1>1, <1>2, <1>3, <1>4, <1>5, <1>6 DEF Next, Caller

\* A connect or a pair just begun, and one that its reply finished.
Begun(n, d) == [state |-> 1, token |-> n, result |-> 0, call |-> n, address |-> d]
Ended(l) ==
    [state |-> 2, token |-> l.token, result |-> l.token, call |-> l.call, address |-> l.address]

\* What a connect or a pair is when it begins.
LEMMA BegunLink ==
    ASSUME NEW n
    PROVE  [IdleLink EXCEPT !.state = 1, !.token = n, !.call = n] = Begun(n, None)
  <1>1. [IdleLink EXCEPT !.state = 1]
           = [state |-> 1, token |-> 0, result |-> 0, call |-> 0, address |-> None]
    BY DEF IdleLink
  <1>2. [[state |-> 1, token |-> 0, result |-> 0, call |-> 0, address |-> None]
            EXCEPT !.token = n]
           = [state |-> 1, token |-> n, result |-> 0, call |-> 0, address |-> None]
    OBVIOUS
  <1>3. [[state |-> 1, token |-> n, result |-> 0, call |-> 0, address |-> None]
            EXCEPT !.call = n]
           = [state |-> 1, token |-> n, result |-> 0, call |-> n, address |-> None]
    OBVIOUS
  <1> QED
    BY <1>1, <1>2, <1>3 DEF Begun

\* What it is when its reply is taken.
LEMMA EndedLink ==
    ASSUME NEW n, NEW l \in Links(n)
    PROVE  [l EXCEPT !.state = 2, !.result = l.token] = Ended(l)
  <1>1. [l EXCEPT !.state = 2]
           = [state |-> 2, token |-> l.token, result |-> l.result, call |-> l.call,
              address |-> l.address]
    BY DEF Links
  <1>2. [[state |-> 2, token |-> l.token, result |-> l.result, call |-> l.call,
          address |-> l.address] EXCEPT !.result = l.token]
           = [state |-> 2, token |-> l.token, result |-> l.token, call |-> l.call,
              address |-> l.address]
    OBVIOUS
  <1> QED
    BY <1>1, <1>2 DEF Ended

\* What a step does to the connect and the pair.
LinkStep ==
    /\ \/ connect' = connect \/ connect' = IdleLink
       \/ /\ connect.state = 1
          /\ connect' = Ended(connect)
       \/ /\ serial' = serial + 1
          /\ calls' = calls \cup {[serial |-> serial + 1, what |-> "connect", about |-> None]}
          /\ connect' = Begun(serial + 1, None)
          /\ pair' = pair
    /\ \/ pair' = pair \/ pair' = IdleLink
       \/ /\ pair.state = 1
          /\ pair' = Ended(pair)
       \/ /\ pair.state # 1
          /\ serial' = serial + 1 /\ UNCHANGED inbox
          /\ connect' = connect
          /\ \E d \in Devices :
                /\ calls' = calls \cup {[serial |-> serial + 1, what |-> "pair", about |-> d]}
                /\ pair' = Begun(serial + 1, d)

\* Every step does one of these to the connect and the pair.
LEMMA LinkSteps ==
    ASSUME CentralTyped, Next
    PROVE  LinkStep
  <1> USE DEF LinkStep
  <1>1. CASE Quiet
    <2>1. CASE Open
      BY <2>1 DEF Open
    <2>2. CASE AttachLoop \/ DetachLoop \/ Write \/ Read
      BY <2>2 DEF AttachLoop, DetachLoop, Write, Read, links
    <2>3. CASE \E s \in Slots : Query(s) \/ Take(s)
      BY <2>3 DEF Query, Take, links
    <2>4. CASE \E h \in Handles : Subscribe(h)
      BY <2>4 DEF Subscribe, links
    <2>5. CASE CancelRequests(requests_cancel) \/ CancelRequests(read_cancel)
      BY <2>5 DEF CancelRequests, links
    <2>6. CASE ConnectEnd \/ PairPoll \/ Disconnect
      BY <2>6 DEF ConnectEnd, PairPoll, Disconnect, links
    <2> QED
      BY <1>1, <2>1, <2>2, <2>3, <2>4, <2>5, <2>6 DEF Quiet
  <1>2. CASE Flushed
    <2>1. CASE \E private \in BOOLEAN : Close(private)
      BY <2>1 DEF Close
    <2>2. CASE ConnectBegin
      BY <2>2, BegunLink DEF ConnectBegin, backend_connect, send_call, Called
    <2>3. CASE \E d \in Devices : PairBegin(d)
      BY <2>3 DEF PairBegin, backend_pair, send_call, Called, Begun
    <2>4. CASE PairCancel \/ AgentRegister \/ AgentUnregister \/ AgentSubmit \/ AgentReject
      BY <2>4 DEF PairCancel, AgentRegister, AgentUnregister, AgentSubmit, AgentReject,
          links
    <2> QED
      BY <1>2, <2>1, <2>2, <2>3, <2>4 DEF Flushed
  <1>3. CASE Lookup \/ Discovering \/ Discovery \/ Drain
    BY <1>3 DEF Lookup, Discovering, Discovery, Drain, links
  <1>4. CASE Process
    <2>1. CASE HandleReply(Head(inbox))
      <3>1. [connect EXCEPT !.state = 2, !.result = connect.token] = Ended(connect)
        BY EndedLink DEF CentralTyped
      <3>2. [pair EXCEPT !.state = 2, !.result = pair.token] = Ended(pair)
        BY EndedLink DEF CentralTyped
      <3> QED
        BY <2>1, <3>1, <3>2 DEF HandleReply, HandleSubscribed, pair_finish, connect_finish
    <2>2. CASE ~HandleReply(Head(inbox))
      BY <1>4, <2>2 DEF Process, HandleAsk, HandleAuthorize, HandleDisplay, HandleCancel, HandleRelease,
         ProcessTree, links
    <2> QED
      BY <2>1, <2>2
  <1>5. CASE \E s \in Slots : Deadline(s)
    BY <1>5 DEF Deadline, TimerFires, ProcessDeadline, Overdue, links
  <1>6. CASE Bluetoothd
    BY <1>6, DaemonFrame DEF Daemon, links
  <1> QED
    BY <1>1, <1>2, <1>3, <1>4, <1>5, <1>6 DEF Next, Caller

\* What a step does to the calls: a reply takes one away, and a new one has a
\* serial of its own.
CallStep ==
    \/ UNCHANGED <<serial, calls>>
    \/ UNCHANGED serial /\ calls' \subseteq calls
    \/ \E what \in Whats, about \in Handles \cup Devices \cup {None} : Called(what, about)

\* Every step does one of these to the calls.
LEMMA CallSteps == Next => CallStep
  <1> SUFFICES ASSUME Next PROVE CallStep
    OBVIOUS
  <1> USE DEF CallStep, Whats
  <1>1. CASE Quiet
    <2>1. CASE Open \/ AttachLoop \/ DetachLoop
      BY <2>1 DEF Open, AttachLoop, DetachLoop, bus
    <2>2. CASE Write \/ Read
      BY <2>2 DEF Write, Read, backend_write, backend_read, send_call
    <2>3. CASE \E s \in Slots : Query(s) \/ Take(s)
      BY <2>3 DEF Query, Take, backend_query, send_call, bus
    <2>4. CASE \E h \in Handles : Subscribe(h)
      BY <2>4 DEF Subscribe, backend_subscribe, send_call
    <2>5. CASE CancelRequests(requests_cancel) \/ CancelRequests(read_cancel)
      BY <2>5 DEF CancelRequests, bus
    <2>6. CASE ConnectEnd \/ PairPoll \/ Disconnect
      BY <2>6 DEF ConnectEnd, PairPoll, Disconnect, backend_disconnect, send_logged, bus
    <2> QED
      BY <1>1, <2>1, <2>2, <2>3, <2>4, <2>5, <2>6 DEF Quiet
  <1>2. CASE Flushed
    <2>1. CASE \E private \in BOOLEAN : Close(private)
      BY <2>1 DEF Close, backend_close
    <2>2. CASE ConnectBegin \/ \E d \in Devices : PairBegin(d)
      BY <2>2 DEF ConnectBegin, PairBegin, backend_connect, backend_pair, send_call
    <2>3. CASE PairCancel \/ AgentRegister \/ AgentUnregister \/ AgentSubmit \/ AgentReject
      BY <2>3 DEF PairCancel, AgentRegister, AgentUnregister, AgentSubmit, AgentReject, bus
    <2> QED
      BY <1>2, <2>1, <2>2, <2>3 DEF Flushed
  <1>3. CASE Lookup \/ Discovering \/ Discovery \/ Drain
    BY <1>3 DEF Lookup, Discovering, Discovery, Drain, objects_request, send_logged, bus
  <1>4. CASE Process
    BY <1>4 DEF Process, ProcessTree, HandleOwner, objects_request
  <1>5. CASE \E s \in Slots : Deadline(s)
    BY <1>5 DEF Deadline, TimerFires, ProcessDeadline, Overdue, bus
  <1>6. CASE Bluetoothd
    <2>1. UNCHANGED serial
      BY <1>6, DaemonFrame DEF Daemon
    <2>2. calls' \subseteq calls
      <3>1. CASE \E c \in calls, ok \in BOOLEAN : DaemonReplies(c, ok)
        BY <3>1 DEF DaemonReplies
      <3>2. CASE \E d \in Devices :
                DaemonAsks("ask", d) \/ DaemonAsks("authorize", d) \/ DaemonAsks("display", d)
        BY <3>2 DEF DaemonAsks
      <3>3. CASE DaemonGivesUp \/ DaemonReleases \/ DaemonDies
        BY <3>3 DEF DaemonGivesUp, DaemonReleases, DaemonDies
      <3>4. CASE DaemonChanges \/ DaemonStarts
        BY <3>4 DEF DaemonChanges, DaemonStarts
      <3> QED
        BY <1>6, <3>1, <3>2, <3>3, <3>4 DEF Bluetoothd
    <2> QED
      BY <2>1, <2>2
  <1> QED
    BY <1>1, <1>2, <1>3, <1>4, <1>5, <1>6 DEF Next, Caller

-----------------------------------------------------------------------------
(* The types. *)

\* The bounds on serials only grow.
LEMMA SerialGrows ==
    ASSUME serial \in Nat, Next
    PROVE  serial' \in Nat /\ serial <= serial' /\ serial' <= serial + 1
  BY CallSteps DEF CallStep, Called

\* The requests keep their type.
LEMMA RequestsTyped ==
    ASSUME CentralTyped, BusTyped, Next
    PROVE  req' \in [Slots -> Requests(serial)'] /\ timers' \subseteq Slots
  <1> USE DEF CentralTyped, BusTyped
  <1>0. serial \in Nat /\ serial' \in Nat /\ serial <= serial'
    BY SerialGrows
  <1>1. Requests(serial)' = Requests(serial')
    BY DEF Requests
  <1>2. \A r \in Requests(serial) : r \in Requests(serial')
    BY <1>0 DEF Requests
  <1>3. Idle \in Requests(serial')
    BY <1>0 DEF Requests, Idle
  <1>4. CASE UNCHANGED <<req, timers>>
    BY <1>1, <1>2, <1>4
  <1>5. CASE \E S \in SUBSET Slots : pending_cancel(S)
    BY <1>1, <1>2, <1>3, <1>5 DEF pending_cancel
  <1>6. CASE serial' = serial + 1 /\ \E s \in Slots : pending_start(s, serial + 1)
    BY <1>0, <1>1, <1>2, <1>6 DEF pending_start, Requests
  <1>7. CASE UNCHANGED timers /\ \E s \in Slots : \E r \in {0, req[s].token} :
                req' = [req EXCEPT ![s] = Done(req[s], r)]
    BY <1>0, <1>1, <1>2, <1>7 DEF Requests, Done
  <1>8. CASE UNCHANGED timers /\ req' = [s \in Slots |-> Idle]
    BY <1>1, <1>3, <1>8
  <1> QED
    BY <1>4, <1>5, <1>6, <1>7, <1>8, RequestSteps DEF RequestStep

\* The connect and the pair keep theirs.
LEMMA LinksTyped ==
    ASSUME CentralTyped, BusTyped, Next
    PROVE  connect' \in Links(serial)' /\ pair' \in Links(serial)'
  <1> USE DEF CentralTyped, BusTyped
  <1>0. serial \in Nat /\ serial' \in Nat /\ serial <= serial'
    BY SerialGrows
  <1>1. Links(serial)' = Links(serial')
    BY DEF Links
  <1>2. \A l \in Links(serial) : l \in Links(serial')
    BY <1>0 DEF Links
  <1>3. IdleLink \in Links(serial')
    BY <1>0 DEF Links, IdleLink
  <1>4. \A l \in Links(serial) : Ended(l) \in Links(serial')
    BY <1>0 DEF Links, Ended
  <1>5. serial' = serial + 1 => Begun(serial + 1, None) \in Links(serial')
    BY <1>0 DEF Links, Begun
  <1>6. serial' = serial + 1 => \A d \in Devices : Begun(serial + 1, d) \in Links(serial')
    BY <1>0 DEF Links, Begun
  <1>7. connect' \in Links(serial')
    BY <1>2, <1>3, <1>4, <1>5, LinkSteps DEF LinkStep
  <1>8. pair' \in Links(serial')
    BY <1>2, <1>3, <1>4, <1>6, LinkSteps DEF LinkStep
  <1> QED
    BY <1>1, <1>7, <1>8

\* A call has a serial that was given out.
LEMMA CallsTyped ==
    ASSUME BusTyped, Next
    PROVE  /\ calls' \subseteq Calls /\ IsFiniteSet(calls')
           /\ \A c \in calls' : c.serial \in 1 .. serial'
  <1> USE DEF BusTyped
  <1>1. CASE calls' \subseteq calls
    <2>1. IsFiniteSet(calls')
      BY <1>1, FS_Subset
    <2> QED
      BY <1>1, <2>1, SerialGrows
  <1>2. CASE \E what \in Whats, about \in Handles \cup Devices \cup {None} :
                Called(what, about)
    <2>1. PICK what \in Whats, about \in Handles \cup Devices \cup {None} :
               Called(what, about)
      BY <1>2
    <2>2. IsFiniteSet(calls')
      BY <2>1, FS_AddElement DEF Called
    <2> QED
      BY <2>1, <2>2 DEF Called, Calls
  <1> QED
    BY <1>1, <1>2, CallSteps DEF CallStep

\* What a step does to the life of the central.
LifeStep ==
    /\ uses' = uses
    /\ \/ UNCHANGED <<open, loop>>
       \/ ~open /\ open' = TRUE /\ loop' = FALSE
       \/ open /\ open' = open /\ loop' = TRUE
       \/ open' = open /\ loop' = FALSE
       \/ open' = FALSE /\ loop' = FALSE

\* Every step does one of these to the life of the central.
LEMMA LifeSteps == Next => LifeStep
  <1> SUFFICES ASSUME Next PROVE LifeStep
    OBVIOUS
  <1> USE DEF LifeStep
  <1>1. CASE Quiet
    BY <1>1 DEF Quiet, Open, AttachLoop, DetachLoop, Write, Read, Query, Take, Subscribe,
       CancelRequests, ConnectEnd, PairPoll, Disconnect
  <1>2. CASE Flushed
    BY <1>2 DEF Flushed, Close, ConnectBegin, PairBegin, PairCancel, AgentRegister,
       AgentUnregister, AgentSubmit, AgentReject
  <1>3. CASE Lookup \/ Discovering \/ Discovery \/ Drain \/ Process
    BY <1>3 DEF Lookup, Discovering, Discovery, Drain, Process
  <1>4. CASE \E s \in Slots : Deadline(s)
    BY <1>4 DEF Deadline, TimerFires, ProcessDeadline, Overdue
  <1>5. CASE Bluetoothd
    BY <1>5, DaemonFrame DEF Daemon
  <1> QED
    BY <1>1, <1>2, <1>3, <1>4, <1>5 DEF Next, Caller

\* It is on a loop only while it is open.
LEMMA LifeTyped ==
    ASSUME CentralTyped, Next
    PROVE  /\ uses' = uses
           /\ open' \in BOOLEAN /\ loop' \in BOOLEAN /\ (loop' => open')
  <1> USE DEF CentralTyped
  <1>1. uses' = uses /\ open' \in BOOLEAN /\ loop' \in BOOLEAN
    BY LifeSteps DEF LifeStep
  <1>2. loop' => open'
    BY LifeSteps DEF LifeStep
  <1> QED
    BY <1>1, <1>2

\* Values and match rules: what is subscribed to is matched, and stays so.
LEMMA ValuesKept ==
    ASSUME CentralTyped, ValuesAreMatched, Next
    PROVE  /\ subscribe_handle' \in Handles \cup {None}
           /\ notify_handle' \in Handles \cup {None}
           /\ matches' \in [Handles -> Nat]
           /\ ValuesAreMatched'
  <1> USE DEF CentralTyped, ValuesAreMatched
  <1>1. CASE UNCHANGED values
    BY <1>1 DEF values
  <1>2. CASE notify_handle' = None /\ subscribe_handle' \in {subscribe_handle, None}
             /\ matches' \in {matches, [h \in Handles |-> 0]}
    BY <1>2
  <1>3. CASE Disconnect
    BY <1>3, Assumptions DEF Disconnect, backend_disconnect, notify_match
  <1>4. CASE \E h \in Handles : Subscribe(h)
    BY <1>4 DEF Subscribe
  <1>5. CASE UNCHANGED subscribe_handle /\ HandleSubscribed(Head(inbox))
    BY <1>5, Assumptions DEF HandleSubscribed, notify_match
  <1>6. Next => \/ UNCHANGED values
                \/ /\ notify_handle' = None /\ subscribe_handle' \in {subscribe_handle, None}
                   /\ matches' \in {matches, [h \in Handles |-> 0]}
                \/ Disconnect \/ \E h \in Handles : Subscribe(h)
                \/ UNCHANGED subscribe_handle /\ HandleSubscribed(Head(inbox))
    <2>1. CASE Quiet
      BY <2>1 DEF Quiet, Open, AttachLoop, DetachLoop, Write, Read, Query, Take,
         CancelRequests, ConnectEnd, PairPoll
    <2>2. CASE Flushed
      BY <2>2 DEF Flushed, Close, backend_close, ConnectBegin, PairBegin, PairCancel,
         AgentRegister, AgentUnregister, AgentSubmit, AgentReject
    <2>3. CASE Lookup \/ Discovering \/ Discovery \/ Drain
      BY <2>3 DEF Lookup, Discovering, Discovery, Drain
    <2>4. CASE Process
      <3>1. UNCHANGED subscribe_handle
        BY <2>4 DEF Process
      <3>2. CASE HandleReply(Head(inbox))
        BY <3>1, <3>2 DEF HandleReply, values
      <3>3. CASE ~HandleReply(Head(inbox))
        BY <2>4, <3>1, <3>3 DEF Process, HandleAsk, HandleAuthorize, HandleDisplay, HandleCancel,
           HandleRelease, ProcessTree, values
      <3> QED
        BY <3>2, <3>3
    <2>5. CASE \E s \in Slots : Deadline(s)
      BY <2>5 DEF Deadline, TimerFires, ProcessDeadline, Overdue
    <2>6. CASE Bluetoothd
      <3>1. UNCHANGED <<subscribe_handle, notify_handle>>
        BY <2>6, DaemonFrame DEF Daemon
      <3>2. UNCHANGED matches
        BY <2>6 DEF Bluetoothd, DaemonReplies, DaemonAsks, DaemonGivesUp, DaemonReleases,
           DaemonDies, DaemonChanges, DaemonStarts, values
      <3> QED
        BY <3>1, <3>2 DEF values
    <2> QED
      BY <2>1, <2>2, <2>3, <2>4, <2>5, <2>6 DEF Next, Caller
  <1> QED
    BY <1>1, <1>2, <1>3, <1>4, <1>5, <1>6

\* The timers are those of the requests.
LEMMA TimersKept ==
    ASSUME CentralTyped, TimersOwned, Next
    PROVE  TimersOwned'
  <1> USE DEF CentralTyped, TimersOwned, Requests
  <1>1. CASE UNCHANGED <<req, timers>> /\ (loop' = loop \/ loop')
    BY <1>1
  <1>2. CASE \E S \in SUBSET Slots : pending_cancel(S) /\ (loop' = loop \/ S = Slots)
    BY <1>2 DEF pending_cancel, Idle
  <1>3. CASE loop' = loop /\ \E s \in Slots : pending_start(s, serial + 1)
    BY <1>3 DEF pending_start
  <1>4. CASE /\ loop' = loop /\ UNCHANGED timers
             /\ \E s \in Slots : \E r \in {0, req[s].token} :
                   req[s].state = 1 /\ req' = [req EXCEPT ![s] = Done(req[s], r)]
    BY <1>4 DEF Done
  <1>5. CASE ~loop' /\ ~open /\ UNCHANGED timers /\ req' = [s \in Slots |-> Idle]
    BY <1>5 DEF Idle
  <1> QED
    BY <1>1, <1>2, <1>3, <1>4, <1>5, RequestSteps DEF RequestStep

\* watch_sync() keeps it so, refused or not, and when it is not refused the loop
\* watches for what is enabled.
LEMMA SyncedWatch ==
    ASSUME NEW v, WatchTyped(v), NEW e \in {"in", "out"}, NEW b \in BOOLEAN,
           NEW w \in watch_sync(v, e, b)
    PROVE  WatchTyped(w) /\ (~w.refused => w.mask = Enabled(b))
  <1>1. Enabled(b) \in SUBSET {"IN", "OUT"} /\ Enabled(b) # {}
    BY DEF Enabled
  <1>2. CASE w = [registered |-> IF v.registered # "none" THEN v.registered ELSE e,
                  mask |-> Enabled(b), refused |-> FALSE]
    BY <1>1, <1>2 DEF WatchTyped
  <1>3. CASE w = [v EXCEPT !.refused = v.mask # Enabled(b)]
    <2>1. /\ w.registered = v.registered /\ w.mask = v.mask
          /\ w.refused = (v.mask # Enabled(b))
          /\ w \in [registered : {"none", "in", "out"}, mask : SUBSET {"IN", "OUT"},
                    refused : BOOLEAN]
      BY <1>3 DEF WatchTyped
    <2> QED
      BY <2>1 DEF WatchTyped
  <1> QED
    BY <1>2, <1>3 DEF watch_sync

\* What is written, and what the loop watches for.
LEMMA OutputKept ==
    ASSUME CentralTyped, BusTyped, WatchesCover, Next
    PROVE  /\ backlog' \subseteq 1 .. serial'
           /\ WatchTyped(watch') /\ WatchesCover'
  <1>1. loop \in BOOLEAN /\ loop' \in BOOLEAN
    BY LifeTyped DEF CentralTyped
  <1>2. /\ serial \in Nat /\ serial' \in Nat
        /\ serial' = serial \/ serial' = serial + 1
    BY SerialGrows DEF BusTyped
  <1>3. ASSUME Watched PROVE WatchTyped(watch') /\ WatchesCover'
    <2> USE DEF CentralTyped
    <2>0. \A v : WatchTyped(v) => \A e \in {"in", "out"}, b \in BOOLEAN :
             \A w \in watch_sync(v, e, b) :
                WatchTyped(w) /\ (~w.refused => w.mask = Enabled(b))
      BY SyncedWatch
    <2>1. CASE loop' /\ ~loop
      <3>1. watch' \in backend_attach(watch, backlog' # {})
        BY <1>3, <2>1 DEF Watched
      <3>2. PICK v \in watch_sync(watch, "in", backlog' # {}) :
               watch' \in watch_sync(v, "out", backlog' # {})
        BY <3>1 DEF backend_attach
      <3>3. WatchTyped(v)
        BY <2>0, <3>2
      <3>4. WatchTyped(watch') /\ (~watch'.refused => watch'.mask = Enabled(backlog' # {}))
        BY <2>0, <3>2, <3>3
      <3> QED
        BY <1>1, <2>1, <3>4 DEF WatchesCover, WatchTyped
    <2>2. CASE loop /\ ~loop'
      <3>1. watch' \in backend_detach(watch)
        BY <1>3, <2>2 DEF Watched
      <3>0. WatchTyped(watch)
        BY DEF CentralTyped
      <3>2. watch' = [registered |-> "none", mask |-> {}, refused |-> FALSE]
        <4>1. watch.registered = "none" => watch.mask = {}
          BY <3>0 DEF WatchTyped
        <4> QED
          BY <3>1, <4>1 DEF backend_detach
      <3>3. WatchTyped(watch')
        BY <3>2 DEF WatchTyped
      <3> QED
        BY <2>2, <3>2, <3>3 DEF WatchesCover, WatchTyped
    <2>3. CASE loop /\ loop' /\ (backlog = {}) # (backlog' = {})
      <3>1. watch' \in watch_sync(watch, "out", backlog' # {})
        BY <1>3, <2>3 DEF Watched
      <3>2. WatchTyped(watch') /\ (~watch'.refused => watch'.mask = Enabled(backlog' # {}))
        BY <2>0, <3>1
      <3> QED
        BY <2>3, <3>2 DEF WatchesCover, WatchTyped
    <2>4. CASE (loop <=> loop') /\ ~(loop /\ loop' /\ (backlog = {}) # (backlog' = {}))
      <3>1. watch' = watch
        BY <1>3, <2>4 DEF Watched
      <3>2. CASE ~loop
        BY <2>4, <3>1, <3>2 DEF WatchesCover
      <3>3. CASE loop
        <4>1. backlog = {} <=> backlog' = {}
          BY <2>4, <3>3
        <4>2. Enabled(backlog # {}) = Enabled(backlog' # {})
          BY <4>1
        <4> QED
          BY <2>4, <3>1, <3>3, <4>2 DEF WatchesCover
      <3> QED
        BY <3>2, <3>3
    <2> QED
      BY <1>1, <2>1, <2>2, <2>3, <2>4
  <1>4. \/ backlog' \in {backlog, {}} /\ Watched
        \/ backlog' \in Queued /\ serial' # serial /\ Watched
        \/ UNCHANGED <<loop, backlog, watch>>
    <2>1. CASE Caller \/ Process \/ Discovering \/ Discovery
      BY <2>1 DEF Caller, Process, Discovering, Discovery, Output
    <2>2. CASE Lookup \/ Drain
      BY <2>2 DEF Lookup, Drain, objects_ensure
    <2>3. CASE \E s \in Slots : Deadline(s)
      BY <2>3 DEF Deadline, TimerFires, ProcessDeadline, Overdue, output
    <2>4. CASE Bluetoothd
      BY <2>4, DaemonFrame DEF Daemon, output
    <2> QED
      BY <2>1, <2>2, <2>3, <2>4 DEF Next
  <1>5. backlog' \subseteq 1 .. serial'
    <2>1. backlog \subseteq 1 .. serial'
      BY <1>2 DEF CentralTyped
    <2>2. serial' # serial => serial' \in 1 .. serial'
      BY <1>2
    <2> QED
      BY <1>4, <2>1, <2>2 DEF Queued
  <1>6. UNCHANGED <<loop, backlog, watch>> => WatchTyped(watch') /\ WatchesCover'
    BY DEF CentralTyped, WatchesCover
  <1> QED
    BY <1>3, <1>4, <1>5, <1>6

\* Whether what waits was read aside.
LEMMA SilentTyped ==
    ASSUME CentralTyped, Next
    PROVE  silent' \in BOOLEAN
  <1>1. silent' = silent \/ ReadAside \/ silent' = FALSE \/ silent' = (silent /\ inbox' = inbox)
    <2>1. CASE Caller
      BY <2>1 DEF Caller
    <2>2. CASE Lookup \/ Discovering \/ Discovery \/ Process \/ Drain
      BY <2>2 DEF Lookup, Discovering, Discovery, Process, Drain
    <2>3. CASE \E s \in Slots : Deadline(s)
      BY <2>3 DEF Deadline, TimerFires, ProcessDeadline
    <2>4. CASE Bluetoothd
      BY <2>4 DEF Bluetoothd, DaemonReplies, DaemonAsks, DaemonGivesUp, DaemonReleases,
         DaemonDies, DaemonChanges, DaemonStarts, Grow, Deliver
    <2> QED
      BY <2>1, <2>2, <2>3, <2>4 DEF Next
  <1> QED
    BY <1>1 DEF CentralTyped, ReadAside

\* What a message says, by its kind.
LEMMA MessageFields ==
    ASSUME NEW m \in Messages
    PROVE  /\ m.m \in {"ask", "authorize", "display"} =>
                 m.kind = "PASSKEY" /\ m.device \in Devices /\ m.id \in Nat
           /\ m.m \in Signals => m.path \in Paths
           /\ m.m \in {"added", "changed"} => m.value \in {"off", "on", "heard", "unheard"}
           /\ m.m = "owner" => m.up \in BOOLEAN /\ m = [m |-> "owner", up |-> m.up]
           /\ m.m \in {"reply", "tree"} => m.serial \in Nat /\ m.ok \in BOOLEAN
           /\ m.m = "tree" => m.tree \in Trees
  BY DEF Messages, Signals

\* A tree is a function on paths.
LEMMA TreeFunction ==
    ASSUME NEW o \in Trees
    PROVE  /\ DOMAIN o \subseteq Paths
           /\ o \in [DOMAIN o -> {"off", "on", "heard", "unheard"}]
           /\ o = [p \in DOMAIN o |-> o[p]]
  BY DEF Trees

\* A function on paths is a tree.
LEMMA FunctionTree ==
    ASSUME NEW o, DOMAIN o \subseteq Paths, o = [p \in DOMAIN o |-> o[p]],
           \A p \in DOMAIN o : o[p] \in {"off", "on", "heard", "unheard"}
    PROVE  o \in Trees
  <1>1. o \in [DOMAIN o -> {"off", "on", "heard", "unheard"}]
    OBVIOUS
  <1> QED
    BY <1>1 DEF Trees

\* The copy after objects_clear().
LEMMA EmptyTree == Empty \in Trees /\ DOMAIN Empty = {}
  BY FunctionTree DEF Empty

\* The tree bluetoothd starts with.
LEMMA BootTree == Boot \in Trees
  BY FunctionTree DEF Boot

\* A value put at a path, and one taken away.
LEMMA PutTree ==
    ASSUME NEW o \in Trees, NEW p \in Paths, NEW v \in {"off", "on", "heard", "unheard"}
    PROVE  /\ With(o, p, v) \in Trees
           /\ DOMAIN With(o, p, v) = DOMAIN o \cup {p}
           /\ With(o, p, v)[p] = v
           /\ \A r \in DOMAIN o : r # p => With(o, p, v)[r] = o[r]
  <1> DEFINE n == With(o, p, v)
  <1>1. n = [r \in DOMAIN o \cup {p} |-> IF r = p THEN v ELSE o[r]]
    BY DEF With
  <1>2. /\ DOMAIN n = DOMAIN o \cup {p} /\ n[p] = v
        /\ \A r \in DOMAIN o : r # p => n[r] = o[r]
    BY <1>1
  <1>3. DOMAIN n \subseteq Paths /\ n = [r \in DOMAIN n |-> n[r]]
    BY <1>1, <1>2, TreeFunction
  <1>4. \A r \in DOMAIN n : n[r] \in {"off", "on", "heard", "unheard"}
    BY <1>2, TreeFunction
  <1> HIDE DEF n
  <1>5. n \in Trees
    BY <1>3, <1>4, FunctionTree
  <1> QED
    BY <1>2, <1>5 DEF n

\* A copy without a path.
LEMMA CutTree ==
    ASSUME NEW o \in Trees, NEW p
    PROVE  /\ objects_remove_interfaces(o, p) \in Trees
           /\ DOMAIN objects_remove_interfaces(o, p) = DOMAIN o \ {p}
           /\ \A r \in DOMAIN o : r # p => objects_remove_interfaces(o, p)[r] = o[r]
  <1> DEFINE n == objects_remove_interfaces(o, p)
  <1>1. n = [r \in DOMAIN o \ {p} |-> o[r]]
    BY DEF objects_remove_interfaces, Restrict
  <1>2. DOMAIN n = DOMAIN o \ {p} /\ \A r \in DOMAIN o : r # p => n[r] = o[r]
    BY <1>1
  <1>3. DOMAIN n \subseteq Paths /\ n = [r \in DOMAIN n |-> n[r]]
    BY <1>1, <1>2, TreeFunction
  <1>4. \A r \in DOMAIN n : n[r] \in {"off", "on", "heard", "unheard"}
    BY <1>2, TreeFunction
  <1> HIDE DEF n
  <1>5. n \in Trees
    BY <1>3, <1>4, FunctionTree
  <1> QED
    BY <1>2, <1>5 DEF n

\* A copy with one value replaced.
Replaced(o, p, v) == [o EXCEPT ![p] = v]

\* It is a tree, and differs there alone.
LEMMA SetTree ==
    ASSUME NEW o \in Trees, NEW p \in DOMAIN o, NEW v \in {"off", "on", "heard", "unheard"}
    PROVE  /\ Replaced(o, p, v) \in Trees
           /\ DOMAIN Replaced(o, p, v) = DOMAIN o
           /\ Replaced(o, p, v)[p] = v
           /\ \A r \in DOMAIN o : r # p => Replaced(o, p, v)[r] = o[r]
  <1> DEFINE n == Replaced(o, p, v)
  <1>2. DOMAIN n = DOMAIN o /\ n[p] = v /\ \A r \in DOMAIN o : r # p => n[r] = o[r]
    BY TreeFunction DEF Replaced
  <1>3. DOMAIN n \subseteq Paths /\ n = [r \in DOMAIN n |-> n[r]]
    BY <1>2, TreeFunction DEF Replaced
  <1>4. \A r \in DOMAIN n : n[r] \in {"off", "on", "heard", "unheard"}
    BY <1>2, TreeFunction
  <1> HIDE DEF n
  <1>5. n \in Trees
    BY <1>3, <1>4, FunctionTree
  <1> QED
    BY <1>2, <1>5 DEF n

\* What a message does to a copy, object by object.
LEMMA AppliedTo ==
    ASSUME NEW o \in Trees, NEW m \in Messages
    PROVE  /\ Applied(o, m) \in Trees
           /\ m.m \notin Signals => Applied(o, m) = o
           /\ \A p \in Paths : m.m \in Signals /\ m.path # p =>
                 /\ p \in DOMAIN Applied(o, m) <=> p \in DOMAIN o
                 /\ p \in DOMAIN o => Applied(o, m)[p] = o[p]
           /\ m.m = "removed" => m.path \notin DOMAIN Applied(o, m)
           /\ m.m = "added" =>
                 /\ m.path \in DOMAIN Applied(o, m)
                 /\ m.value # "unheard" => Applied(o, m)[m.path] = m.value
                 /\ m.value = "unheard" /\ m.path # Adapter =>
                       Applied(o, m)[m.path] =
                           IF m.path \in DOMAIN o THEN o[m.path] ELSE "unheard"
           /\ m.m = "changed" =>
                 /\ m.path \in DOMAIN Applied(o, m) <=> m.path \in DOMAIN o
                 /\ m.path \in DOMAIN o => Applied(o, m)[m.path] = m.value
  <1> USE DEF Signals
  <1>1. CASE m.m = "added"
    <2> DEFINE v == object_set_properties(object_add(o, m.path), m.value)
    <2>1. m.path \in Paths /\ m.value \in {"off", "on", "heard", "unheard"}
      BY <1>1, MessageFields
    <2>2. v \in {"off", "on", "heard", "unheard"}
      BY <2>1, TreeFunction DEF object_set_properties, object_add
    <2>3. /\ m.value # "unheard" => v = m.value
          /\ m.value = "unheard" /\ m.path # Adapter =>
                v = IF m.path \in DOMAIN o THEN o[m.path] ELSE "unheard"
      BY DEF object_set_properties, object_add
    <2>4. Applied(o, m) = With(o, m.path, v)
      BY <1>1 DEF Applied, objects_add_interfaces
    <2> HIDE DEF v
    <2> QED
      <3>1. /\ Applied(o, m) \in Trees
            /\ DOMAIN Applied(o, m) = DOMAIN o \cup {m.path}
            /\ Applied(o, m)[m.path] = v
            /\ \A r \in DOMAIN o : r # m.path => Applied(o, m)[r] = o[r]
        <4>1. PICK p \in Paths, w \in {"off", "on", "heard", "unheard"} : p = m.path /\ w = v
          BY <2>1, <2>2
        <4>2. PICK a : a = With(o, p, w)
          OBVIOUS
        <4>3. a \in Trees
          BY <4>2, PutTree
        <4>4. /\ DOMAIN a = DOMAIN o \cup {p} /\ a[p] = w
              /\ \A r \in DOMAIN o : r # p => a[r] = o[r]
          BY <4>2 DEF With
        <4>5. Applied(o, m) = a
          BY <2>4, <4>1, <4>2
        <4> QED
          BY <4>1, <4>3, <4>4, <4>5
      <3> QED
        BY <1>1, <2>3, <3>1
  <1>2. CASE m.m = "removed"
    <2>1. Applied(o, m) = objects_remove_interfaces(o, m.path)
      BY <1>2 DEF Applied
    <2> QED
      <3>1. /\ Applied(o, m) \in Trees
            /\ DOMAIN Applied(o, m) = DOMAIN o \ {m.path}
            /\ \A r \in DOMAIN o : r # m.path => Applied(o, m)[r] = o[r]
        <4>1. \A p :
                 /\ objects_remove_interfaces(o, p) \in Trees
                 /\ DOMAIN objects_remove_interfaces(o, p) = DOMAIN o \ {p}
                 /\ \A r \in DOMAIN o : r # p => objects_remove_interfaces(o, p)[r] = o[r]
          BY CutTree
        <4> QED
          BY <2>1, <4>1
      <3> QED
        BY <1>2, <3>1
  <1>3. CASE m.m = "changed" /\ m.path \in DOMAIN o
    <2>1. m.value \in {"off", "on", "heard", "unheard"}
      BY <1>3, MessageFields
    <2>2. Applied(o, m) = Replaced(o, m.path, m.value)
      BY <1>3 DEF Applied, objects_properties_changed, object_unset_property,
         object_set_properties, Replaced
    <2> QED
      <3>1. /\ Applied(o, m) \in Trees
            /\ DOMAIN Applied(o, m) = DOMAIN o
            /\ Applied(o, m)[m.path] = m.value
            /\ \A r \in DOMAIN o : r # m.path => Applied(o, m)[r] = o[r]
        <4>1. \A p \in DOMAIN o : \A w \in {"off", "on", "heard", "unheard"} :
                 /\ Replaced(o, p, w) \in Trees
                 /\ DOMAIN Replaced(o, p, w) = DOMAIN o
                 /\ Replaced(o, p, w)[p] = w
                 /\ \A r \in DOMAIN o : r # p => Replaced(o, p, w)[r] = o[r]
          BY SetTree
        <4> QED
          BY <1>3, <2>1, <2>2, <4>1
      <3> QED
        BY <1>3, <3>1
  <1>4. CASE m.m = "changed" /\ m.path \notin DOMAIN o
    <2>1. Applied(o, m) = o
      BY <1>4 DEF Applied, objects_properties_changed
    <2> QED
      BY <1>4, <2>1
  <1>5. CASE m.m \notin Signals
    <2>1. Applied(o, m) = o
      BY <1>5 DEF Applied
    <2> QED
      BY <1>5, <2>1
  <1> QED
    BY <1>1, <1>2, <1>3, <1>4, <1>5

-----------------------------------------------------------------------------
(* The messages on their way. *)

\* A step that delivers s puts it behind what is there.
LEMMA Concatenated ==
    ASSUME NEW q \in Seq(Messages), NEW s \in Seq(Messages)
    PROVE  /\ q \o s \in Seq(Messages)
           /\ Len(q \o s) = Len(q) + Len(s)
           /\ DOMAIN (q \o s) = 1 .. Len(q) + Len(s)
           /\ \A i \in DOMAIN q : i \in DOMAIN (q \o s) /\ (q \o s)[i] = q[i]
           /\ \A i \in DOMAIN (q \o s) : i > Len(q) =>
                 i - Len(q) \in DOMAIN s /\ (q \o s)[i] = s[i - Len(q)]
           /\ \A i \in DOMAIN s :
                 Len(q) + i \in DOMAIN (q \o s) /\ (q \o s)[Len(q) + i] = s[i]
  OBVIOUS

\* One message behind the others.
LEMMA Appended ==
    ASSUME NEW q \in Seq(Messages), NEW m \in Messages
    PROVE  /\ <<m>> \in Seq(Messages) /\ Append(q, m) = q \o <<m>>
           /\ DOMAIN <<m>> = {1} /\ <<m>>[1] = m /\ Len(<<m>>) = 1
  OBVIOUS

\* The queue without the message that process() took.
LEMMA Popped ==
    ASSUME NEW q \in Seq(Messages), q # <<>>
    PROVE  /\ Tail(q) \in Seq(Messages)
           /\ Len(Tail(q)) = Len(q) - 1
           /\ DOMAIN Tail(q) = 1 .. Len(q) - 1
           /\ \A i \in DOMAIN Tail(q) : i + 1 \in DOMAIN q /\ Tail(q)[i] = q[i + 1]
           /\ \A i \in DOMAIN q : i > 1 => i - 1 \in DOMAIN Tail(q) /\ Tail(q)[i - 1] = q[i]
           /\ 1 \in DOMAIN q /\ Head(q) = q[1] /\ Head(q) \in Messages
  OBVIOUS

\* What the reply to a call is.
LEMMA ReplyMessage ==
    ASSUME BusTyped, NEW c \in calls, NEW ok \in BOOLEAN
    PROVE  /\ Reply(c, ok) \in Messages
           /\ Reply(c, ok).serial = c.serial /\ Reply(c, ok).ok = ok
           /\ Reply(c, ok).m = IF c.what = "objects" THEN "tree" ELSE "reply"
           /\ c.what = "objects" /\ ok => Reply(c, ok).tree = tree
  <1> USE DEF BusTyped
  <1>1. c.serial \in Nat
    BY DEF Calls
  <1>2. CASE c.what = "objects"
    <2>1. (IF ok THEN tree ELSE Empty) \in Trees
      BY EmptyTree
    <2>2. Reply(c, ok) = [m |-> "tree", serial |-> c.serial, ok |-> ok,
                          tree |-> IF ok THEN tree ELSE Empty]
      BY <1>2 DEF Reply
    <2> QED
      BY <1>1, <1>2, <2>1, <2>2 DEF Messages
  <1>3. CASE c.what # "objects"
    <2>1. Reply(c, ok) = [m |-> "reply", serial |-> c.serial, ok |-> ok]
      BY <1>3 DEF Reply
    <2> QED
      BY <1>1, <1>3, <2>1 DEF Messages
  <1> QED
    BY <1>2, <1>3

\* What the bus says when bluetoothd dies: an answer to every call it had, and,
\* to a behaviour that is about the tree, that it is gone.
LEMMA LastWords ==
    ASSUME BusTyped, DaemonDies
    PROVE  \E s \in Seq(Messages) :
              /\ inbox' = inbox \o s
              /\ \A k \in DOMAIN s :
                    \/ \E c \in calls : s[k] = Reply(c, FALSE)
                    \/ "fetch" \in uses /\ k = Len(s) /\ s[k] = [m |-> "owner", up |-> FALSE]
              /\ \A c \in calls : c \in calls' \/ \E k \in DOMAIN s : s[k] = Reply(c, FALSE)
              /\ "fetch" \in uses => Len(s) \in DOMAIN s /\ s[Len(s)].m = "owner"
  <1> DEFINE had  == {c \in calls : c.serial \notin backlog}
             gone == IF "fetch" \in uses THEN <<[m |-> "owner", up |-> FALSE]>> ELSE <<>>
  <1>1. PICK owed \in InOrder(had) :
             inbox' = inbox \o [i \in DOMAIN owed |-> Reply(owed[i], FALSE)] \o gone
    BY DEF DaemonDies
  <1> DEFINE r == [i \in DOMAIN owed |-> Reply(owed[i], FALSE)]
             n == Cardinality(had)
  <1>2. n \in Nat
    <2>1. IsFiniteSet(had)
      BY FS_Subset DEF BusTyped
    <2> QED
      BY <2>1, FS_CardinalityType
  <1>3. /\ DOMAIN owed = 1 .. n /\ \A i \in 1 .. n : owed[i] \in had
        /\ \A c \in had : \E i \in 1 .. n : owed[i] = c
    <2>1. owed \in [1 .. n -> had] /\ Range(owed) = had
      BY <1>1 DEF InOrder
    <2> QED
      BY <2>1 DEF Range
  <1>4. r \in Seq(Messages) /\ Len(r) = n /\ DOMAIN r = 1 .. n
        /\ \A i \in 1 .. n : r[i] = Reply(owed[i], FALSE)
    <2>1. \A i \in 1 .. n : Reply(owed[i], FALSE) \in Messages
      BY <1>3, ReplyMessage
    <2>2. r \in [1 .. n -> Messages] /\ \A i \in 1 .. n : r[i] = Reply(owed[i], FALSE)
      BY <1>3, <2>1
    <2> HIDE DEF r, n
    <2>3. r \in Seq(Messages)
      BY <1>2, <2>2, SeqDef, Zenon
    <2>4. Len(r) = n
      BY <1>2, <2>2, <2>3
    <2> QED
      BY <2>2, <2>3, <2>4
  <1>5. /\ gone \in Seq(Messages)
        /\ "fetch" \in uses => gone = <<[m |-> "owner", up |-> FALSE]>>
        /\ "fetch" \notin uses => Len(gone) = 0
    <2>1. [m |-> "owner", up |-> FALSE] \in Messages
      BY DEF Messages
    <2>2. CASE "fetch" \in uses
      <3>1. gone = <<[m |-> "owner", up |-> FALSE]>>
        BY <2>2
      <3>2. \A m \in Messages : <<m>> \in Seq(Messages)
        OBVIOUS
      <3>3. <<[m |-> "owner", up |-> FALSE]>> \in Seq(Messages)
        BY <2>1, <3>2
      <3> HIDE DEF gone
      <3> QED
        BY <2>2, <3>1, <3>3
    <2>3. CASE "fetch" \notin uses
      BY <2>3
    <2> QED
      BY <2>2, <2>3
  <1>6. inbox \in Seq(Messages)
    BY DEF BusTyped
  <1> HIDE DEF r, gone, n
  <1>7. inbox' = inbox \o (r \o gone) /\ r \o gone \in Seq(Messages)
    <2>1. inbox' = (inbox \o r) \o gone
      BY <1>1 DEF r, gone
    <2>2. (inbox \o r) \o gone = inbox \o (r \o gone)
      BY <1>4, <1>5, <1>6, ConcatAssociative
    <2> QED
      BY <1>4, <1>5, <2>1, <2>2, Concatenated
  <1>8. \A k \in DOMAIN (r \o gone) :
           \/ \E c \in calls : (r \o gone)[k] = Reply(c, FALSE)
           \/ /\ "fetch" \in uses /\ k = Len(r \o gone)
              /\ (r \o gone)[k] = [m |-> "owner", up |-> FALSE]
    <2> SUFFICES ASSUME NEW k \in DOMAIN (r \o gone)
                 PROVE  \/ \E c \in calls : (r \o gone)[k] = Reply(c, FALSE)
                        \/ /\ "fetch" \in uses /\ k = Len(r \o gone)
                           /\ (r \o gone)[k] = [m |-> "owner", up |-> FALSE]
      OBVIOUS
    <2>1. CASE k \in DOMAIN r
      <3>1. (r \o gone)[k] = Reply(owed[k], FALSE)
        BY <1>4, <1>5, <2>1, Concatenated
      <3>2. owed[k] \in calls
        BY <1>3, <1>4, <2>1
      <3> QED
        BY <3>1, <3>2
    <2>2. CASE k \notin DOMAIN r
      <3>1. k \in Nat /\ k > n /\ k - n \in DOMAIN gone /\ (r \o gone)[k] = gone[k - n]
            /\ Len(r \o gone) = n + Len(gone)
        <4>1. k \in 1 .. Len(r) + Len(gone) /\ Len(r \o gone) = Len(r) + Len(gone)
          BY <1>4, <1>5, Concatenated
        <4>2. DOMAIN r = 1 .. Len(r) /\ Len(r) = n /\ n \in Nat /\ Len(gone) \in Nat
          BY <1>2, <1>4, <1>5
        <4>3. k \in Nat /\ k > n
          BY <2>2, <4>1, <4>2
        <4>4. k - Len(r) \in DOMAIN gone /\ (r \o gone)[k] = gone[k - Len(r)]
          BY <1>4, <1>5, <4>2, <4>3, Concatenated
        <4> QED
          BY <4>1, <4>2, <4>3, <4>4
      <3>2. "fetch" \in uses /\ gone = <<[m |-> "owner", up |-> FALSE]>>
        BY <1>5, <3>1
      <3>3. k - n = 1 /\ Len(gone) = 1 /\ gone[1] = [m |-> "owner", up |-> FALSE]
        BY <1>2, <3>1, <3>2
      <3>4. k = Len(r \o gone)
        BY <1>2, <3>1, <3>3
      <3> QED
        BY <3>1, <3>2, <3>3, <3>4
    <2> QED
      BY <2>1, <2>2
  <1>9. \A c \in calls : c \in calls' \/ \E k \in DOMAIN (r \o gone) :
                                             (r \o gone)[k] = Reply(c, FALSE)
    <2>1. calls' = calls \ had
      BY DEF DaemonDies
    <2>2. \A c \in had : \E k \in DOMAIN r : r[k] = Reply(c, FALSE)
      BY <1>3, <1>4
    <2> QED
      BY <1>4, <1>5, <2>1, <2>2, Concatenated
  <1>10. "fetch" \in uses => /\ Len(r \o gone) \in DOMAIN (r \o gone)
                             /\ (r \o gone)[Len(r \o gone)].m = "owner"
    <2> SUFFICES ASSUME "fetch" \in uses
                 PROVE  /\ Len(r \o gone) \in DOMAIN (r \o gone)
                        /\ (r \o gone)[Len(r \o gone)].m = "owner"
      OBVIOUS
    <2>1. Len(gone) = 1 /\ 1 \in DOMAIN gone /\ gone[1].m = "owner"
      BY <1>5
    <2>2. Len(r \o gone) = Len(r) + 1 /\ Len(r) + 1 \in DOMAIN (r \o gone)
          /\ (r \o gone)[Len(r) + 1] = gone[1]
      BY <1>4, <1>5, <2>1, Concatenated
    <2> QED
      BY <2>1, <2>2
  <1> QED
    BY <1>7, <1>8, <1>9, <1>10

\* What bluetoothd delivers: answers to calls it had, one for each it no longer
\* has; a question with a number of its own; a signal with a value its object
\* can have.  A pair it waits on the agent for is not answered.
Sent(s) ==
    /\ inbox' = inbox \o s
    /\ \A k \in DOMAIN s :
          /\ s[k].m \in {"ask", "authorize", "display"} =>
                /\ s[k].id = asks' /\ asks' = asks + 1
                /\ s[k].id = asking'.id /\ s[k].device = asking'.device
                /\ Len(s) = 1
          /\ s[k].m \in {"reply", "tree"} =>
                \E c \in calls : /\ c.serial = s[k].serial
                                 /\ \/ asking' = Nobody
                                    \/ ~(c.what = "pair" /\ asking'.device = c.about)
          /\ s[k].m \in {"added", "changed"} => s[k].value \in Values(s[k].path)
          /\ s[k].m = "owner" => "fetch" \in uses \/ ~up
    /\ \A c \in calls :
          \/ c \in calls'
          \/ \E k \in DOMAIN s : /\ s[k].m = (IF c.what = "objects" THEN "tree" ELSE "reply")
                                 /\ s[k].serial = c.serial

\* A single message that is no reply.
LEMMA SentOne ==
    ASSUME BusTyped, NEW m \in Messages, inbox' = Append(inbox, m),
           m.m \in {"ask", "authorize", "display"} =>
              /\ m.id = asks' /\ asks' = asks + 1
              /\ m.id = asking'.id /\ m.device = asking'.device,
           m.m \notin {"reply", "tree"},
           m.m \in {"added", "changed"} => m.value \in Values(m.path),
           m.m = "owner" => "fetch" \in uses \/ ~up,
           calls' = calls
    PROVE  <<m>> \in Seq(Messages) /\ Sent(<<m>>)
  <1>1. /\ <<m>> \in Seq(Messages) /\ inbox' = inbox \o <<m>>
        /\ DOMAIN <<m>> = {1} /\ <<m>>[1] = m /\ Len(<<m>>) = 1
    BY Appended DEF BusTyped
  <1> DEFINE s == <<m>>
  <1> HIDE DEF s
  <1>2. s \in Seq(Messages) /\ inbox' = inbox \o s /\ DOMAIN s = {1} /\ s[1] = m /\ Len(s) = 1
    BY <1>1 DEF s
  <1>3. Sent(s)
    BY <1>2 DEF Sent
  <1> QED
    BY <1>2, <1>3 DEF s

\* Whatever bluetoothd does, this is what it sends.
LEMMA Delivery ==
    ASSUME BusTyped, Bluetoothd
    PROVE  \E s \in Seq(Messages) : Sent(s)
  <1>1. ASSUME NEW c \in calls, NEW ok \in BOOLEAN, DaemonReplies(c, ok)
        PROVE  \E s \in Seq(Messages) : Sent(s)
    <2> DEFINE r == Reply(c, ok)
               s == <<r>>
    <2>1. /\ r \in Messages /\ r.serial = c.serial
          /\ r.m = IF c.what = "objects" THEN "tree" ELSE "reply"
      BY ReplyMessage
    <2>2. /\ inbox' = Append(inbox, r) /\ calls' = calls \ {c} /\ asking' = asking
          /\ ~(c.what = "pair" /\ asking.device = c.about)
      BY <1>1 DEF DaemonReplies, Deliver
    <2> HIDE DEF r
    <2>3. /\ s \in Seq(Messages) /\ inbox' = inbox \o s
          /\ DOMAIN s = {1} /\ s[1] = r
      BY <2>1, <2>2, Appended DEF BusTyped
    <2> HIDE DEF s
    <2>4. Sent(s)
      BY <2>1, <2>2, <2>3 DEF Sent
    <2> QED
      BY <2>3, <2>4
  <1>2. ASSUME NEW d \in Devices, NEW what \in {"ask", "authorize", "display"}, DaemonAsks(what, d)
        PROVE  \E s \in Seq(Messages) : Sent(s)
    <2> DEFINE r == [m |-> what, kind |-> "PASSKEY", device |-> d, id |-> asks + 1]
    <2>1. r \in Messages
      BY DEF Messages, BusTyped
    <2>2. inbox' = Append(inbox, r) /\ calls' = calls
          /\ asks' = asks + 1 /\ asking' = [id |-> asks + 1, device |-> d]
      BY <1>2 DEF DaemonAsks, Deliver
    <2> QED
      BY <2>1, <2>2, SentOne
  <1>3. CASE DaemonGivesUp
    <2>1. [m |-> "cancel"] \in Messages
      BY DEF Messages
    <2>2. inbox' = Append(inbox, [m |-> "cancel"]) /\ calls' = calls
      BY <1>3 DEF DaemonGivesUp, Deliver
    <2> QED
      BY <2>1, <2>2, SentOne
  <1>4. CASE DaemonReleases
    <2>1. [m |-> "release"] \in Messages
      BY DEF Messages
    <2>2. inbox' = Append(inbox, [m |-> "release"]) /\ calls' = calls
      BY <1>4 DEF DaemonReleases, Deliver
    <2> QED
      BY <2>1, <2>2, SentOne
  <1>5. CASE DaemonDies
    <2>1. asking' = Nobody
      BY <1>5 DEF DaemonDies
    <2>2. PICK s \in Seq(Messages) :
              /\ inbox' = inbox \o s
              /\ \A k \in DOMAIN s :
                    \/ \E c \in calls : s[k] = Reply(c, FALSE)
                    \/ "fetch" \in uses /\ k = Len(s) /\ s[k] = [m |-> "owner", up |-> FALSE]
              /\ \A c \in calls : c \in calls' \/ \E k \in DOMAIN s : s[k] = Reply(c, FALSE)
      BY <1>5, LastWords
    <2>3. \A c \in calls :
              /\ Reply(c, FALSE).serial = c.serial
              /\ Reply(c, FALSE).m = IF c.what = "objects" THEN "tree" ELSE "reply"
      BY ReplyMessage
    <2>4. ASSUME NEW k \in DOMAIN s
          PROVE  \/ s[k].m \in {"reply", "tree"} /\ \E c \in calls : c.serial = s[k].serial
                 \/ s[k].m = "owner" /\ "fetch" \in uses
      <3>1. CASE \E c \in calls : s[k] = Reply(c, FALSE)
        <4>1. PICK c \in calls : s[k] = Reply(c, FALSE)
          BY <3>1
        <4>2. s[k].serial = c.serial /\ s[k].m \in {"reply", "tree"}
          BY <2>3, <4>1
        <4> QED
          BY <4>2
      <3>2. CASE "fetch" \in uses /\ s[k] = [m |-> "owner", up |-> FALSE]
        BY <3>2
      <3> QED
        BY <2>2, <3>1, <3>2
    <2>5. ASSUME NEW c \in calls, c \notin calls'
          PROVE  \E k \in DOMAIN s :
                    /\ s[k].m = (IF c.what = "objects" THEN "tree" ELSE "reply")
                    /\ s[k].serial = c.serial
      <3>1. PICK k \in DOMAIN s : s[k] = Reply(c, FALSE)
        BY <2>2, <2>5
      <3>2. /\ s[k].m = (IF c.what = "objects" THEN "tree" ELSE "reply")
            /\ s[k].serial = c.serial
        BY <2>3, <3>1
      <3> QED
        BY <3>2
    <2>6. \A k \in DOMAIN s :
          /\ s[k].m \notin {"ask", "authorize", "display", "added", "changed"}
          /\ s[k].m \in {"reply", "tree"} =>
                \E c \in calls : c.serial = s[k].serial /\ asking' = Nobody
          /\ s[k].m = "owner" => "fetch" \in uses
      BY <2>1, <2>4
    <2>7. Sent(s)
      BY <2>2, <2>5, <2>6 DEF Sent
    <2> QED
      BY <2>7
  <1>6. CASE DaemonStarts
    <2>1. [m |-> "owner", up |-> TRUE] \in Messages
      BY DEF Messages
    <2>2. inbox' = Append(inbox, [m |-> "owner", up |-> TRUE]) /\ calls' = calls /\ ~up
      BY <1>6 DEF DaemonStarts, Deliver
    <2> QED
      BY <2>1, <2>2, SentOne
  <1>7. CASE DaemonChanges
    <2>1. calls' = calls
      BY <1>7 DEF DaemonChanges
    <2>2. PICK m : inbox' = Append(inbox, m) /\ m \in Messages
             /\ m.m \in Signals /\ (m.m # "removed" => m.value \in Values(m.path))
      <3>1. ASSUME NEW p \in Paths \ DOMAIN tree, NEW v \in Values(p),
                   inbox' = Append(inbox, [m |-> "added", path |-> p, value |-> v])
            PROVE  \E m : /\ inbox' = Append(inbox, m) /\ m \in Messages
                          /\ m.m \in Signals /\ (m.m # "removed" => m.value \in Values(m.path))
        <4>1. [m |-> "added", path |-> p, value |-> v] \in Messages
          BY DEF Messages, Values
        <4> QED
          BY <3>1, <4>1 DEF Signals
      <3>2. ASSUME NEW p \in DOMAIN tree,
                   inbox' = Append(inbox, [m |-> "removed", path |-> p])
            PROVE  \E m : /\ inbox' = Append(inbox, m) /\ m \in Messages
                          /\ m.m \in Signals /\ (m.m # "removed" => m.value \in Values(m.path))
        <4>1. [m |-> "removed", path |-> p] \in Messages
          BY TreeFunction DEF Messages, BusTyped
        <4> QED
          BY <3>2, <4>1 DEF Signals
      <3>3. ASSUME NEW p \in DOMAIN tree, NEW v \in Values(p),
                   inbox' = Append(inbox, [m |-> "changed", path |-> p, value |-> v])
            PROVE  \E m : /\ inbox' = Append(inbox, m) /\ m \in Messages
                          /\ m.m \in Signals /\ (m.m # "removed" => m.value \in Values(m.path))
        <4>1. [m |-> "changed", path |-> p, value |-> v] \in Messages
          BY TreeFunction DEF Messages, BusTyped, Values
        <4> QED
          BY <3>3, <4>1 DEF Signals
      <3> QED
        BY <1>7, <3>1, <3>2, <3>3 DEF DaemonChanges, Grow, Deliver
    <2> QED
      BY <2>1, <2>2, SentOne DEF Signals
  <1> QED
    BY <1>1, <1>2, <1>3, <1>4, <1>5, <1>6, <1>7 DEF Bluetoothd

\* What a step does to the inbox.
LEMMA InboxSteps ==
    ASSUME Next
    PROVE  \/ UNCHANGED inbox
           \/ inbox' = <<>> /\ calls' = {} /\ \E private \in BOOLEAN : Close(private)
           \/ Process
           \/ Bluetoothd
  <1>1. CASE Quiet
    BY <1>1 DEF Quiet, Open, AttachLoop, DetachLoop, Write, Read, Query, Take, Subscribe,
       CancelRequests, ConnectEnd, PairPoll, Disconnect, backend_write, backend_read,
       backend_query, backend_subscribe, backend_disconnect, send_call, send_logged, bus
  <1>2. CASE Flushed
    BY <1>2 DEF Flushed, Close, backend_close, ConnectBegin, PairBegin, PairCancel,
       AgentRegister, AgentUnregister, AgentSubmit, AgentReject, backend_connect,
       backend_pair, send_call, bus
  <1>3. CASE Lookup \/ Discovering \/ Discovery \/ Drain
    BY <1>3 DEF Lookup, Discovering, Discovery, Drain, send_logged, bus
  <1>4. CASE \E s \in Slots : Deadline(s)
    BY <1>4 DEF Deadline, TimerFires, ProcessDeadline, Overdue, bus
  <1> QED
    BY <1>1, <1>2, <1>3, <1>4 DEF Next, Caller

\* Questions have numbers of their own, and nobody but bluetoothd puts one.
LEMMA AskSteps ==
    ASSUME BusTyped, Next
    PROVE  \/ asks' = asks /\ asking' \in {asking, Nobody}
           \/ /\ Bluetoothd /\ asks' = asks + 1
              /\ \E d \in Devices : asking' = [id |-> asks + 1, device |-> d]
  <1>1. CASE Quiet
    BY <1>1 DEF Quiet, Open, AttachLoop, DetachLoop, Write, Read, Query, Take, Subscribe,
       CancelRequests, ConnectEnd, PairPoll, Disconnect, agent
  <1>2. CASE Flushed
    BY <1>2 DEF Flushed, Close, ConnectBegin, PairBegin, PairCancel, AgentRegister,
       AgentUnregister, AgentSubmit, AgentReject, AgentAnswered, agent_reject, agent
  <1>3. CASE Lookup \/ Discovering \/ Discovery \/ Drain
    BY <1>3 DEF Lookup, Discovering, Discovery, Drain, agent
  <1>4. CASE Process
    BY <1>4 DEF Process, HandleAsk, HandleAuthorize, HandleDisplay, HandleCancel, HandleRelease,
        HandleReply,
       ProcessTree, agent_defer, Answered
  <1>5. CASE \E s \in Slots : Deadline(s)
    BY <1>5 DEF Deadline, TimerFires, ProcessDeadline, Overdue, agent
  <1>6. CASE Bluetoothd
    BY <1>6 DEF Bluetoothd, DaemonReplies, DaemonAsks, DaemonGivesUp, DaemonReleases,
       DaemonDies, DaemonChanges, DaemonStarts, agent
  <1> QED
    BY <1>1, <1>2, <1>3, <1>4, <1>5, <1>6 DEF Next, Caller

\* A question has the number of one that was asked.
LEMMA AskTyped ==
    ASSUME BusTyped, Next
    PROVE  /\ asks' \in Nat /\ asks <= asks'
           /\ asking' \in [id : 0 .. asks', device : Devices \cup {None}]
  <1>1. asks \in Nat /\ asking \in [id : 0 .. asks, device : Devices \cup {None}]
    BY DEF BusTyped
  <1>2. Nobody \in [id : 0 .. asks, device : Devices \cup {None}]
    BY <1>1 DEF Nobody
  <1> QED
    BY <1>1, <1>2, AskSteps

\* The messages on their way keep their type.
LEMMA InboxTyped ==
    ASSUME CentralTyped, BusTyped, Next
    PROVE  /\ inbox' \in Seq(Messages)
           /\ \A i \in DOMAIN inbox' :
                 /\ inbox'[i].m \in {"ask", "authorize", "display"} => inbox'[i].id \in 1 .. asks'
                 /\ inbox'[i].m \in {"reply", "tree"} => inbox'[i].serial \in 1 .. serial'
                 /\ inbox'[i].m \in {"added", "changed"} =>
                       inbox'[i].value \in Values(inbox'[i].path)
  <1> DEFINE Sound(m) ==
          /\ m.m \in {"ask", "authorize", "display"} => m.id \in 1 .. asks'
          /\ m.m \in {"reply", "tree"} => m.serial \in 1 .. serial'
          /\ m.m \in {"added", "changed"} => m.value \in Values(m.path)
  <1>1. /\ inbox \in Seq(Messages) /\ asks \in Nat /\ asks' \in Nat /\ asks <= asks'
        /\ serial \in Nat /\ serial' \in Nat /\ serial <= serial'
    BY AskTyped, SerialGrows DEF BusTyped
  <1>2. \A i \in DOMAIN inbox : Sound(inbox[i])
    BY <1>1 DEF BusTyped
  <1>3. CASE UNCHANGED inbox
    BY <1>1, <1>2, <1>3
  <1>4. CASE inbox' = <<>>
    BY <1>4
  <1>5. CASE Process
    <2>1. inbox # <<>> /\ inbox' = Tail(inbox)
      BY <1>5 DEF Process
    <2>2. /\ inbox' \in Seq(Messages)
          /\ \A i \in DOMAIN inbox' : i + 1 \in DOMAIN inbox /\ inbox'[i] = inbox[i + 1]
      BY <1>1, <2>1, Popped
    <2> QED
      BY <1>2, <2>2
  <1>6. CASE Bluetoothd
    <2>1. PICK s \in Seq(Messages) : Sent(s)
      BY <1>6, Delivery
    <2>2. inbox' = inbox \o s
      BY <2>1 DEF Sent
    <2>3. \A k \in DOMAIN s : Sound(s[k])
      <3> SUFFICES ASSUME NEW k \in DOMAIN s PROVE Sound(s[k])
        OBVIOUS
      <3>1. s[k].m \in {"ask", "authorize", "display"} => s[k].id \in 1 .. asks'
        BY <1>1, <2>1 DEF Sent
      <3>2. s[k].m \in {"reply", "tree"} => s[k].serial \in 1 .. serial'
        <4>1. \A c \in calls : c.serial \in 1 .. serial'
          BY <1>1 DEF BusTyped
        <4> QED
          BY <2>1, <4>1 DEF Sent
      <3>3. s[k].m \in {"added", "changed"} => s[k].value \in Values(s[k].path)
        BY <2>1 DEF Sent
      <3> QED
        BY <3>1, <3>2, <3>3
    <2>4. \A i \in DOMAIN inbox' :
             (i \in DOMAIN inbox /\ inbox'[i] = inbox[i])
             \/ \E k \in DOMAIN s : inbox'[i] = s[k]
      BY <1>1, <2>2, Concatenated
    <2>5. inbox' \in Seq(Messages)
      BY <1>1, <2>2, Concatenated
    <2> HIDE DEF Sound
    <2>6. \A i \in DOMAIN inbox' : Sound(inbox'[i])
      BY <1>2, <2>3, <2>4
    <2> QED
      BY <2>5, <2>6 DEF Sound
  <1> QED
    BY <1>3, <1>4, <1>5, <1>6, InboxSteps

\* What the agent holds keeps its type.
LEMMA AgentTyped ==
    ASSUME CentralTyped, BusTyped, Next
    PROVE  /\ agent_request' \in [kind : {"NONE", "PASSKEY"}, device : Devices \cup {None}]
           /\ agent_pending' \in 0 .. asks'
           /\ answer' \in [device : Devices \cup {None}, waiting : BOOLEAN, consent : BOOLEAN]
  <1> DEFINE R == [kind : {"NONE", "PASSKEY"}, device : Devices \cup {None}]
             A == [device : Devices \cup {None}, waiting : BOOLEAN, consent : BOOLEAN]
  <1>1. /\ agent_request \in R /\ NoRequest \in R /\ NoAnswer \in A
        /\ agent_pending \in 0 .. asks' /\ 0 \in 0 .. asks'
    BY AskTyped DEF CentralTyped, BusTyped, NoRequest, NoAnswer
  <1>2. CASE /\ agent_request' \in {agent_request, NoRequest}
             /\ agent_pending' \in {agent_pending, 0}
             /\ answer' = NoAnswer
    BY <1>1, <1>2
  <1>3. CASE AgentSubmit
    <2>1. agent_request' = NoRequest /\ agent_pending' = 0
      BY <1>3 DEF AgentSubmit, AgentAnswered
    <2>2. answer' = [device |-> agent_request.device, consent |-> TRUE,
                     waiting |-> asking.id # 0 /\ asking.id = agent_pending]
      BY <1>3 DEF AgentSubmit
    <2>3. agent_request.device \in Devices \cup {None}
      BY <1>1
    <2> QED
      BY <1>1, <2>1, <2>2, <2>3
  <1>4. CASE /\ Process /\ Head(inbox).m \in {"authorize", "display"}
             /\ HandleAuthorize(Head(inbox)) \/ HandleDisplay(Head(inbox))
    <2>1. UNCHANGED <<agent_request, agent_pending>>
      BY <1>4 DEF HandleAuthorize, HandleDisplay
    <2>2. Head(inbox).device \in Devices
      BY <1>4, Popped, MessageFields DEF BusTyped, Process
    <2>3. \/ \E c \in BOOLEAN : answer' = [device |-> Head(inbox).device, consent |-> c,
                                           waiting |-> asking.id = Head(inbox).id]
          \/ answer' = NoAnswer
      BY <1>4 DEF HandleAuthorize, HandleDisplay
    <2>4. \A d \in Devices : \A b, c \in BOOLEAN :
             [device |-> d, consent |-> c, waiting |-> b] \in A
      OBVIOUS
    <2>5. (asking.id = Head(inbox).id) \in BOOLEAN
      OBVIOUS
    <2>6. answer' \in A
      BY <1>1, <2>2, <2>3, <2>4, <2>5, Zenon
    <2> QED
      BY <1>1, <2>1, <2>6
  <1>5. CASE Process /\ HandleAsk(Head(inbox)) /\ Head(inbox).m = "ask"
    <2>1. answer' = NoAnswer
      BY <1>5 DEF HandleAsk
    <2>2. Head(inbox).device \in Devices /\ Head(inbox).kind = "PASSKEY"
      BY <1>5, Popped, MessageFields DEF BusTyped, Process
    <2>3. Head(inbox).id \in 0 .. asks'
      <3>1. Head(inbox).id \in 1 .. asks
        BY <1>5, Popped DEF BusTyped, Process
      <3> QED
        BY <3>1, AskTyped DEF BusTyped
    <2>4. \/ UNCHANGED <<agent_request, agent_pending>>
          \/ /\ agent_request' = [kind |-> Head(inbox).kind, device |-> Head(inbox).device]
             /\ agent_pending' = Head(inbox).id
      BY <1>5 DEF HandleAsk, agent_defer
    <2> QED
      BY <1>1, <2>1, <2>2, <2>3, <2>4
  <1>6. \/ /\ agent_request' \in {agent_request, NoRequest}
           /\ agent_pending' \in {agent_pending, 0}
           /\ answer' = NoAnswer
        \/ AgentSubmit
        \/ /\ Process /\ Head(inbox).m \in {"authorize", "display"}
           /\ HandleAuthorize(Head(inbox)) \/ HandleDisplay(Head(inbox))
        \/ Process /\ HandleAsk(Head(inbox)) /\ Head(inbox).m = "ask"
    <2>1. CASE Quiet
      BY <2>1 DEF Quiet, Open, AttachLoop, DetachLoop, Write, Read, Query, Take, Subscribe,
         CancelRequests, ConnectEnd, PairPoll, Disconnect, agent
    <2>2. CASE Flushed
      BY <2>2 DEF Flushed, Close, backend_close, ConnectBegin, PairBegin, PairCancel,
         AgentRegister, AgentUnregister, AgentReject, AgentAnswered, agent_reject, agent
    <2>3. CASE Lookup \/ Discovering \/ Discovery \/ Drain
      BY <2>3 DEF Lookup, Discovering, Discovery, Drain, agent
    <2>4. CASE Process
      BY <2>4 DEF Process, HandleCancel, HandleRelease, HandleReply, ProcessTree
    <2>5. CASE \E s \in Slots : Deadline(s)
      BY <2>5 DEF Deadline, TimerFires, ProcessDeadline, Overdue, agent
    <2>6. CASE Bluetoothd
      <3>1. UNCHANGED <<agent_request, agent_pending>>
        BY <2>6, DaemonFrame DEF Daemon
      <3>2. answer' = NoAnswer
        BY <2>6 DEF Bluetoothd, DaemonReplies, DaemonAsks, DaemonGivesUp, DaemonReleases,
           DaemonDies, DaemonChanges, DaemonStarts
      <3> QED
        BY <3>1, <3>2
    <2> QED
      BY <2>1, <2>2, <2>3, <2>4, <2>5, <2>6 DEF Next, Caller
  <1> QED
    BY <1>2, <1>3, <1>4, <1>5, <1>6

\* What a step does to the copy.
LEMMA CopySteps ==
    ASSUME Next
    PROVE  \/ UNCHANGED copy
           \/ ~open' /\ objects_clear /\ objects_serial' = 0
           \/ Lookup
           \/ Discovering
           \/ Process /\ ProcessTree(Head(inbox))
  <1>1. CASE Caller
    BY <1>1 DEF Caller
  <1>2. CASE Discovery \/ Drain
    BY <1>2 DEF Discovery, Drain
  <1>3. CASE Process
    BY <1>3 DEF Process
  <1>4. CASE \E s \in Slots : Deadline(s)
    BY <1>4 DEF Deadline, TimerFires, ProcessDeadline
  <1>5. CASE Bluetoothd
    BY <1>5, DaemonFrame DEF Daemon, copy
  <1> QED
    BY <1>1, <1>2, <1>3, <1>4, <1>5 DEF Next

\* The copy is a tree.
LEMMA CopyTyped ==
    ASSUME CentralTyped, BusTyped, Next
    PROVE  /\ objects' \in Trees /\ objects_loaded' \in BOOLEAN
           /\ objects_serial' \in 0 .. serial'
  <1>1. /\ objects \in Trees /\ objects_loaded \in BOOLEAN /\ Empty \in Trees
        /\ tree \in Trees
        /\ objects_serial \in 0 .. serial' /\ 0 \in 0 .. serial'
        /\ serial' = serial + 1 => serial + 1 \in 0 .. serial'
    BY SerialGrows, EmptyTree DEF CentralTyped, BusTyped
  <1>2. CASE UNCHANGED copy
    BY <1>1, <1>2 DEF copy
  <1>3. CASE objects_clear /\ objects_serial' = 0
    BY <1>1, <1>3 DEF objects_clear
  <1>4. CASE Lookup
    <2>1. UNCHANGED copy \/ (objects_load(tree) /\ objects_serial' = 0)
      BY <1>4 DEF Lookup, objects_ensure
    <2> QED
      BY <1>1, <1>2, <2>1 DEF objects_load, objects_clear
  <1>5. CASE Discovering
    BY <1>1, <1>5 DEF Discovering, objects_request, Called
  <1>6. CASE Process /\ ProcessTree(Head(inbox))
    <2> DEFINE m == Head(inbox)
    <2>1. m \in Messages
      BY <1>6, Popped DEF BusTyped, Process
    <2>2. m.m = "tree" => m.tree \in Trees
      BY <2>1, MessageFields
    <2>3. Applied(objects, m) \in Trees
      BY <1>1, <2>1, AppliedTo
    <2> HIDE DEF m
    <2>4. CASE m.m = "tree" /\ HandleTree(m)
      BY <1>1, <2>2, <2>4 DEF HandleTree, objects_load, objects_clear, copy
    <2>5. CASE m.m = "owner" /\ HandleOwner(m)
      BY <1>1, <2>5 DEF HandleOwner, objects_request, objects_clear, Called
    <2>6. CASE HandleSignal(m)
      BY <1>1, <2>3, <2>6 DEF HandleSignal, Update, OutOfMemory, objects_clear
    <2>7. CASE handle_properties_changed(m)
      BY <1>1, <2>3, <2>7 DEF handle_properties_changed, Update, OutOfMemory, objects_clear
    <2> QED
      BY <1>6, <2>4, <2>5, <2>6, <2>7 DEF ProcessTree, m
  <1> QED
    BY <1>2, <1>3, <1>4, <1>5, <1>6, CopySteps

\* bluetoothd's tree.
LEMMA TreeTyped ==
    ASSUME BusTyped, Next
    PROVE  changes' \in Nat /\ up' \in BOOLEAN /\ tree' \in Trees
  <1> USE DEF BusTyped
  <1>1. CASE UNCHANGED daemon_tree
    BY <1>1 DEF daemon_tree
  <1>3. CASE DaemonDies
    BY <1>3, EmptyTree, BootTree DEF DaemonDies
  <1>4. CASE DaemonStarts
    BY <1>4, BootTree DEF DaemonStarts
  <1>5. CASE DaemonChanges
    <2>1. up' = up /\ changes' = changes + 1
      BY <1>5 DEF DaemonChanges, Grow, Deliver
    <2>2. \A p \in Paths \ DOMAIN tree : \A v \in Values(p) : With(tree, p, v) \in Trees
      BY PutTree DEF Values
    <2>3. \A p : objects_remove_interfaces(tree, p) \in Trees
      BY CutTree
    <2>4. \A p \in DOMAIN tree : \A v \in Values(p) : Replaced(tree, p, v) \in Trees
      BY SetTree DEF Values
    <2>5. tree' \in Trees
      BY <1>5, <2>2, <2>3, <2>4 DEF DaemonChanges, Grow, objects_remove_interfaces, Replaced
    <2> QED
      BY <2>1, <2>5
  <1>6. \/ UNCHANGED daemon_tree \/ DaemonDies \/ DaemonStarts \/ DaemonChanges
    <2>1. CASE Caller \/ Lookup \/ Discovering \/ Discovery \/ Process \/ Drain
      BY <2>1 DEF Caller, Lookup, Discovering, Discovery, Process, Drain
    <2>2. CASE \E s \in Slots : Deadline(s)
      BY <2>2 DEF Deadline, TimerFires, ProcessDeadline
    <2>3. CASE Bluetoothd
      BY <2>3 DEF Bluetoothd, DaemonReplies, DaemonAsks, DaemonGivesUp, DaemonReleases
    <2> QED
      BY <2>1, <2>2, <2>3 DEF Next
  <1> QED
    BY <1>1, <1>3, <1>4, <1>5, <1>6

\* Types are kept.
LEMMA TypesKept ==
    ASSUME CentralTyped, BusTyped, ValuesAreMatched, WatchesCover, Next
    PROVE  CentralTyped' /\ BusTyped'
  <1>1. CentralTyped'
    <2>1. uses' \in Uses
      BY LifeTyped DEF CentralTyped
    <2> QED
      BY <2>1, LifeTyped, RequestsTyped, LinksTyped, ValuesKept, AgentTyped, CopyTyped,
          OutputKept, SilentTyped
      DEF CentralTyped
  <1>2. BusTyped'
    <2>1. serial' \in Nat
      BY SerialGrows DEF BusTyped
    <2> QED
      BY <2>1, CallsTyped, AskTyped, TreeTyped, InboxTyped DEF BusTyped
  <1> QED
    BY <1>1, <1>2

-----------------------------------------------------------------------------
(* The bound on the traffic. *)

\* The bluetoothds to be noticed, after a message more.
LEMMA OwnersAppended ==
    ASSUME NEW q \in Seq(Messages), IsFiniteSet(OwnersUp(q))
    PROVE  /\ IsFiniteSet(OwnersUp(q \o <<OwnerUp>>))
           /\ Cardinality(OwnersUp(q \o <<OwnerUp>>)) = Cardinality(OwnersUp(q)) + 1
  <1>1. OwnerUp \in Messages
    BY DEF OwnerUp, Messages
  <1>2. OwnersUp(q \o <<OwnerUp>>) = OwnersUp(q) \cup {Len(q) + 1}
    BY <1>1 DEF OwnersUp
  <1>3. Len(q) + 1 \notin OwnersUp(q)
    BY DEF OwnersUp
  <1> QED
    BY <1>2, <1>3, FS_AddElement

\* The bluetoothds to be noticed, after a message less.
LEMMA OwnersPopped ==
    ASSUME NEW q \in Seq(Messages), q # <<>>, IsFiniteSet(OwnersUp(q))
    PROVE  /\ IsFiniteSet(OwnersUp(Tail(q)))
           /\ Cardinality(OwnersUp(Tail(q))) =
                 Cardinality(OwnersUp(q)) - (IF Head(q) = OwnerUp THEN 1 ELSE 0)
  <1> DEFINE S == OwnersUp(q) \ {1}
             T == OwnersUp(Tail(q))
             f == [i \in S |-> i - 1]
  <1>1. /\ \A i \in DOMAIN Tail(q) : i + 1 \in DOMAIN q /\ Tail(q)[i] = q[i + 1]
        /\ \A i \in DOMAIN q : i > 1 => i - 1 \in DOMAIN Tail(q) /\ Tail(q)[i - 1] = q[i]
        /\ 1 \in DOMAIN q /\ Head(q) = q[1]
        /\ DOMAIN q \subseteq Nat \ {0} /\ DOMAIN Tail(q) \subseteq Nat \ {0}
    BY Popped
  <1>2. f \in Bijection(S, T)
    <2>1. f \in [S -> T]
      BY <1>1 DEF OwnersUp
    <2>2. \A i, j \in S : f[i] = f[j] => i = j
      BY <1>1 DEF OwnersUp
    <2>3. \A t \in T : \E i \in S : f[i] = t
      <3> SUFFICES ASSUME NEW t \in T PROVE \E i \in S : f[i] = t
        OBVIOUS
      <3>1. t + 1 \in S /\ t \in Nat
        BY <1>1 DEF OwnersUp
      <3> QED
        BY <3>1
    <2> HIDE DEF S, T, f
    <2> QED
      BY <2>1, <2>2, <2>3 DEF Bijection, Injection, Surjection, IsInjective
  <1>3. IsFiniteSet(S) /\ Cardinality(S) = Cardinality(OwnersUp(q))
                                              - (IF 1 \in OwnersUp(q) THEN 1 ELSE 0)
    <2>1. Cardinality(OwnersUp(q)) \in Nat
      BY FS_CardinalityType
    <2>2. CASE 1 \in OwnersUp(q)
      BY <2>1, <2>2, FS_RemoveElement
    <2>3. CASE 1 \notin OwnersUp(q)
      <3>1. S = OwnersUp(q)
        BY <2>3
      <3> HIDE DEF S
      <3>2. IsFiniteSet(S) /\ Cardinality(S) = Cardinality(OwnersUp(q))
        BY <3>1
      <3> QED
        BY <2>1, <2>3, <3>2
    <2> QED
      BY <2>2, <2>3
  <1>4. IsFiniteSet(T) /\ Cardinality(T) = Cardinality(S)
    <2> HIDE DEF S, T, f
    <2>1. IsFiniteSet(S)
      BY <1>3
    <2>2. ExistsBijection(S, T)
      BY <1>2 DEF ExistsBijection
    <2> QED
      BY <2>1, <2>2, FS_Bijection
  <1>5. 1 \in OwnersUp(q) <=> Head(q) = OwnerUp
    BY <1>1 DEF OwnersUp
  <1> HIDE DEF S, f
  <1> QED
    BY <1>3, <1>4, <1>5

\* A step of the central's that calls has room to.
LEMMA RoomSteps ==
    ASSUME Next
    PROVE  \/ Process \/ Bluetoothd
           \/ /\ UNCHANGED <<asks, changes>>
              /\ serial' = serial \/ (Room /\ serial' = serial + 1)
  <1>1. CASE Caller
    <2>1. UNCHANGED changes
      BY <1>1 DEF Caller, daemon_tree
    <2>2. CASE Quiet
      BY <2>1, <2>2 DEF Quiet, Open, AttachLoop, DetachLoop, Write, Read, Query, Take,
         Subscribe, CancelRequests, ConnectEnd, PairPoll, Disconnect, backend_write,
         backend_read, backend_query, backend_subscribe, backend_disconnect, send_call,
         send_logged, Called, bus, agent
    <2>3. CASE Flushed
      BY <2>1, <2>3 DEF Flushed, Close, ConnectBegin, PairBegin, PairCancel,
         AgentRegister, AgentUnregister, AgentSubmit, AgentReject, backend_connect,
         backend_pair, send_call, Called, bus, agent
    <2> QED
      BY <1>1, <2>2, <2>3 DEF Caller
  <1>2. CASE Lookup \/ Discovering \/ Discovery \/ Drain
    BY <1>2 DEF Lookup, Discovering, Discovery, Drain, objects_request, send_logged, Called,
       bus, agent, daemon_tree
  <1>3. CASE \E s \in Slots : Deadline(s)
    BY <1>3 DEF Deadline, TimerFires, ProcessDeadline, Overdue, bus, agent, daemon_tree
  <1> QED
    BY <1>1, <1>2, <1>3 DEF Next

\* The bound is kept: a call is paid for when it is made, or, by a fetch that a
\* new bluetoothd sets off, when that bluetoothd came.
LEMMA BoundKept ==
    ASSUME CentralTyped, BusTyped, Bounded, Next
    PROVE  Bounded'
  <1> DEFINE n == Cardinality(OwnersUp(inbox))
             b == MaxTraffic[uses]
  <1>1. /\ inbox \in Seq(Messages) /\ serial \in Nat /\ asks \in Nat /\ changes \in Nat
        /\ IsFiniteSet(OwnersUp(inbox)) /\ n \in Nat /\ b \in Nat
        /\ serial + asks + changes + n <= b
        /\ MaxTraffic[uses]' = b
    BY FS_CardinalityType, Assumptions, LifeTyped DEF BusTyped, Bounded, CentralTyped
  <1>2. Room => serial + asks + changes + n < b
    BY DEF Room, OwnersUp, OwnerUp
  <1>3. ASSUME IsFiniteSet(OwnersUp(inbox')),
               serial' + asks' + changes' + Cardinality(OwnersUp(inbox')) <= b
        PROVE  Bounded'
    BY <1>1, <1>3 DEF Bounded, OwnersUp
  <1>4. CASE UNCHANGED inbox /\ ~Process /\ ~Bluetoothd
    <2>1. /\ UNCHANGED <<asks, changes>>
          /\ serial' = serial \/ (Room /\ serial' = serial + 1)
      BY <1>4, RoomSteps
    <2> HIDE DEF n, b
    <2> QED
      BY <1>1, <1>2, <1>3, <1>4, <2>1 DEF n
  <1>5. CASE inbox' = <<>> /\ calls' = {} /\ \E private \in BOOLEAN : Close(private)
    <2>1. OwnersUp(inbox') = {}
      BY <1>5 DEF OwnersUp
    <2>2. IsFiniteSet(OwnersUp(inbox')) /\ Cardinality(OwnersUp(inbox')) = 0
      BY <2>1, FS_EmptySet
    <2>3. serial' = serial /\ asks' = asks
      BY <1>5 DEF Close
    <2>4. changes' = changes \/ Process \/ Bluetoothd
      BY RoomSteps
    <2>5. changes' = changes
      BY <1>5, <2>4, DaemonFrame DEF Process, Daemon, Close
    <2> HIDE DEF n, b
    <2> QED
      BY <1>1, <1>3, <2>2, <2>3, <2>5
  <1>6. CASE Process
    <2> DEFINE k == IF Head(inbox) = OwnerUp THEN 1 ELSE 0
    <2>1. inbox # <<>> /\ inbox' = Tail(inbox) /\ asks' = asks /\ changes' = changes
      BY <1>6 DEF Process, daemon_tree
    <2>2. /\ IsFiniteSet(OwnersUp(inbox'))
          /\ Cardinality(OwnersUp(inbox')) = n - k
      BY <1>1, <2>1, OwnersPopped
    <2>3. serial' = serial \/ (serial' = serial + 1 /\ k = 1)
      <3>1. CASE Head(inbox).m = "owner" /\ Head(inbox).up
        <4>1. Head(inbox).up \in BOOLEAN
              /\ Head(inbox) = [m |-> "owner", up |-> Head(inbox).up]
          BY <1>1, <2>1, <3>1, Popped, MessageFields
        <4>2. Head(inbox) = OwnerUp
          BY <3>1, <4>1, Zenon DEF OwnerUp
        <4> QED
          BY <1>1, <4>2, SerialGrows
      <3>2. CASE ~(Head(inbox).m = "owner" /\ Head(inbox).up)
        BY <1>6, <3>2 DEF Process, ProcessTree, HandleOwner
      <3> QED
        BY <3>1, <3>2
    <2>4. k \in {0, 1}
      OBVIOUS
    <2> HIDE DEF n, b, k
    <2> QED
      BY <1>1, <1>3, <2>1, <2>2, <2>3, <2>4
  <1>7. CASE Bluetoothd
    <2>1. serial' = serial
      BY <1>7, DaemonFrame DEF Daemon
    <2>2. CASE DaemonStarts
      <3>1. /\ inbox' = inbox \o <<OwnerUp>> /\ asks' = asks /\ changes' = changes /\ Room
        <4>1. OwnerUp \in Messages
          BY DEF OwnerUp, Messages
        <4> QED
          BY <1>1, <2>2, <4>1, Appended DEF DaemonStarts, Deliver, OwnerUp, agent
      <3>2. /\ IsFiniteSet(OwnersUp(inbox'))
            /\ Cardinality(OwnersUp(inbox')) = n + 1
        BY <1>1, <3>1, OwnersAppended
      <3> HIDE DEF n, b
      <3> QED
        BY <1>1, <1>2, <1>3, <2>1, <3>1, <3>2
    <2>3. CASE ~DaemonStarts
      <3>1. OwnersUp(inbox') = OwnersUp(inbox)
        <4>1. PICK s \in Seq(Messages) :
                 inbox' = inbox \o s /\ \A k \in DOMAIN s : s[k] # OwnerUp
          <5>1. CASE DaemonDies
            <6>1. PICK s \in Seq(Messages) :
                    /\ inbox' = inbox \o s
                    /\ \A k \in DOMAIN s :
                          \/ \E c \in calls : s[k] = Reply(c, FALSE)
                          \/ s[k] = [m |-> "owner", up |-> FALSE]
              BY <5>1, LastWords
            <6>2. \A c \in calls : Reply(c, FALSE).m # "owner"
              BY ReplyMessage
            <6>3. \A c \in calls : Reply(c, FALSE) # OwnerUp
              <7>1. OwnerUp.m = "owner"
                BY DEF OwnerUp
              <7> QED
                BY <6>2, <7>1
            <6>4. [m |-> "owner", up |-> FALSE] # OwnerUp
              BY DEF OwnerUp
            <6> QED
              BY <6>1, <6>3, <6>4
          <5>2. CASE ~DaemonDies
            <6>1. PICK m : inbox' = Append(inbox, m) /\ m.m # "owner"
              <7>1. CASE \E c \in calls, ok \in BOOLEAN : DaemonReplies(c, ok)
                BY <7>1, ReplyMessage DEF DaemonReplies, Deliver
              <7>2. CASE \E d \in Devices :
                DaemonAsks("ask", d) \/ DaemonAsks("authorize", d) \/ DaemonAsks("display", d)
                BY <7>2 DEF DaemonAsks, Deliver
              <7>3. CASE DaemonGivesUp \/ DaemonReleases
                BY <7>3 DEF DaemonGivesUp, DaemonReleases, Deliver
              <7>4. CASE DaemonChanges
                <8>1. \A p, v : /\ [m |-> "added", path |-> p, value |-> v].m # "owner"
                                /\ [m |-> "changed", path |-> p, value |-> v].m # "owner"
                                /\ [m |-> "removed", path |-> p].m # "owner"
                  OBVIOUS
                <8> QED
                  BY <7>4, <8>1 DEF DaemonChanges, Grow, Deliver
              <7> QED
                BY <1>7, <2>3, <5>2, <7>1, <7>2, <7>3, <7>4 DEF Bluetoothd
            <6>2. inbox' \in Seq(Messages)
              BY InboxTyped
            <6>3. m \in Messages
              BY <1>1, <6>1, <6>2
            <6>4. m # OwnerUp
              BY <6>1 DEF OwnerUp
            <6>5. /\ <<m>> \in Seq(Messages) /\ inbox' = inbox \o <<m>>
                  /\ DOMAIN <<m>> = {1} /\ <<m>>[1] = m
              BY <1>1, <6>1, <6>3, Appended
            <6> QED
              BY <6>4, <6>5
          <5> QED
            BY <5>1, <5>2
        <4>2. /\ \A i \in DOMAIN inbox : i \in DOMAIN inbox' /\ inbox'[i] = inbox[i]
              /\ \A i \in DOMAIN inbox' : i \in DOMAIN inbox \/ inbox'[i] # OwnerUp
          BY <1>1, <4>1, Concatenated
        <4> QED
          BY <4>2 DEF OwnersUp
      <3>2. \/ asks' = asks /\ changes' = changes
            \/ Room /\ asks' = asks + 1 /\ changes' = changes
            \/ Room /\ asks' = asks /\ changes' = changes + 1
        BY <1>7, <2>3 DEF Bluetoothd, DaemonReplies, DaemonAsks, DaemonGivesUp,
           DaemonReleases, DaemonDies, DaemonChanges, Grow, Deliver, daemon_tree, agent
      <3>3. Cardinality(OwnersUp(inbox')) = n /\ IsFiniteSet(OwnersUp(inbox'))
        BY <1>1, <3>1
      <3> HIDE DEF n, b
      <3> QED
        BY <1>1, <1>2, <1>3, <2>1, <3>2, <3>3
    <2> QED
      BY <2>2, <2>3
  <1> QED
    BY <1>4, <1>5, <1>6, <1>7, InboxSteps

-----------------------------------------------------------------------------
(* Whose answer it is. *)

\* A reply finishes the request whose token it carries, and that is its call.
LEMMA RequestsOwn ==
    ASSUME CentralTyped, BusTyped, OwnCalls, AnswerIsOwn, Next
    PROVE  \A s \in Slots :
              /\ req'[s].state = 1 => req'[s].token = req'[s].call /\ req'[s].token # 0
              /\ req'[s].state = 2 => req'[s].result \in {0, req'[s].call}
  <1> USE DEF CentralTyped, BusTyped, OwnCalls, AnswerIsOwn, Requests
  <1>1. CASE UNCHANGED <<req, timers>>
    BY <1>1
  <1>2. CASE \E S \in SUBSET Slots : pending_cancel(S)
    BY <1>2 DEF pending_cancel, Idle
  <1>3. CASE \E s \in Slots : pending_start(s, serial + 1)
    BY <1>3 DEF pending_start
  <1>4. CASE \E s \in Slots : \E r \in {0, req[s].token} :
                   req[s].state = 1 /\ req' = [req EXCEPT ![s] = Done(req[s], r)]
    BY <1>4 DEF Done
  <1>5. CASE req' = [s \in Slots |-> Idle]
    BY <1>5 DEF Idle
  <1> QED
    BY <1>1, <1>2, <1>3, <1>4, <1>5, RequestSteps DEF RequestStep

\* A connect or a pair in flight waits for its own call.
LEMMA LinksOwn ==
    ASSUME CentralTyped, BusTyped, OwnCalls, AnswerIsOwn, Next
    PROVE  \A l \in {connect', pair'} :
              /\ l.state = 1 => l.token = l.call /\ l.token # 0
              /\ l.state = 2 => l.result = l.call
  <1> DEFINE Own(l) == /\ l.state = 1 => l.token = l.call /\ l.token # 0
                       /\ l.state = 2 => l.result = l.call
  <1>1. serial \in Nat /\ Own(connect) /\ Own(pair)
    BY DEF BusTyped, OwnCalls, AnswerIsOwn
  <1>2. Own(IdleLink) /\ \A d : Own(Begun(serial + 1, d))
    BY <1>1 DEF IdleLink, Begun
  <1>3. \A l : l.state = 1 /\ Own(l) => Own(Ended(l))
    BY DEF Ended
  <1> HIDE DEF Own
  <1>4. Own(connect') /\ Own(pair')
    BY <1>1, <1>2, <1>3, LinkSteps DEF LinkStep
  <1> QED
    BY <1>4 DEF Own

\* Nobody takes the answer to another call.
LEMMA OwnKept ==
    ASSUME CentralTyped, BusTyped, OwnCalls, AnswerIsOwn, Next
    PROVE  OwnCalls' /\ AnswerIsOwn'
  BY RequestsOwn, LinksOwn DEF OwnCalls, AnswerIsOwn

\* A request begun has the serial of the call made for it.
LEMMA RequestBegins ==
    ASSUME CentralTyped, BusTyped, Next, NEW s \in Slots, req'[s].state = 1
    PROVE  \/ req[s].state = 1 /\ req'[s].token = req[s].token
           \/ /\ serial' = serial + 1 /\ req'[s].token = serial + 1
              /\ UNCHANGED <<connect, pair>>
  <1> USE DEF CentralTyped, BusTyped, Requests
  <1>1. CASE UNCHANGED <<req, timers>>
    BY <1>1
  <1>2. CASE \E S \in SUBSET Slots : pending_cancel(S)
    BY <1>2 DEF pending_cancel, Idle
  <1>3. CASE serial' = serial + 1 /\ \E t \in Slots : pending_start(t, serial + 1)
    <2>1. PICK t \in Slots : pending_start(t, serial + 1)
      BY <1>3
    <2>2. CASE t = s
      <3>1. req'[s].token = serial + 1
        BY <2>1, <2>2 DEF pending_start
      <3>2. UNCHANGED <<connect, pair>>
        <4>0. serial' # serial
          BY <1>3
        <4>1. req' # req
          BY <2>1, <2>2, <3>1 DEF pending_start
        <4>2. ~Flushed \/ serial' = serial \/ req' = req
          BY DEF Flushed, Close, ConnectBegin, PairBegin, PairCancel, AgentRegister,
             AgentUnregister, AgentSubmit, AgentReject, requests
        <4>3. ~(Lookup \/ Discovering \/ Discovery \/ Drain \/ Bluetoothd)
          BY <4>1, DaemonFrame DEF Lookup, Discovering, Discovery, Drain, requests, Daemon
        <4>4. ~\E i \in Slots : Deadline(i)
          BY <1>3 DEF Deadline, TimerFires, ProcessDeadline, Overdue, bus
        <4>5. ~Process
          <5>1. Process => UNCHANGED serial \/ ProcessTree(Head(inbox))
            BY DEF Process
          <5>2. ProcessTree(Head(inbox)) => UNCHANGED req
            BY DEF ProcessTree, requests
          <5> QED
            BY <4>0, <4>1, <5>1, <5>2
        <4>6. Quiet
          BY <4>0, <4>1, <4>2, <4>3, <4>4, <4>5 DEF Next, Caller
        <4>7. Quiet => serial' = serial \/ UNCHANGED <<connect, pair>>
          BY DEF Quiet, Open, AttachLoop, DetachLoop, Write, Read, Query, Take, Subscribe,
             CancelRequests, ConnectEnd, PairPoll, Disconnect, links, bus
        <4> QED
          BY <1>3, <4>6, <4>7
      <3> QED
        BY <1>3, <3>1, <3>2
    <2>3. CASE t # s
      BY <2>1, <2>3 DEF pending_start
    <2> QED
      BY <2>2, <2>3
  <1>4. CASE \E t \in Slots : \E r \in {0, req[t].token} :
                   req[t].state = 1 /\ req' = [req EXCEPT ![t] = Done(req[t], r)]
    BY <1>4 DEF Done
  <1>5. CASE req' = [t \in Slots |-> Idle]
    BY <1>5 DEF Idle
  <1> QED
    BY <1>1, <1>2, <1>3, <1>4, <1>5, RequestSteps DEF RequestStep

\* And so has a connect or a pair.
LEMMA LinkBegins ==
    ASSUME CentralTyped, Next
    PROVE  /\ connect'.state = 1 =>
                 \/ connect' = connect
                 \/ /\ serial' = serial + 1 /\ connect'.token = serial + 1
                    /\ calls' = calls \cup {[serial |-> serial + 1, what |-> "connect",
                                             about |-> None]}
                    /\ pair' = pair
           /\ pair'.state = 1 =>
                 \/ pair' = pair
                 \/ /\ serial' = serial + 1 /\ pair'.token = serial + 1
                    /\ pair.state # 1 /\ UNCHANGED inbox
                    /\ calls' = calls \cup {[serial |-> serial + 1, what |-> "pair",
                                             about |-> pair'.address]}
                    /\ connect' = connect
  <1>1. IdleLink.state = 0 /\ \A l : Ended(l).state = 2
    BY DEF IdleLink, Ended
  <1>2. \A n, d : Begun(n, d).token = n /\ Begun(n, d).address = d
    BY DEF Begun
  <1> QED
    BY <1>1, <1>2, LinkSteps DEF LinkStep

\* A fetch that is awaited is the last, or a call just made.
LEMMA FetchBegins ==
    ASSUME Next
    PROVE  \/ objects_serial' \in {objects_serial, 0}
           \/ objects_serial' = serial + 1 /\ Called("objects", None)
  <1>1. CASE UNCHANGED copy
    BY <1>1 DEF copy
  <1>2. CASE Lookup
    BY <1>2 DEF Lookup, objects_ensure, copy
  <1>3. CASE Discovering
    BY <1>3 DEF Discovering, objects_request
  <1>4. CASE ProcessTree(Head(inbox))
    BY <1>4 DEF ProcessTree, HandleTree, HandleOwner, HandleSignal,
        handle_properties_changed,
       Update, OutOfMemory, objects_request, copy
  <1> QED
    BY <1>1, <1>2, <1>3, <1>4, CopySteps

\* No two wait for the same reply.
LEMMA EachKept ==
    ASSUME CentralTyped, BusTyped, OneEach, Next
    PROVE  OneEach'
  <1>0. /\ serial \in Nat /\ \A s \in Slots : req[s].token \in 0 .. serial
        /\ connect.token \in 0 .. serial /\ pair.token \in 0 .. serial
        /\ objects_serial \in 0 .. serial
        /\ \A c \in calls : c.serial \in 1 .. serial
    BY DEF CentralTyped, BusTyped, Requests, Links
  <1>1. \A s \in Slots : \A l \in {connect', pair'} :
           req'[s].state = 1 /\ l.state = 1 => req'[s].token # l.token
    <2> SUFFICES ASSUME NEW s \in Slots, req'[s].state = 1
                 PROVE  /\ connect'.state = 1 => req'[s].token # connect'.token
                        /\ pair'.state = 1 => req'[s].token # pair'.token
      OBVIOUS
    <2>1. CASE req[s].state = 1 /\ req'[s].token = req[s].token
      BY <1>0, <2>1, LinkBegins DEF OneEach
    <2>2. CASE req'[s].token = serial + 1 /\ UNCHANGED <<connect, pair>>
      BY <1>0, <2>2
    <2> QED
      BY <2>1, <2>2, RequestBegins
  <1>2. connect'.state = 1 /\ pair'.state = 1 => connect'.token # pair'.token
    BY <1>0, LinkBegins DEF OneEach
  <1>3. ASSUME NEW c \in calls'
        PROVE  /\ connect'.state = 1 /\ c.serial = connect'.token => c.what = "connect"
               /\ pair'.state = 1 /\ c.serial = pair'.token =>
                     c.what = "pair" /\ c.about = pair'.address
               /\ c.serial = objects_serial' => c.what = "objects"
    <2>1. c \in calls \/ (c.serial = serial + 1 /\ serial' = serial + 1)
      BY CallSteps DEF CallStep, Called
    <2>2. connect'.state = 1 /\ c.serial = connect'.token => c.what = "connect"
      BY <1>0, <2>1, LinkBegins DEF OneEach
    <2>3. pair'.state = 1 /\ c.serial = pair'.token =>
             c.what = "pair" /\ c.about = pair'.address
      BY <1>0, <2>1, LinkBegins DEF OneEach
    <2>4. c.serial = objects_serial' => c.what = "objects"
      BY <1>0, <2>1, FetchBegins DEF OneEach, Called
    <2> QED
      BY <2>2, <2>3, <2>4
  <1> QED
    BY <1>1, <1>2, <1>3 DEF OneEach

\* The answer to a call made before this step can still come, unless it is the
\* message the step takes.
OnItsWay(w, n) ==
    \/ \E c \in calls : c.serial = n
    \/ \E i \in DOMAIN inbox : inbox[i].m = w /\ inbox[i].serial = n

\* An answer that can come can still come after a step, or is taken by it.
LEMMA StillComing ==
    ASSUME CentralTyped, BusTyped, Next, open', NEW n, NEW w, OnItsWay(w, n),
           \A c \in calls : c.serial = n => w = IF c.what = "objects" THEN "tree" ELSE "reply",
           ~(Process /\ Head(inbox).m = w /\ Head(inbox).serial = n)
    PROVE  OnItsWay(w, n)'
  <1>0. inbox \in Seq(Messages)
    BY DEF BusTyped
  <1>1. CASE Bluetoothd
    <2>1. PICK s \in Seq(Messages) : Sent(s)
      BY <1>1, Delivery
    <2>2. /\ \A i \in DOMAIN inbox : i \in DOMAIN inbox' /\ inbox'[i] = inbox[i]
          /\ \A k \in DOMAIN s :
                Len(inbox) + k \in DOMAIN inbox' /\ inbox'[Len(inbox) + k] = s[k]
      BY <1>0, <2>1, Concatenated DEF Sent
    <2>3. CASE \E c \in calls : c.serial = n
      <3>1. PICK c \in calls : c.serial = n
        BY <2>3
      <3>2. w = IF c.what = "objects" THEN "tree" ELSE "reply"
        BY <3>1
      <3>3. c \in calls' \/ \E k \in DOMAIN s :
                /\ s[k].m = IF c.what = "objects" THEN "tree" ELSE "reply"
                /\ s[k].serial = c.serial
        BY <2>1 DEF Sent
      <3>4. c \in calls' \/ \E k \in DOMAIN s : s[k].m = w /\ s[k].serial = n
        BY <3>1, <3>2, <3>3, Zenon
      <3> QED
        BY <2>2, <3>1, <3>4 DEF OnItsWay
    <2>4. CASE \E i \in DOMAIN inbox : inbox[i].m = w /\ inbox[i].serial = n
      BY <2>2, <2>4 DEF OnItsWay
    <2> QED
      BY <2>3, <2>4 DEF OnItsWay
  <1>2. CASE Process
    <2>1. \A c \in calls : c \in calls'
      <3>1. Process => calls' = calls \/ Called("objects", None)
        BY DEF Process, ProcessTree, HandleOwner, objects_request
      <3> QED
        BY <1>2, <3>1 DEF Called
    <2>2. inbox # <<>> /\ inbox' = Tail(inbox)
      BY <1>2 DEF Process
    <2>3. ASSUME NEW i \in DOMAIN inbox, inbox[i].m = w, inbox[i].serial = n
          PROVE  \E j \in DOMAIN inbox' : inbox'[j].m = w /\ inbox'[j].serial = n
      <3>1. i # 1
        BY <1>0, <1>2, <2>2, <2>3, Popped
      <3>2. i - 1 \in DOMAIN inbox' /\ inbox'[i - 1] = inbox[i]
        BY <1>0, <2>2, <3>1, Popped
      <3> QED
        BY <2>3, <3>2
    <2> QED
      BY <2>1, <2>3 DEF OnItsWay
  <1>3. CASE ~Bluetoothd /\ ~Process
    <2>1. UNCHANGED inbox
      BY <1>3, InboxSteps DEF Close
    <2>2. \A c \in calls : c \in calls'
      <3>1. CASE \E private \in BOOLEAN : Close(private)
        BY <3>1 DEF Close
      <3>2. CASE ~\E private \in BOOLEAN : Close(private)
        <4>1. calls' = calls \/ \E what, about : Called(what, about)
          <5>1. CASE Quiet
            BY <5>1 DEF Quiet, Open, AttachLoop, DetachLoop, Write, Read, Query, Take,
               Subscribe, CancelRequests, ConnectEnd, PairPoll, Disconnect, backend_write,
               backend_read, backend_query, backend_subscribe, backend_disconnect,
               send_call,
               send_logged, bus
          <5>2. CASE Flushed
            BY <3>2, <5>2 DEF Flushed, ConnectBegin, PairBegin, PairCancel, AgentRegister,
               AgentUnregister, AgentSubmit, AgentReject, backend_connect, backend_pair,
               send_call, bus
          <5>3. CASE Lookup \/ Discovering \/ Discovery \/ Drain
            BY <5>3 DEF Lookup, Discovering, Discovery, Drain, objects_request,
                send_logged, bus
          <5>4. CASE \E s \in Slots : Deadline(s)
            BY <5>4 DEF Deadline, TimerFires, ProcessDeadline, Overdue, bus
          <5> QED
            BY <1>3, <5>1, <5>2, <5>3, <5>4 DEF Next, Caller
        <4> QED
          BY <4>1 DEF Called
      <3> QED
        BY <3>1, <3>2
    <2> QED
      BY <2>1, <2>2 DEF OnItsWay
  <1> QED
    BY <1>1, <1>2, <1>3

\* A connect or a pair in flight can still be answered.
LEMMA FinishKept ==
    ASSUME CentralTyped, BusTyped, OwnCalls, OneEach, LinkCanFinish, Next
    PROVE  LinkCanFinish'
  <1> SUFFICES ASSUME open'
               PROVE  /\ connect'.state = 1 => connect'.token # 0 /\ Coming(connect.token)'
                      /\ pair'.state = 1 => pair'.token # 0 /\ Coming(pair.token)'
    BY DEF LinkCanFinish
  <1>0. serial \in Nat
    BY DEF BusTyped
  <1>1. CASE ~open
    <2>1. ~open => Open \/ ~open' \/ (connect'.state # 1 /\ pair'.state # 1)
      <3>1. CASE Quiet
        BY <3>1 DEF Quiet, AttachLoop, DetachLoop, Write, Read, Query, Take, Subscribe,
           CancelRequests, ConnectEnd, PairPoll, Disconnect
      <3>2. CASE Flushed
        BY <3>2 DEF Flushed, Close, ConnectBegin, PairBegin, PairCancel, AgentRegister,
           AgentUnregister, AgentSubmit, AgentReject
      <3>3. CASE Lookup \/ Discovering \/ Discovery \/ Drain \/ Process
        BY <3>3 DEF Lookup, Discovering, Discovery, Drain, Process
      <3>4. CASE \E s \in Slots : Deadline(s)
        BY <3>4 DEF Deadline, TimerFires, ProcessDeadline, Overdue
      <3>5. CASE Bluetoothd
        BY <3>5, DaemonFrame DEF Daemon
      <3> QED
        BY <3>1, <3>2, <3>3, <3>4, <3>5 DEF Next, Caller
    <2> QED
      BY <1>1, <2>1 DEF Open, IdleLink
  <1>2. CASE open
    <2>1. connect.state = 1 => connect.token # 0 /\ Coming(connect.token)
      BY <1>2 DEF LinkCanFinish
    <2>2. pair.state = 1 => pair.token # 0 /\ Coming(pair.token)
      BY <1>2 DEF LinkCanFinish
    <2>3. connect'.state = 1 => connect'.token # 0 /\ Coming(connect.token)'
      <3> SUFFICES ASSUME connect'.state = 1
                   PROVE  connect'.token # 0 /\ Coming(connect.token)'
        OBVIOUS
      <3>1. CASE connect' = connect
        <4>1. ~(Process /\ Head(inbox).m = "reply" /\ Head(inbox).serial = connect.token)
          <5> SUFFICES ASSUME Process, Head(inbox).m = "reply",
                              Head(inbox).serial = connect.token
                       PROVE  FALSE
            OBVIOUS
          <5>1. HandleReply(Head(inbox))
            BY DEF Process, ProcessTree
          <5>2. \A s \in Slots : ~Awaits(s, connect.token)
            BY <3>1 DEF OneEach, Awaits
          <5>3. ~(pair.state = 1 /\ pair.token = connect.token)
            BY <3>1 DEF OneEach
          <5>4. connect' = connect_finish(connect.token)
            BY <3>1, <5>1, <5>2, <5>3 DEF HandleReply
          <5>5. connect_finish(connect.token) = Ended(connect)
            BY <3>1, EndedLink DEF connect_finish, CentralTyped
          <5> QED
            BY <5>4, <5>5 DEF Ended
        <4>2. \A c \in calls : c.serial = connect.token => c.what # "objects"
          BY <3>1 DEF OneEach
        <4>3. ASSUME NEW n, n = connect.token PROVE Coming(n)'
          <5>1. OnItsWay("reply", n)
            BY <2>1, <3>1, <4>3 DEF Coming, OnItsWay
          <5>2. OnItsWay("reply", n)'
            BY <4>1, <4>2, <4>3, <5>1, StillComing
          <5> QED
            BY <5>2 DEF Coming, OnItsWay
        <4>4. \A n : n = connect.token => Coming(n)'
          BY <4>3
        <4> QED
          BY <2>1, <3>1, <4>4 DEF Coming
      <3>2. CASE /\ connect'.token = serial + 1
                 /\ calls' = calls \cup {[serial |-> serial + 1, what |-> "connect",
                                          about |-> None]}
        <4>1. [serial |-> serial + 1, what |-> "connect", about |-> None].serial = serial + 1
          OBVIOUS
        <4>2. \E c \in calls' : c.serial = connect'.token
          BY <3>2, <4>1
        <4>3. connect'.token # 0
          BY <1>0, <3>2
        <4> QED
          BY <4>2, <4>3 DEF Coming
      <3> QED
        BY <3>1, <3>2, LinkBegins
    <2>4. pair'.state = 1 => pair'.token # 0 /\ Coming(pair.token)'
      <3> SUFFICES ASSUME pair'.state = 1
                   PROVE  pair'.token # 0 /\ Coming(pair.token)'
        OBVIOUS
      <3>1. CASE pair' = pair
        <4>1. ~(Process /\ Head(inbox).m = "reply" /\ Head(inbox).serial = pair.token)
          <5> SUFFICES ASSUME Process, Head(inbox).m = "reply", Head(inbox).serial = pair.token
                       PROVE  FALSE
            OBVIOUS
          <5>1. HandleReply(Head(inbox))
            BY DEF Process, ProcessTree
          <5>2. \A s \in Slots : ~Awaits(s, pair.token)
            BY <3>1 DEF OneEach, Awaits
          <5>3. pair' = pair_finish(pair.token)
            BY <3>1, <5>1, <5>2 DEF HandleReply
          <5>4. pair_finish(pair.token) = Ended(pair)
            BY <3>1, EndedLink DEF pair_finish, CentralTyped
          <5> QED
            BY <5>3, <5>4 DEF Ended
        <4>2. \A c \in calls : c.serial = pair.token => c.what # "objects"
          BY <3>1 DEF OneEach
        <4>3. ASSUME NEW n, n = pair.token PROVE Coming(n)'
          <5>1. OnItsWay("reply", n)
            BY <2>2, <3>1, <4>3 DEF Coming, OnItsWay
          <5>2. OnItsWay("reply", n)'
            BY <4>1, <4>2, <4>3, <5>1, StillComing
          <5> QED
            BY <5>2 DEF Coming, OnItsWay
        <4>4. \A n : n = pair.token => Coming(n)'
          BY <4>3
        <4> QED
          BY <2>2, <3>1, <4>4 DEF Coming
      <3>2. CASE /\ pair'.token = serial + 1
                 /\ calls' = calls \cup {[serial |-> serial + 1, what |-> "pair",
                                          about |-> pair'.address]}
        <4>1. [serial |-> serial + 1, what |-> "pair", about |-> pair'.address].serial
                 = serial + 1
          OBVIOUS
        <4>2. \E c \in calls' : c.serial = pair'.token
          BY <3>2, <4>1
        <4>3. pair'.token # 0
          BY <1>0, <3>2
        <4> QED
          BY <4>2, <4>3 DEF Coming
      <3> QED
        BY <3>1, <3>2, LinkBegins
    <2> QED
      BY <2>3, <2>4
  <1> QED
    BY <1>1, <1>2

-----------------------------------------------------------------------------
(* The agent. *)

\* bluetoothd waits for the question the backend holds.
Held == asking.id # 0 /\ asking.id = agent_pending

\* What a step does to what is held.
AgentStep ==
    \/ UNCHANGED <<agent_request, agent_pending>> /\ (open' = open \/ agent_pending = 0)
       /\ (pair' = pair \/ pair.state # 1 \/ agent_pending = 0 \/ Process)
    \/ agent_request' = NoRequest /\ agent_pending' = 0
    \/ Open
    \/ ~open' /\ agent_pending' = 0
    \/ Process /\ Head(inbox).m = "ask" /\ pair' = pair /\ agent_defer(Head(inbox))
       /\ agent_call_is_ours(Head(inbox).device)

\* Every step does one of these to the agent.
LEMMA AgentSteps ==
    ASSUME CentralTyped, Asked, AgentAnswersForPair, Next
    PROVE  AgentStep
  <1>0. open \in BOOLEAN /\ open' \in BOOLEAN
    BY LifeTyped DEF CentralTyped
  <1>1. CASE Quiet
    <2>1. CASE Open
      BY <2>1 DEF AgentStep
    <2>2. CASE PairPoll
      <3>1. pair.state # 1
        BY <2>2 DEF PairPoll
      <3> QED
        BY <2>2, <3>1 DEF AgentStep, PairPoll, agent
    <2>3. CASE ~Open /\ ~PairPoll
      <3>1. UNCHANGED <<agent_request, agent_pending, open, pair>>
        BY <1>1, <2>3 DEF Quiet, AttachLoop, DetachLoop, Write, Read, Query, Take,
            Subscribe,
           CancelRequests, ConnectEnd, Disconnect, agent, links
      <3> QED
        BY <3>1 DEF AgentStep
    <2> QED
      BY <2>1, <2>2, <2>3
  <1>2. CASE Flushed
    <2>1. CASE \E private \in BOOLEAN : Close(private)
      BY <2>1 DEF AgentStep, Close, backend_close
    <2>2. CASE ConnectBegin \/ \E d \in Devices : PairBegin(d)
      BY <2>2 DEF AgentStep, ConnectBegin, PairBegin, agent
    <2>3. CASE AgentRegister
      BY <2>3 DEF AgentStep, AgentRegister, links
    <2>4. CASE AgentUnregister
      BY <2>4 DEF AgentStep, AgentUnregister
    <2>5. CASE AgentSubmit
      BY <2>5 DEF AgentStep, AgentSubmit, AgentAnswered
    <2>6. CASE AgentReject \/ PairCancel
      <3>1. agent_reject /\ open' = open
        BY <2>6 DEF AgentReject, PairCancel
      <3>2. CASE agent_request.kind = "NONE"
        <4>1. UNCHANGED <<agent_request, agent_pending>>
          BY <3>1, <3>2 DEF agent_reject
        <4>2. open => agent_pending = 0
          BY <3>2 DEF AgentAnswersForPair
        <4>3. agent_pending = 0
          BY <4>2 DEF Asked
        <4> QED
          BY <3>1, <4>1, <4>3 DEF AgentStep
      <3>3. CASE agent_request.kind # "NONE" /\ open
        BY <3>1, <3>3 DEF AgentStep, agent_reject, AgentAnswered
      <3>4. CASE agent_request.kind # "NONE" /\ ~open
        BY <3>1, <3>4 DEF AgentStep, agent_reject, Asked
      <3> QED
        BY <3>2, <3>3, <3>4
    <2> QED
      BY <1>2, <2>1, <2>2, <2>3, <2>4, <2>5, <2>6 DEF Flushed
  <1>3. CASE Lookup \/ Discovering \/ Discovery \/ Drain
    BY <1>3 DEF AgentStep, Lookup, Discovering, Discovery, Drain, agent, links
  <1>4. CASE Process
    BY <1>4 DEF AgentStep, Process, HandleAsk, HandleAuthorize, HandleDisplay, HandleCancel, HandleRelease,
       HandleReply, ProcessTree
  <1>5. CASE \E s \in Slots : Deadline(s)
    BY <1>5 DEF AgentStep, Deadline, TimerFires, ProcessDeadline, Overdue, agent, links
  <1>6. CASE Bluetoothd
    BY <1>6, DaemonFrame DEF AgentStep, Daemon, links
  <1> QED
    BY <1>1, <1>2, <1>3, <1>4, <1>5, <1>6 DEF Next, Caller

\* What is shown to the user is what the backend holds.
LEMMA ShownKept ==
    ASSUME CentralTyped, BusTyped, Asked, AgentAnswersForPair, Next
    PROVE  /\ ~open' => agent_pending' = 0
           /\ open' => (agent_pending' # 0 <=> agent_request'.kind # "NONE")
  <1> DEFINE m == Head(inbox)
  <1>0. /\ open \in BOOLEAN /\ open' \in BOOLEAN
        /\ ~open => agent_pending = 0
        /\ open => (agent_pending # 0 <=> agent_request.kind # "NONE")
        /\ NoRequest.kind = "NONE"
    BY LifeTyped DEF CentralTyped, Asked, AgentAnswersForPair, NoRequest
  <1>1. CASE UNCHANGED <<agent_request, agent_pending>> /\ open' = open
    BY <1>0, <1>1
  <1>2. CASE UNCHANGED <<agent_request, agent_pending>> /\ open' # open /\ ~Open
    <2>1. ~open'
      <3>1. CASE Quiet
        BY <1>2, <3>1 DEF Quiet, AttachLoop, DetachLoop, Write, Read, Query, Take,
            Subscribe,
           CancelRequests, ConnectEnd, PairPoll, Disconnect
      <3>2. CASE Flushed
        BY <1>2, <3>2 DEF Flushed, Close, ConnectBegin, PairBegin, PairCancel,
            AgentRegister,
           AgentUnregister, AgentSubmit, AgentReject
      <3>3. CASE Lookup \/ Discovering \/ Discovery \/ Drain \/ Process
        BY <1>2, <3>3 DEF Lookup, Discovering, Discovery, Drain, Process
      <3>4. CASE \E s \in Slots : Deadline(s)
        BY <1>2, <3>4 DEF Deadline, TimerFires, ProcessDeadline, Overdue
      <3>5. CASE Bluetoothd
        BY <1>2, <3>5, DaemonFrame DEF Daemon
      <3> QED
        BY <3>1, <3>2, <3>3, <3>4, <3>5 DEF Next, Caller
    <2>2. agent_pending = 0 \/ open' = open
      BY <2>1, <1>2, AgentSteps DEF AgentStep, agent_defer, Process, NoRequest
    <2> QED
      BY <1>2, <2>1, <2>2
  <1>3. CASE agent_request' = NoRequest /\ agent_pending' = 0
    BY <1>0, <1>3
  <1>4. CASE Open
    BY <1>0, <1>4 DEF Open
  <1>5. CASE ~open' /\ agent_pending' = 0
    BY <1>5
  <1>6. CASE Process /\ m.m = "ask" /\ agent_defer(m)
    <2>1. open /\ open' = open
      BY <1>6 DEF Process
    <2>2. m.kind = "PASSKEY" /\ m.id # 0
      BY <1>6, Popped, MessageFields DEF BusTyped, Process
    <2> QED
      BY <1>6, <2>1, <2>2 DEF agent_defer
  <1> QED
    BY <1>1, <1>2, <1>3, <1>4, <1>5, <1>6, AgentSteps DEF AgentStep

\* No answer to the pair bluetoothd asks about is sent while it waits.
LEMMA NoReplySent ==
    ASSUME BusTyped, OneEach, NEW s \in Seq(Messages), Sent(s), NEW k \in DOMAIN s,
           pair.state = 1, asking' # Nobody, pair.address = asking'.device
    PROVE  ~(s[k].m = "reply" /\ s[k].serial = pair.token)
  BY DEF Sent, OneEach

\* While a question is held, the pair it is about is not answered.
LEMMA HeldKept ==
    ASSUME CentralTyped, BusTyped, OneEach, Asked, AgentAnswersForPair, Next, Held'
    PROVE  /\ pair'.state = 1 /\ pair'.address = asking'.device
           /\ NoPairReply(0)'
           /\ agent_request'.device = asking'.device
  <1> DEFINE m == Head(inbox)
  <1>0. /\ inbox \in Seq(Messages) /\ agent_pending \in 0 .. asks /\ asks \in Nat
        /\ asking'.id # 0 /\ asking'.id = agent_pending'
        /\ Nobody.id = 0
    BY DEF CentralTyped, BusTyped, Held, Nobody
  <1>1. asking' # Nobody
    BY <1>0
  <1>2. CASE UNCHANGED <<agent_request, agent_pending>>
             /\ (pair' = pair \/ pair.state # 1 \/ agent_pending = 0 \/ Process)
    <2>1. asking' = asking /\ Held
      BY <1>0, <1>1, <1>2, AskSteps DEF Held
    <2>2. /\ pair.state = 1 /\ pair.address = asking.device /\ NoPairReply(0)
          /\ agent_request.device = asking.device
      BY <2>1 DEF Held, Asked, AgentAnswersForPair
    <2>3. pair' = pair
      <3>1. CASE Process
        <4>1. ~(m.m = "reply" /\ m.serial = pair.token)
          BY <1>0, <2>2, <3>1, Popped DEF NoPairReply, Process
        <4>2. CASE m.m = "reply" /\ HandleReply(m)
          BY <4>1, <4>2 DEF HandleReply, HandleSubscribed
        <4>3. CASE ~(m.m = "reply" /\ HandleReply(m))
          BY <3>1, <4>3 DEF Process, HandleAsk, HandleAuthorize, HandleDisplay, HandleCancel,
              HandleRelease,
             ProcessTree, links
        <4> QED
          BY <4>2, <4>3
      <3>2. CASE ~Process
        BY <1>0, <1>2, <2>1, <2>2, <3>2
      <3> QED
        BY <3>1, <3>2
    <2>4. NoPairReply(0)'
      <3> SUFFICES ASSUME NEW j \in DOMAIN inbox', j > 0
                   PROVE  ~(inbox'[j].m = "reply" /\ inbox'[j].serial = pair.token)
        BY <2>3 DEF NoPairReply
      <3>0. \A i \in DOMAIN inbox : ~(inbox[i].m = "reply" /\ inbox[i].serial = pair.token)
        BY <1>0, <2>2 DEF NoPairReply
      <3>1. CASE UNCHANGED inbox
        BY <3>0, <3>1
      <3>2. CASE inbox' = <<>>
        BY <3>2
      <3>3. CASE Process
        <4>1. j + 1 \in DOMAIN inbox /\ inbox'[j] = inbox[j + 1]
          BY <1>0, <3>3, Popped DEF Process
        <4> QED
          BY <3>0, <4>1
      <3>4. CASE Bluetoothd
        <4>1. PICK s \in Seq(Messages) : Sent(s)
          BY <3>4, Delivery
        <4>2. \/ j \in DOMAIN inbox /\ inbox'[j] = inbox[j]
              \/ \E k \in DOMAIN s : inbox'[j] = s[k]
          BY <1>0, <4>1, Concatenated DEF Sent
        <4>3. \A k \in DOMAIN s : ~(s[k].m = "reply" /\ s[k].serial = pair.token)
          BY <1>1, <2>1, <2>2, <4>1, NoReplySent
        <4> QED
          BY <3>0, <4>2, <4>3
      <3> QED
        BY <3>1, <3>2, <3>3, <3>4, InboxSteps
    <2> QED
      BY <1>2, <2>1, <2>2, <2>3, <2>4
  <1>3. CASE agent_pending' = 0
    BY <1>0, <1>3
  <1>4. CASE Open
    BY <1>0, <1>4 DEF Open, Asked
  <1>5. CASE /\ Process /\ m.m = "ask" /\ pair' = pair /\ agent_defer(m)
             /\ agent_call_is_ours(m.device)
    <2>1. /\ asking' = asking /\ agent_pending' = m.id /\ agent_request'.device = m.device
          /\ pair.state = 1 /\ pair.address = m.device
      BY <1>1, <1>5 DEF agent_defer, agent_call_is_ours
    <2>2. 1 \in DOMAIN inbox /\ inbox[1] = m /\ inbox' = Tail(inbox) /\ inbox # <<>>
      BY <1>0, <1>5, Popped DEF Process
    <2>3. asking.device = m.device /\ NoPairReply(1)
      BY <1>0, <1>5, <2>1, <2>2 DEF Asked
    <2>4. NoPairReply(0)'
      <3> SUFFICES ASSUME NEW j \in DOMAIN inbox', j > 0
                   PROVE  ~(inbox'[j].m = "reply" /\ inbox'[j].serial = pair.token)
        BY <1>5 DEF NoPairReply
      <3>1. j + 1 \in DOMAIN inbox /\ inbox'[j] = inbox[j + 1] /\ j + 1 > 1
        BY <1>0, <2>2, Popped
      <3> QED
        BY <2>3, <3>1 DEF NoPairReply
    <2> QED
      BY <1>5, <2>1, <2>3, <2>4
  <1> QED
    BY <1>2, <1>3, <1>4, <1>5, AgentSteps DEF AgentStep, NoRequest

\* The same of a question that is still on its way.
LEMMA QuestionKept ==
    ASSUME CentralTyped, BusTyped, OneEach, Asked, Next,
           NEW i \in DOMAIN inbox', inbox'[i].m = "ask", inbox'[i].id = asking'.id
    PROVE  /\ inbox'[i].device = asking'.device
           /\ pair'.state = 1 /\ pair'.address = asking'.device => NoPairReply(i)'
  <1>0. /\ inbox \in Seq(Messages) /\ asks \in Nat /\ serial \in Nat /\ Nobody.id = 0
        /\ \A j \in DOMAIN inbox :
              /\ inbox[j].m = "ask" => inbox[j].id \in 1 .. asks
              /\ inbox[j].m = "reply" => inbox[j].serial \in 1 .. serial
    BY DEF BusTyped, Nobody
  <1>1. inbox'[i].id # 0 /\ asking' # Nobody /\ i \in Nat
    BY <1>0, InboxTyped, AskTyped
  <1>2. CASE UNCHANGED inbox /\ ~Bluetoothd
    <2>1. asking' = asking
      BY <1>1, <1>2, AskSteps
    <2>2. inbox[i].device = asking.device
      BY <1>2, <2>1 DEF Asked
    <2>3. ASSUME pair'.state = 1, pair'.address = asking'.device PROVE NoPairReply(i)'
      <3>1. CASE pair' = pair
        BY <1>2, <2>1, <2>3, <3>1 DEF Asked, NoPairReply
      <3>2. CASE pair'.token = serial + 1
        BY <1>0, <1>2, <3>2 DEF NoPairReply
      <3> QED
        BY <2>3, <3>1, <3>2, LinkBegins
    <2> QED
      BY <1>2, <2>1, <2>2, <2>3
  <1>3. CASE inbox' = <<>>
    BY <1>3
  <1>4. CASE Process
    <2>1. /\ i + 1 \in DOMAIN inbox /\ inbox'[i] = inbox[i + 1]
          /\ \A j \in DOMAIN inbox' : j + 1 \in DOMAIN inbox /\ inbox'[j] = inbox[j + 1]
          /\ DOMAIN inbox' \subseteq Nat
      BY <1>0, <1>4, Popped DEF Process
    <2>2. asking' = asking
      <3>1. Process => asks' = asks
        BY DEF Process
      <3> QED
        BY <1>0, <1>1, <1>4, <3>1, AskSteps
    <2>3. inbox[i + 1].device = asking.device
      BY <2>1, <2>2 DEF Asked
    <2>4. ASSUME pair'.state = 1, pair'.address = asking'.device PROVE NoPairReply(i)'
      <3>1. pair' = pair
        <4>1. Process => UNCHANGED serial \/ UNCHANGED pair
          BY DEF Process, ProcessTree, links
        <4> QED
          BY <1>0, <1>4, <2>4, <4>1, LinkBegins
      <3>2. NoPairReply(i + 1)
        BY <2>1, <2>2, <2>4, <3>1 DEF Asked
      <3> QED
        BY <1>1, <2>1, <3>1, <3>2 DEF NoPairReply
    <2> QED
      BY <2>1, <2>2, <2>3, <2>4
  <1>5. CASE Bluetoothd
    <2>1. PICK s \in Seq(Messages) : Sent(s)
      BY <1>5, Delivery
    <2>2. /\ \A j \in DOMAIN inbox' :
                j <= Len(inbox) => j \in DOMAIN inbox /\ inbox'[j] = inbox[j]
          /\ \A j \in DOMAIN inbox' : j > Len(inbox) =>
                j - Len(inbox) \in DOMAIN s /\ inbox'[j] = s[j - Len(inbox)]
          /\ DOMAIN inbox' = 1 .. Len(inbox) + Len(s)
      BY <1>0, <2>1, Concatenated DEF Sent
    <2>3. pair' = pair
      BY <1>5, DaemonFrame DEF Daemon, links
    <2>4. Len(inbox) \in Nat /\ Len(s) \in Nat
      BY <1>0
    <2>5. CASE i <= Len(inbox)
      <3>1. i \in DOMAIN inbox /\ inbox'[i] = inbox[i]
        BY <2>2, <2>5
      <3>2. asking' = asking
        <4>1. asking'.id # asks + 1
          BY <1>0, <3>1
        <4> QED
          BY <1>1, <4>1, AskSteps
      <3>3. inbox[i].device = asking.device
        BY <3>1, <3>2 DEF Asked
      <3>4. ASSUME pair.state = 1, pair.address = asking.device,
                   NEW j \in DOMAIN inbox', j > i
            PROVE  ~(inbox'[j].m = "reply" /\ inbox'[j].serial = pair.token)
        <4>1. CASE j <= Len(inbox)
          <5>1. NoPairReply(i)
            BY <3>1, <3>2, <3>4 DEF Asked
          <5> QED
            BY <2>2, <3>4, <4>1, <5>1 DEF NoPairReply
        <4>2. CASE j > Len(inbox)
          BY <1>1, <2>1, <2>2, <3>2, <3>4, <4>2, NoReplySent
        <4> QED
          BY <2>2, <2>4, <4>1, <4>2
      <3> QED
        BY <2>3, <3>1, <3>2, <3>3, <3>4 DEF NoPairReply
    <2>6. CASE i > Len(inbox)
      <3>1. i - Len(inbox) \in DOMAIN s /\ inbox'[i] = s[i - Len(inbox)]
        BY <2>2, <2>6
      <3>2. inbox'[i].device = asking'.device /\ Len(s) = 1
        BY <2>1, <3>1 DEF Sent
      <3>3. \A j \in DOMAIN inbox' : ~(j > i)
        BY <1>1, <2>2, <2>4, <2>6, <3>2
      <3> QED
        BY <3>2, <3>3 DEF NoPairReply
    <2> QED
      BY <1>1, <2>4, <2>5, <2>6
  <1> QED
    BY <1>2, <1>3, <1>4, <1>5, InboxSteps

\* bluetoothd is told yes about the pair in flight alone.
LEMMA YesKept ==
    ASSUME CentralTyped, BusTyped, Asked, AgentAnswersForPair, Next,
           answer'.waiting, answer'.consent
    PROVE  pair'.state = 1 /\ pair'.address = answer'.device
  <1>0. ~NoAnswer.waiting /\ (HandleDisplay(Head(inbox)) => ~answer'.consent)
    BY DEF NoAnswer, HandleDisplay
  <1>1. CASE AgentSubmit
    <2>1. /\ answer'.device = agent_request.device
          /\ answer'.waiting = (asking.id # 0 /\ asking.id = agent_pending)
          /\ pair' = pair
      BY <1>1 DEF AgentSubmit, links
    <2>2. asking.id # 0 /\ asking.id = agent_pending
      BY <2>1
    <2> QED
      BY <2>1, <2>2 DEF Asked, AgentAnswersForPair
  <1>2. CASE HandleAuthorize(Head(inbox))
    BY <1>0, <1>2 DEF HandleAuthorize, agent_call_is_ours
  <1>3. CASE ~AgentSubmit /\ ~HandleAuthorize(Head(inbox))
    <2>1. CASE Quiet
      BY <1>0, <1>3, <2>1 DEF Quiet, Open, AttachLoop, DetachLoop, Write, Read, Query, Take,
         Subscribe, CancelRequests, ConnectEnd, PairPoll, Disconnect
    <2>2. CASE Flushed
      BY <1>0, <1>3, <2>2 DEF Flushed, Close, ConnectBegin, PairBegin, PairCancel,
         AgentRegister, AgentUnregister, AgentReject
    <2>3. CASE Lookup \/ Discovering \/ Discovery \/ Drain
      BY <1>0, <2>3 DEF Lookup, Discovering, Discovery, Drain
    <2>4. CASE Process
      BY <1>0, <1>3, <2>4 DEF Process, HandleAsk, HandleCancel, HandleRelease, HandleReply,
         ProcessTree
    <2>5. CASE \E s \in Slots : Deadline(s)
      BY <1>0, <2>5 DEF Deadline, TimerFires, ProcessDeadline, Overdue
    <2>6. CASE Bluetoothd
      BY <1>0, <2>6 DEF Bluetoothd, DaemonReplies, DaemonAsks, DaemonGivesUp,
          DaemonReleases,
         DaemonDies, DaemonChanges, DaemonStarts
    <2> QED
      BY <2>1, <2>2, <2>3, <2>4, <2>5, <2>6 DEF Next, Caller
  <1> QED
    BY <1>1, <1>2, <1>3

\* The agent answers for the pair in flight.
LEMMA AgentKept ==
    ASSUME CentralTyped, BusTyped, OneEach, Asked, AgentAnswersForPair, Next
    PROVE  Asked' /\ AgentAnswersForPair'
  <1>1. Asked'
    BY ShownKept, HeldKept, QuestionKept DEF Asked, Held
  <1>2. AgentAnswersForPair'
    BY ShownKept, HeldKept, YesKept DEF AgentAnswersForPair, Held
  <1> QED
    BY <1>1, <1>2

-----------------------------------------------------------------------------
(* The fetch. *)

\* While it is closed, the central has no copy and awaits none; and without a
\* fetch there is none either.
LEMMA FetchingKept ==
    ASSUME CentralTyped, BusTyped, Fetching, Next
    PROVE  Fetching'
  <1>0. uses' = uses /\ open \in BOOLEAN /\ open' \in BOOLEAN
    BY LifeTyped DEF CentralTyped
  <1>1. ~open' => ~objects_loaded' /\ objects_serial' = 0
    <2>1. CASE Caller
      BY <2>1 DEF Caller, objects_clear
    <2>2. CASE Lookup \/ Discovering \/ Discovery \/ Drain \/ Process
      <3>1. CASE Lookup \/ Discovering \/ Discovery \/ Process
        <4>1. open /\ open' = open
          BY <3>1 DEF Lookup, Discovering, Discovery, Process
        <4> QED
          BY <4>1
      <3>2. CASE Drain
        BY <3>2 DEF Drain, copy, Fetching
      <3> QED
        BY <2>2, <3>1, <3>2
    <2>3. CASE \E s \in Slots : Deadline(s)
      BY <2>3 DEF Deadline, TimerFires, ProcessDeadline, Overdue, copy, Fetching
    <2>4. CASE Bluetoothd
      BY <2>4, DaemonFrame DEF Daemon, copy, Fetching
    <2> QED
      BY <2>1, <2>2, <2>3, <2>4 DEF Next
  <1>2. ASSUME "fetch" \notin uses
        PROVE  /\ ~objects_loaded' /\ objects_serial' = 0 /\ up'
               /\ \A i \in DOMAIN inbox' : inbox'[i].m # "owner"
    <2>0. /\ ~objects_loaded /\ objects_serial = 0 /\ up
          /\ \A i \in DOMAIN inbox : inbox[i].m # "owner"
          /\ inbox \in Seq(Messages)
      BY <1>2 DEF Fetching, BusTyped
    <2>1. \A i \in DOMAIN inbox' : inbox'[i].m # "owner"
      <3>1. CASE UNCHANGED inbox
        BY <2>0, <3>1
      <3>2. CASE inbox' = <<>>
        BY <3>2
      <3>3. CASE Process
        BY <2>0, <3>3, Popped DEF Process
      <3>4. CASE Bluetoothd
        <4>1. PICK s \in Seq(Messages) : Sent(s)
          BY <3>4, Delivery
        <4>2. \A k \in DOMAIN s : s[k].m # "owner"
          BY <1>2, <2>0, <4>1 DEF Sent
        <4> QED
          BY <2>0, <4>1, <4>2, Concatenated DEF Sent
      <3> QED
        BY <3>1, <3>2, <3>3, <3>4, InboxSteps
    <2>2. up'
      <3>1. CASE Caller \/ Lookup \/ Discovering \/ Discovery \/ Process \/ Drain
        BY <2>0, <3>1 DEF Caller, Lookup, Discovering, Discovery, Process, Drain,
            daemon_tree
      <3>2. CASE \E s \in Slots : Deadline(s)
        BY <2>0, <3>2 DEF Deadline, TimerFires, ProcessDeadline, daemon_tree
      <3>3. CASE Bluetoothd
        BY <1>2, <2>0, <3>3 DEF Bluetoothd, DaemonReplies, DaemonAsks, DaemonGivesUp,
           DaemonReleases, DaemonDies, DaemonStarts, DaemonChanges, daemon_tree
      <3> QED
        BY <3>1, <3>2, <3>3 DEF Next
    <2>3. ~objects_loaded' /\ objects_serial' = 0
      <3>1. CASE UNCHANGED copy
        BY <2>0, <3>1 DEF copy
      <3>2. CASE objects_clear /\ objects_serial' = 0
        BY <3>2 DEF objects_clear
      <3>3. CASE Lookup \/ Discovering
        BY <1>2, <3>3 DEF Lookup, Discovering
      <3>4. CASE Process /\ ProcessTree(Head(inbox))
        <4> DEFINE m == Head(inbox)
        <4>1. m.m # "owner" /\ (m.m = "tree" => m.serial # 0)
          BY <2>0, <3>4, Popped DEF Process, BusTyped
        <4> HIDE DEF m
        <4>2. CASE m.m = "tree" /\ HandleTree(m)
          BY <2>0, <4>1, <4>2 DEF HandleTree, copy
        <4>3. CASE HandleSignal(m) \/ handle_properties_changed(m)
          BY <2>0, <4>3 DEF HandleSignal, handle_properties_changed, Update, OutOfMemory
        <4> QED
          BY <3>4, <4>1, <4>2, <4>3 DEF ProcessTree, m
      <3> QED
        BY <3>1, <3>2, <3>3, <3>4, CopySteps
    <2> QED
      BY <2>1, <2>2, <2>3
  <1> QED
    BY <1>0, <1>1, <1>2 DEF Fetching

\* A fetch that is awaited can still be answered, and there is no copy.
LEMMA FetchKept ==
    ASSUME CentralTyped, BusTyped, OneEach, Fetching, FetchComing, Next
    PROVE  FetchComing'
  <1> SUFFICES ASSUME objects_serial' # 0
               PROVE  ~objects_loaded' /\ OnItsWay("tree", objects_serial)'
    BY DEF FetchComing, OnItsWay
  <1> DEFINE m == Head(inbox)
  <1>0. /\ serial \in Nat /\ inbox \in Seq(Messages)
        /\ objects_serial # 0 => ~objects_loaded /\ OnItsWay("tree", objects_serial)
    BY DEF BusTyped, FetchComing, OnItsWay
  <1>1. open'
    BY FetchingKept DEF Fetching
  <1>2. CASE objects_serial' = serial + 1 /\ Called("objects", None)
    <2>1. OnItsWay("tree", objects_serial)'
      <3>1. [serial |-> serial + 1, what |-> "objects", about |-> None].serial = serial + 1
        OBVIOUS
      <3> QED
        BY <1>2, <3>1 DEF OnItsWay, Called
    <2>2. ~objects_loaded'
      <3>1. CASE UNCHANGED copy
        <4>1. objects_serial \in 0 .. serial
          BY DEF CentralTyped
        <4> QED
          BY <1>0, <1>2, <3>1, <4>1 DEF copy
      <3>2. CASE Lookup
        BY <1>0, <1>2, <3>2 DEF Lookup, bus, Called
      <3>3. CASE Discovering
        BY <3>3 DEF Discovering
      <3>4. CASE Process /\ ProcessTree(m)
        <4>1. serial' # serial
          BY <1>0, <1>2 DEF Called
        <4>2. HandleOwner(m)
          BY <3>4, <4>1 DEF ProcessTree
        <4> QED
          BY <4>2 DEF HandleOwner, objects_clear
      <3> QED
        BY <1>1, <3>1, <3>2, <3>3, <3>4, CopySteps
    <2> QED
      BY <2>1, <2>2
  <1>3. CASE objects_serial' = objects_serial
    <2>0. ~objects_loaded /\ OnItsWay("tree", objects_serial) /\ objects_serial # 0
      BY <1>0, <1>3
    <2>1. ~objects_loaded'
      <3>1. CASE UNCHANGED copy
        BY <2>0, <3>1 DEF copy
      <3>2. CASE Lookup
        BY <1>3, <2>0, <3>2 DEF Lookup, objects_ensure, copy
      <3>3. CASE Discovering
        BY <3>3 DEF Discovering
      <3>4. CASE Process /\ ProcessTree(m)
        <4> HIDE DEF m
        <4> QED
          BY <1>3, <2>0, <3>4 DEF ProcessTree, HandleTree, HandleOwner, HandleSignal,
             handle_properties_changed, Update, OutOfMemory, objects_clear, copy
      <3> QED
        BY <1>1, <3>1, <3>2, <3>3, <3>4, CopySteps
    <2>2. ~(Process /\ m.m = "tree" /\ m.serial = objects_serial)
      <3> SUFFICES ASSUME Process, m.m = "tree", m.serial = objects_serial PROVE FALSE
        OBVIOUS
      <3>1. HandleTree(m)
        BY DEF Process, ProcessTree
      <3> QED
        BY <1>3, <2>0, <3>1 DEF HandleTree
    <2>3. ASSUME NEW n, n = objects_serial PROVE OnItsWay("tree", n)'
      <3>1. \A c \in calls : c.serial = n => c.what = "objects"
        BY <2>3 DEF OneEach
      <3> QED
        BY <1>1, <2>0, <2>2, <2>3, <3>1, StillComing
    <2>4. \A n : n = objects_serial => OnItsWay("tree", n)'
      BY <2>3
    <2> QED
      BY <1>3, <2>1, <2>4 DEF OnItsWay
  <1> QED
    BY <1>2, <1>3, FetchBegins

-----------------------------------------------------------------------------
(* The copy follows the tree.  First what the lemmas need of a queue that is  *)
(* longer by messages that are no signals, or by one signal.                  *)

\* Messages that are no signals change nothing of what the signals say.
LEMMA Quieter ==
    ASSUME NEW q \in Seq(Messages), NEW s \in Seq(Messages),
           \A k \in DOMAIN s : s[k].m \notin Signals /\ s[k].m # "owner"
    PROVE  /\ \A i \in DOMAIN q : i \in DOMAIN (q \o s) /\ (q \o s)[i] = q[i]
           /\ \A i : \A p \in Paths : About(q \o s, i, p) <=> About(q, i, p)
           /\ \A i \in DOMAIN q : SameOwner(q \o s, i) <=> SameOwner(q, i)
           /\ SameOwner(q, 1) <=> SameOwner(q \o s, 1)
           /\ DOMAIN q \subseteq Nat
  <1> DEFINE r == q \o s
  <1>1. /\ DOMAIN q \subseteq Nat /\ DOMAIN r \subseteq Nat
        /\ \A i \in DOMAIN q : i \in DOMAIN r /\ r[i] = q[i]
        /\ \A i \in DOMAIN r : i \in DOMAIN q \/ (r[i].m \notin Signals /\ r[i].m # "owner")
    BY Concatenated
  <1> HIDE DEF r
  <1>2. \A i : \A p \in Paths : About(r, i, p) <=> About(q, i, p)
    BY <1>1 DEF About
  <1>3. \A i : SameOwner(r, i) <=> SameOwner(q, i)
    BY <1>1 DEF SameOwner
  <1> QED
    BY <1>1, <1>2, <1>3 DEF r

\* They leave the signals consistent.
LEMMA ConsistentQuieter ==
    ASSUME NEW q \in Seq(Messages), NEW s \in Seq(Messages), NEW t,
           \A k \in DOMAIN s : s[k].m \notin Signals /\ s[k].m # "owner",
           Consistent(q, t)
    PROVE  Consistent(q \o s, t)
  <1> DEFINE r == q \o s
  <1>1. /\ \A i \in DOMAIN q : i \in DOMAIN r /\ r[i] = q[i]
        /\ \A i : \A p \in Paths : About(r, i, p) <=> About(q, i, p)
        /\ \A i \in DOMAIN q : SameOwner(r, i) <=> SameOwner(q, i)
    BY Quieter
  <1>2. \A i, p : About(q, i, p) => i \in DOMAIN q
    BY DEF About
  <1> HIDE DEF r
  <1>3. ASSUME NEW j \in DOMAIN r, NEW p \in Paths, SameOwner(r, j), About(r, j, p)
        PROVE  HasLast(r, j, p, t) /\ Alternates(r, j, p)
    <2>1. j \in DOMAIN q /\ r[j] = q[j] /\ HasLast(q, j, p, t) /\ Alternates(q, j, p)
      BY <1>1, <1>2, <1>3 DEF Consistent
    <2>2. HasLast(r, j, p, t)
      <3>1. PICK l \in DOMAIN q : /\ l >= j /\ About(q, l, p) /\ Says(q, l, p, t)
                                  /\ \A k \in DOMAIN q : k > l => ~About(q, k, p)
        BY <2>1 DEF HasLast
      <3> QED
        BY <1>1, <1>2, <3>1 DEF HasLast, Says
    <2>3. Alternates(r, j, p)
      BY <1>1, <1>2, <2>1 DEF Alternates
    <2> QED
      BY <2>2, <2>3
  <1> QED
    BY <1>3 DEF Consistent, r

\* They leave a copy as good as it was.
LEMMA FollowsQuieter ==
    ASSUME NEW q \in Seq(Messages), NEW s \in Seq(Messages), NEW t, NEW o, NEW i,
           \A k \in DOMAIN s : s[k].m \notin Signals /\ s[k].m # "owner",
           Follows(q, i, o, t)
    PROVE  Follows(q \o s, i, o, t)
  <1> DEFINE r == q \o s
  <1>1. /\ \A j \in DOMAIN q : j \in DOMAIN r /\ r[j] = q[j]
        /\ \A j : \A p \in Paths : About(r, j, p) <=> About(q, j, p)
    BY Quieter
  <1>2. \A j, p : About(q, j, p) => j \in DOMAIN q
    BY DEF About
  <1> HIDE DEF r
  <1>3. ASSUME NEW p \in Paths, \A j \in DOMAIN r : j >= i => ~About(r, j, p)
        PROVE  Agree(o, t, p)
    BY <1>1, <1>3 DEF Follows
  <1>4. ASSUME NEW p \in Paths, NEW j \in DOMAIN r, First(r, i, j, p)
        PROVE  Fits(r, j, p, o)
    <2>1. j \in DOMAIN q /\ r[j] = q[j] /\ First(q, i, j, p)
      BY <1>1, <1>2, <1>4 DEF First
    <2>2. Fits(q, j, p, o)
      BY <2>1 DEF Follows
    <2> QED
      BY <1>1, <2>1, <2>2 DEF Fits
  <1> QED
    BY <1>3, <1>4 DEF Follows, r

\* A queue that ends with the coming or going of a bluetoothd.
LEMMA OwnerLast ==
    ASSUME NEW q \in Seq(Messages), Len(q) \in DOMAIN q, q[Len(q)].m = "owner", NEW t
    PROVE  Mirror(q, t) /\ ~SameOwner(q, 1)
  <1>1. \A j \in DOMAIN q : ~SameOwner(q, j)
    <2> SUFFICES ASSUME NEW j \in DOMAIN q PROVE ~SameOwner(q, j)
      OBVIOUS
    <2>1. Len(q) >= j
      OBVIOUS
    <2> QED
      BY <2>1 DEF SameOwner
  <1>2. 1 \in DOMAIN q
    OBVIOUS
  <1> QED
    BY <1>1, <1>2 DEF Mirror, Consistent

\* A queue with one signal more.
IsLonger(q, m, r, n) ==
    /\ r \in Seq(Messages) /\ DOMAIN q \subseteq Nat /\ DOMAIN r \subseteq Nat
    /\ n \in DOMAIN r /\ r[n] = m /\ n \notin DOMAIN q
    /\ \A i \in DOMAIN q : i \in DOMAIN r /\ r[i] = q[i] /\ i < n
    /\ \A i \in DOMAIN r : i \in DOMAIN q \/ i = n
    /\ About(r, n, m.path)
    /\ \A i \in DOMAIN q : \A p \in Paths : About(r, i, p) <=> About(q, i, p)
    /\ \A p \in Paths : p # m.path => ~About(r, n, p)
    /\ \A i : SameOwner(r, i) <=> SameOwner(q, i)

\* What a signal more leaves alone, and what it adds.
LEMMA Longer ==
    ASSUME NEW q \in Seq(Messages), NEW m \in Messages, m.m \in Signals
    PROVE  IsLonger(q, m, q \o <<m>>, Len(q) + 1)
  <1>0. PICK r, n : r = q \o <<m>> /\ n = Len(q) + 1
    OBVIOUS
  <1>1. /\ r \in Seq(Messages) /\ DOMAIN q \subseteq Nat /\ DOMAIN r \subseteq Nat
        /\ n \in DOMAIN r /\ r[n] = m /\ n \notin DOMAIN q
        /\ \A i \in DOMAIN q : i \in DOMAIN r /\ r[i] = q[i] /\ i < n
        /\ \A i \in DOMAIN r : i \in DOMAIN q \/ i = n
    BY <1>0
  <1>2. About(r, n, m.path) /\ \A p \in Paths : p # m.path => ~About(r, n, p)
    BY <1>1 DEF About
  <1>3. \A i \in DOMAIN q : \A p \in Paths : About(r, i, p) <=> About(q, i, p)
    BY <1>1 DEF About
  <1>4. m.m # "owner"
    BY DEF Signals
  <1>5. \A i : SameOwner(r, i) <=> SameOwner(q, i)
    BY <1>1, <1>4 DEF SameOwner
  <1>6. IsLonger(q, m, r, n)
    BY <1>1, <1>2, <1>3, <1>5 DEF IsLonger
  <1> QED
    BY <1>0, <1>6

\* What a signal m says of the step of the tree from t to u.
Tells(m, t, u) ==
    /\ m.m \in Signals
    /\ m.m = "added" <=> m.path \notin DOMAIN t
    /\ IF m.m = "removed" THEN m.path \notin DOMAIN u
       ELSE m.path \in DOMAIN u /\ u[m.path] = m.value
    /\ \A p \in Paths : p # m.path => Agree(t, u, p)

\* The signals stay consistent, and lead to the new tree.
LEMMA ConsistentLonger ==
    ASSUME NEW q \in Seq(Messages), NEW m \in Messages, NEW t, NEW u,
           Tells(m, t, u), Consistent(q, t)
    PROVE  Consistent(q \o <<m>>, u)
  <1>0. PICK r, n : r = q \o <<m>> /\ n = Len(q) + 1
    OBVIOUS
  <1>1. m.m \in Signals
    BY DEF Tells
  <1>2. /\ r \in Seq(Messages) /\ DOMAIN q \subseteq Nat /\ DOMAIN r \subseteq Nat
        /\ n \in DOMAIN r /\ r[n] = m /\ n \notin DOMAIN q
        /\ \A i \in DOMAIN q : i \in DOMAIN r /\ r[i] = q[i] /\ i < n
        /\ \A i \in DOMAIN r : i \in DOMAIN q \/ i = n
        /\ About(r, n, m.path)
        /\ \A i \in DOMAIN q : \A p \in Paths : About(r, i, p) <=> About(q, i, p)
        /\ \A p \in Paths : p # m.path => ~About(r, n, p)
        /\ \A i : SameOwner(r, i) <=> SameOwner(q, i)
    <2>1. IsLonger(q, m, q \o <<m>>, Len(q) + 1)
      BY <1>1, Longer
    <2>2. IsLonger(q, m, r, n)
      BY <1>0, <2>1
    <2> QED
      BY <2>2 DEF IsLonger
  <1>3. ASSUME NEW j \in DOMAIN r, NEW p \in Paths, SameOwner(r, j), About(r, j, p), p # m.path
        PROVE  HasLast(r, j, p, u) /\ Alternates(r, j, p)
    <2>1. j \in DOMAIN q /\ r[j] = q[j]
      BY <1>2, <1>3
    <2>2. HasLast(q, j, p, t) /\ Alternates(q, j, p)
      BY <1>2, <1>3, <2>1 DEF Consistent
    <2>3. Agree(t, u, p)
      BY <1>3 DEF Tells
    <2>4. HasLast(r, j, p, u)
      <3>1. PICK l \in DOMAIN q : /\ l >= j /\ About(q, l, p) /\ Says(q, l, p, t)
                                  /\ \A k \in DOMAIN q : k > l => ~About(q, k, p)
        BY <2>2 DEF HasLast
      <3>2. Says(r, l, p, u)
        BY <1>2, <2>3, <3>1 DEF Says, Agree
      <3> QED
        BY <1>2, <1>3, <3>1, <3>2 DEF HasLast
    <2>5. Alternates(r, j, p)
      BY <1>2, <1>3, <2>1, <2>2 DEF Alternates
    <2> QED
      BY <2>4, <2>5
  <1>4. ASSUME NEW j \in DOMAIN r, NEW p \in Paths, SameOwner(r, j), About(r, j, p), p = m.path
        PROVE  HasLast(r, j, p, u) /\ Alternates(r, j, p)
    <2>1. HasLast(r, j, p, u)
      <3>1. Says(r, n, p, u)
        BY <1>2, <1>4 DEF Says, Tells
      <3>2. n >= j /\ \A k \in DOMAIN r : ~(k > n)
        BY <1>2
      <3> QED
        BY <1>2, <1>4, <3>1, <3>2 DEF HasLast
    <2>2. ASSUME NEW k \in DOMAIN r, k > j, About(r, k, p)
          PROVE  /\ r[k].m = "added" =>
                       \E a \in DOMAIN r :
                           j <= a /\ a < k /\ About(r, a, p) /\ r[a].m = "removed"
                 /\ r[j].m = "removed" /\ r[k].m # "added" =>
                       \E a \in DOMAIN r :
                           j < a /\ a < k /\ About(r, a, p) /\ r[a].m = "added"
      <3>1. j \in DOMAIN q /\ r[j] = q[j]
        BY <1>2, <2>2
      <3>2. HasLast(q, j, p, t) /\ Alternates(q, j, p)
        BY <1>2, <1>4, <3>1 DEF Consistent
      <3>3. CASE k \in DOMAIN q
        BY <1>2, <2>2, <3>1, <3>2, <3>3 DEF Alternates
      <3>4. CASE k = n
        <4>1. PICK l \in DOMAIN q : l >= j /\ About(q, l, p) /\ Says(q, l, p, t)
          BY <3>2 DEF HasLast
        <4>2. l \in DOMAIN r /\ r[l] = q[l] /\ l < k /\ About(r, l, p)
          BY <1>2, <3>4, <4>1
        <4>3. CASE m.m = "added"
          <5>1. q[l].m = "removed"
            BY <1>4, <4>1, <4>3 DEF Says, Tells
          <5> QED
            BY <1>2, <3>4, <4>1, <4>2, <4>3, <5>1
        <4>4. CASE m.m # "added"
          <5>1. q[l].m # "removed" /\ q[l].m \in Signals
            BY <1>4, <4>1, <4>4 DEF Says, Tells, About
          <5>2. CASE q[j].m = "removed" /\ q[l].m = "added"
            <6>1. j # l
              BY <5>2
            <6>2. j < l
              BY <1>2, <3>1, <4>1, <6>1
            <6> QED
              BY <1>2, <3>4, <4>1, <4>2, <4>4, <5>2, <6>2
          <5>3. CASE q[j].m = "removed" /\ q[l].m # "added"
            <6>1. j # l
              BY <5>1, <5>3
            <6>2. l > j
              BY <1>2, <3>1, <4>1, <6>1
            <6>3. PICK a \in DOMAIN q : j < a /\ a < l /\ About(q, a, p) /\ q[a].m = "added"
              BY <3>2, <4>1, <5>3, <6>2 DEF Alternates
            <6>4. a \in DOMAIN r /\ r[a] = q[a] /\ a < k /\ About(r, a, p)
              BY <1>2, <3>4, <6>3
            <6> QED
              BY <1>2, <3>4, <4>4, <6>3, <6>4
          <5>4. CASE q[j].m # "removed"
            BY <1>2, <3>1, <3>4, <4>4, <5>4
          <5> QED
            BY <5>2, <5>3, <5>4
        <4> QED
          BY <4>3, <4>4
      <3> QED
        BY <1>2, <3>3, <3>4
    <2> QED
      BY <2>1, <2>2 DEF Alternates
  <1> QED
    BY <1>0, <1>3, <1>4 DEF Consistent

\* A copy that followed the old tree follows the new one.
LEMMA FollowsLonger ==
    ASSUME NEW q \in Seq(Messages), NEW m \in Messages, NEW t, NEW u, NEW o,
           NEW i \in Nat, i <= Len(q) + 1,
           Tells(m, t, u), Follows(q, i, o, t)
    PROVE  Follows(q \o <<m>>, i, o, u)
  <1>0. PICK r, n : r = q \o <<m>> /\ n = Len(q) + 1
    OBVIOUS
  <1>1. m.m \in Signals
    BY DEF Tells
  <1>2. /\ r \in Seq(Messages) /\ DOMAIN q \subseteq Nat /\ DOMAIN r \subseteq Nat
        /\ n \in DOMAIN r /\ r[n] = m /\ n \notin DOMAIN q
        /\ \A k \in DOMAIN q : k \in DOMAIN r /\ r[k] = q[k] /\ k < n
        /\ \A k \in DOMAIN r : k \in DOMAIN q \/ k = n
        /\ About(r, n, m.path)
        /\ \A k \in DOMAIN q : \A p \in Paths : About(r, k, p) <=> About(q, k, p)
        /\ \A p \in Paths : p # m.path => ~About(r, n, p)
    <2>1. IsLonger(q, m, q \o <<m>>, Len(q) + 1)
      BY <1>1, Longer
    <2>2. IsLonger(q, m, r, n)
      BY <1>0, <2>1
    <2> QED
      BY <2>2 DEF IsLonger
  <1>3. n >= i
    BY <1>0
  <1>4. ASSUME NEW p \in Paths, \A j \in DOMAIN r : j >= i => ~About(r, j, p)
        PROVE  Agree(o, u, p)
    <2>1. p # m.path /\ \A j \in DOMAIN q : j >= i => ~About(q, j, p)
      BY <1>2, <1>3, <1>4
    <2>2. Agree(o, t, p) /\ Agree(t, u, p)
      BY <2>1 DEF Follows, Tells
    <2> QED
      BY <2>2 DEF Agree
  <1>5. ASSUME NEW p \in Paths, NEW j \in DOMAIN r, First(r, i, j, p)
        PROVE  Fits(r, j, p, o)
    <2>0. j >= i /\ About(r, j, p) /\ \A k \in DOMAIN r : k >= i /\ k < j => ~About(r, k, p)
      BY <1>5 DEF First
    <2>1. CASE j \in DOMAIN q
      <3>1. First(q, i, j, p) /\ r[j] = q[j] /\ j < n
        BY <1>2, <2>0, <2>1 DEF First
      <3>2. Fits(q, j, p, o)
        BY <2>1, <3>1 DEF Follows
      <3> QED
        BY <1>2, <3>1, <3>2 DEF Fits
    <2>2. CASE j = n
      <3>1. p = m.path /\ \A k \in DOMAIN q : k >= i => ~About(q, k, p)
        BY <1>2, <2>0, <2>2
      <3>2. Agree(o, t, p)
        BY <3>1 DEF Follows
      <3>3. /\ m.m = "added" => p \notin DOMAIN o
            /\ m.m = "changed" => p \in DOMAIN o
        BY <3>1, <3>2 DEF Tells, Agree
      <3> QED
        BY <1>2, <2>2, <3>3 DEF Fits
    <2> QED
      BY <1>2, <2>1, <2>2
  <1> QED
    BY <1>0, <1>4, <1>5 DEF Follows

\* A queue without its first message.
LEMMA Shorter ==
    ASSUME NEW q \in Seq(Messages), q # <<>>, NEW r, r = Tail(q)
    PROVE  /\ r \in Seq(Messages) /\ DOMAIN q \subseteq Nat /\ DOMAIN r \subseteq Nat
           /\ \A i \in DOMAIN r : i + 1 \in DOMAIN q /\ r[i] = q[i + 1]
           /\ \A i \in DOMAIN q : i > 1 => i - 1 \in DOMAIN r
           /\ \A i \in DOMAIN r : \A p \in Paths : About(r, i, p) <=> About(q, i + 1, p)
           /\ \A i \in DOMAIN r : SameOwner(r, i) => SameOwner(q, i + 1)
           /\ q[1].m # "owner" /\ SameOwner(r, 1) => SameOwner(q, 1)
  <1>1. /\ r \in Seq(Messages) /\ DOMAIN q \subseteq Nat /\ DOMAIN r \subseteq Nat
        /\ \A i \in DOMAIN r : i + 1 \in DOMAIN q /\ r[i] = q[i + 1] /\ i >= 1
        /\ \A i \in DOMAIN q : i > 1 => i - 1 \in DOMAIN r /\ r[i - 1] = q[i]
        /\ \A i \in DOMAIN q : i >= 1
    BY Popped
  <1>2. \A i \in DOMAIN r : \A p \in Paths : About(r, i, p) <=> About(q, i + 1, p)
    BY <1>1 DEF About
  <1>3. \A i \in DOMAIN r : SameOwner(r, i) => SameOwner(q, i + 1)
    <2> SUFFICES ASSUME NEW i \in DOMAIN r, SameOwner(r, i), NEW j \in DOMAIN q, j >= i + 1
                 PROVE  q[j].m # "owner"
      BY DEF SameOwner
    <2>1. j > 1
      BY <1>1
    <2>2. j - 1 \in DOMAIN r /\ r[j - 1] = q[j] /\ j - 1 >= i
      BY <1>1, <2>1
    <2> QED
      BY <2>2 DEF SameOwner
  <1>4. q[1].m # "owner" /\ SameOwner(r, 1) => SameOwner(q, 1)
    <2> SUFFICES ASSUME q[1].m # "owner", SameOwner(r, 1), NEW j \in DOMAIN q
                 PROVE  q[j].m # "owner"
      BY DEF SameOwner
    <2>1. CASE j > 1
      <3>1. j - 1 \in DOMAIN r /\ r[j - 1] = q[j] /\ j - 1 >= 1
        BY <1>1, <2>1
      <3> QED
        BY <3>1 DEF SameOwner
    <2> QED
      BY <1>1, <2>1
  <1> QED
    BY <1>1, <1>2, <1>3, <1>4

\* The signals left are consistent.
LEMMA ConsistentShorter ==
    ASSUME NEW q \in Seq(Messages), q # <<>>, NEW t, Consistent(q, t)
    PROVE  Consistent(Tail(q), t)
  <1>0. PICK r : r = Tail(q)
    OBVIOUS
  <1>1. /\ DOMAIN q \subseteq Nat /\ DOMAIN r \subseteq Nat
        /\ \A i \in DOMAIN r : i + 1 \in DOMAIN q /\ r[i] = q[i + 1]
        /\ \A i \in DOMAIN q : i > 1 => i - 1 \in DOMAIN r
        /\ \A i \in DOMAIN r : \A p \in Paths : About(r, i, p) <=> About(q, i + 1, p)
        /\ \A i \in DOMAIN r : SameOwner(r, i) => SameOwner(q, i + 1)
    BY <1>0, Shorter
  <1>2. ASSUME NEW j \in DOMAIN r, NEW p \in Paths, SameOwner(r, j), About(r, j, p)
        PROVE  HasLast(r, j, p, t) /\ Alternates(r, j, p)
    <2>1. j + 1 \in DOMAIN q /\ SameOwner(q, j + 1) /\ About(q, j + 1, p) /\ j \in Nat
      BY <1>1, <1>2
    <2>2. HasLast(q, j + 1, p, t) /\ Alternates(q, j + 1, p)
      BY <2>1 DEF Consistent
    <2>3. \A k \in DOMAIN q : k > j => k - 1 \in DOMAIN r /\ r[k - 1] = q[k]
                                       /\ (About(r, k - 1, p) <=> About(q, k, p))
      <3> SUFFICES ASSUME NEW k \in DOMAIN q, k > j
                   PROVE  k - 1 \in DOMAIN r /\ r[k - 1] = q[k]
                          /\ (About(r, k - 1, p) <=> About(q, k, p))
        OBVIOUS
      <3>1. j >= 1
        BY <1>0
      <3>2. k - 1 \in DOMAIN r /\ (k - 1) + 1 = k
        BY <1>1, <2>1, <3>1
      <3> QED
        BY <1>1, <3>2
    <2>4. HasLast(r, j, p, t)
      <3>1. PICK l \in DOMAIN q : /\ l >= j + 1 /\ About(q, l, p) /\ Says(q, l, p, t)
                                  /\ \A k \in DOMAIN q : k > l => ~About(q, k, p)
        BY <2>2 DEF HasLast
      <3>2. l > j /\ l \in Nat
        BY <1>1, <2>1, <3>1
      <3>3. l - 1 \in DOMAIN r /\ r[l - 1] = q[l] /\ About(r, l - 1, p) /\ l - 1 >= j
        BY <2>1, <2>3, <3>1, <3>2
      <3>4. \A k \in DOMAIN r : k > l - 1 => ~About(r, k, p)
        <4> SUFFICES ASSUME NEW k \in DOMAIN r, k > l - 1 PROVE ~About(r, k, p)
          OBVIOUS
        <4>1. k + 1 \in DOMAIN q /\ k + 1 > l
          BY <1>1, <3>2
        <4> QED
          BY <1>1, <3>1, <4>1
      <3>5. Says(r, l - 1, p, t)
        BY <3>1, <3>3 DEF Says
      <3> QED
        BY <3>3, <3>4, <3>5 DEF HasLast
    <2>5. ASSUME NEW k \in DOMAIN r, k > j, About(r, k, p)
          PROVE  /\ r[k].m = "added" =>
                       \E a \in DOMAIN r :
                           j <= a /\ a < k /\ About(r, a, p) /\ r[a].m = "removed"
                 /\ r[j].m = "removed" /\ r[k].m # "added" =>
                       \E a \in DOMAIN r :
                           j < a /\ a < k /\ About(r, a, p) /\ r[a].m = "added"
      <3>1. k + 1 \in DOMAIN q /\ About(q, k + 1, p) /\ k + 1 > j + 1 /\ k \in Nat
            /\ r[k] = q[k + 1] /\ r[j] = q[j + 1]
        BY <1>1, <2>1, <2>5
      <3>2. CASE r[k].m = "added"
        <4>1. PICK a \in DOMAIN q :
                 j + 1 <= a /\ a < k + 1 /\ About(q, a, p) /\ q[a].m = "removed"
          BY <2>2, <3>1, <3>2 DEF Alternates
        <4>2. a > j /\ a \in Nat
          BY <1>1, <2>1, <4>1
        <4>3. a - 1 \in DOMAIN r /\ r[a - 1] = q[a] /\ About(r, a - 1, p)
              /\ j <= a - 1 /\ a - 1 < k
          BY <2>1, <2>3, <3>1, <4>1, <4>2
        <4> QED
          BY <3>2, <4>1, <4>3
      <3>3. CASE r[j].m = "removed" /\ r[k].m # "added"
        <4>1. PICK a \in DOMAIN q :
                 j + 1 < a /\ a < k + 1 /\ About(q, a, p) /\ q[a].m = "added"
          BY <2>2, <3>1, <3>3 DEF Alternates
        <4>2. a > j /\ a \in Nat
          BY <1>1, <2>1, <4>1
        <4>3. a - 1 \in DOMAIN r /\ r[a - 1] = q[a] /\ About(r, a - 1, p)
              /\ j < a - 1 /\ a - 1 < k
          BY <2>1, <2>3, <3>1, <4>1, <4>2
        <4> QED
          BY <3>3, <4>1, <4>3
      <3> QED
        BY <3>2, <3>3
    <2> QED
      BY <2>4, <2>5 DEF Alternates
  <1> QED
    BY <1>0, <1>2 DEF Consistent

\* A copy that followed from the second message on follows from the first.
LEMMA FollowsShorter ==
    ASSUME NEW q \in Seq(Messages), q # <<>>, NEW t, NEW o, NEW i \in Nat, i >= 1,
           Follows(q, i + 1, o, t)
    PROVE  Follows(Tail(q), i, o, t)
  <1>0. PICK r : r = Tail(q)
    OBVIOUS
  <1>1. /\ DOMAIN q \subseteq Nat /\ DOMAIN r \subseteq Nat
        /\ \A k \in DOMAIN r : k + 1 \in DOMAIN q /\ r[k] = q[k + 1]
        /\ \A k \in DOMAIN q : k > 1 => k - 1 \in DOMAIN r
        /\ \A k \in DOMAIN r : \A p \in Paths : About(r, k, p) <=> About(q, k + 1, p)
    BY <1>0, Shorter
  <1>2. ASSUME NEW k \in DOMAIN q, k > 1, NEW p \in Paths
        PROVE  k - 1 \in DOMAIN r /\ r[k - 1] = q[k] /\ k \in Nat
               /\ (About(r, k - 1, p) <=> About(q, k, p))
    <2>1. k - 1 \in DOMAIN r /\ (k - 1) + 1 = k
      BY <1>1, <1>2
    <2> QED
      BY <1>1, <2>1
  <1>3. ASSUME NEW p \in Paths, \A j \in DOMAIN r : j >= i => ~About(r, j, p)
        PROVE  Agree(o, t, p)
    <2>1. ASSUME NEW j \in DOMAIN q, j >= i + 1 PROVE ~About(q, j, p)
      <3>1. j > 1 /\ j - 1 >= i
        BY <1>1, <2>1
      <3> QED
        BY <1>2, <1>3, <3>1
    <2> QED
      BY <2>1 DEF Follows
  <1>4. ASSUME NEW p \in Paths, NEW j \in DOMAIN r, First(r, i, j, p)
        PROVE  Fits(r, j, p, o)
    <2>0. j \in Nat /\ j + 1 \in DOMAIN q /\ r[j] = q[j + 1]
      BY <1>1
    <2>1. First(q, i + 1, j + 1, p)
      <3>1. j + 1 >= i + 1 /\ About(q, j + 1, p)
        BY <1>1, <1>4, <2>0 DEF First
      <3>2. ASSUME NEW k \in DOMAIN q, k >= i + 1, k < j + 1 PROVE ~About(q, k, p)
        <4>1. k > 1 /\ k - 1 >= i /\ k - 1 < j
          BY <1>1, <2>0, <3>2
        <4> QED
          BY <1>2, <1>4, <4>1 DEF First
      <3> QED
        BY <3>1, <3>2 DEF First
    <2>2. Fits(q, j + 1, p, o)
      BY <2>0, <2>1 DEF Follows
    <2>3. ASSUME NEW k \in DOMAIN q, k > j + 1
          PROVE  k - 1 \in DOMAIN r /\ k - 1 > j /\ r[k - 1] = q[k]
                 /\ (About(r, k - 1, p) <=> About(q, k, p))
      <3>1. k > 1 /\ k - 1 > j
        BY <1>1, <2>0, <2>3
      <3> QED
        BY <1>2, <3>1
    <2>4. /\ (\E k \in DOMAIN q : k > j + 1 /\ About(q, k, p)) =>
                \E k \in DOMAIN r : k > j /\ About(r, k, p)
          /\ (\E k \in DOMAIN q : k > j + 1 /\ About(q, k, p) /\ q[k].m = "removed") =>
                \E k \in DOMAIN r : k > j /\ About(r, k, p) /\ r[k].m = "removed"
      BY <2>3
    <2> QED
      BY <2>0, <2>2, <2>4 DEF Fits
  <1> QED
    BY <1>0, <1>3, <1>4 DEF Follows

\* The tree itself, while signals about it are queued.
LEMMA TreeFollows ==
    ASSUME NEW q \in Seq(Messages), NEW t, Consistent(q, t), SameOwner(q, 1)
    PROVE  Follows(q, 1, t, t)
  <1>1. ASSUME NEW p \in Paths, NEW j \in DOMAIN q, First(q, 1, j, p)
        PROVE  Fits(q, j, p, t)
    <2>1. SameOwner(q, j) /\ About(q, j, p)
      BY <1>1 DEF SameOwner, First
    <2>2. PICK l \in DOMAIN q : l >= j /\ About(q, l, p) /\ Says(q, l, p, t)
      BY <2>1 DEF Consistent, HasLast
    <2>3. CASE l = j
      BY <2>2, <2>3 DEF Says, Fits
    <2>4. CASE l > j
      BY <2>2, <2>4 DEF Says, Fits
    <2> QED
      BY <2>2, <2>3, <2>4
  <1> QED
    BY <1>1 DEF Follows, Agree

\* A tree just sent.
LEMMA TreeSent ==
    ASSUME NEW q \in Seq(Messages), NEW t
    PROVE  Follows(q, Len(q) + 1, t, t)
  <1>1. \A j \in DOMAIN q : ~(j >= Len(q) + 1)
    OBVIOUS
  <1> QED
    BY <1>1 DEF Follows, Agree, First

\* The copy with the message at i applied to it.
LEMMA AppliedFollows ==
    ASSUME NEW q \in Seq(Messages), NEW t, NEW o \in Trees, NEW i \in DOMAIN q,
           q[i].m \in {"added", "changed"} => q[i].value \in Values(q[i].path),
           Consistent(q, t), SameOwner(q, i), Follows(q, i, o, t)
    PROVE  Follows(q, i + 1, Applied(o, q[i]), t)
  <1>0. PICK m, o2 : m = q[i] /\ o2 = Applied(o, q[i])
    OBVIOUS
  <1>1. m \in Messages /\ i \in Nat /\ DOMAIN q \subseteq Nat
    BY <1>0
  <1>2. /\ m.m \notin Signals => o2 = o
        /\ \A p \in Paths : m.m \in Signals /\ m.path # p => Agree(o2, o, p)
        /\ m.m = "removed" => m.path \notin DOMAIN o2
        /\ m.m = "added" =>
              /\ m.path \in DOMAIN o2
              /\ m.value # "unheard" => o2[m.path] = m.value
              /\ m.value = "unheard" /\ m.path # Adapter =>
                    o2[m.path] = IF m.path \in DOMAIN o THEN o[m.path] ELSE "unheard"
        /\ m.m = "changed" =>
              /\ m.path \in DOMAIN o2 <=> m.path \in DOMAIN o
              /\ m.path \in DOMAIN o => o2[m.path] = m.value
    BY <1>0, <1>1, AppliedTo DEF Agree
  <1>3. ASSUME NEW p \in Paths, ~About(q, i, p) PROVE Agree(o2, o, p)
    <2>1. m.m \notin Signals \/ m.path # p
      BY <1>0, <1>3 DEF About
    <2> QED
      BY <1>2, <2>1 DEF Agree
  <1>4. ASSUME NEW p \in Paths, About(q, i, p)
        PROVE  /\ m.path = p /\ m.m \in Signals
               /\ HasLast(q, i, p, t) /\ Alternates(q, i, p)
               /\ First(q, i, i, p) /\ Fits(q, i, p, o)
    <2>1. First(q, i, i, p)
      BY <1>1, <1>4 DEF First
    <2> QED
      BY <1>0, <1>4, <2>1 DEF About, Consistent, Follows
  <1>5. ASSUME NEW p \in Paths, \A j \in DOMAIN q : j >= i + 1 => ~About(q, j, p)
        PROVE  Agree(o2, t, p)
    <2>1. CASE ~About(q, i, p)
      <3>1. \A j \in DOMAIN q : j >= i => ~About(q, j, p)
        BY <1>1, <1>5, <2>1
      <3>2. Agree(o, t, p) /\ Agree(o2, o, p)
        BY <1>3, <2>1, <3>1 DEF Follows
      <3> QED
        BY <3>2 DEF Agree
    <2>2. CASE About(q, i, p)
      <3>1. PICK l \in DOMAIN q : l >= i /\ About(q, l, p) /\ Says(q, l, p, t)
        BY <1>4, <2>2 DEF HasLast
      <3>2. l = i
        BY <1>1, <1>5, <3>1
      <3>3. Says(q, i, p, t) /\ m.path = p /\ m.m \in Signals /\ Fits(q, i, p, o)
        BY <1>4, <2>2, <3>1, <3>2
      <3>4. \A k \in DOMAIN q : k > i => ~About(q, k, p)
        BY <1>1, <1>5
      <3>5. m.m \in {"added", "changed"} /\ m.value = "unheard" => p # Adapter
        BY <1>0, <3>3 DEF Values
      <3>6. CASE m.m = "removed"
        BY <1>0, <1>2, <3>3, <3>6 DEF Says, Agree
      <3>7. CASE m.m = "added"
        BY <1>0, <1>2, <3>3, <3>4, <3>5, <3>7 DEF Says, Agree, Fits
      <3>8. CASE m.m = "changed"
        BY <1>0, <1>2, <3>3, <3>4, <3>8 DEF Says, Agree, Fits
      <3> QED
        BY <3>3, <3>6, <3>7, <3>8 DEF Signals
    <2> QED
      BY <2>1, <2>2
  <1>6. ASSUME NEW p \in Paths, NEW j \in DOMAIN q, First(q, i + 1, j, p)
        PROVE  Fits(q, j, p, o2)
    <2>0. /\ j \in Nat /\ j >= i + 1 /\ About(q, j, p)
          /\ \A k \in DOMAIN q : k >= i + 1 /\ k < j => ~About(q, k, p)
      BY <1>1, <1>6 DEF First
    <2>1. CASE ~About(q, i, p)
      <3>1. First(q, i, j, p)
        BY <1>1, <2>0, <2>1 DEF First
      <3>2. Fits(q, j, p, o) /\ Agree(o2, o, p)
        BY <1>3, <2>1, <3>1 DEF Follows
      <3> QED
        BY <3>2 DEF Fits, Agree
    <2>2. CASE About(q, i, p)
      <3>0. m.path = p /\ m.m \in Signals /\ Fits(q, i, p, o) /\ Alternates(q, i, p) /\ j > i
        BY <1>1, <1>4, <2>0, <2>2
      <3>1. CASE q[j].m = "added"
        <4>1. PICK a \in DOMAIN q : i <= a /\ a < j /\ About(q, a, p) /\ q[a].m = "removed"
          BY <2>0, <3>0, <3>1 DEF Alternates
        <4>2. a = i
          BY <1>1, <2>0, <4>1
        <4>3. p \notin DOMAIN o2
          BY <1>0, <1>2, <3>0, <4>1, <4>2
        <4> QED
          BY <3>1, <4>3 DEF Fits
      <3>2. CASE q[j].m = "changed"
        <4>1. CASE m.m = "added"
          BY <1>2, <3>0, <3>2, <4>1 DEF Fits
        <4>2. CASE m.m = "changed" /\ p \in DOMAIN o
          BY <1>2, <3>0, <3>2, <4>2 DEF Fits
        <4>3. CASE m.m = "changed" /\ p \notin DOMAIN o
          <5>1. PICK k \in DOMAIN q : k > i /\ About(q, k, p) /\ q[k].m = "removed"
            BY <1>0, <3>0, <4>3 DEF Fits
          <5>2. k > j
            <6>1. k # j /\ k \in Nat
              BY <1>1, <3>2, <5>1
            <6> QED
              BY <1>1, <2>0, <5>1, <6>1
          <5> QED
            BY <3>2, <5>1, <5>2 DEF Fits
        <4>4. CASE m.m = "removed"
          <5>1. PICK a \in DOMAIN q : i < a /\ a < j /\ About(q, a, p)
            BY <1>0, <2>0, <3>0, <3>2, <4>4 DEF Alternates
          <5>2. a >= i + 1
            BY <1>1, <5>1
          <5> QED
            BY <2>0, <5>1, <5>2
        <4> QED
          BY <3>0, <4>1, <4>2, <4>3, <4>4 DEF Signals
      <3> QED
        BY <3>1, <3>2 DEF Fits
    <2> QED
      BY <2>1, <2>2
  <1> QED
    BY <1>0, <1>5, <1>6 DEF Follows

\* Every tree on its way, with one message more and with one less.
LEMMA MirrorQuieter ==
    ASSUME NEW q \in Seq(Messages), NEW m \in Messages, NEW t, Mirror(q, t),
           m.m \notin Signals, m.m # "owner",
           m.m = "tree" /\ m.ok => m.tree = t
    PROVE  /\ Mirror(q \o <<m>>, t)
           /\ SameOwner(q \o <<m>>, 1) => SameOwner(q, 1)
           /\ \A o, i : Follows(q, i, o, t) => Follows(q \o <<m>>, i, o, t)
  <1>0. PICK r, s : r = q \o s /\ s = <<m>>
    OBVIOUS
  <1>1. /\ s \in Seq(Messages)
        /\ \A k \in DOMAIN s : s[k].m \notin Signals /\ s[k].m # "owner"
        /\ r \in Seq(Messages) /\ Len(r) \in DOMAIN r /\ r[Len(r)] = m
        /\ \A i \in DOMAIN r : i \in DOMAIN q \/ i = Len(r)
    BY <1>0
  <1>2. /\ \A i \in DOMAIN q : i \in DOMAIN r /\ r[i] = q[i]
        /\ \A i \in DOMAIN q : SameOwner(r, i) <=> SameOwner(q, i)
        /\ SameOwner(q, 1) <=> SameOwner(r, 1)
    <2>1. /\ \A i \in DOMAIN q : i \in DOMAIN (q \o s) /\ (q \o s)[i] = q[i]
          /\ \A i \in DOMAIN q : SameOwner(q \o s, i) <=> SameOwner(q, i)
          /\ SameOwner(q, 1) <=> SameOwner(q \o s, 1)
      BY <1>1, Quieter
    <2> QED
      BY <1>0, <2>1
  <1>3. Consistent(r, t)
    BY <1>0, <1>1, ConsistentQuieter DEF Mirror
  <1>4. \A o, i : Follows(q, i, o, t) => Follows(r, i, o, t)
    BY <1>0, <1>1, FollowsQuieter
  <1>5. ASSUME NEW i \in DOMAIN r, r[i].m = "tree", r[i].ok, SameOwner(r, i)
        PROVE  Follows(r, i + 1, r[i].tree, t)
    <2>1. CASE i \in DOMAIN q
      <3>1. Follows(q, i + 1, r[i].tree, t)
        BY <1>2, <1>5, <2>1 DEF Mirror
      <3> QED
        BY <1>4, <3>1
    <2>2. CASE i = Len(r)
      <3>1. r[i].tree = t
        BY <1>1, <1>5, <2>2
      <3> QED
        BY <1>1, <2>2, <3>1, TreeSent
    <2> QED
      BY <1>1, <2>1, <2>2
  <1>6. Mirror(r, t)
    BY <1>3, <1>5 DEF Mirror
  <1> QED
    BY <1>0, <1>2, <1>4, <1>6

\* The same with a signal more.
LEMMA MirrorLonger ==
    ASSUME NEW q \in Seq(Messages), NEW m \in Messages, NEW t, NEW u, Mirror(q, t),
           Tells(m, t, u)
    PROVE  /\ Mirror(q \o <<m>>, u)
           /\ SameOwner(q \o <<m>>, 1) => SameOwner(q, 1)
           /\ \A o : Follows(q, 1, o, t) => Follows(q \o <<m>>, 1, o, u)
  <1>0. PICK r, n : r = q \o <<m>> /\ n = Len(q) + 1
    OBVIOUS
  <1>1. m.m \in Signals /\ m.m # "tree"
    BY DEF Tells, Signals
  <1>2. /\ r[n] = m
        /\ \A i \in DOMAIN q : i \in DOMAIN r /\ r[i] = q[i] /\ i \in Nat /\ i + 1 <= n
        /\ \A i \in DOMAIN r : i \in DOMAIN q \/ i = n
        /\ 1 <= n
    BY <1>0
  <1>3. \A i : SameOwner(r, i) <=> SameOwner(q, i)
    <2>1. IsLonger(q, m, r, n)
      BY <1>0, <1>1, Longer
    <2> QED
      BY <2>1 DEF IsLonger
  <1>4. Consistent(r, u)
    BY <1>0, ConsistentLonger DEF Mirror
  <1>5. \A o : \A i \in Nat : i <= n /\ Follows(q, i, o, t) => Follows(r, i, o, u)
    BY <1>0, FollowsLonger
  <1>6. ASSUME NEW i \in DOMAIN r, r[i].m = "tree", r[i].ok, SameOwner(r, i)
        PROVE  Follows(r, i + 1, r[i].tree, u)
    <2>1. i \in DOMAIN q
      BY <1>1, <1>2, <1>6
    <2>2. r[i] = q[i] /\ i + 1 \in Nat /\ i + 1 <= n
      BY <1>2, <2>1
    <2>3. Follows(q, i + 1, r[i].tree, t)
      BY <1>3, <1>6, <2>1, <2>2 DEF Mirror
    <2> QED
      BY <1>5, <2>2, <2>3
  <1>7. Mirror(r, u)
    BY <1>4, <1>6 DEF Mirror
  <1> QED
    BY <1>0, <1>2, <1>3, <1>5, <1>7

\* The same with the first message taken.
LEMMA MirrorShorter ==
    ASSUME NEW q \in Seq(Messages), q # <<>>, NEW t, Mirror(q, t)
    PROVE  Mirror(Tail(q), t)
  <1>0. PICK r : r = Tail(q)
    OBVIOUS
  <1>1. /\ DOMAIN r \subseteq Nat
        /\ \A i \in DOMAIN r : i + 1 \in DOMAIN q /\ r[i] = q[i + 1]
        /\ \A i \in DOMAIN r : SameOwner(r, i) => SameOwner(q, i + 1)
    BY <1>0, Shorter
  <1>2. ASSUME NEW i \in DOMAIN r, r[i].m = "tree", r[i].ok, SameOwner(r, i)
        PROVE  Follows(r, i + 1, r[i].tree, t)
    <2>1. Follows(q, (i + 1) + 1, r[i].tree, t)
      BY <1>1, <1>2 DEF Mirror
    <2>2. i + 1 \in Nat /\ i + 1 >= 1
      BY <1>1
    <2> QED
      BY <1>0, <2>1, <2>2, FollowsShorter
  <1>3. Consistent(r, t)
    BY <1>0, ConsistentShorter DEF Mirror
  <1> QED
    BY <1>0, <1>2, <1>3 DEF Mirror

\* What a change of the tree says of it.
LEMMA ChangeTold ==
    ASSUME BusTyped, DaemonChanges
    PROVE  \E m \in Messages : inbox' = inbox \o <<m>> /\ Tells(m, tree, tree')
  <1>0. tree \in Trees /\ inbox \in Seq(Messages) /\ DOMAIN tree \subseteq Paths
    BY TreeFunction DEF BusTyped
  <1>1. ASSUME NEW p \in Paths \ DOMAIN tree, NEW v \in Values(p),
               Grow(With(tree, p, v), [m |-> "added", path |-> p, value |-> v])
        PROVE  \E m \in Messages : inbox' = inbox \o <<m>> /\ Tells(m, tree, tree')
    <2>0. PICK m : m = [m |-> "added", path |-> p, value |-> v]
      OBVIOUS
    <2>1. v \in {"off", "on", "heard", "unheard"} /\ p \in Paths /\ p \notin DOMAIN tree
      BY <1>1 DEF Values
    <2>2. m \in Messages /\ m.m = "added" /\ m.path = p /\ m.value = v
      BY <2>0, <2>1 DEF Messages
    <2>3. inbox' = inbox \o <<m>> /\ tree' = With(tree, p, v)
      BY <1>0, <1>1, <2>0, <2>2, Appended DEF Grow, Deliver
    <2>4. /\ DOMAIN tree' = DOMAIN tree \cup {p} /\ tree'[p] = v
          /\ \A r \in DOMAIN tree : r # p => tree'[r] = tree[r]
      <3>1. /\ DOMAIN With(tree, p, v) = DOMAIN tree \cup {p} /\ With(tree, p, v)[p] = v
            /\ \A r \in DOMAIN tree : r # p => With(tree, p, v)[r] = tree[r]
        BY DEF With
      <3> QED
        BY <2>3, <3>1
    <2>5. Tells(m, tree, tree')
      BY <2>1, <2>2, <2>4 DEF Tells, Agree, Signals
    <2> QED
      BY <2>2, <2>3, <2>5
  <1>2. ASSUME NEW p \in DOMAIN tree,
               Grow(Restrict(tree, DOMAIN tree \ {p}), [m |-> "removed", path |-> p])
        PROVE  \E m \in Messages : inbox' = inbox \o <<m>> /\ Tells(m, tree, tree')
    <2>0. PICK m : m = [m |-> "removed", path |-> p]
      OBVIOUS
    <2>2. m \in Messages /\ m.m = "removed" /\ m.path = p
      BY <1>0, <2>0 DEF Messages
    <2>3. inbox' = inbox \o <<m>> /\ tree' = objects_remove_interfaces(tree, p)
      BY <1>0, <1>2, <2>0, <2>2, Appended DEF Grow, Deliver, objects_remove_interfaces
    <2>4. /\ DOMAIN tree' = DOMAIN tree \ {p}
          /\ \A r \in DOMAIN tree : r # p => tree'[r] = tree[r]
      BY <1>0, <2>3, CutTree
    <2>5. Tells(m, tree, tree')
      BY <1>2, <2>2, <2>4 DEF Tells, Agree, Signals
    <2> QED
      BY <2>2, <2>3, <2>5
  <1>3. ASSUME NEW p \in DOMAIN tree, NEW v \in Values(p),
               Grow([tree EXCEPT ![p] = v], [m |-> "changed", path |-> p, value |-> v])
        PROVE  \E m \in Messages : inbox' = inbox \o <<m>> /\ Tells(m, tree, tree')
    <2>0. PICK m : m = [m |-> "changed", path |-> p, value |-> v]
      OBVIOUS
    <2>1. v \in {"off", "on", "heard", "unheard"}
      BY <1>3 DEF Values
    <2>2. m \in Messages /\ m.m = "changed" /\ m.path = p /\ m.value = v
      BY <1>0, <2>0, <2>1 DEF Messages
    <2>3. inbox' = inbox \o <<m>> /\ tree' = Replaced(tree, p, v)
      BY <1>0, <1>3, <2>0, <2>2, Appended DEF Grow, Deliver, Replaced
    <2>4. /\ DOMAIN tree' = DOMAIN tree /\ tree'[p] = v
          /\ \A r \in DOMAIN tree : r # p => tree'[r] = tree[r]
      <3>1. /\ DOMAIN Replaced(tree, p, v) = DOMAIN tree /\ Replaced(tree, p, v)[p] = v
            /\ \A r \in DOMAIN tree : r # p => Replaced(tree, p, v)[r] = tree[r]
        BY <1>0, <2>1, SetTree
      <3> QED
        BY <2>3, <3>1
    <2>5. Tells(m, tree, tree')
      BY <1>3, <2>2, <2>4 DEF Tells, Agree, Signals
    <2> QED
      BY <2>2, <2>3, <2>5
  <1> QED
    BY <1>1, <1>2, <1>3 DEF DaemonChanges

\* The copy follows the tree.
LEMMA MirrorKept ==
    ASSUME CentralTyped, BusTyped, Mirrors, Fetching, Next
    PROVE  Mirrors'
  <1>0. /\ uses' = uses /\ inbox \in Seq(Messages) /\ tree \in Trees /\ objects \in Trees
        /\ open \in BOOLEAN /\ open' \in BOOLEAN
        /\ \A i \in DOMAIN inbox :
              inbox[i].m \in {"added", "changed"} => inbox[i].value \in Values(inbox[i].path)
    BY LifeTyped DEF CentralTyped, BusTyped
  <1> SUFFICES ASSUME "fetch" \in uses
               PROVE  /\ Mirror(inbox', tree')
                      /\ objects_loaded' /\ SameOwner(inbox', 1) =>
                            Follows(inbox', 1, objects', tree')
    BY <1>0 DEF Mirrors
  <1>1. /\ Mirror(inbox, tree) /\ Consistent(inbox, tree)
        /\ objects_loaded /\ SameOwner(inbox, 1) => Follows(inbox, 1, objects, tree)
    BY DEF Mirrors, Mirror
  <1>2. CASE Process
    <2> DEFINE m == Head(inbox)
    <2>1. /\ inbox # <<>> /\ inbox' = Tail(inbox) /\ tree' = tree
          /\ m = inbox[1] /\ 1 \in DOMAIN inbox /\ m \in Messages
      BY <1>0, <1>2, Popped DEF Process, daemon_tree
    <2>2. Mirror(inbox', tree')
      BY <1>0, <1>1, <2>1, MirrorShorter
    <2>3. ASSUME objects_loaded', SameOwner(inbox', 1), m.m # "owner"
          PROVE  SameOwner(inbox, 1)
      BY <1>0, <2>1, <2>3, Shorter
    <2>4. ASSUME objects_loaded, objects' = Applied(objects, m), SameOwner(inbox, 1)
          PROVE  Follows(inbox', 1, objects', tree')
      <3>1. Follows(inbox, 1 + 1, objects', tree)
        BY <1>0, <1>1, <2>1, <2>4, AppliedFollows
      <3> QED
        BY <1>0, <2>1, <3>1, FollowsShorter
    <2>5. objects_loaded' /\ SameOwner(inbox', 1) => Follows(inbox', 1, objects', tree')
      <3> SUFFICES ASSUME objects_loaded', SameOwner(inbox', 1)
                   PROVE  Follows(inbox', 1, objects', tree')
        OBVIOUS
      <3>1. CASE UNCHANGED copy /\ m.m \notin Signals /\ m.m # "owner"
        <4>1. objects_loaded /\ objects' = objects
          BY <3>1 DEF copy
        <4>2. Applied(objects, m) = objects
          BY <1>0, <2>1, <3>1, AppliedTo
        <4> QED
          BY <2>3, <2>4, <3>1, <4>1, <4>2
      <3>2. CASE m.m \in Signals /\ (HandleSignal(m) \/ handle_properties_changed(m))
        <4>1. objects_loaded /\ objects' = Applied(objects, m)
          <5> HIDE DEF m
          <5> QED
            BY <3>2 DEF HandleSignal, handle_properties_changed, Update, OutOfMemory,
                objects_clear
        <4>2. m.m # "owner"
          BY <3>2 DEF Signals
        <4> QED
          BY <2>3, <2>4, <4>1, <4>2
      <3>3. CASE m.m = "owner" /\ HandleOwner(m)
        <4> HIDE DEF m
        <4> QED
          BY <3>3 DEF HandleOwner, objects_clear
      <3>4. CASE m.m = "tree" /\ HandleTree(m)
        <4>1. SameOwner(inbox, 1) /\ m.m \notin Signals
          BY <2>3, <3>4 DEF Signals
        <4>2. CASE objects_loaded /\ objects' = objects
          <5>1. Applied(objects, m) = objects
            BY <1>0, <2>1, <4>1, AppliedTo
          <5> QED
            BY <2>4, <4>1, <4>2, <5>1
        <4>3. CASE m.ok /\ objects' = m.tree
          <5>1. Follows(inbox, 1 + 1, objects', tree)
            BY <1>1, <2>1, <3>4, <4>1, <4>3 DEF Mirror
          <5> QED
            BY <1>0, <2>1, <5>1, FollowsShorter
        <4> HIDE DEF m
        <4> QED
          BY <3>4, <4>2, <4>3 DEF HandleTree, objects_load, objects_clear, copy
      <3>5. CASE ProcessTree(m)
        <4> HIDE DEF m
        <4> QED
          BY <3>2, <3>3, <3>4, <3>5 DEF ProcessTree, Signals
      <3>6. CASE ~ProcessTree(m)
        <4>1. /\ UNCHANGED copy
              /\ m.m \in {"ask", "authorize", "display", "cancel", "release", "reply"}
          BY <1>2, <3>6 DEF Process
        <4> QED
          BY <3>1, <4>1 DEF Signals
      <3> QED
        BY <3>5, <3>6
    <2> QED
      BY <2>2, <2>5
  <1>3. CASE Bluetoothd
    <2>0. objects_loaded' = objects_loaded /\ objects' = objects
      BY <1>3, DaemonFrame DEF Daemon, copy
    <2>1. ASSUME NEW m \in Messages, inbox' = inbox \o <<m>>, tree' = tree,
                 m.m \notin Signals, m.m # "owner", m.m = "tree" /\ m.ok => m.tree = tree
          PROVE  /\ Mirror(inbox', tree')
                 /\ objects_loaded' /\ SameOwner(inbox', 1) =>
                       Follows(inbox', 1, objects', tree')
      <3>1. /\ Mirror(inbox \o <<m>>, tree)
            /\ SameOwner(inbox \o <<m>>, 1) => SameOwner(inbox, 1)
            /\ \A o, i : Follows(inbox, i, o, tree) => Follows(inbox \o <<m>>, i, o, tree)
        BY <1>0, <1>1, <2>1, MirrorQuieter
      <3> QED
        BY <1>1, <2>0, <2>1, <3>1
    <2>2. CASE \E c \in calls, ok \in BOOLEAN : DaemonReplies(c, ok)
      <3>1. PICK c \in calls, ok \in BOOLEAN : DaemonReplies(c, ok)
        BY <2>2
      <3>2. PICK m : m = Reply(c, ok)
        OBVIOUS
      <3>3. /\ m \in Messages /\ m.ok = ok
            /\ m.m = IF c.what = "objects" THEN "tree" ELSE "reply"
            /\ c.what = "objects" /\ ok => m.tree = tree
        BY <3>2, ReplyMessage
      <3>4. inbox' = inbox \o <<m>> /\ tree' = tree
        BY <1>0, <3>1, <3>2, <3>3, Appended DEF DaemonReplies, Deliver, daemon_tree
      <3> QED
        BY <2>1, <3>3, <3>4 DEF Signals
    <2>3. CASE \E d \in Devices :
                DaemonAsks("ask", d) \/ DaemonAsks("authorize", d) \/ DaemonAsks("display", d)
      <3>1. PICK d \in Devices, w \in {"ask", "authorize", "display"} : DaemonAsks(w, d)
        BY <2>3
      <3>2. PICK m : m = [m |-> w, kind |-> "PASSKEY", device |-> d, id |-> asks + 1]
        OBVIOUS
      <3>3. m \in Messages /\ m.m \in {"ask", "authorize", "display"}
        BY <3>2 DEF Messages, BusTyped
      <3>4. inbox' = inbox \o <<m>> /\ tree' = tree
        BY <1>0, <3>1, <3>2, <3>3, Appended DEF DaemonAsks, Deliver, daemon_tree
      <3> QED
        BY <2>1, <3>3, <3>4 DEF Signals
    <2>4. CASE DaemonGivesUp \/ DaemonReleases
      <3>1. PICK w \in {"cancel", "release"} : inbox' = Append(inbox, [m |-> w]) /\ tree' = tree
        BY <2>4 DEF DaemonGivesUp, DaemonReleases, Deliver, daemon_tree
      <3>2. PICK m : m = [m |-> w]
        OBVIOUS
      <3>3. m \in Messages /\ m.m \in {"cancel", "release"}
        BY <3>2 DEF Messages
      <3>4. inbox' = inbox \o <<m>>
        BY <1>0, <3>1, <3>2, <3>3, Appended
      <3> QED
        BY <2>1, <3>1, <3>3, <3>4 DEF Signals
    <2>5. CASE DaemonDies
      <3>1. PICK s \in Seq(Messages) :
                inbox' = inbox \o s /\ Len(s) \in DOMAIN s /\ s[Len(s)].m = "owner"
        BY <2>5, LastWords
      <3>2. PICK q : q = inbox \o s
        OBVIOUS
      <3>3. q \in Seq(Messages) /\ Len(q) \in DOMAIN q /\ q[Len(q)] = s[Len(s)]
        BY <1>0, <3>1, <3>2
      <3>4. Mirror(q, tree') /\ ~SameOwner(q, 1)
        BY <3>1, <3>3, OwnerLast
      <3> QED
        BY <3>1, <3>2, <3>4
    <2>6. CASE DaemonStarts
      <3>1. inbox' = Append(inbox, OwnerUp)
        BY <2>6 DEF DaemonStarts, Deliver, OwnerUp
      <3>2. OwnerUp \in Messages /\ OwnerUp.m = "owner"
        BY DEF OwnerUp, Messages
      <3>3. PICK q, m : q = Append(inbox, m) /\ m = OwnerUp
        OBVIOUS
      <3>4. q \in Seq(Messages) /\ Len(q) \in DOMAIN q /\ q[Len(q)] = m
        BY <1>0, <3>2, <3>3
      <3>5. Mirror(q, tree') /\ ~SameOwner(q, 1)
        BY <3>2, <3>3, <3>4, OwnerLast
      <3> QED
        BY <3>1, <3>3, <3>5
    <2>7. CASE DaemonChanges
      <3>1. PICK m \in Messages : inbox' = inbox \o <<m>> /\ Tells(m, tree, tree')
        BY <2>7, ChangeTold
      <3>2. /\ Mirror(inbox \o <<m>>, tree')
            /\ SameOwner(inbox \o <<m>>, 1) => SameOwner(inbox, 1)
            /\ \A o : Follows(inbox, 1, o, tree) => Follows(inbox \o <<m>>, 1, o, tree')
        BY <1>0, <1>1, <3>1, MirrorLonger
      <3> QED
        BY <1>1, <2>0, <3>1, <3>2
    <2> QED
      BY <1>3, <2>2, <2>3, <2>4, <2>5, <2>6, <2>7 DEF Bluetoothd
  <1>4. CASE ~Process /\ ~Bluetoothd
    <2>0. tree' = tree /\ (inbox' = inbox \/ inbox' = <<>>)
      <3>1. tree' = tree
        <4>1. CASE Caller \/ Lookup \/ Discovering \/ Discovery \/ Drain
          BY <4>1 DEF Caller, Lookup, Discovering, Discovery, Drain, daemon_tree
        <4>2. CASE \E s \in Slots : Deadline(s)
          BY <4>2 DEF Deadline, TimerFires, ProcessDeadline, daemon_tree
        <4> QED
          BY <1>4, <4>1, <4>2 DEF Next
      <3> QED
        BY <1>4, <3>1, InboxSteps
    <2>1. CASE inbox' = inbox
      <3>1. CASE objects_loaded' => objects_loaded /\ objects' = objects
        BY <1>1, <2>0, <2>1, <3>1
      <3>2. CASE objects' = tree
        <4>1. SameOwner(inbox, 1) => Follows(inbox, 1, tree, tree)
          BY <1>0, <1>1, TreeFollows
        <4> QED
          BY <1>1, <2>0, <2>1, <3>2, <4>1
      <3>3. \/ objects_loaded' => objects_loaded /\ objects' = objects
            \/ objects' = tree
        <4>1. CASE UNCHANGED copy \/ objects_clear \/ Discovering
          BY <4>1 DEF copy, objects_clear, Discovering
        <4>2. CASE Lookup
          BY <4>2 DEF Lookup, objects_ensure, objects_load, objects_clear, copy
        <4> QED
          BY <1>4, <4>1, <4>2, CopySteps
      <3> QED
        BY <3>1, <3>2, <3>3
    <2>2. CASE inbox' = <<>>
      <3>1. DOMAIN inbox' = {}
        BY <2>2
      <3>2. Mirror(inbox', tree')
        BY <3>1 DEF Mirror, Consistent
      <3>3. CASE inbox' # inbox
        <4>1. \E private \in BOOLEAN : Close(private)
          BY <1>4, <3>3, InboxSteps
        <4>2. ~open'
          BY <4>1 DEF Close
        <4>3. ~objects_loaded'
          BY <4>2, FetchingKept DEF Fetching
        <4> QED
          BY <3>2, <4>3
      <3> QED
        BY <2>1, <3>3
    <2> QED
      BY <2>0, <2>1, <2>2
  <1> QED
    BY <1>2, <1>3, <1>4

-----------------------------------------------------------------------------
(* The signals applied one after the other. *)

\* A set of natural numbers that is not empty has a least element.
LEMMA Least ==
    ASSUME NEW T \in SUBSET Nat, T # {}
    PROVE  \E x \in T : \A y \in T : x <= y
  <1> DEFINE R == OpToRel(<, Nat)
  <1>1. IsWellFoundedOn(R, Nat)
    BY NatLessThanWellFounded
  <1>2. \A x, y \in Nat : <<y, x>> \in R <=> y < x
    BY DEF OpToRel
  <1> HIDE DEF R
  <1>3. PICK x \in T : \A y \in T : ~(<<y, x>> \in R)
    BY <1>1, WFMin
  <1>4. ASSUME NEW y \in T PROVE x <= y
    <2>1. x \in Nat /\ y \in Nat /\ ~(y < x)
      BY <1>2, <1>3
    <2> QED
      BY <2>1
  <1> QED
    BY <1>4

\* f holds the copy o with the first 0, 1, ... n messages of q applied to it.
Replay(f, n, q, o) ==
    /\ f = [i \in 0 .. n |-> f[i]]
    /\ f[0] = o
    /\ \A i \in 1 .. n : f[i] = Applied(f[i - 1], q[i])

\* There is such a function.
LEMMA ReplayExists ==
    ASSUME NEW q \in Seq(Messages), NEW o
    PROVE  \E f : Replay(f, Len(q), q, o)
  <1> DEFINE T == {n \in 0 .. Len(q) : ~ \E f : Replay(f, n, q, o)}
  <1>0. Len(q) \in 0 .. Len(q)
    OBVIOUS
  <1> SUFFICES ASSUME T # {} PROVE FALSE
    <2>1. Len(q) \notin T => \E f : Replay(f, Len(q), q, o)
      BY <1>0
    <2> HIDE DEF T
    <2> QED
      BY <2>1
  <1>1. T \in SUBSET Nat
    OBVIOUS
  <1>2. PICK n \in T : \A y \in T : n <= y
    BY <1>1, Least
  <1>3. n \in 0 .. Len(q) /\ n \in Nat /\ Len(q) \in Nat /\ ~ \E f : Replay(f, n, q, o)
    BY <1>2
  <1>4. CASE n = 0
    <2>1. PICK g : g = [i \in 0 .. 0 |-> o]
      OBVIOUS
    <2>2. Replay(g, 0, q, o)
      BY <2>1 DEF Replay
    <2> QED
      BY <1>3, <1>4, <2>2
  <1>5. CASE n # 0
    <2>1. n - 1 \in 0 .. Len(q) /\ ~(n <= n - 1)
      BY <1>3, <1>5
    <2>2. n - 1 \notin T
      BY <1>2, <2>1
    <2>3. PICK f : Replay(f, n - 1, q, o)
      BY <2>1, <2>2
    <2>4. PICK g : g = [i \in 0 .. n |-> IF i = n THEN Applied(f[n - 1], q[n]) ELSE f[i]]
      OBVIOUS
    <2>5. g = [i \in 0 .. n |-> g[i]]
      BY <2>4
    <2>6. g[0] = o
      BY <1>3, <1>5, <2>3, <2>4 DEF Replay
    <2>7. ASSUME NEW i \in 1 .. n PROVE g[i] = Applied(g[i - 1], q[i])
      <3>0. i \in 0 .. n /\ i - 1 \in 0 .. n /\ i - 1 # n
        BY <1>3
      <3>1. g[i - 1] = f[i - 1]
        BY <2>4, <3>0
      <3>2. CASE i = n
        BY <2>4, <3>0, <3>1, <3>2
      <3>3. CASE i # n
        <4>1. i \in 1 .. n - 1
          BY <1>3, <3>3
        <4>2. f[i] = Applied(f[i - 1], q[i])
          BY <2>3, <4>1 DEF Replay
        <4>3. g[i] = f[i]
          BY <2>4, <3>0, <3>3
        <4> QED
          BY <3>1, <4>2, <4>3
      <3> QED
        BY <3>2, <3>3
    <2>8. Replay(g, n, q, o)
      BY <2>5, <2>6, <2>7 DEF Replay
    <2> QED
      BY <1>3, <2>8
  <1> QED
    BY <1>4, <1>5

\* What the recursive definition defines.
LEMMA ReplayedIs ==
    ASSUME inbox \in Seq(Messages)
    PROVE  Replay(replayed, Len(inbox), inbox, objects)
  <1> DEFINE S(f) == f = [i \in 0 .. Len(inbox) |->
                              IF i = 0 THEN objects ELSE Applied(f[i - 1], inbox[i])]
  <1>1. PICK f : Replay(f, Len(inbox), inbox, objects)
    BY ReplayExists
  <1>2. S(f)
    <2>1. ASSUME NEW i \in 0 .. Len(inbox)
          PROVE  f[i] = IF i = 0 THEN objects ELSE Applied(f[i - 1], inbox[i])
      <3>1. CASE i = 0
        BY <1>1, <3>1 DEF Replay
      <3>2. CASE i # 0
        <4>1. i \in 1 .. Len(inbox)
          BY <3>2
        <4> QED
          BY <1>1, <3>2, <4>1 DEF Replay
      <3> QED
        BY <3>1, <3>2
    <2>2. f = [i \in 0 .. Len(inbox) |-> f[i]]
      BY <1>1 DEF Replay
    <2> QED
      BY <2>1, <2>2
  <1>3. replayed = CHOOSE g : S(g)
    BY DEF replayed
  <1> HIDE DEF S
  <1>4. S(replayed)
    BY <1>2, <1>3
  <1>5. replayed = [i \in 0 .. Len(inbox) |->
                        IF i = 0 THEN objects ELSE Applied(replayed[i - 1], inbox[i])]
    BY <1>4 DEF S
  <1>6. PICK g : g = replayed
    OBVIOUS
  <1>7. g = [i \in 0 .. Len(inbox) |-> IF i = 0 THEN objects ELSE Applied(g[i - 1], inbox[i])]
    BY <1>5, <1>6
  <1>8. g = [i \in 0 .. Len(inbox) |-> g[i]]
    BY <1>7
  <1>9. g[0] = objects /\ \A i \in 1 .. Len(inbox) : g[i] = Applied(g[i - 1], inbox[i])
    <2>1. Len(inbox) \in Nat
      OBVIOUS
    <2>2. \A i \in 0 .. Len(inbox) :
             g[i] = IF i = 0 THEN objects ELSE Applied(g[i - 1], inbox[i])
      BY <1>7
    <2>3. \A i \in 1 .. Len(inbox) : i \in 0 .. Len(inbox) /\ i # 0
      BY <2>1
    <2> QED
      BY <2>1, <2>2, <2>3
  <1>10. Replay(g, Len(inbox), inbox, objects)
    BY <1>8, <1>9 DEF Replay
  <1> QED
    BY <1>6, <1>10

\* The copy, with all that is queued applied to it, is the tree.
LEMMA ReplayFollows ==
    ASSUME NEW q \in Seq(Messages), NEW t \in Trees, NEW o \in Trees, NEW f,
           Replay(f, Len(q), q, o),
           \A i \in DOMAIN q :
              q[i].m \in {"added", "changed"} => q[i].value \in Values(q[i].path),
           Consistent(q, t), SameOwner(q, 1), Follows(q, 1, o, t)
    PROVE  f[Len(q)] = t
  <1> DEFINE T == {n \in 0 .. Len(q) : ~(f[n] \in Trees /\ Follows(q, n + 1, f[n], t))}
  <1>0. Len(q) \in Nat /\ DOMAIN q = 1 .. Len(q)
    OBVIOUS
  <1>1. T = {}
    <2> SUFFICES ASSUME T # {} PROVE FALSE
      OBVIOUS
    <2>1. T \in SUBSET Nat
      OBVIOUS
    <2>2. PICK n \in T : \A y \in T : n <= y
      BY <2>1, Least
    <2>3. n \in 0 .. Len(q) /\ n \in Nat /\ ~(f[n] \in Trees /\ Follows(q, n + 1, f[n], t))
      BY <2>2
    <2>4. n # 0
      <3>1. f[0] = o /\ 0 + 1 = 1
        BY DEF Replay
      <3> QED
        BY <2>3, <3>1
    <2>5. /\ n - 1 \in 0 .. Len(q) /\ ~(n <= n - 1) /\ n \in DOMAIN q /\ (n - 1) + 1 = n
          /\ n \in 1 .. Len(q) /\ n >= 1
      BY <1>0, <2>3, <2>4
    <2>6. f[n - 1] \in Trees /\ Follows(q, n, f[n - 1], t)
      BY <2>2, <2>5
    <2>7. f[n] = Applied(f[n - 1], q[n]) /\ q[n] \in Messages
      <3>1. f[n] = Applied(f[n - 1], q[n])
        BY <2>5 DEF Replay
      <3>2. q[n] \in Messages
        BY <2>5
      <3> QED
        BY <3>1, <3>2
    <2>8. f[n] \in Trees
      BY <2>6, <2>7, AppliedTo
    <2>9. SameOwner(q, n)
      BY <1>0, <2>5 DEF SameOwner
    <2>10. PICK p : p = f[n - 1]
      OBVIOUS
    <2>11. Follows(q, n + 1, Applied(p, q[n]), t)
      BY <2>5, <2>6, <2>9, <2>10, AppliedFollows
    <2> QED
      BY <2>3, <2>7, <2>8, <2>10, <2>11
  <1>2. PICK u : u = f[Len(q)]
    OBVIOUS
  <1>3. u \in Trees /\ Follows(q, Len(q) + 1, u, t)
    <2>1. Len(q) \in 0 .. Len(q)
      BY <1>0
    <2> QED
      BY <1>1, <1>2, <2>1
  <1>4. \A p \in Paths : Agree(u, t, p)
    <2>1. \A j \in DOMAIN q : ~(j >= Len(q) + 1)
      BY <1>0
    <2> QED
      BY <1>3, <2>1 DEF Follows
  <1>5. DOMAIN u = DOMAIN t
    BY <1>3, <1>4, TreeFunction DEF Agree
  <1>6. \A p \in DOMAIN u : u[p] = t[p]
    BY <1>3, <1>4, TreeFunction DEF Agree
  <1>7. u = [p \in DOMAIN u |-> u[p]] /\ t = [p \in DOMAIN t |-> t[p]]
    BY <1>3, TreeFunction
  <1>8. u = t
    BY <1>5, <1>6, <1>7
  <1> QED
    BY <1>2, <1>8

\* The invariant implies it of the copy and the inbox.
LEMMA MirrorIsTree == Inv => Converges
  <1> SUFFICES ASSUME Inv, objects_loaded, \A i \in DOMAIN inbox : inbox[i].m # "owner"
               PROVE  replayed[Len(inbox)] = tree
    BY DEF Converges
  <1>1. /\ inbox \in Seq(Messages) /\ tree \in Trees /\ objects \in Trees
        /\ \A i \in DOMAIN inbox :
              inbox[i].m \in {"added", "changed"} => inbox[i].value \in Values(inbox[i].path)
    BY DEF Inv, CentralTyped, BusTyped
  <1>2. "fetch" \in uses
    BY DEF Inv, Fetching
  <1>3. SameOwner(inbox, 1)
    BY DEF SameOwner
  <1>4. Consistent(inbox, tree) /\ Follows(inbox, 1, objects, tree)
    BY <1>2, <1>3 DEF Inv, Mirrors, Mirror
  <1>5. Replay(replayed, Len(inbox), inbox, objects)
    BY <1>1, ReplayedIs
  <1> QED
    BY <1>1, <1>3, <1>4, <1>5, ReplayFollows

-----------------------------------------------------------------------------
(* The theorems. *)

\* The invariant holds at first.
LEMMA InitInv == BluezInit => Inv
  <1> SUFFICES ASSUME BluezInit PROVE Inv
    OBVIOUS
  <1> USE DEF BluezInit, Init, TreeInit
  <1>0. /\ DOMAIN inbox = {} /\ MaxTraffic[uses] \in Nat /\ inbox \in Seq(Messages)
        /\ serial = 0 /\ 0 \in 0 .. 0 /\ 0 \in 0 .. 2
    BY Assumptions
  <1>1. CentralTyped
    <2>1. Idle \in Requests(serial)
      BY <1>0 DEF Idle, Requests
    <2>2. IdleLink \in Links(serial)
      BY <1>0 DEF IdleLink, Links
    <2>3. req \in [Slots -> Requests(serial)]
      BY <2>1
    <2>4. objects \in Trees
      BY EmptyTree
    <2>5. /\ agent_request \in [kind : {"NONE", "PASSKEY"}, device : Devices \cup {None}]
          /\ answer \in [device : Devices \cup {None}, waiting : BOOLEAN, consent : BOOLEAN]
      BY DEF NoRequest, NoAnswer
    <2>6. matches \in [Handles -> Nat]
      OBVIOUS
    <2>7. WatchTyped(watch)
      BY DEF Detached, WatchTyped
    <2> QED
      BY <1>0, <2>2, <2>3, <2>4, <2>5, <2>6, <2>7 DEF CentralTyped
  <1>2. BusTyped
    <2>1. asking \in [id : 0 .. asks, device : Devices \cup {None}]
      BY <1>0 DEF Nobody
    <2>2. IsFiniteSet(calls)
      BY FS_EmptySet
    <2> QED
      BY <1>0, <2>1, <2>2, BootTree DEF BusTyped
  <1>3. Bounded
    <2>1. OwnersUp(inbox) = {}
      BY <1>0 DEF OwnersUp
    <2>2. IsFiniteSet(OwnersUp(inbox)) /\ Cardinality(OwnersUp(inbox)) = 0
      BY <2>1, FS_EmptySet
    <2> QED
      BY <1>0, <2>2 DEF Bounded
  <1>4. TimersOwned /\ ValuesAreMatched /\ WatchesCover
    BY DEF TimersOwned, ValuesAreMatched, WatchesCover, WatchTyped, Idle, Detached
  <1>5. OwnCalls /\ OneEach /\ AnswerIsOwn /\ LinkCanFinish
    BY DEF OwnCalls, OneEach, AnswerIsOwn, LinkCanFinish, Idle, IdleLink
  <1>6. Asked /\ AgentAnswersForPair
    BY <1>0 DEF Asked, AgentAnswersForPair, Nobody, NoAnswer, NoRequest
  <1>7. Fetching /\ FetchComing
    BY <1>0 DEF Fetching, FetchComing
  <1>8. Mirrors
    BY <1>0 DEF Mirrors, Mirror, Consistent
  <1> QED
    BY <1>1, <1>2, <1>3, <1>4, <1>5, <1>6, <1>7, <1>8 DEF Inv

\* Every step keeps it.
LEMMA NextInv == Inv /\ Next => Inv'
  <1> SUFFICES ASSUME Inv, Next PROVE Inv'
    OBVIOUS
  <1>0. /\ CentralTyped /\ BusTyped /\ Bounded
        /\ TimersOwned /\ ValuesAreMatched /\ WatchesCover
        /\ OwnCalls /\ OneEach /\ AnswerIsOwn /\ LinkCanFinish
        /\ Asked /\ AgentAnswersForPair
        /\ Fetching /\ FetchComing /\ Mirrors
    BY DEF Inv
  <1>1. CentralTyped' /\ BusTyped' /\ Bounded'
    BY <1>0, TypesKept, BoundKept
  <1>2. TimersOwned' /\ ValuesAreMatched' /\ WatchesCover'
    BY <1>0, TimersKept, ValuesKept, OutputKept
  <1>3. OwnCalls' /\ OneEach' /\ AnswerIsOwn' /\ LinkCanFinish'
    BY <1>0, OwnKept, EachKept, FinishKept
  <1>4. Asked' /\ AgentAnswersForPair'
    BY <1>0, AgentKept
  <1>5. Fetching' /\ FetchComing' /\ Mirrors'
    BY <1>0, FetchingKept, FetchKept, MirrorKept
  <1> QED
    BY <1>1, <1>2, <1>3, <1>4, <1>5 DEF Inv

\* It says nothing of what is not in allvars.
LEMMA SameInv == Inv /\ UNCHANGED allvars => Inv'
  <1> SUFFICES ASSUME Inv, UNCHANGED allvars PROVE Inv'
    OBVIOUS
  <1> USE DEF allvars, vars, requests, links, values, agent, bus, daemon_tree, copy, output
  <1>1. CentralTyped' /\ BusTyped' /\ Bounded'
    BY DEF Inv, CentralTyped, BusTyped, Bounded
  <1>2. TimersOwned' /\ ValuesAreMatched' /\ WatchesCover'
    BY DEF Inv, TimersOwned, ValuesAreMatched, WatchesCover
  <1>3. OwnCalls' /\ OneEach' /\ AnswerIsOwn' /\ LinkCanFinish'
    BY DEF Inv, OwnCalls, OneEach, AnswerIsOwn, LinkCanFinish, Coming
  <1>4. Asked' /\ AgentAnswersForPair'
    BY DEF Inv, Asked, AgentAnswersForPair, NoPairReply
  <1>5. Fetching' /\ FetchComing' /\ Mirrors'
    BY DEF Inv, Fetching, FetchComing, Mirrors
  <1> QED
    BY <1>1, <1>2, <1>3, <1>4, <1>5 DEF Inv

\* The inductive invariant: what the central, the bus and bluetoothd keep, and
\* how what is on its way to process() fits what the central holds.
THEOREM Invariant == SafeSpec => []Inv
  <1>1. Inv /\ [Next]_allvars => Inv'
    BY NextInv, SameInv
  <1> QED
    BY InitInv, <1>1, PTL DEF SafeSpec

\* What the bound on the traffic says of the serials and of the questions.
LEMMA Typed == Inv => TypeOK
  <1> SUFFICES ASSUME Inv PROVE TypeOK
    OBVIOUS
  <1> DEFINE n == Cardinality(OwnersUp(inbox))
             b == MaxTraffic[uses]
  <1>0. CentralTyped /\ BusTyped /\ Bounded
    BY DEF Inv
  <1>1. n \in Nat /\ b \in Nat
    BY <1>0, FS_CardinalityType, Assumptions DEF Bounded, CentralTyped
  <1>2. serial \in Nat /\ asks \in Nat /\ changes \in Nat /\ serial + asks + changes + n <= b
    BY <1>0 DEF BusTyped, Bounded
  <1> HIDE DEF n, b
  <1>3. (0 .. serial) \subseteq 0 .. b /\ (0 .. asks) \subseteq 0 .. b /\ asks \in 0 .. b
        /\ (1 .. serial) \subseteq 0 .. b
    BY <1>1, <1>2
  <1>4. (0 .. serial) \subseteq Tokens /\ (0 .. asks) \subseteq Tokens /\ asks \in Tokens
        /\ (1 .. serial) \subseteq Tokens
    BY <1>3 DEF Tokens, b
  <1>5. /\ Requests(serial) \subseteq [state : 0 .. 2, token : Tokens, result : Tokens,
                                        timer : BOOLEAN, call : Tokens]
        /\ Links(serial) \subseteq [state : 0 .. 2, token : Tokens, result : Tokens,
                                     call : Tokens, address : Devices \cup {None}]
    BY <1>4 DEF Requests, Links
  <1>6. req \in [Slots -> [state : 0 .. 2, token : Tokens, result : Tokens,
                            timer : BOOLEAN, call : Tokens]]
    BY <1>0, <1>5 DEF CentralTyped
  <1>7. {connect, pair} \subseteq
           [state : 0 .. 2, token : Tokens, result : Tokens, call : Tokens,
            address : Devices \cup {None}]
    BY <1>0, <1>5 DEF CentralTyped
  <1>8. /\ {agent_pending, asks, asking.id, objects_serial} \subseteq Tokens
        /\ backlog \subseteq Tokens
    <2>1. /\ agent_pending \in 0 .. asks /\ asking.id \in 0 .. asks
          /\ objects_serial \in 0 .. serial
          /\ backlog \subseteq 1 .. serial
      BY <1>0 DEF CentralTyped, BusTyped
    <2> QED
      BY <1>4, <2>1
  <1>9. {DOMAIN tree, DOMAIN objects} \subseteq SUBSET Paths
    BY <1>0, TreeFunction DEF CentralTyped, BusTyped
  <1>10. watch \in [registered : {"none", "in", "out"}, mask : SUBSET {"IN", "OUT"},
                     refused : BOOLEAN]
    BY <1>0 DEF CentralTyped, WatchTyped
  <1> QED
    BY <1>0, <1>6, <1>7, <1>8, <1>9, <1>10 DEF TypeOK, CentralTyped, BusTyped

\* What the central of central.c and bluez.c holds is what it should: no timer
\* on the loop but that of a request that is not idle, a match rule for the
\* characteristic whose values it expects, and the socket watched for what
\* libdbus has to write unless the loop refused the watch, through every close,
\* detach, cancel and late answer.
THEOREM OwnsAll == SafeSpec => []CentralOwns
  <1>1. Inv => CentralOwns
    BY Typed DEF CentralOwns, Inv
  <1> QED
    BY Invariant, <1>1, PTL

\* handle_message() finishes a request with the answer to its own call or its
\* own deadline, and the agent consents to a pairing only for the device of the
\* pair in flight; to a Display* call, which asks nothing, it replies for any.
THEOREM AnswersOwn == SafeSpec => []AnswersAreOwn
  <1>1. Inv => AnswersAreOwn
    BY DEF AnswersAreOwn, Inv
  <1> QED
    BY Invariant, <1>1, PTL

\* A connect or a pair in flight, which has no deadline, always has an answer
\* that can still come and that handle_message() will recognise.
THEOREM CanFinish == SafeSpec => []LinkCanFinish
  <1>1. Inv => LinkCanFinish
    BY DEF Inv
  <1> QED
    BY Invariant, <1>1, PTL

\* The copy kept by objects_load() and objects_handle_signal(), with the signals
\* still queued applied to it, is bluetoothd's tree, and a fetch that is awaited
\* can still be answered: for any number of objects, changes and restarts.
THEOREM Converge == SafeSpec => []MirrorConverges
  <1>1. Inv => MirrorConverges
    BY MirrorIsTree DEF MirrorConverges, Inv
  <1> QED
    BY Invariant, <1>1, PTL
=============================================================================
