-------------------------------- MODULE Bluez -------------------------------
(***************************************************************************)
(* The BlueZ backend of the central, src/ble/bluez.c: the replies that     *)
(* process() matches by serial, the match rule of the subscribed           *)
(* characteristic, and the pairing agent, whose answer to bluetoothd is    *)
(* deferred until the user has given it.  The values themselves change     *)
(* nothing the central keeps and are left out.                             *)
(*                                                                         *)
(* bluetoothd is external: it answers a call once, with success or an      *)
(* error, in any order, or never; it puts one question at a time to the    *)
(* agent, for our pair or for anybody's, and says so when it gives up on   *)
(* one (Agent1.Cancel); it may die, and the bus then answers for it.       *)
(***************************************************************************)
EXTENDS BluezObjects

-----------------------------------------------------------------------------
(* The agent. *)

\* inkwell_ble_backend_agent_answer(): the call held is answered and released.
\* bluetoothd hears of it if it still waits for that one.
AgentAnswered ==
    /\ asking' = IF asking.id # 0 /\ asking.id = agent_pending THEN Nobody ELSE asking
    /\ agent_pending' = 0

\* inkwell_ble_backend_agent_register() and inkwell_ble_backend_agent_unregister().
\* RegisterAgent blocks; it may fail, and AlreadyExists counts as registered.
backend_agent_register   == knows' = TRUE
backend_agent_unregister == knows' = FALSE

\* inkwell_ble_agent_reject(), of a request that may not be there.
agent_reject ==
    IF agent_request.kind = "NONE"
    THEN UNCHANGED <<agent_request, agent_pending, asking>>
    ELSE /\ agent_request' = NoRequest
         /\ IF open THEN AgentAnswered ELSE UNCHANGED <<agent_pending, asking>>

\* agent_call_is_ours().
agent_call_is_ours(device) == pair.state = 1 /\ pair.address = device

\* agent_refuse() and agent_ack(): the question is answered at once.
Answered(id) == asking' = IF asking.id = id THEN Nobody ELSE asking

\* agent_defer(): a stale request is rejected, and this one held.  What was
\* held before, bluetoothd no longer waits for: it asks one thing at a time.
agent_defer(m) ==
    /\ agent_pending' = m.id
    /\ agent_request' = [kind |-> m.kind, device |-> m.device]
    /\ asking' = IF /\ agent_request.kind # "NONE"
                    /\ asking.id # 0 /\ asking.id = agent_pending
                 THEN Nobody ELSE asking

\* inkwell_ble_agent_register().
AgentRegister ==
    /\ open /\ ~agent_registered
    /\ "agent" \in uses
    /\ agent_registered' = TRUE
    /\ backend_agent_register
    /\ answer' = NoAnswer
    /\ UNCHANGED <<uses, open, loop, requests, links, values, agent_request, agent_pending,
                   asks, asking, bus>>

\* inkwell_ble_agent_unregister(): what is held is rejected, and bluetoothd drops
\* the questions of an agent it no longer has.
AgentUnregister ==
    /\ open /\ agent_registered
    /\ agent_request' = NoRequest
    /\ agent_pending' = 0
    /\ asking' = Nobody
    /\ agent_registered' = FALSE
    /\ backend_agent_unregister
    /\ answer' = NoAnswer
    /\ UNCHANGED <<uses, open, loop, requests, links, values, asks, bus>>

\* inkwell_ble_agent_submit_passkey(), or agent_confirm() for a comparison.
AgentSubmit ==
    /\ open
    /\ agent_request.kind # "NONE"
    /\ answer' = [device |-> agent_request.device, consent |-> TRUE,
                  waiting |-> asking.id # 0 /\ asking.id = agent_pending]
    /\ AgentAnswered
    /\ agent_request' = NoRequest
    /\ UNCHANGED <<uses, open, loop, requests, links, values, agent_registered, asks, knows, bus>>

\* inkwell_ble_agent_reject() by the user.
AgentReject ==
    /\ agent_request.kind # "NONE"
    /\ agent_reject
    /\ answer' = NoAnswer
    /\ UNCHANGED <<uses, open, loop, requests, links, values, agent_registered, asks, knows, bus>>

\* inkwell_ble_pair_cancel(); CancelPairing is sent, and bluetoothd answers the
\* Pair it is about when it likes.
PairCancel ==
    /\ pair # IdleLink
    /\ agent_reject
    /\ pair' = IdleLink
    /\ answer' = NoAnswer
    /\ UNCHANGED <<uses, open, loop, requests, connect, values, agent_registered, asks,
                   knows, bus>>

\* inkwell_ble_backend_close(): the call held is let go unanswered.  What is on
\* the way to a shared connection stays on it, and so do its match rules.
backend_close(private) ==
    /\ agent_pending' = 0
    /\ IF private
       THEN calls' = {} /\ inbox' = <<>> /\ matches' = [h \in Handles |-> 0]
       ELSE UNCHANGED <<calls, inbox, matches>>

\* inkwell_ble_close().  The connect is left as it is, and so is a request of an
\* agent that bluetoothd has released.
Close(private) ==
    /\ open
    /\ pending_cancel(read_cancel \cup requests_cancel)
    /\ IF agent_registered \/ private
       THEN asking' = Nobody /\ knows' = FALSE
       ELSE UNCHANGED <<asking, knows>>
    /\ agent_request' = IF agent_registered THEN NoRequest ELSE agent_request
    /\ backend_close(private)
    /\ agent_registered' = FALSE
    /\ pair' = IdleLink
    /\ open' = FALSE /\ loop' = FALSE
    /\ notify_handle' = None
    /\ answer' = NoAnswer
    /\ UNCHANGED <<uses, connect, subscribe_handle, asks, serial>>

-----------------------------------------------------------------------------
(* inkwell_ble_backend_process(): one message. *)

\* handle_agent_call(): RequestPasskey, RequestPinCode and RequestConfirmation.
HandleAsk(m) ==
    /\ IF agent_call_is_ours(m.device)
       THEN agent_defer(m)
       ELSE Answered(m.id) /\ UNCHANGED <<agent_request, agent_pending>>
    /\ answer' = NoAnswer
    /\ UNCHANGED <<requests, connect, pair, notify_handle, matches, agent_registered>>

\* handle_agent_call(): RequestAuthorization and AuthorizeService.
HandleAuthorize(m) ==
    /\ Answered(m.id)
    /\ answer' = IF agent_call_is_ours(m.device)
                 THEN [device |-> m.device, consent |-> TRUE, waiting |-> asking.id = m.id]
                 ELSE NoAnswer
    /\ UNCHANGED <<requests, connect, pair, notify_handle, matches, agent_registered,
                   agent_request, agent_pending>>

\* handle_agent_call(): DisplayPasskey and DisplayPinCode, and a member it does
\* not know.  Nobody is shown anything, and every device is acknowledged.
HandleDisplay(m) ==
    /\ Answered(m.id)
    /\ answer' = [device |-> m.device, consent |-> FALSE, waiting |-> asking.id = m.id]
    /\ UNCHANGED <<requests, connect, pair, notify_handle, matches, agent_registered,
                   agent_request, agent_pending>>

\* handle_agent_call(): Cancel.
HandleCancel ==
    /\ agent_pending' = 0
    /\ agent_request' = NoRequest
    /\ answer' = NoAnswer
    /\ UNCHANGED <<requests, connect, pair, notify_handle, matches, agent_registered, asking>>

\* handle_agent_call(): Release.
HandleRelease ==
    /\ agent_registered' = FALSE
    /\ answer' = NoAnswer
    /\ UNCHANGED <<requests, connect, pair, notify_handle, matches, agent_request,
                   agent_pending, asking>>

\* Mutant: a reply finishes whatever request is waiting.
Awaits_anything(s, n) == req[s].state = 1

\* The test handle_message() makes of each request.
Awaits(s, n) == req[s].state = 1 /\ req[s].token = n

\* handle_message() and inkwell_ble_subscribe_finish(): the match rule, and
\* the handle, before the caller hears of it.
HandleSubscribed(m) ==
    /\ req' = Finished("subscribe", m.serial)
    /\ IF m.ok
       THEN /\ matches' = notify_match(subscribe_handle, TRUE)
            /\ notify_handle' = subscribe_handle
       ELSE UNCHANGED <<matches, notify_handle>>
    /\ UNCHANGED <<connect, pair>>

\* handle_message() on a reply: the subscribe, the other requests, the read,
\* the pair and the connect, in that order; a reply nobody awaits is dropped.
HandleReply(m) ==
    /\ \/ /\ "subscribe" \in Slots /\ Awaits("subscribe", m.serial)
          /\ HandleSubscribed(m)
       \/ /\ \E s \in Slots \ {"subscribe"} :
                /\ Awaits(s, m.serial)
                /\ req' = Finished(s, m.serial)
          /\ UNCHANGED <<connect, pair, matches, notify_handle>>
       \/ /\ \A s \in Slots : ~Awaits(s, m.serial)
          /\ IF pair.state = 1 /\ pair.token = m.serial
             THEN pair' = pair_finish(m.serial) /\ UNCHANGED connect
             ELSE /\ UNCHANGED pair
                  /\ connect' = IF connect.state = 1 /\ connect.token = m.serial
                                THEN connect_finish(m.serial) ELSE connect
          /\ UNCHANGED <<req, matches, notify_handle>>
    /\ answer' = NoAnswer
    /\ UNCHANGED <<timers, agent_registered, agent_request, agent_pending, asking>>

\* send_and_release(): an answer to the agent's caller is flushed, a stale
\* request's rejection among them.
Answers(m) ==
    \/ m.m \in {"authorize", "display", "cancel", "release"}
    \/ m.m = "ask" /\ (agent_call_is_ours(m.device) => agent_request.kind # "NONE")

\* inkwell_ble_backend_process() pops a message, and goes on until none is left;
\* handle_message() takes it.
Process ==
    /\ open
    /\ inbox # <<>>
    /\ inbox' = Tail(inbox)
    /\ LET m == Head(inbox)
       IN  \/ /\ \/ m.m = "ask" /\ HandleAsk(m)
                 \/ m.m = "authorize" /\ HandleAuthorize(m)
                 \/ m.m = "display" /\ HandleDisplay(m)
                 \/ m.m = "cancel" /\ HandleCancel
                 \/ m.m = "release" /\ HandleRelease
                 \/ m.m = "reply" /\ HandleReply(m)
              /\ UNCHANGED <<serial, calls, copy>>
           \/ ProcessTree(m)
    /\ silent' = FALSE
    /\ UNCHANGED <<uses, open, loop, subscribe_handle, asks, knows, daemon_tree>>
    /\ Output(Answers(Head(inbox)))

-----------------------------------------------------------------------------
(* bluetoothd. *)

Daemon == <<uses, open, loop, requests, links, subscribe_handle, notify_handle,
            agent_registered, agent_request, agent_pending, serial, copy, output>>

\* Whether it went well matters to the central's state for a subscribe and a
\* GetManagedObjects alone, which nobody answers when bluetoothd is not there.
Reply(c, ok) ==
    IF c.what = "objects"
    THEN [m |-> "tree", serial |-> c.serial, ok |-> ok, tree |-> IF ok THEN tree ELSE Empty]
    ELSE [m |-> "reply", serial |-> c.serial, ok |-> ok]

\* It answers a call.  A pair it waits on the agent for is not answered before
\* the agent's call is.
DaemonReplies(c, ok) ==
    /\ ok => c.what = "subscribe" \/ (c.what = "objects" /\ up)
    /\ c.serial \notin backlog
    /\ ~(c.what = "pair" /\ asking.device = c.about)
    /\ calls' = calls \ {c}
    /\ Deliver(Reply(c, ok))
    /\ answer' = NoAnswer
    /\ UNCHANGED <<Daemon, matches, asks, asking, knows, daemon_tree>>

\* It asks the agent about a pairing: ours, or one somebody else started.
DaemonAsks(what, d) ==
    /\ knows /\ asking = Nobody /\ Room
    /\ asks' = asks + 1
    /\ asking' = [id |-> asks + 1, device |-> d]
    /\ Deliver([m |-> what, kind |-> "PASSKEY", device |-> d, id |-> asks + 1])
    /\ answer' = NoAnswer
    /\ UNCHANGED <<Daemon, calls, matches, knows, daemon_tree>>

\* It gives up on what it asked.
DaemonGivesUp ==
    /\ asking # Nobody
    /\ asking' = Nobody
    /\ Deliver([m |-> "cancel"])
    /\ answer' = NoAnswer
    /\ UNCHANGED <<Daemon, calls, matches, asks, knows, daemon_tree>>

\* It lets the agent go.
DaemonReleases ==
    /\ knows /\ asking = Nobody
    /\ \A i \in DOMAIN inbox : inbox[i].m # "release"   \* one at a time
    /\ knows' = FALSE
    /\ Deliver([m |-> "release"])
    /\ answer' = NoAnswer
    /\ UNCHANGED <<Daemon, calls, matches, asks, asking, daemon_tree>>

\* The calls of a set, as they were made.
InOrder(C) ==
    {s \in [1 .. Cardinality(C) -> C] :
        /\ Range(s) = C
        /\ \A i, j \in DOMAIN s : i < j => s[i].serial < s[j].serial}

\* It dies.  The bus answers every call it had with NoReply.  A behaviour that
\* is not about the tree leaves out the bus's word on it, and takes it to be back.
DaemonDies ==
    /\ up
    /\ IF "fetch" \in uses THEN Room /\ changes' = changes + 1
       ELSE (calls # {} \/ asking # Nobody) /\ UNCHANGED changes
    /\ LET had  == {c \in calls : c.serial \notin backlog}
           gone == IF "fetch" \in uses THEN <<[m |-> "owner", up |-> FALSE]>> ELSE <<>>
       IN  /\ \E owed \in InOrder(had) :
                 inbox' = inbox \o [i \in DOMAIN owed |-> Reply(owed[i], FALSE)] \o gone
           /\ calls' = calls \ had
    /\ silent' = (silent /\ inbox' = inbox)
    /\ asking' = Nobody /\ knows' = FALSE
    /\ up' = ("fetch" \notin uses)
    /\ tree' = IF up' THEN Boot ELSE Empty
    /\ answer' = NoAnswer
    /\ UNCHANGED <<Daemon, matches, asks>>

-----------------------------------------------------------------------------
\* Calls that are only queued, and calls that are flushed.
Quiet ==
    \/ Open \/ AttachLoop \/ DetachLoop
    \/ Write \/ Read \/ \E s \in Slots : Query(s) \/ Take(s)
    \/ \E h \in Handles : Subscribe(h)
    \/ CancelRequests(requests_cancel) \/ CancelRequests(read_cancel)
    \/ ConnectEnd \/ PairPoll \/ Disconnect
Flushed ==
    \/ \E private \in BOOLEAN : Close(private)
    \/ ConnectBegin \/ \E d \in Devices : PairBegin(d)
    \/ PairCancel
    \/ AgentRegister \/ AgentUnregister \/ AgentSubmit \/ AgentReject

\* What the caller does.  A flush reads as well, that of open() too.  close()
\* frees the copy.
Caller ==
    /\ \/ Quiet /\ Output(FALSE) /\ IF open THEN UNCHANGED silent ELSE ReadAside
       \/ Flushed /\ Output(TRUE) /\ ReadAside
    /\ IF open' THEN UNCHANGED copy ELSE objects_clear /\ objects_serial' = 0
    /\ UNCHANGED daemon_tree

\* pending_timeout() and read_timeout(): the loop finds the request's timer due.
TimerFires(s) ==
    /\ s \in timers
    /\ Overdue(s)
    /\ UNCHANGED <<daemon_tree, copy, output, silent>>

\* inkwell_ble_process() on its own clock; what was read aside is then popped.
ProcessDeadline(s) ==
    /\ Overdue(s)
    /\ silent' = FALSE
    /\ UNCHANGED <<daemon_tree, copy, output>>

Deadline(s) == TimerFires(s) \/ ProcessDeadline(s)

\* A fetch is answered.
FetchAnswered ==
    \E c \in calls, ok \in BOOLEAN : c.what = "objects" /\ DaemonReplies(c, ok)

Bluetoothd ==
    \/ \E c \in calls, ok \in BOOLEAN : DaemonReplies(c, ok)
    \/ \E d \in Devices :
          DaemonAsks("ask", d) \/ DaemonAsks("authorize", d) \/ DaemonAsks("display", d)
    \/ DaemonGivesUp \/ DaemonReleases \/ DaemonDies
    \/ DaemonChanges \/ DaemonStarts

Next ==
    \/ Caller \/ Lookup \/ Discovering \/ Discovery
    \/ Process \/ Drain \/ \E s \in Slots : Deadline(s)
    \/ Bluetoothd

BluezInit == Init /\ TreeInit
allvars == <<vars, daemon_tree, copy, output, silent>>

\* What the loop calls watch_fd_callback() for: the socket has something to
\* read, or takes more, and the loop watches for that.
Readable == "IN" \in watch.mask /\ ~silent /\ Process
Writable == "OUT" \in watch.mask /\ Drain

\* The loop runs: it reads and writes the socket as it watches it, and timers on
\* it fire.  "Without it the central still works, but only as often as the caller
\* calls process()": off the loop the caller does, and finds deadlines that have
\* passed; on it he need not.  bluetoothd answers a fetch or dies; it owes
\* nothing else, and the caller nothing more.
Fairness ==
    /\ WF_allvars(Readable) /\ WF_allvars(Writable)
    /\ \A s \in Slots : WF_allvars(TimerFires(s))
    /\ \A s \in Slots : WF_allvars(~loop /\ ProcessDeadline(s))
    /\ WF_allvars(FetchAnswered)

\* The safety part of the specification, which the proofs are about.
SafeSpec == BluezInit /\ [][Next]_allvars
Spec == SafeSpec /\ Fairness

-----------------------------------------------------------------------------
(* Properties. *)

\* The central, the bus and bluetoothd.
TypeOK ==
    /\ open \in BOOLEAN /\ loop \in BOOLEAN
    /\ req \in [Slots -> [state : 0 .. 2, token : Tokens, result : Tokens,
                           timer : BOOLEAN, call : Tokens]]
    /\ timers \subseteq Slots
    /\ {connect, pair} \subseteq
          [state : 0 .. 2, token : Tokens, result : Tokens, call : Tokens,
           address : Devices \cup {None}]
    /\ {subscribe_handle, notify_handle} \subseteq Handles \cup {None}
    /\ agent_request \in [kind : {"NONE", "PASSKEY"}, device : Devices \cup {None}]
    /\ {agent_pending, asks, asking.id, objects_serial} \subseteq Tokens
    /\ up \in BOOLEAN /\ objects_loaded \in BOOLEAN
    /\ {DOMAIN tree, DOMAIN objects} \subseteq SUBSET Paths
    /\ backlog \subseteq Tokens /\ silent \in BOOLEAN
    /\ watch \in [registered : {"none", "in", "out"}, mask : SUBSET {"IN", "OUT"},
                 refused : BOOLEAN]
    /\ matches \in [Handles -> Nat]
    /\ \A c \in calls : c.serial \in 1 .. serial

\* An answer the caller takes is the stack's answer to the call that request
\* made, or its own deadline: never the late reply to a request that timed out,
\* was cancelled or belonged to a central closed before, and never another
\* request's.
AnswerIsOwn ==
    /\ \A s \in Slots : req[s].state = 2 => req[s].result \in {0, req[s].call}
    /\ \A l \in {connect, pair} : l.state = 2 => l.result = l.call

\* The answer to the call with this serial can still come.
Coming(n) ==
    \/ \E c \in calls : c.serial = n
    \/ \E i \in DOMAIN inbox : inbox[i].m = "reply" /\ inbox[i].serial = n

\* A connect and a pair have no deadline: while one is in flight its answer can
\* still come, and will be recognised, or the caller waits for ever.
LinkCanFinish ==
    open => \A l \in {connect, pair} : l.state = 1 => l.token # 0 /\ Coming(l.token)

\* The timers open on the loop are the ones the requests know of, and of no
\* request that is idle, through every cancel, close, detach and answer.
TimersOwned ==
    /\ timers = {s \in Slots : req[s].timer}
    /\ \A s \in Slots : req[s].timer => loop /\ req[s].state # 0

\* The central expects values of a characteristic only while a match rule for
\* it is on the bus: one subscription after another, and disconnects between.
ValuesAreMatched == notify_handle # None => matches[notify_handle] > 0

\* "Answering one of those, or putting its PIN in front of the user as if it
\* were ours, would approve a bond nobody here asked for."  A PIN, a comparison
\* or an authorization is granted only to the device of the pair in flight; what
\* the user is shown is what the backend holds, and what bluetoothd waits for is
\* what the user sees.  What bluetoothd only wants displayed is not among them.
AgentAnswersForPair ==
    /\ answer.waiting /\ answer.consent => pair.state = 1 /\ pair.address = answer.device
    /\ open => (agent_pending # 0 <=> agent_request.kind # "NONE")
    /\ asking.id # 0 /\ asking.id = agent_pending => agent_request.device = asking.device

\* "So only the pair in flight is answered" (bluez.c:1461): of every agent call,
\* those that want a code displayed included.  It does not hold: HandleDisplay
\* acknowledges a stranger's.
OnlyPairAnswered ==
    answer.waiting => pair.state = 1 /\ pair.address = answer.device

\* On a loop, the socket is watched for what libdbus has to write as well as for
\* what it has to read, no more and no less, unless the loop refused the last
\* change: "queued nonblocking writes can lose INKWELL_LOOP_OUT behind an EEXIST
\* from the readable one".  What the loop has is known to an entry of watches[],
\* refused or not, so that off the loop nothing is left behind.
WatchesCover ==
    /\ loop /\ ~watch.refused => watch.mask = Enabled(backlog # {})
    /\ watch.mask # {} <=> watch.registered # "none"
    /\ ~loop => watch.mask = {}

\* What the central holds, and by whom: timers, match rules and the watch.
CentralOwns == TypeOK /\ TimersOwned /\ ValuesAreMatched /\ WatchesCover

\* The copy with the first i messages on their way applied to it.
replayed[i \in 0 .. Len(inbox)] ==
    IF i = 0 THEN objects ELSE Applied(replayed[i - 1], inbox[i])

\* "the last word on any object or property is still the newest one": the copy,
\* with the signals that are still queued applied to it, is bluetoothd's tree,
\* whether it was fetched with older signals queued behind it or not.
Converges ==
    /\ objects_loaded
    /\ \A i \in DOMAIN inbox : inbox[i].m # "owner"
    => replayed[Len(inbox)] = tree

\* A fetch is awaited only while its answer can still come, and never beside a
\* copy: discovering() would answer -EAGAIN for ever, or the answer replace a
\* newer tree.
FetchComing ==
    objects_serial # 0 =>
        /\ ~objects_loaded
        /\ \/ \E c \in calls : c.serial = objects_serial
           \/ \E i \in DOMAIN inbox : inbox[i].m = "tree" /\ inbox[i].serial = objects_serial

\* Whose answer it is: the caller's requests, and the pairing it asked for.
AnswersAreOwn == AnswerIsOwn /\ AgentAnswersForPair

\* The copy of bluetoothd's objects is its tree or on its way to it.
MirrorConverges == Converges /\ FetchComing

\* A request in flight is finished or cancelled, whatever the stack does and
\* however often the central is put on a loop and taken off it: by its timer, or
\* by process() off the loop.  The one that was begun before the central was put
\* on the loop has no timer there, and is left out.
RequestEnds ==
    \A s \in Slots : req[s].state = 1 ~> req[s].state # 1 \/ (loop /\ ~req[s].timer)

\* The loop will not hear of what waits: it was read aside, or the loop refused
\* to watch for it.
Deaf ==
    \/ silent /\ inbox # <<>>
    \/ watch.refused /\ ~(Enabled(backlog # {}) \subseteq watch.mask)

\* "A read, a write and the two property queries each have a deadline and answer
\* -ETIMEDOUT past it, whether or not the stack ever replies" (central.h:36-37),
\* on a loop that hears whatever the bus says.  It does not hold of the request
\* RequestEnds leaves out: the loop has no timer for it, and calls process() only
\* when the bus has something to say.
DeadlineKept == \A s \in Slots : req[s].state = 1 ~> req[s].state # 1 \/ Deaf

\* On a loop, a fetch that was sent without waiting ends: it leaves, it is
\* answered, and the answer is taken, unless the loop has become deaf to it for
\* good.
FetchEnds ==
    \/ loop /\ objects_serial # 0 ~> ~loop \/ objects_serial = 0
    \/ <>[]Deaf

\* Nothing that the central has begun with a deadline or a fetch is left open for
\* ever by what the loop does.
EverythingEnds == RequestEnds /\ FetchEnds
=============================================================================
