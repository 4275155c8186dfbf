----------------------------- MODULE BleCentral -----------------------------
(***************************************************************************)
(* The Bluetooth central, src/ble/central.c: requests that are sent to the *)
(* stack and answered later, each with a token its reply is recognised by, *)
(* a deadline and a timer on the loop; a connect and a pair, which have no *)
(* deadline; and one subscription.  Module Bluez is the stack behind it.   *)
(*                                                                         *)
(* The bus here is what src/ble/bluez.c sees of D-Bus: a call carries a    *)
(* serial of its own, its reply names that serial, and messages are popped *)
(* in the order the bus delivered them.  A message the bus has not         *)
(* delivered and one that has not been popped are the same thing to the    *)
(* central, so the inbox holds both and process() is a step per message.   *)
(*                                                                         *)
(* A number is a D-Bus serial; 0 is the code's token 0, "none expected".   *)
(* The caller repeats a call until it has its answer, so a request needs   *)
(* no more than one caller, and a call that answers -EAGAIN changes        *)
(* nothing.  The scripted stack of the tests is left out.                  *)
(***************************************************************************)
EXTENDS Naturals, Sequences, FiniteSets

CONSTANTS
    Slots,          \* requests[0 .. 3], and "read"
    Handles,        \* characteristics
    Devices,        \* peripherals
    None,           \* an empty handle, address or message
    Uses,           \* bound: the kinds of call one behaviour's caller makes
    MaxTraffic      \* bound, for each of Uses: calls, questions and changes of the tree

ASSUME SlotsAssumption ==
    Slots \subseteq {"write", "resolved", "connected", "subscribe", "read"}
ASSUME TrafficAssumption == MaxTraffic \in [Uses -> Nat]
ASSUME NamesAssumption == None \notin Handles \cup Devices

VARIABLES
    uses,                       \* the kinds of call this behaviour makes
    open, loop,                 \* central->open; central->loop is not NULL
    req,                        \* requests[] and the read
    timers,                     \* the slots whose timer is open, on the loop
    connect, pair,              \* the connect and the pair
    subscribe_handle, notify_handle,
    agent_registered, agent_request,
    agent_pending,              \* the agent's call the backend holds, or 0
    serial,                     \* calls sent so far
    calls,                      \* calls the stack has not answered
    matches,                    \* notify_match() rules installed, per handle
    inbox,                      \* messages on their way to process()
    asks, changes,              \* questions the stack has put, changes of its tree
    asking,                     \* the one it waits for the agent to answer
    knows,                      \* the stack knows our agent
    answer                      \* what the last step answered the stack's agent

requests == <<req, timers>>
links    == <<connect, pair>>
values   == <<subscribe_handle, notify_handle, matches>>
agent    == <<agent_registered, agent_request, agent_pending, asks, asking, knows>>
bus      == <<serial, calls, inbox>>
vars     == <<uses, open, loop, requests, links, values, agent, bus, changes, answer>>

Tokens == 0 .. MaxTraffic[uses]

\* A request at rest.  call is the serial of the call it made, and result the
\* serial of the reply it was finished by, 0 for -ETIMEDOUT.
Idle == [state |-> 0, token |-> 0, result |-> 0, timer |-> FALSE, call |-> 0]

\* The same of a connect or a pair, which has no timer.
IdleLink == [state |-> 0, token |-> 0, result |-> 0, call |-> 0, address |-> None]

NoRequest == [kind |-> "NONE", device |-> None]
Nobody    == [id |-> 0, device |-> None]
NoAnswer  == [device |-> None, waiting |-> FALSE, consent |-> FALSE]

\* central_open(): everything is zeroed.
Init ==
    /\ uses \in Uses
    /\ open = FALSE /\ loop = FALSE
    /\ req = [s \in Slots |-> Idle]
    /\ timers = {}
    /\ connect = IdleLink /\ pair = IdleLink
    /\ subscribe_handle = None /\ notify_handle = None
    /\ agent_registered = FALSE /\ agent_request = NoRequest /\ agent_pending = 0
    /\ serial = 0 /\ calls = {} /\ inbox = <<>>
    /\ matches = [h \in Handles |-> 0]
    /\ asks = 0 /\ changes = 0 /\ asking = Nobody /\ knows = FALSE
    /\ answer = NoAnswer

-----------------------------------------------------------------------------
(* Request bookkeeping. *)

\* Mutant: the request is marked idle before its timer is looked at.
pending_cancel_late(S) ==
    /\ req' = [s \in Slots |-> IF s \in S THEN Idle ELSE req[s]]
    /\ UNCHANGED timers

\* pending_cancel(), of every slot in S.
pending_cancel(S) ==
    /\ timers' = timers \ {s \in S : req[s].state # 0 /\ req[s].timer}
    /\ req' = [s \in Slots |-> IF s \in S THEN Idle ELSE req[s]]

\* inkwell_ble_requests_cancel().
requests_cancel == Slots \ {"read"}

\* inkwell_ble_read_cancel().
read_cancel == Slots \cap {"read"}

\* pending_start() and, once the backend has sent the call, its token.
pending_start(s, token) ==
    /\ req' = [req EXCEPT ![s] = [state |-> 1, token |-> token, result |-> 0,
                                  timer |-> loop, call |-> token]]
    /\ timers' = IF loop THEN timers \cup {s} ELSE timers

\* read_start(), the same for the read.
read_start(token) == pending_start("read", token)

\* inkwell_ble_pending_finish(), then requests_ready(), which is the caller's.
pending_finish(s, result) ==
    [req EXCEPT ![s] = [@ EXCEPT !.state = 2, !.result = result, !.token = 0]]

\* inkwell_ble_read_finish().
read_finish(result) == pending_finish("read", result)

Finished(s, result) == IF s = "read" THEN read_finish(result) ELSE pending_finish(s, result)

\* inkwell_ble_connect_finish() and inkwell_ble_pair_finish().
connect_finish(result) ==
    IF connect.state = 1 THEN [connect EXCEPT !.state = 2, !.result = result] ELSE connect
pair_finish(result) ==
    IF pair.state = 1 THEN [pair EXCEPT !.state = 2, !.result = result] ELSE pair

-----------------------------------------------------------------------------
(* The bus. *)

\* The bound has room for one more, beside the fetch that each bluetoothd still
\* to be noticed will set off.
Room ==
    serial + asks + changes
        + Cardinality({i \in DOMAIN inbox : inbox[i] = [m |-> "owner", up |-> TRUE]})
        < MaxTraffic[uses]

\* A call is given the next serial.
Called(what, about) ==
    /\ serial' = serial + 1
    /\ calls' = calls \cup {[serial |-> serial + 1, what |-> what, about |-> about]}

\* send_call(), and the same by hand for a call with arguments.
send_call(what, about) ==
    /\ what \in uses
    /\ Room
    /\ Called(what, about)
    /\ UNCHANGED inbox

\* inkwell_ble_backend_write(), _read(), _query(), _subscribe(), _connect() and
\* _pair(): a call, whose serial is the token.
backend_write        == send_call("write", None)
backend_read         == send_call("read", None)
backend_query(s)     == send_call(s, None)
backend_subscribe(h) == send_call("subscribe", h)
backend_connect      == send_call("connect", None)
backend_pair(d)      == send_call("pair", d)

\* send_logged(): sent without waiting, and its reply only logged.
send_logged(what) ==
    /\ Room
    /\ Called(what, None)
    /\ UNCHANGED inbox

\* notify_match(): one rule more on the bus, or one less.
notify_match(h, add) == [matches EXCEPT ![h] = IF add THEN @ + 1 ELSE @ - 1]

-----------------------------------------------------------------------------
(* Lifecycle. *)

\* inkwell_ble_open() and inkwell_ble_open_private(), on a central that is not
\* open.
Open ==
    /\ ~open
    /\ open' = TRUE /\ loop' = FALSE
    /\ req' = [s \in Slots |-> Idle]
    /\ connect' = IdleLink /\ pair' = IdleLink
    /\ subscribe_handle' = None /\ notify_handle' = None
    /\ agent_registered' = FALSE /\ agent_request' = NoRequest
    /\ answer' = NoAnswer
    /\ UNCHANGED <<uses, timers, bus, agent_pending, asks, asking, knows, matches>>

\* inkwell_ble_attach_loop().
AttachLoop ==
    /\ open /\ ~loop
    /\ "attach" \in uses
    /\ loop' = TRUE
    /\ answer' = NoAnswer
    /\ UNCHANGED <<uses, open, requests, links, values, agent, bus>>

\* inkwell_ble_detach_loop().
DetachLoop ==
    /\ loop
    /\ pending_cancel(read_cancel \cup requests_cancel)
    /\ loop' = FALSE
    /\ answer' = NoAnswer
    /\ UNCHANGED <<uses, open, links, values, agent, bus>>

-----------------------------------------------------------------------------
(* Requests.  A call on an idle slot starts the request, one on a finished   *)
(* slot takes the answer.  A request the backend fails to send is cancelled  *)
(* at once and leaves nothing behind.                                        *)

\* inkwell_ble_write() and inkwell_ble_backend_write().
Write ==
    /\ open
    /\ "write" \in Slots /\ req["write"].state = 0
    /\ backend_write
    /\ pending_start("write", serial + 1)
    /\ answer' = NoAnswer
    /\ UNCHANGED <<uses, open, loop, links, values, agent>>

\* query(), for services_resolved() and device_connected().
Query(s) ==
    /\ open
    /\ s \in {"resolved", "connected"} /\ req[s].state = 0
    /\ backend_query(s)
    /\ pending_start(s, serial + 1)
    /\ answer' = NoAnswer
    /\ UNCHANGED <<uses, open, loop, links, values, agent>>

\* inkwell_ble_subscribe().
Subscribe(h) ==
    /\ open
    /\ "subscribe" \in Slots /\ req["subscribe"].state = 0
    /\ backend_subscribe(h)
    /\ pending_start("subscribe", serial + 1)
    /\ subscribe_handle' = h
    /\ answer' = NoAnswer
    /\ UNCHANGED <<uses, open, loop, links, notify_handle, matches, agent>>

\* inkwell_ble_read().
Read ==
    /\ open
    /\ "read" \in Slots /\ req["read"].state = 0
    /\ backend_read
    /\ read_start(serial + 1)
    /\ answer' = NoAnswer
    /\ UNCHANGED <<uses, open, loop, links, values, agent>>

\* pending_take(), and the same at the head of inkwell_ble_read().
Take(s) ==
    /\ req[s].state = 2
    /\ pending_cancel({s})
    /\ answer' = NoAnswer
    /\ UNCHANGED <<uses, open, loop, links, values, agent, bus>>

\* inkwell_ble_requests_cancel() or inkwell_ble_read_cancel() by the caller,
\* for a link being discarded.
CancelRequests(S) ==
    /\ \E s \in S : req[s].state # 0
    /\ pending_cancel(S)
    /\ answer' = NoAnswer
    /\ UNCHANGED <<uses, open, loop, links, values, agent, bus>>

\* A deadline has passed, and the request is finished with -ETIMEDOUT.
Overdue(s) ==
    /\ open
    /\ req[s].state = 1
    /\ req' = Finished(s, 0)
    /\ answer' = NoAnswer
    /\ UNCHANGED <<uses, open, loop, timers, links, values, agent, bus>>

-----------------------------------------------------------------------------
(* Connect, disconnect and pair. *)

\* Mutant: the token is not recorded.
ConnectBeginTokenless ==
    /\ open /\ connect.state # 1
    /\ backend_connect
    /\ connect' = [IdleLink EXCEPT !.state = 1, !.call = serial + 1]
    /\ answer' = NoAnswer
    /\ UNCHANGED <<uses, open, loop, requests, pair, values, agent>>

\* inkwell_ble_connect_begin().
ConnectBegin ==
    /\ open /\ connect.state # 1
    /\ backend_connect
    /\ connect' = [IdleLink EXCEPT !.state = 1, !.token = serial + 1, !.call = serial + 1]
    /\ answer' = NoAnswer
    /\ UNCHANGED <<uses, open, loop, requests, pair, values, agent>>

\* inkwell_ble_connect_poll() with an answer, and inkwell_ble_connect_cancel().
ConnectEnd ==
    /\ connect.state # 0
    /\ connect' = IdleLink
    /\ answer' = NoAnswer
    /\ UNCHANGED <<uses, open, loop, requests, pair, values, agent, bus>>

\* inkwell_ble_backend_disconnect(): sent, and the match rule of the subscription
\* removed.
backend_disconnect ==
    /\ send_logged("disconnect")
    /\ matches' = IF notify_handle = None THEN matches ELSE notify_match(notify_handle, FALSE)

\* inkwell_ble_disconnect(), of a caller that connects or subscribes.
Disconnect ==
    /\ open /\ uses \cap {"connect", "subscribe"} # {}
    /\ backend_disconnect
    /\ notify_handle' = None
    /\ answer' = NoAnswer
    /\ UNCHANGED <<uses, open, loop, requests, links, subscribe_handle, agent>>

\* inkwell_ble_pair_begin().
PairBegin(d) ==
    /\ open /\ pair.state # 1
    /\ backend_pair(d)
    /\ pair' = [state |-> 1, token |-> serial + 1, result |-> 0,
                call |-> serial + 1, address |-> d]
    /\ answer' = NoAnswer
    /\ UNCHANGED <<uses, open, loop, requests, connect, values, agent>>

\* inkwell_ble_pair_poll() with an answer.  The address it leaves is not read
\* before the next pair.
PairPoll ==
    /\ pair.state = 2
    /\ pair' = IdleLink
    /\ answer' = NoAnswer
    /\ UNCHANGED <<uses, open, loop, requests, connect, values, agent, bus>>
=============================================================================
