---------------------------- MODULE BluezObjects ----------------------------
(***************************************************************************)
(* The object tree of src/ble/bluez.c and the way its calls leave: a copy  *)
(* of bluetoothd's objects that is fetched once, blocking or not, and kept *)
(* current from signals, and the watches through which libdbus reads what  *)
(* arrives and writes what the socket did not take at once.                *)
(*                                                                         *)
(* An object is a path with one value: the adapter's is its Powered, a     *)
(* peripheral's says whether it has an RSSI.  The other properties are set *)
(* and unset in the same two ways.  Module Bluez puts this beside the      *)
(* requests of module BleCentral; the two share the bus.                   *)
(***************************************************************************)
EXTENDS BleCentral, SequencesExt

CONSTANTS
    Adapter,        \* the adapter's path
    Listed          \* peripherals that come and go in the tree

ASSUME TreeAssumption == Adapter \notin Listed /\ Listed \subseteq Devices

VARIABLES
    up, tree,                   \* bluetoothd has the name org.bluez; its objects
    objects, objects_loaded, objects_serial,
    backlog,                    \* calls queued in libdbus, not yet written
    watch,                      \* what watches[] put on the loop
    silent                      \* all that waits was read without an event of the loop

daemon_tree == <<up, tree, changes>>
copy        == <<objects, objects_loaded, objects_serial>>
output      == <<backlog, watch>>

Paths == {Adapter} \cup Listed

\* The values of an object.
Values(p) == IF p = Adapter THEN {"off", "on"} ELSE {"heard", "unheard"}

Empty == [p \in {} |-> None]

\* The objects o, with the value v at p.
With(o, p, v) == [r \in DOMAIN o \cup {p} |-> IF r = p THEN v ELSE o[r]]

\* The objects bluetoothd starts with: an adapter, and peripherals it knows.
Boot == [p \in Paths |-> IF p = Adapter THEN "off" ELSE "unheard"]

\* Neither watch is on the loop.
Detached == [registered |-> "none", mask |-> {}, refused |-> FALSE]

TreeInit ==
    /\ up = TRUE
    /\ tree = Boot
    /\ objects = Empty /\ objects_loaded = FALSE /\ objects_serial = 0
    /\ backlog = {} /\ watch = Detached /\ silent = FALSE

-----------------------------------------------------------------------------
(* The copy. *)

\* objects_clear().
objects_clear ==
    /\ objects' = Empty
    /\ objects_loaded' = FALSE

\* object_find() and object_add(): the object at a path, zeroed when it is new.
object_add(o, p) == IF p \in DOMAIN o THEN o[p] ELSE IF p = Adapter THEN "on" ELSE "unheard"

\* object_set_properties() and object_set_property().  A peripheral that is not
\* heard has no RSSI to list, and what is not listed stays as it was.
object_set_properties(old, v) == IF v = "unheard" THEN old ELSE v

\* object_unset_property(): the RSSI is gone.
object_unset_property(old) == "unheard"

\* objects_add_interfaces() of one object.
objects_add_interfaces(o, p, v) == With(o, p, object_set_properties(object_add(o, p), v))

\* objects_remove_interfaces(), of the one interface an object has, and object_remove().
objects_remove_interfaces(o, p) == Restrict(o, DOMAIN o \ {p})

\* Mutant: properties that are gone are not looked at.
properties_changed_but_not_gone(o, p, v) ==
    IF p \in DOMAIN o THEN [o EXCEPT ![p] = object_set_properties(@, v)] ELSE o

\* objects_properties_changed(): values set, and values that are gone.
objects_properties_changed(o, p, v) ==
    IF p \notin DOMAIN o THEN o
    ELSE [o EXCEPT ![p] = IF v = "unheard" THEN object_unset_property(@)
                          ELSE object_set_properties(@, v)]

\* What a signal makes of a copy that is held.
Applied(o, m) ==
    CASE m.m = "added"   -> objects_add_interfaces(o, m.path, m.value)
      [] m.m = "removed" -> objects_remove_interfaces(o, m.path)
      [] m.m = "changed" -> objects_properties_changed(o, m.path, m.value)
      [] OTHER           -> o

\* objects_load(): the whole copy, or none of it when there is no memory for it.
objects_load(t) ==
    \/ objects' = t /\ objects_loaded' = TRUE
    \/ objects_clear

-----------------------------------------------------------------------------
(* Watches.  libdbus has two on its one socket: the readable one is always   *)
(* enabled, the writable one while there is something to write.              *)

\* The events of the watches that are enabled.
Enabled(writable) == {"IN"} \cup (IF writable THEN {"OUT"} ELSE {})

\* Mutant: a registration that is there is left alone.
watch_sync_once(w, entry, writable) ==
    IF w.registered # "none" THEN {w}
    ELSE {[registered |-> entry, mask |-> Enabled(writable), refused |-> FALSE]}

\* watch_sync(), of a central on a loop: one registration for both watches, made
\* or changed.  The loop may refuse either, and then has what it had; nobody
\* asks again before a watch is next toggled.
watch_sync(w, entry, writable) ==
    {[registered |-> IF w.registered # "none" THEN w.registered ELSE entry,
      mask |-> Enabled(writable), refused |-> FALSE],
     [w EXCEPT !.refused = w.mask # Enabled(writable)]}

\* inkwell_ble_backend_attach(), which tries each entry and answers 0, and
\* inkwell_ble_backend_detach(), which removes what an entry registered.
backend_attach(w, writable) ==
    UNION {watch_sync(v, "out", writable) : v \in watch_sync(w, "in", writable)}
backend_detach(w) ==
    {[registered |-> "none", mask |-> IF w.registered # "none" THEN {} ELSE w.mask,
      refused |-> FALSE]}

\* watch_toggled(), when a step leaves the queue empty or no longer so, and the
\* loop that the step attached or detached.
Watched ==
    watch' \in CASE loop' /\ ~loop -> backend_attach(watch, backlog' # {})
                 [] loop /\ ~loop' -> backend_detach(watch)
                 [] loop /\ loop' /\ (backlog = {}) # (backlog' = {}) ->
                        watch_sync(watch, "out", backlog' # {})
                 [] OTHER -> {watch}

\* What is sent is written at once, or waits its turn when the socket is full.
Queued == IF backlog # {} THEN {backlog \cup {serial'}}
          ELSE IF "full" \in uses THEN {{}, {serial'}} ELSE {{}}

\* A step of the central that leaves the tree's copy alone: what it sends.
\* Flushed calls leave with all that waited before them.
Output(flushed) ==
    /\ IF flushed \/ ~open' THEN backlog' = {}
       ELSE IF serial' # serial THEN backlog' \in Queued
       ELSE backlog' = backlog
    /\ Watched

-----------------------------------------------------------------------------
(* Fetching. *)

\* objects_request(): sent without waiting.
objects_request ==
    /\ Called("objects", None)
    /\ objects_serial' = serial + 1

\* What waits is written and, when a call blocks, what arrives meanwhile is read
\* into libdbus's queue: the socket has nothing left to wake the loop for, if the
\* central is ever on one.
ReadAside == silent' \in {silent, "attach" \in uses /\ inbox' # <<>>}

\* objects_ensure(): the blocking fetch flushes what waits; bluetoothd answers,
\* or is not there, or does not answer within the second.
objects_ensure ==
    /\ \/ up /\ objects_load(tree) /\ objects_serial' = 0
       \/ UNCHANGED copy
    /\ backlog' = {}

\* inkwell_ble_backend_find_adapter(), _list_by_service() and
\* _find_characteristic(), while there is no copy for them to look in.  The MTU
\* lookup and forget() block alike, and leave the copy as it is.
Lookup ==
    /\ open /\ "fetch" \in uses
    /\ ~objects_loaded
    /\ objects_ensure
    /\ answer' = NoAnswer
    /\ UNCHANGED <<uses, open, loop, requests, links, values, agent, bus, daemon_tree>>
    /\ Watched /\ ReadAside

\* inkwell_ble_backend_discovering() while there is no copy.
Discovering ==
    /\ open /\ "fetch" \in uses /\ Room
    /\ ~objects_loaded /\ objects_serial = 0
    /\ objects_request
    /\ UNCHANGED <<objects, objects_loaded, inbox, silent>>
    /\ answer' = NoAnswer
    /\ UNCHANGED <<uses, open, loop, requests, links, values, agent, daemon_tree>>
    /\ Output(FALSE)

\* inkwell_ble_backend_discovery(): refused when the copy says the adapter is off.
Discovery ==
    /\ open /\ "discovery" \in uses
    /\ ~(objects_loaded /\ Adapter \in DOMAIN objects /\ objects[Adapter] = "off")
    /\ send_logged("discovery")
    /\ UNCHANGED <<copy, silent>>
    /\ answer' = NoAnswer
    /\ UNCHANGED <<uses, open, loop, requests, links, values, agent, daemon_tree>>
    /\ Output(FALSE)

-----------------------------------------------------------------------------
(* What process() makes of the messages that are about the tree. *)

\* handle_message(): the reply to objects_request(), or to one given up.
HandleTree(m) ==
    IF m.serial = objects_serial
    THEN /\ objects_serial' = 0
         /\ IF m.ok THEN objects_load(m.tree) ELSE UNCHANGED <<objects, objects_loaded>>
    ELSE UNCHANGED copy

\* objects_handle_signal(), NameOwnerChanged.
HandleOwner(m) ==
    /\ objects_clear
    /\ IF m.up THEN objects_request
       ELSE objects_serial' = 0 /\ UNCHANGED <<serial, calls>>

\* A change that cannot be kept, for want of memory, takes the copy with it;
\* while no copy is held, signals are ignored.
Update(o) ==
    /\ \/ ~objects_loaded /\ UNCHANGED <<objects, objects_loaded>>
       \/ objects_loaded /\ objects' = o /\ UNCHANGED objects_loaded
    /\ UNCHANGED objects_serial
OutOfMemory == objects_loaded /\ objects_clear /\ UNCHANGED objects_serial

\* objects_handle_signal(), InterfacesAdded and InterfacesRemoved.
HandleSignal(m) ==
    \/ Update(Applied(objects, m))
    \/ m.m = "added" /\ OutOfMemory

\* handle_properties_changed() of a peripheral or the adapter.  The values of a
\* characteristic go to the caller's callback and change nothing here.
handle_properties_changed(m) ==
    \/ Update(Applied(objects, m))
    \/ OutOfMemory

\* handle_message() on a message about the tree.
ProcessTree(m) ==
    /\ \/ m.m = "tree" /\ HandleTree(m) /\ UNCHANGED <<serial, calls>>
       \/ m.m = "owner" /\ HandleOwner(m)
       \/ m.m \in {"added", "removed"} /\ HandleSignal(m) /\ UNCHANGED <<serial, calls>>
       \/ m.m = "changed" /\ handle_properties_changed(m) /\ UNCHANGED <<serial, calls>>
    /\ answer' = NoAnswer
    /\ UNCHANGED <<requests, links, notify_handle, matches, agent_registered,
                   agent_request, agent_pending, asking>>

-----------------------------------------------------------------------------
(* bluetoothd's tree. *)

\* A message arrives, and the socket has something to read.
Deliver(m) == inbox' = Append(inbox, m) /\ silent' = FALSE

\* The tree changes, and a signal says so.
Grow(t, m) ==
    /\ up /\ "tree" \in uses /\ Room
    /\ tree' = t
    /\ changes' = changes + 1
    /\ Deliver(m)

DaemonChanges ==
    /\ \/ \E p \in Paths \ DOMAIN tree : \E v \in Values(p) :
             Grow(With(tree, p, v), [m |-> "added", path |-> p, value |-> v])
       \/ \E p \in DOMAIN tree :
             \/ Grow(Restrict(tree, DOMAIN tree \ {p}), [m |-> "removed", path |-> p])
             \/ \E v \in Values(p) \ {tree[p]} :
                   Grow([tree EXCEPT ![p] = v], [m |-> "changed", path |-> p, value |-> v])
    /\ answer' = NoAnswer
    /\ UNCHANGED <<uses, open, loop, requests, links, values, agent, serial, calls, up,
                   copy, output>>

\* bluetoothd takes its name.
DaemonStarts ==
    /\ ~up /\ Room
    /\ up' = TRUE /\ tree' = Boot
    /\ Deliver([m |-> "owner", up |-> TRUE])
    /\ answer' = NoAnswer
    /\ UNCHANGED <<uses, open, loop, requests, links, values, agent, serial, calls,
                   changes, copy, output>>

\* inkwell_ble_process() from the loop, or from the caller, begins with
\* dbus_connection_read_write(): the socket takes what waited.  What was read
\* aside is then popped.
Drain ==
    /\ backlog # {}
    /\ backlog' = {}
    /\ silent' = FALSE
    /\ answer' = NoAnswer
    /\ UNCHANGED <<uses, open, loop, requests, links, values, agent, bus, daemon_tree, copy>>
    /\ Watched
=============================================================================
