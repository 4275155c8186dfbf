-------------------------------- MODULE Loop --------------------------------
(***************************************************************************)
(* The event loop, src/runtime/loop.c, with the wake of src/runtime/wake.c *)
(* that carries a request to stop, on the epoll and the kqueue backend.    *)
(*                                                                         *)
(* A table of sources shadows what is registered with the kernel.  One     *)
(* wait returns a batch of events; each names the slot of the table it     *)
(* was registered from.  The callbacks run one after the other and may     *)
(* close and open descriptors, change the table and ask the loop to stop   *)
(* while the rest of the batch is still to be dispatched.                  *)
(*                                                                         *)
(* A descriptor number and the file behind it are told apart, since the    *)
(* kernel gives a freed number to the next file that is opened.            *)
(***************************************************************************)
EXTENDS Integers, FiniteSets

CONSTANTS
    Fds,            \* the descriptor numbers of the application's files
    MaxFiles,       \* how many files it opens in a behaviour
    MaxSources,     \* INKWELL_LOOP_MAX_SOURCES
    MaxBatch,       \* events one wait can return: 8 for epoll, 16 for kqueue
    Masks,          \* the event masks the application asks for
    Timeout,        \* timeout_ms of a bounded run, in steps of the clock
    Backend,        \* "epoll" or "kqueue"
    Faults          \* which calls may fail: "ctl" (a registration, or opening the
                    \* poll set or the wake), "wait"

ASSUME FdsAssumption == Fds \subseteq Nat \ {0}
ASSUME FilesAssumption == MaxFiles \in Nat
ASSUME SourcesAssumption == MaxSources \in Nat \ {0}
ASSUME BatchAssumption == MaxBatch \in Nat \ {0}
ASSUME MasksAssumption == Masks \subseteq (SUBSET {"IN", "OUT"}) \ {{}}
ASSUME LoopTimeoutAssumption == Timeout \in Nat \ {0}
ASSUME BackendAssumption == Backend \in {"epoll", "kqueue"}

Files    == 1 .. MaxFiles       \* numbered in the order they are opened
Slots    == 1 .. MaxSources
WakeFd   == 0                   \* the number of loop->wake.fd
WakeFile == 0
Numbers  == Fds \cup {WakeFd}

VARIABLES
    file,           \* the file behind each number; NoFile when it is closed
    opened,         \* how many files have been opened
    kernel,         \* what is registered with the kernel for each number
    sources,        \* loop->sources
    wake,           \* whether the wake is readable
    running,        \* loop->running
    pc,             \* where the loop's thread is
    mode,           \* the timeout of the current run: zero, bounded, forever
    left,           \* the time left before deadline_ms
    batch,          \* events[] of the current wait, still to be dispatched
    told,           \* the file the current callback's event is about
    called,         \* the file of the source the callback belongs to
    stopping        \* a stop was requested since a run last returned

descriptors == <<file, opened>>
table == <<kernel, sources>>
run   == <<running, mode, left>>
event == <<batch, told, called>>
vars  == <<descriptors, table, wake, run, pc, event, stopping>>

NoFile == 0 - 1

Unwatched == [slot |-> 0, events |-> {}]
Free == [active |-> FALSE, fd |-> 0 - 1, events |-> {}]

Registrations == [slot : Slots \cup {0}, events : SUBSET {"IN", "OUT"}]
SourceRecords == [active : BOOLEAN, fd : Numbers \cup {0 - 1}, events : SUBSET {"IN", "OUT"}]
AnyFile       == Files \cup {NoFile, WakeFile}

\* The table, the kernel, the application's descriptors and the loop's thread.
TypeOK ==
    /\ file \in [Fds -> Files \cup {NoFile}]
    /\ opened \in Nat
    /\ kernel \in [Numbers -> Registrations]
    /\ sources \in [Slots -> SourceRecords]
    /\ wake \in BOOLEAN
    /\ running \in BOOLEAN
    /\ pc \in {"closed", "idle", "wait", "dispatch", "callback"}
    /\ mode \in {"zero", "bounded", "forever"}
    /\ left \in 0 .. Timeout
    /\ batch \in SUBSET [slot : Slots, fd : Numbers, file : AnyFile]
    /\ told \in AnyFile
    /\ called \in AnyFile
    /\ stopping \in BOOLEAN

\* Before inkwell_loop_init().
Init ==
    /\ file = [f \in Fds |-> NoFile]
    /\ opened = 0
    /\ kernel = [f \in Numbers |-> Unwatched]
    /\ sources = [s \in Slots |-> Free]
    /\ wake = FALSE
    /\ running = FALSE
    /\ pc = "closed"
    /\ mode = "zero" /\ left = 0
    /\ batch = {} /\ told = NoFile /\ called = NoFile
    /\ stopping = FALSE

FileOf(f) == IF f = WakeFd THEN WakeFile ELSE file[f]

-----------------------------------------------------------------------------
(* The backend: the possible results of a change of registration. *)

\* kqueue has a filter for each direction, and changes them one at a time.
ApplyFilter(events, bit, now) == (events \ {bit}) \cup (now \cap {bit})

\* Mutant: the first filter's change is not undone when the second fails.
KqueueApplyNoRollback(was, now) ==
    LET first == ApplyFilter(was, "IN", now)
    IN  {[rc |-> 0, events |-> ApplyFilter(first, "OUT", now)]}
          \cup IF "ctl" \in Faults THEN {[rc |-> 0 - 1, events |-> e] : e \in {was, first}}
               ELSE {}

\* kqueue_apply(): on a failure it undoes what it had already done.
kqueue_apply(was, now) ==
    LET first    == ApplyFilter(was, "IN", now)
        second   == ApplyFilter(first, "OUT", now)
        undone   == ApplyFilter(first, "IN", was)
        failures == IF "ctl" \in Faults
                    THEN {e \in {was, undone} : first # was \/ second # first}
                    ELSE {}
    IN  {[rc |-> 0, events |-> second]}
          \cup {[rc |-> 0 - 1, events |-> e] : e \in failures}

\* backend_ctl(): epoll changes the whole mask or nothing.
epoll_apply(was, now) ==
    {[rc |-> 0, events |-> now]}
      \cup IF "ctl" \in Faults THEN {[rc |-> 0 - 1, events |-> was]} ELSE {}

backend_apply(was, now) ==
    IF Backend = "kqueue" THEN kqueue_apply(was, now) ELSE epoll_apply(was, now)

\* backend_remove().  kqueue drops its filters and reports nothing; EV_DELETE of
\* a filter that is registered does not fail.
backend_remove(was) ==
    IF Backend = "kqueue" THEN {[rc |-> 0, events |-> {}]} ELSE epoll_apply(was, {})

\* What the kernel holds once the registration of s is for these events.
Watched(s, events) == IF events = {} THEN Unwatched ELSE [slot |-> s, events |-> events]

-----------------------------------------------------------------------------
(* The application's descriptors. *)

InCallback == pc = "callback" /\ called # WakeFile
AtRest == pc = "idle" \/ InCallback

\* open(), socket(), accept(): the lowest number that is free.
Open(f) ==
    /\ AtRest
    /\ opened + 1 \in Files
    /\ file[f] = NoFile
    /\ \A g \in Fds : g < f => file[g] # NoFile
    /\ file' = [file EXCEPT ![f] = opened + 1]
    /\ opened' = opened + 1
    /\ UNCHANGED <<table, wake, run, pc, event, stopping>>

find_source_index(f) == {s \in Slots : sources[s].active /\ sources[s].fd = f}

\* close(), of a number that the loop does not watch, as loop.h asks.
Close(f) ==
    /\ AtRest
    /\ file[f] # NoFile
    /\ find_source_index(f) = {}
    /\ file' = [file EXCEPT ![f] = NoFile]
    /\ UNCHANGED <<opened, table, wake, run, pc, event, stopping>>

-----------------------------------------------------------------------------
(* The table. *)

FreeSlots == {s \in Slots : ~sources[s].active}
FirstFree == {s \in FreeSlots : \A t \in FreeSlots : s <= t}

\* inkwell_loop_add_fd() once it has a slot.  A failed add leaves the fields of
\* the slot behind; only `active` is taken back.
add_fd(f, events) ==
    \E s \in FirstFree :
    \E result \in backend_apply({}, events) :
       /\ kernel' = [kernel EXCEPT ![f] = Watched(s, result.events)]
       /\ sources' = [sources EXCEPT ![s] =
                         [active |-> result.rc = 0, fd |-> f, events |-> events]]

\* inkwell_loop_add_fd(); -EEXIST and -ENOSPC change nothing.
AddFd(f, events) ==
    /\ AtRest
    /\ file[f] # NoFile
    /\ find_source_index(f) = {}
    /\ FreeSlots # {}
    /\ add_fd(f, events)
    /\ UNCHANGED <<descriptors, wake, run, pc, event, stopping>>

\* inkwell_loop_update_fd(); -ENOENT changes nothing.
UpdateFd(f, events) ==
    /\ AtRest
    /\ find_source_index(f) # {}
    /\ \E s \in find_source_index(f) :
       \E result \in backend_apply(sources[s].events, events) :
          /\ kernel' = [kernel EXCEPT ![f] = Watched(s, result.events)]
          /\ sources' = [sources EXCEPT ![s].events =
                            IF result.rc = 0 THEN events ELSE @]
    /\ UNCHANGED <<descriptors, wake, run, pc, event, stopping>>

\* inkwell_loop_remove_fd() of a number that is still open.  One that fails
\* leaves the source as it was.
RemoveFd(f) ==
    /\ AtRest
    /\ \E s \in find_source_index(f) :
       \E result \in backend_remove(sources[s].events) :
          /\ kernel' = [kernel EXCEPT ![f] = Watched(s, result.events)]
          /\ sources' = [sources EXCEPT ![s] = IF result.rc = 0 THEN Free ELSE @]
    /\ UNCHANGED <<descriptors, wake, run, pc, event, stopping>>

-----------------------------------------------------------------------------
(* Starting, stopping and closing the loop. *)

\* The wake: an eventfd or a pipe that stays readable, however often it was
\* signalled, until it is drained.
wake_open   == wake' = FALSE
wake_signal == wake' = TRUE
wake_drain  == wake' = FALSE
wake_close  == wake' = FALSE

\* inkwell_loop_init(): the wake takes the first slot.
LoopInit ==
    /\ pc = "closed"
    /\ kernel' = [kernel EXCEPT ![WakeFd] = [slot |-> 1, events |-> {"IN"}]]
    /\ sources' = [s \in Slots |->
                      IF s = 1 THEN [active |-> TRUE, fd |-> WakeFd, events |-> {"IN"}]
                      ELSE Free]
    /\ wake_open
    /\ running' = FALSE
    /\ stopping' = FALSE
    /\ pc' = "idle"
    /\ UNCHANGED <<descriptors, mode, left, event>>

\* inkwell_loop_init() fails: the poll set, the wake or its registration cannot be
\* had, and what was opened is closed again.  A failed add leaves its fields.
LoopInitFails ==
    /\ pc = "closed"
    /\ "ctl" \in Faults
    /\ \E first \in {Free, [active |-> FALSE, fd |-> WakeFd, events |-> {"IN"}]} :
          sources' = [s \in Slots |-> IF s = 1 THEN first ELSE Free]
    /\ wake_close
    /\ running' = FALSE
    /\ UNCHANGED <<descriptors, kernel, mode, left, pc, event, stopping>>

\* inkwell_loop_shutdown().
LoopShutdown ==
    /\ pc = "idle"
    /\ kernel' = [f \in Numbers |-> Unwatched]
    /\ sources' = [s \in Slots |-> IF sources[s].active THEN Free ELSE sources[s]]
    /\ wake_close
    /\ running' = FALSE
    /\ stopping' = FALSE
    /\ pc' = "closed"
    /\ UNCHANGED <<descriptors, mode, left, event>>

\* Mutant: only the flags are set, and a run that starts clears them.
RequestStopNoWake ==
    /\ AtRest
    /\ running' = FALSE
    /\ stopping' = TRUE
    /\ UNCHANGED <<descriptors, table, wake, mode, left, pc, event>>

\* inkwell_loop_request_stop(), from a callback or between two runs.
RequestStop ==
    /\ AtRest
    /\ running' = FALSE
    /\ wake_signal
    /\ stopping' = TRUE
    /\ UNCHANGED <<descriptors, table, mode, left, pc, event>>

-----------------------------------------------------------------------------
(* inkwell_loop_run(). *)

RunStart(m) ==
    /\ pc = "idle"
    /\ running' = TRUE
    /\ mode' = m
    /\ left' = IF m = "bounded" THEN Timeout ELSE 0
    /\ pc' = "wait"
    /\ UNCHANGED <<descriptors, table, wake, event, stopping>>

\* The return from inkwell_loop_run().
Returns ==
    /\ running' = FALSE
    /\ pc' = "idle"
    /\ stopping' = FALSE

\* The events the kernel may report: of everything that is watched, whatever
\* is ready, and the wake for certain while there is room for it.
Events(numbers) ==
    {[slot |-> kernel[f].slot, fd |-> f, file |-> FileOf(f)] : f \in numbers}

Reportable(numbers) ==
    /\ \A f \in numbers : kernel[f].slot # 0
    /\ Cardinality(numbers) <= MaxBatch
    /\ WakeFd \in numbers => wake
    /\ wake /\ Cardinality(numbers) < MaxBatch => WakeFd \in numbers

\* backend_dispatch() waits, and some sources are ready.
WaitReady(numbers) ==
    /\ pc = "wait"
    /\ numbers # {}
    /\ Reportable(numbers)
    /\ batch' = Events(numbers)
    /\ pc' = "dispatch"
    /\ UNCHANGED <<descriptors, table, wake, run, told, called, stopping>>

\* The wait expires with nothing ready.
WaitExpires ==
    /\ pc = "wait"
    /\ Reportable({})
    /\ mode # "forever"
    /\ left = 0
    /\ Returns
    /\ UNCHANGED <<descriptors, table, wake, mode, left, event>>

\* The wait fails; -EINTR is retried and changes nothing.
WaitFails ==
    /\ pc = "wait"
    /\ "wait" \in Faults
    /\ Returns
    /\ UNCHANGED <<descriptors, table, wake, mode, left, event>>

\* Whether backend_dispatch() calls the source of event e.
Deliverable(e) ==
    /\ sources[e.slot].active
    /\ Backend = "kqueue" => sources[e.slot].fd = e.fd

Skip(e) ==
    /\ pc = "dispatch"
    /\ e \in batch
    /\ ~Deliverable(e)
    /\ batch' = batch \ {e}
    /\ UNCHANGED <<descriptors, table, wake, run, pc, told, called, stopping>>

Dispatch(e) ==
    /\ pc = "dispatch"
    /\ e \in batch
    /\ Deliverable(e)
    /\ batch' = batch \ {e}
    /\ told' = e.file
    /\ called' = FileOf(sources[e.slot].fd)
    /\ pc' = "callback"
    /\ UNCHANGED <<descriptors, table, wake, run, stopping>>

\* wake_callback().
WakeCallback ==
    /\ pc = "callback"
    /\ called = WakeFile
    /\ wake_drain
    /\ running' = FALSE
    /\ told' = NoFile /\ called' = NoFile
    /\ pc' = "dispatch"
    /\ UNCHANGED <<descriptors, table, mode, left, batch, stopping>>

CallbackReturns ==
    /\ InCallback
    /\ told' = NoFile /\ called' = NoFile
    /\ pc' = "dispatch"
    /\ UNCHANGED <<descriptors, table, wake, run, batch, stopping>>

\* Mutant: the deadline bounds each wait only.
BatchDoneDeadlinePerWait ==
    /\ pc = "dispatch"
    /\ batch = {}
    /\ IF running
       THEN pc' = "wait" /\ UNCHANGED <<running, stopping>>
       ELSE Returns
    /\ UNCHANGED <<descriptors, table, wake, mode, left, event>>

\* After the batch: the deadline first, then the loop condition.
BatchDone ==
    /\ pc = "dispatch"
    /\ batch = {}
    /\ IF running /\ ~(mode = "bounded" /\ left = 0)
       THEN pc' = "wait" /\ UNCHANGED <<running, stopping>>
       ELSE Returns
    /\ UNCHANGED <<descriptors, table, wake, mode, left, event>>

\* Mutant: the time left is taken below zero.
ClockPastDeadline ==
    /\ pc \in {"wait", "dispatch", "callback"}
    /\ mode = "bounded"
    /\ left' = left - 1
    /\ UNCHANGED <<descriptors, table, wake, running, mode, pc, event, stopping>>

\* The deadline comes closer; the time left to wait is never negative.
Clock ==
    /\ pc \in {"wait", "dispatch", "callback"}
    /\ left > 0
    /\ left' = left - 1
    /\ UNCHANGED <<descriptors, table, wake, running, mode, pc, event, stopping>>

-----------------------------------------------------------------------------
App ==
    \/ \E f \in Fds : Open(f) \/ Close(f) \/ RemoveFd(f)
    \/ \E f \in Fds, m \in Masks : AddFd(f, m) \/ UpdateFd(f, m)
    \/ LoopInit \/ LoopInitFails \/ LoopShutdown \/ RequestStop
    \/ \E m \in {"zero", "bounded", "forever"} : RunStart(m)

Wait == \E numbers \in SUBSET Numbers : WaitReady(numbers)

Run ==
    \/ Wait \/ WaitExpires \/ WaitFails
    \/ \E e \in batch : Skip(e) \/ Dispatch(e)
    \/ WakeCallback \/ CallbackReturns \/ BatchDone

Next == App \/ Run \/ Clock

SafeSpec == Init /\ [][Next]_vars

\* The thread inside inkwell_loop_run() keeps going, callbacks return, time
\* passes, and the kernel reports a readable wake sooner or later even when
\* every batch is full (both kernels queue the ready descriptors in turn).
\* Sources may be ready at every wait for ever.
Fairness ==
    /\ SF_vars(\E numbers \in SUBSET Numbers : WakeFd \in numbers /\ WaitReady(numbers))
    /\ WF_vars(WaitExpires)
    /\ WF_vars(\E e \in batch : Skip(e) \/ Dispatch(e))
    /\ WF_vars(WakeCallback)
    /\ WF_vars(CallbackReturns)
    /\ WF_vars(BatchDone)
    /\ WF_vars(Clock)

Spec == SafeSpec /\ Fairness

-----------------------------------------------------------------------------
(* Properties. *)

\* The table and the kernel agree, whatever registrations failed: an active
\* source is registered under its own slot with exactly its events, and
\* nothing is registered that the table does not hold, so no event can come
\* back with a pointer to a slot that was given away.
TableMatchesKernel ==
    /\ \A s \in Slots : sources[s].active =>
          kernel[sources[s].fd] = [slot |-> s, events |-> sources[s].events]
    /\ \A f \in Numbers : kernel[f].slot # 0 =>
          sources[kernel[f].slot].active /\ sources[kernel[f].slot].fd = f

\* A request to stop is never lost: it ends the run it was made in, and one
\* made between two runs ends the next, however long that is to wait.
StopEndsRun == (stopping /\ pc \notin {"idle", "closed"}) ~> pc = "idle"

\* "timeout_ms bounds the whole call, not each wait": a bounded run returns
\* even when some source is ready at every wait.
BoundedRunReturns == (mode = "bounded" /\ pc = "wait") ~> pc = "idle"

\* "a slot freed and refilled by an earlier callback in this batch is not
\* handed an event that was about its predecessor": a callback only ever runs
\* for an event about the file that its source watches.  It does not hold: the
\* slot is told apart by its descriptor's number alone, and the next file that is
\* opened gets that number.
NoStaleEvent == pc = "callback" => told = called
=============================================================================
