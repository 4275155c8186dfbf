----------------------------- MODULE LoopProofs -----------------------------
(***************************************************************************)
(* Proofs about the event loop of src/runtime/loop.c and the byte stream   *)
(* of src/net/stream.c that watches its descriptor with it.                *)
(*                                                                         *)
(* The loop (Loop), for either backend, any number of sources and          *)
(* descriptors, any batch, and any registration that fails: its types, and *)
(* that its table never disagrees with the kernel.                         *)
(*                                                                         *)
(* The stream (Stream), for every number and length of frames and every    *)
(* size of the ring: that its interest in writing is armed exactly while   *)
(* something waits, and that the ring implements the queue of frames of    *)
(* module FrameQueue, as long as on_dropped does not send.                 *)
(***************************************************************************)
EXTENDS Loop, Stream, SequenceTheorems, TLAPS

-----------------------------------------------------------------------------
(* The loop. *)

Directions == {"IN", "OUT"}

\* A source in use watches a descriptor for something, and a loop that is
\* closed watches nothing.
SourcesInUse ==
    /\ \A s \in Slots : sources[s].active => sources[s].fd \in Numbers /\ sources[s].events # {}
    /\ pc = "closed" => \A f \in Numbers : kernel[f] = Unwatched

\* The inductive invariant.
Inv == TypeOK /\ TableMatchesKernel /\ SourcesInUse

\* The wake's number is none of the application's, and its slot is the first.
LEMMA WakeApart == WakeFd \notin Fds /\ 1 \in Slots /\ 0 \notin Slots /\ Fds \subseteq Numbers
                   /\ Slots \subseteq Nat
BY FdsAssumption, SourcesAssumption DEF WakeFd, Slots, Numbers

\* Two filters changed one after the other make the mask that was asked for,
\* and the first one changed back makes the mask there was.
LEMMA FiltersCompose ==
    ASSUME NEW was \in SUBSET Directions, NEW now \in SUBSET Directions
    PROVE  /\ ApplyFilter(ApplyFilter(was, "IN", now), "OUT", now) = now
           /\ ApplyFilter(ApplyFilter(was, "IN", now), "IN", was) = was
BY DEF ApplyFilter, Directions

\* A change of registration does all of what it was asked for or nothing,
\* on either backend: kqueue_apply() undoes its first half.
LEMMA AllOrNothing ==
    ASSUME NEW was \in SUBSET Directions, NEW now \in SUBSET Directions,
           NEW result \in backend_apply(was, now)
    PROVE  \/ result.rc = 0 /\ result.events = now
           \/ result.rc # 0 /\ result.events = was
<1>1. CASE Backend = "kqueue"
  <2>1. result \in kqueue_apply(was, now)
    BY <1>1 DEF backend_apply
  <2>2. \/ result = [rc |-> 0, events |-> ApplyFilter(ApplyFilter(was, "IN", now), "OUT", now)]
        \/ result = [rc |-> 0 - 1, events |-> was]
        \/ result = [rc |-> 0 - 1, events |-> ApplyFilter(ApplyFilter(was, "IN", now), "IN", was)]
    BY <2>1 DEF kqueue_apply
  <2> QED BY <2>2, FiltersCompose
<1>2. CASE Backend # "kqueue"
  <2>1. result \in epoll_apply(was, now)
    BY <1>2 DEF backend_apply
  <2>2. \/ result = [rc |-> 0, events |-> now]
        \/ result = [rc |-> 0 - 1, events |-> was]
    BY <2>1 DEF epoll_apply
  <2> QED BY <2>2
<1> QED BY <1>1, <1>2

\* The invariant holds before the loop is initialised.
LEMMA InitInv == Init => Inv
<1> SUFFICES ASSUME Init PROVE Inv
  OBVIOUS
<1>1. TypeOK
  <2>1. kernel \in [Numbers -> Registrations] /\ sources \in [Slots -> SourceRecords]
    BY DEF Init, Unwatched, Free, Registrations, SourceRecords
  <2>2. wake \in BOOLEAN /\ running \in BOOLEAN /\ stopping \in BOOLEAN
    BY DEF Init
  <2>3. file \in [Fds -> Files \cup {NoFile}] /\ opened \in Nat /\ left \in 0 .. Timeout
    BY LoopTimeoutAssumption DEF Init
  <2>4. told \in AnyFile /\ called \in AnyFile
    BY DEF Init, AnyFile
  <2> QED BY <2>1, <2>2, <2>3, <2>4 DEF Init, TypeOK
<1>2. TableMatchesKernel
  BY DEF Init, TableMatchesKernel, Unwatched, Free
<1>3. SourcesInUse
  BY DEF Init, SourcesInUse, Free
<1> QED BY <1>1, <1>2, <1>3 DEF Inv

\* A registration of the slot s for these events is one the kernel can hold.
LEMMA WatchedTyped ==
    ASSUME NEW s \in Slots, NEW events \in SUBSET Directions
    PROVE  Watched(s, events) \in Registrations
BY DEF Watched, Unwatched, Registrations, Directions

\* A step that leaves the table alone, and does not close the loop, keeps it.
LEMMA TableKept ==
    ASSUME Inv, UNCHANGED <<kernel, sources>>, pc' = "closed" => pc = "closed"
    PROVE  TableMatchesKernel' /\ SourcesInUse'
BY DEF Inv, TableMatchesKernel, SourcesInUse

\* No two sources in use watch the same descriptor.
LEMMA OneSourcePerFd ==
    ASSUME Inv, NEW s \in Slots, NEW t \in Slots, sources[s].active, sources[t].active,
           sources[s].fd = sources[t].fd
    PROVE  s = t
<1>1. kernel[sources[s].fd] = [slot |-> s, events |-> sources[s].events]
  BY DEF Inv, TableMatchesKernel
<1>2. kernel[sources[t].fd] = [slot |-> t, events |-> sources[t].events]
  BY DEF Inv, TableMatchesKernel
<1>3. kernel[sources[s].fd].slot = s /\ kernel[sources[t].fd].slot = t
  BY <1>1, <1>2
<1> QED BY <1>3

\* inkwell_loop_add_fd() keeps the table and the kernel together, whether or not
\* the backend takes the descriptor.
LEMMA AddKeepsTable ==
    ASSUME Inv, NEW f \in Fds, NEW m \in Masks, AddFd(f, m)
    PROVE  /\ kernel' \in [Numbers -> Registrations]
           /\ sources' \in [Slots -> SourceRecords]
           /\ TableMatchesKernel' /\ SourcesInUse'
<1>1. m \in SUBSET Directions /\ m # {} /\ {} \in SUBSET Directions
  BY MasksAssumption DEF Directions
<1>2. PICK s \in FirstFree, result \in backend_apply({}, m) :
         /\ kernel' = [kernel EXCEPT ![f] = Watched(s, result.events)]
         /\ sources' = [sources EXCEPT ![s] = [active |-> result.rc = 0, fd |-> f, events |-> m]]
  BY DEF AddFd, add_fd
<1>3. s \in Slots /\ ~sources[s].active
  BY DEF FirstFree, FreeSlots
<1>4. f \in Numbers /\ \A t \in Slots : sources[t].active => sources[t].fd # f
  BY WakeApart DEF AddFd, find_source_index
<1>5. kernel[f].slot = 0
  BY <1>4 DEF Inv, TypeOK, Registrations, TableMatchesKernel
<1>6. CASE result.rc = 0
  <2>1. result.events = m
    BY <1>1, <1>6, AllOrNothing
  <2>2. Watched(s, result.events) = [slot |-> s, events |-> m]
    BY <1>1, <2>1 DEF Watched
  <2>3. sources' = [sources EXCEPT ![s] = [active |-> TRUE, fd |-> f, events |-> m]]
    BY <1>2, <1>6
  <2>4. kernel' = [kernel EXCEPT ![f] = [slot |-> s, events |-> m]]
    BY <1>2, <2>2
  <2>5. kernel' \in [Numbers -> Registrations]
    BY <1>1, <1>3, <1>4, <2>4 DEF Inv, TypeOK, Registrations, Directions
  <2>6. sources' \in [Slots -> SourceRecords]
    BY <1>1, <1>3, <1>4, <2>3 DEF Inv, TypeOK, SourceRecords, Directions
  <2>7. TableMatchesKernel'
    BY <1>3, <1>4, <1>5, <2>3, <2>4, WakeApart DEF Inv, TypeOK, TableMatchesKernel
  <2>8. SourcesInUse'
    BY <1>1, <1>3, <1>4, <2>3, <2>4 DEF Inv, TypeOK, SourcesInUse, AddFd, AtRest, InCallback
  <2> QED BY <2>5, <2>6, <2>7, <2>8
<1>7. CASE result.rc # 0
  <2>1. result.events = {}
    BY <1>1, <1>7, AllOrNothing
  <2>2. Watched(s, result.events) = Unwatched
    BY <2>1 DEF Watched
  <2>3. sources' = [sources EXCEPT ![s] = [active |-> FALSE, fd |-> f, events |-> m]]
    BY <1>2, <1>7
  <2>4. kernel' = [kernel EXCEPT ![f] = Unwatched]
    BY <1>2, <2>2
  <2>5. kernel' \in [Numbers -> Registrations]
    BY <1>4, <2>4 DEF Inv, TypeOK, Registrations, Unwatched
  <2>6. sources' \in [Slots -> SourceRecords]
    BY <1>1, <1>3, <1>4, <2>3 DEF Inv, TypeOK, SourceRecords, Directions
  <2>7. TableMatchesKernel'
    BY <1>3, <1>4, <1>5, <2>3, <2>4 DEF Inv, TypeOK, TableMatchesKernel, Unwatched
  <2>8. SourcesInUse'
    BY <1>1, <1>3, <1>4, <2>3, <2>4 DEF Inv, TypeOK, SourcesInUse, AddFd, AtRest, InCallback
  <2> QED BY <2>5, <2>6, <2>7, <2>8
<1> QED BY <1>6, <1>7

\* inkwell_loop_update_fd() does, whether or not the backend makes the change.
LEMMA UpdateKeepsTable ==
    ASSUME Inv, NEW f \in Fds, NEW m \in Masks, UpdateFd(f, m)
    PROVE  /\ kernel' \in [Numbers -> Registrations]
           /\ sources' \in [Slots -> SourceRecords]
           /\ TableMatchesKernel' /\ SourcesInUse'
<1>1. m \in SUBSET Directions /\ m # {} /\ f \in Numbers
  BY MasksAssumption, WakeApart DEF Directions
<1>2. PICK s \in find_source_index(f) : \E result \in backend_apply(sources[s].events, m) :
         /\ kernel' = [kernel EXCEPT ![f] = Watched(s, result.events)]
         /\ sources' = [sources EXCEPT ![s].events = IF result.rc = 0 THEN m ELSE @]
  BY DEF UpdateFd
<1>3. s \in Slots /\ sources[s].active /\ sources[s].fd = f
  BY DEF find_source_index
<1>4. sources[s].events \in SUBSET Directions /\ sources[s].events # {}
  BY <1>3 DEF Inv, TypeOK, SourceRecords, SourcesInUse, Directions
<1>5. PICK e \in {m, sources[s].events} :
         /\ kernel' = [kernel EXCEPT ![f] = Watched(s, e)]
         /\ sources' = [sources EXCEPT ![s].events = e]
  <2>1. PICK result \in backend_apply(sources[s].events, m) :
           /\ kernel' = [kernel EXCEPT ![f] = Watched(s, result.events)]
           /\ sources' = [sources EXCEPT ![s].events = IF result.rc = 0 THEN m ELSE @]
    BY <1>2
  <2>2. \/ result.rc = 0 /\ result.events = m
        \/ result.rc # 0 /\ result.events = sources[s].events
    BY <1>1, <1>4, AllOrNothing
  <2> QED BY <1>3, <2>1, <2>2
<1>6. kernel' = [kernel EXCEPT ![f] = [slot |-> s, events |-> e]]
  BY <1>1, <1>4, <1>5 DEF Watched
<1>7. e \in SUBSET Directions /\ e # {}
  BY <1>1, <1>4, <1>5
<1>8. kernel' \in [Numbers -> Registrations]
  BY <1>1, <1>3, <1>6, <1>7 DEF Inv, TypeOK, Registrations, Directions
<1>9. sources' \in [Slots -> SourceRecords]
  BY <1>3, <1>5, <1>7 DEF Inv, TypeOK, SourceRecords, Directions
<1>10. TableMatchesKernel'
  <2>1. sources'[s] = [active |-> TRUE, fd |-> f, events |-> e]
    BY <1>3, <1>5 DEF Inv, TypeOK, SourceRecords
  <2>2. \A t \in Slots : t # s => sources'[t] = sources[t]
    BY <1>5 DEF Inv, TypeOK
  <2>3. kernel'[f] = [slot |-> s, events |-> e] /\ \A g \in Numbers : g # f => kernel'[g] = kernel[g]
    BY <1>1, <1>6 DEF Inv, TypeOK
  <2>4. \A t \in Slots : t # s /\ sources[t].active => sources[t].fd \in Numbers /\ sources[t].fd # f
    BY <1>3, OneSourcePerFd DEF Inv, SourcesInUse
  <2>5. \A t \in Slots : sources'[t].active =>
           kernel'[sources'[t].fd] = [slot |-> t, events |-> sources'[t].events]
    BY <2>1, <2>2, <2>3, <2>4 DEF Inv, TableMatchesKernel
  <2>6. \A g \in Numbers : kernel'[g].slot # 0 =>
           kernel'[g].slot \in Slots /\ sources'[kernel'[g].slot].active
             /\ sources'[kernel'[g].slot].fd = g
    <3>1. ASSUME NEW g \in Numbers, g # f, kernel'[g].slot # 0
          PROVE  kernel'[g].slot \in Slots /\ sources'[kernel'[g].slot].active
                   /\ sources'[kernel'[g].slot].fd = g
      <4>1. kernel'[g] = kernel[g] /\ kernel[g].slot \in Slots
        BY <2>3, <3>1 DEF Inv, TypeOK, Registrations
      <4>2. sources[kernel[g].slot].active /\ sources[kernel[g].slot].fd = g
        BY <3>1, <4>1 DEF Inv, TableMatchesKernel
      <4>3. kernel[g].slot # s
        BY <1>3, <3>1, <4>2
      <4> QED BY <2>2, <4>1, <4>2, <4>3
    <3>2. kernel'[f].slot = s
      BY <2>3
    <3> QED BY <1>3, <2>1, <3>1, <3>2
  <2> QED BY <2>5, <2>6 DEF TableMatchesKernel
<1>11. SourcesInUse'
  BY <1>1, <1>3, <1>5, <1>6, <1>7
  DEF Inv, TypeOK, SourceRecords, SourcesInUse, UpdateFd, AtRest, InCallback
<1> QED BY <1>8, <1>9, <1>10, <1>11

\* inkwell_loop_remove_fd() does.
LEMMA RemoveKeepsTable ==
    ASSUME Inv, NEW f \in Fds, RemoveFd(f)
    PROVE  /\ kernel' \in [Numbers -> Registrations]
           /\ sources' \in [Slots -> SourceRecords]
           /\ TableMatchesKernel' /\ SourcesInUse'
<1>1. PICK s \in find_source_index(f) : \E result \in backend_remove(sources[s].events) :
         /\ kernel' = [kernel EXCEPT ![f] = Watched(s, result.events)]
         /\ sources' = [sources EXCEPT ![s] = IF result.rc = 0 THEN Free ELSE @]
  BY DEF RemoveFd
<1>0. PICK result \in backend_remove(sources[s].events) :
         /\ kernel' = [kernel EXCEPT ![f] = Watched(s, result.events)]
         /\ sources' = [sources EXCEPT ![s] = IF result.rc = 0 THEN Free ELSE @]
  BY <1>1
<1>2. s \in Slots /\ sources[s].active /\ sources[s].fd = f /\ f \in Numbers
  BY WakeApart DEF find_source_index
<1>7. \/ result.rc = 0 /\ result.events = {}
      \/ result.rc # 0 /\ result.events = sources[s].events
  BY DEF backend_remove, epoll_apply
<1>8. CASE result.rc # 0
  <2>1. result.events = sources[s].events /\ sources[s].events # {}
    BY <1>2, <1>7, <1>8 DEF Inv, SourcesInUse
  <2>2. kernel[f] = Watched(s, result.events)
    BY <1>2, <2>1 DEF Inv, TableMatchesKernel, Watched
  <2>3. kernel' = kernel /\ sources' = sources
    BY <1>0, <1>2, <1>8, <2>2 DEF Inv, TypeOK
  <2> QED BY <2>3 DEF RemoveFd, Inv, TypeOK, TableMatchesKernel, SourcesInUse
<1> SUFFICES ASSUME result.rc = 0
             PROVE  /\ kernel' \in [Numbers -> Registrations]
                    /\ sources' \in [Slots -> SourceRecords]
                    /\ TableMatchesKernel' /\ SourcesInUse'
  BY <1>8
<1>9. kernel' = [kernel EXCEPT ![f] = Unwatched] /\ sources' = [sources EXCEPT ![s] = Free]
  BY <1>0, <1>7 DEF Watched
<1>3. kernel' \in [Numbers -> Registrations]
  BY <1>9, <1>2 DEF Inv, TypeOK, Registrations, Unwatched
<1>4. sources' \in [Slots -> SourceRecords]
  BY <1>9, <1>2 DEF Inv, TypeOK, SourceRecords, Free
<1>5. TableMatchesKernel'
  <2>1. ~sources'[s].active /\ \A t \in Slots : t # s => sources'[t] = sources[t]
    BY <1>9, <1>2 DEF Inv, TypeOK, Free
  <2>2. kernel'[f].slot = 0 /\ \A g \in Numbers : g # f => kernel'[g] = kernel[g]
    BY <1>9, <1>2 DEF Inv, TypeOK, Unwatched
  <2>3. \A t \in Slots : t # s /\ sources[t].active => sources[t].fd \in Numbers /\ sources[t].fd # f
    BY <1>2, OneSourcePerFd DEF Inv, SourcesInUse
  <2>4. \A t \in Slots : sources'[t].active =>
           kernel'[sources'[t].fd] = [slot |-> t, events |-> sources'[t].events]
    BY <2>1, <2>2, <2>3 DEF Inv, TableMatchesKernel
  <2>5. ASSUME NEW g \in Numbers, kernel'[g].slot # 0
        PROVE  sources'[kernel'[g].slot].active /\ sources'[kernel'[g].slot].fd = g
    <3>1. g # f /\ kernel'[g] = kernel[g] /\ kernel[g].slot \in Slots
      BY <2>2, <2>5 DEF Inv, TypeOK, Registrations
    <3>2. sources[kernel[g].slot].active /\ sources[kernel[g].slot].fd = g
      BY <2>5, <3>1 DEF Inv, TableMatchesKernel
    <3>3. kernel[g].slot # s
      BY <1>2, <3>1, <3>2
    <3> QED BY <2>1, <3>1, <3>2, <3>3
  <2> QED BY <2>4, <2>5 DEF TableMatchesKernel
<1>6. SourcesInUse'
  BY <1>9, <1>2 DEF Inv, TypeOK, SourcesInUse, Free, Unwatched, RemoveFd, AtRest, InCallback
<1> QED BY <1>3, <1>4, <1>5, <1>6

\* inkwell_loop_init() makes a table of the wake alone.
LEMMA InitKeepsTable ==
    ASSUME Inv, LoopInit
    PROVE  /\ kernel' \in [Numbers -> Registrations]
           /\ sources' \in [Slots -> SourceRecords]
           /\ TableMatchesKernel' /\ SourcesInUse'
<1>1. WakeFd \in Numbers /\ 1 \in Slots /\ 0 \notin Slots
  BY WakeApart DEF Numbers
<1>2. kernel' = [kernel EXCEPT ![WakeFd] = [slot |-> 1, events |-> {"IN"}]]
  BY DEF LoopInit, wake_open
<1>3. sources' = [s \in Slots |-> IF s = 1 THEN [active |-> TRUE, fd |-> WakeFd, events |-> {"IN"}]
                                          ELSE Free]
  BY DEF LoopInit, wake_open
<1>4. \A f \in Numbers : kernel[f] = Unwatched
  BY DEF LoopInit, wake_open, Inv, SourcesInUse
<1>5. kernel' \in [Numbers -> Registrations]
  BY <1>1, <1>2 DEF Inv, TypeOK, Registrations
<1>6. sources' \in [Slots -> SourceRecords]
  BY <1>1, <1>3 DEF SourceRecords, Free
<1>7. TableMatchesKernel'
  <2>1. /\ sources'[1] = [active |-> TRUE, fd |-> WakeFd, events |-> {"IN"}]
        /\ \A t \in Slots : t # 1 => ~sources'[t].active
    BY <1>1, <1>3 DEF Free
  <2>2. /\ kernel'[WakeFd] = [slot |-> 1, events |-> {"IN"}]
        /\ \A g \in Numbers : g # WakeFd => kernel'[g].slot = 0
    BY <1>1, <1>2, <1>4 DEF Inv, TypeOK, Unwatched
  <2> QED BY <1>1, <2>1, <2>2 DEF TableMatchesKernel
<1>8. SourcesInUse'
  BY <1>1, <1>2, <1>3 DEF LoopInit, wake_open, SourcesInUse, Free
<1> QED BY <1>5, <1>6, <1>7, <1>8

\* inkwell_loop_init() that fails leaves a table that is not in use.
LEMMA InitFailsKeepsTable ==
    ASSUME Inv, LoopInitFails
    PROVE  /\ kernel' \in [Numbers -> Registrations]
           /\ sources' \in [Slots -> SourceRecords]
           /\ TableMatchesKernel' /\ SourcesInUse'
<1>1. kernel' = kernel /\ \A f \in Numbers : kernel[f] = Unwatched
  BY DEF LoopInitFails, Inv, SourcesInUse
<1>2. PICK first \in {Free, [active |-> FALSE, fd |-> WakeFd, events |-> {"IN"}]} :
         sources' = [s \in Slots |-> IF s = 1 THEN first ELSE Free]
  BY DEF LoopInitFails
<1>3. Free \in SourceRecords /\ ~Free.active
  BY DEF SourceRecords, Free
<1> DEFINE given == [active |-> FALSE, fd |-> WakeFd, events |-> {"IN"}]
<1>6. given \in SourceRecords /\ ~given.active
  BY DEF SourceRecords, Numbers
<1>8. first \in {Free, given}
  BY <1>2
<1> HIDE DEF given
<1>7. first \in SourceRecords /\ ~first.active
  BY <1>3, <1>6, <1>8
<1>4. sources' \in [Slots -> SourceRecords] /\ \A s \in Slots : ~sources'[s].active
  BY <1>2, <1>3, <1>7
<1>5. TableMatchesKernel' /\ SourcesInUse'
  BY <1>1, <1>4 DEF TableMatchesKernel, SourcesInUse, Unwatched
<1> QED BY <1>1, <1>4, <1>5 DEF Inv, TypeOK

\* inkwell_loop_shutdown() leaves nothing watched.
LEMMA ShutdownKeepsTable ==
    ASSUME Inv, LoopShutdown
    PROVE  /\ kernel' \in [Numbers -> Registrations]
           /\ sources' \in [Slots -> SourceRecords]
           /\ TableMatchesKernel' /\ SourcesInUse'
<1>1. kernel' = [f \in Numbers |-> Unwatched]
  BY DEF LoopShutdown, wake_close
<1>2. sources' = [s \in Slots |-> IF sources[s].active THEN Free ELSE sources[s]]
  BY DEF LoopShutdown, wake_close
<1>3. \A s \in Slots : ~sources'[s].active
  BY <1>2 DEF Free
<1>4. kernel' \in [Numbers -> Registrations]
  BY <1>1 DEF Registrations, Unwatched
<1>5. sources' \in [Slots -> SourceRecords]
  BY <1>2 DEF Inv, TypeOK, SourceRecords, Free
<1>6. TableMatchesKernel' /\ SourcesInUse'
  BY <1>1, <1>3 DEF TableMatchesKernel, SourcesInUse, Unwatched
<1> QED BY <1>4, <1>5, <1>6

-----------------------------------------------------------------------------
(* The steps that change the table. *)

\* What those steps leave alone keeps its type.
LEMMA TableStepTyped ==
    ASSUME Inv, UNCHANGED <<descriptors, mode, left, event>>,
           kernel' \in [Numbers -> Registrations], sources' \in [Slots -> SourceRecords],
           wake' \in BOOLEAN, running' \in BOOLEAN, stopping' \in BOOLEAN,
           pc' \in {"closed", "idle", "callback"}
    PROVE  TypeOK'
BY DEF Inv, TypeOK, descriptors, event

\* inkwell_loop_add_fd() keeps the invariant, failed or not.
LEMMA AddInv == ASSUME Inv, NEW f \in Fds, NEW m \in Masks, AddFd(f, m) PROVE Inv'
<1>1. UNCHANGED <<descriptors, mode, left, event, wake, running, stopping, pc>>
  BY DEF AddFd, run
<1>2. wake' \in BOOLEAN /\ running' \in BOOLEAN /\ stopping' \in BOOLEAN
  BY <1>1 DEF Inv, TypeOK
<1>3. pc' \in {"closed", "idle", "callback"}
  BY <1>1 DEF AddFd, AtRest, InCallback
<1> QED BY <1>1, <1>2, <1>3, AddKeepsTable, TableStepTyped DEF Inv

\* inkwell_loop_update_fd() does.
LEMMA UpdateInv == ASSUME Inv, NEW f \in Fds, NEW m \in Masks, UpdateFd(f, m) PROVE Inv'
<1>1. UNCHANGED <<descriptors, mode, left, event, wake, running, stopping, pc>>
  BY DEF UpdateFd, run
<1>2. wake' \in BOOLEAN /\ running' \in BOOLEAN /\ stopping' \in BOOLEAN
  BY <1>1 DEF Inv, TypeOK
<1>3. pc' \in {"closed", "idle", "callback"}
  BY <1>1 DEF UpdateFd, AtRest, InCallback
<1> QED BY <1>1, <1>2, <1>3, UpdateKeepsTable, TableStepTyped DEF Inv

\* inkwell_loop_remove_fd() does.
LEMMA RemoveInv == ASSUME Inv, NEW f \in Fds, RemoveFd(f) PROVE Inv'
<1>1. UNCHANGED <<descriptors, mode, left, event, wake, running, stopping, pc>>
  BY DEF RemoveFd, run
<1>2. wake' \in BOOLEAN /\ running' \in BOOLEAN /\ stopping' \in BOOLEAN
  BY <1>1 DEF Inv, TypeOK
<1>3. pc' \in {"closed", "idle", "callback"}
  BY <1>1 DEF RemoveFd, AtRest, InCallback
<1> QED BY <1>1, <1>2, <1>3, RemoveKeepsTable, TableStepTyped DEF Inv

\* inkwell_loop_init() and inkwell_loop_shutdown() do.
LEMMA InitShutdownInv == ASSUME Inv, LoopInit \/ LoopInitFails \/ LoopShutdown PROVE Inv'
<1>1. UNCHANGED <<descriptors, mode, left, event>>
  BY DEF LoopInit, LoopInitFails, LoopShutdown
<1>2. wake' \in BOOLEAN /\ running' \in BOOLEAN /\ stopping' \in BOOLEAN
  BY DEF LoopInit, wake_open, LoopInitFails, LoopShutdown, wake_close, Inv, TypeOK
<1>3. pc' \in {"closed", "idle", "callback"}
  BY DEF LoopInit, LoopInitFails, LoopShutdown
<1> QED BY <1>1, <1>2, <1>3, InitKeepsTable, InitFailsKeepsTable,
           ShutdownKeepsTable, TableStepTyped DEF Inv

-----------------------------------------------------------------------------
(* The steps that leave the table alone. *)

\* open() and close(), which only touch the application's descriptors.
LEMMA DescriptorsInv == ASSUME Inv, NEW f \in Fds, Open(f) \/ Close(f) PROVE Inv'
<1>1. UNCHANGED <<table, wake, run, pc, event, stopping>>
  BY DEF Open, Close
<1>2. file' \in [Fds -> Files \cup {NoFile}] /\ opened' \in Nat
  BY DEF Open, Close, Inv, TypeOK
<1>3. TypeOK'
  BY <1>1, <1>2 DEF Inv, TypeOK, table, run, event
<1> QED BY <1>1, <1>3, TableKept DEF Inv, table

\* The steps of a run that neither wait nor dispatch.
LEMMA FlagsInv ==
    ASSUME Inv, UNCHANGED <<descriptors, table, event>>, pc' # "closed",
           wake' \in BOOLEAN, running' \in BOOLEAN, stopping' \in BOOLEAN,
           pc' \in {"closed", "idle", "wait", "dispatch", "callback"},
           mode' \in {"zero", "bounded", "forever"}, left' \in 0 .. Timeout
    PROVE  Inv'
<1>1. TypeOK'
  BY DEF Inv, TypeOK, descriptors, table, event
<1> QED BY <1>1, TableKept DEF Inv, table

\* inkwell_loop_request_stop().
LEMMA StopInv == ASSUME Inv, RequestStop PROVE Inv'
<1>1. UNCHANGED <<descriptors, table, mode, left, pc, event>>
  BY DEF RequestStop, wake_signal
<1>2. wake' \in BOOLEAN /\ running' \in BOOLEAN /\ stopping' \in BOOLEAN
  BY DEF RequestStop, wake_signal
<1>3. pc \in {"idle", "callback"}
  BY DEF RequestStop, wake_signal, AtRest, InCallback
<1> QED BY <1>1, <1>2, <1>3, FlagsInv DEF Inv, TypeOK

\* The start of inkwell_loop_run().
LEMMA RunStartInv ==
    ASSUME Inv, NEW m \in {"zero", "bounded", "forever"}, RunStart(m) PROVE Inv'
<1>1. UNCHANGED <<descriptors, table, wake, event, stopping>> /\ pc' = "wait" /\ mode' = m
  BY DEF RunStart
<1>2. wake' \in BOOLEAN /\ running' \in BOOLEAN /\ stopping' \in BOOLEAN
  BY DEF RunStart, Inv, TypeOK
<1>3. left' \in 0 .. Timeout
  BY LoopTimeoutAssumption DEF RunStart
<1> QED BY <1>1, <1>2, <1>3, FlagsInv

\* A wait that expires or fails, and the end of a batch.
LEMMA ReturnsInv == ASSUME Inv, WaitExpires \/ WaitFails \/ BatchDone PROVE Inv'
<1>1. UNCHANGED <<descriptors, table, wake, mode, left, event>>
  BY DEF WaitExpires, WaitFails, BatchDone
<1>2. pc' \in {"idle", "wait"}
  BY DEF WaitExpires, WaitFails, BatchDone, Returns
<1>3. wake' \in BOOLEAN /\ running' \in BOOLEAN /\ stopping' \in BOOLEAN
  BY <1>1 DEF WaitExpires, WaitFails, BatchDone, Returns, Inv, TypeOK
<1> QED BY <1>1, <1>2, <1>3, FlagsInv DEF Inv, TypeOK

\* The clock.
LEMMA ClockInv == ASSUME Inv, Clock PROVE Inv'
<1>1. UNCHANGED <<descriptors, table, wake, running, mode, pc, event, stopping>>
  BY DEF Clock
<1>2. left' \in 0 .. Timeout
  BY LoopTimeoutAssumption DEF Clock, Inv, TypeOK
<1>3. pc # "closed"
  BY DEF Clock
<1>4. wake' \in BOOLEAN /\ running' \in BOOLEAN /\ stopping' \in BOOLEAN
  BY <1>1 DEF Inv, TypeOK
<1> QED BY <1>1, <1>2, <1>3, <1>4, FlagsInv DEF Inv, TypeOK

\* What is watched is a slot of the table, so every event names one.
LEMMA WaitInv == ASSUME Inv, NEW numbers \in SUBSET Numbers, WaitReady(numbers) PROVE Inv'
<1>1. UNCHANGED <<descriptors, table, wake, run, told, called, stopping>> /\ pc' = "dispatch"
  BY DEF WaitReady
<1>2. ASSUME NEW f \in numbers
      PROVE  kernel[f].slot \in Slots /\ f \in Numbers /\ FileOf(f) \in AnyFile
  <2>1. kernel[f].slot # 0 /\ f \in Numbers
    BY DEF WaitReady, Reportable
  <2>2. kernel[f].slot \in Slots
    BY <2>1 DEF Inv, TypeOK, Registrations
  <2>3. FileOf(f) \in AnyFile
    BY <2>1 DEF Inv, TypeOK, FileOf, AnyFile, Numbers
  <2> QED BY <2>1, <2>2, <2>3
<1>3. batch' \in SUBSET [slot : Slots, fd : Numbers, file : AnyFile]
  BY <1>2 DEF WaitReady, Events
<1>4. wake' \in BOOLEAN /\ running' \in BOOLEAN /\ stopping' \in BOOLEAN
  BY <1>1 DEF Inv, TypeOK, run
<1>5. TypeOK'
  BY <1>1, <1>3, <1>4 DEF Inv, TypeOK, descriptors, table, run
<1> QED BY <1>1, <1>5, TableKept DEF Inv, table

\* An event that is dispatched or skipped.
LEMMA DispatchInv == ASSUME Inv, NEW e \in batch, Skip(e) \/ Dispatch(e) PROVE Inv'
<1>1. UNCHANGED <<descriptors, table, wake, run, stopping>> /\ pc' \in {"dispatch", "callback"}
  BY DEF Skip, Dispatch
<1>2. e \in [slot : Slots, fd : Numbers, file : AnyFile]
  BY DEF Inv, TypeOK
<1>3. batch' \in SUBSET [slot : Slots, fd : Numbers, file : AnyFile]
  BY DEF Skip, Dispatch, Inv, TypeOK
<1>4. told' \in AnyFile /\ called' \in AnyFile
  <2>1. CASE Skip(e)
    BY <2>1 DEF Skip, Inv, TypeOK
  <2>2. CASE Dispatch(e)
    <3>1. told' = e.file /\ called' = FileOf(sources[e.slot].fd) /\ sources[e.slot].active
      BY <2>2 DEF Dispatch, Deliverable
    <3>2. sources[e.slot].fd \in Numbers
      BY <1>2, <3>1 DEF Inv, SourcesInUse
    <3> QED BY <1>2, <3>1, <3>2 DEF Inv, TypeOK, FileOf, AnyFile, Numbers
  <2> QED BY <2>1, <2>2
<1>5. wake' \in BOOLEAN /\ running' \in BOOLEAN /\ stopping' \in BOOLEAN
  BY <1>1 DEF Inv, TypeOK, run
<1>6. TypeOK'
  BY <1>1, <1>3, <1>4, <1>5 DEF Inv, TypeOK, descriptors, table, run
<1> QED BY <1>1, <1>6, TableKept DEF Inv, table

\* A callback that returns, the wake's own one included.
LEMMA CallbackInv == ASSUME Inv, WakeCallback \/ CallbackReturns PROVE Inv'
<1>1. UNCHANGED <<descriptors, table, mode, left, batch, stopping>> /\ pc' = "dispatch"
  BY DEF WakeCallback, wake_drain, CallbackReturns, run
<1>2. told' \in AnyFile /\ called' \in AnyFile
  BY DEF WakeCallback, wake_drain, CallbackReturns, AnyFile
<1>3. wake' \in BOOLEAN /\ running' \in BOOLEAN /\ stopping' \in BOOLEAN
  BY <1>1 DEF WakeCallback, wake_drain, CallbackReturns, Inv, TypeOK, run
<1>4. TypeOK'
  BY <1>1, <1>2, <1>3 DEF Inv, TypeOK, descriptors, table
<1> QED BY <1>1, <1>4, TableKept DEF Inv, table

-----------------------------------------------------------------------------
(* The theorems. *)

\* Every step of the application, of the run and of the clock keeps the
\* inductive invariant.
LEMMA NextInv == ASSUME Inv, Next PROVE Inv'
<1>1. CASE App
  BY <1>1, AddInv, UpdateInv, RemoveInv, InitShutdownInv, DescriptorsInv, StopInv, RunStartInv DEF App
<1>2. CASE Run
  BY <1>2, WaitInv, ReturnsInv, DispatchInv, CallbackInv DEF Run, Wait
<1>3. CASE Clock
  BY <1>3, ClockInv
<1> QED BY <1>1, <1>2, <1>3 DEF Next

\* A step that changes nothing keeps it too.
LEMMA StutterInv == ASSUME Inv, UNCHANGED vars PROVE Inv'
<1>1. UNCHANGED <<descriptors, table, event, pc, wake, run, stopping>>
  BY DEF vars
<1>2. TypeOK'
  BY <1>1 DEF Inv, TypeOK, descriptors, table, event, run
<1> QED BY <1>1, <1>2, TableKept DEF Inv, table

\* The inductive invariant of the loop.
THEOREM Invariant == SafeSpec => []Inv
<1>1. Init => Inv
  BY InitInv
<1>2. Inv /\ [Next]_vars => Inv'
  BY NextInv, StutterInv
<1> QED BY <1>1, <1>2, PTL DEF SafeSpec

\* Types: an event of a batch always names a slot of the table, so
\* backend_dispatch() never indexes outside it, whatever was freed meanwhile.
THEOREM TypeCorrect == SafeSpec => []TypeOK
<1>1. Inv => TypeOK
  BY DEF Inv
<1> QED BY <1>1, Invariant, PTL

\* The table of sources and what the kernel watches never disagree, on either
\* backend and whichever registrations fail.
THEOREM TableAgrees == SafeSpec => []TableMatchesKernel
<1>1. Inv => TableMatchesKernel
  BY DEF Inv
<1> QED BY <1>1, Invariant, PTL

-----------------------------------------------------------------------------
(* The stream. *)

\* The ring's slots as StreamTypeOK has them.
SlotRecords == [frame : 0 .. MaxFrames, length : 0 .. SlotBytes,
                sent : 0 .. SlotBytes, id : 0 .. MaxFrames]

\* Unless the loop refused it, the interest is armed while something waits, also
\* when a flush is entered and when an error ends it; that it is not armed
\* otherwise is left to the end of a flush.
Armed ==
    is_open /\ watched /\ ~refused =>
        /\ queued > 0 => want_write
        /\ phase # "flush" /\ want_write => queued > 0

\* Where the thread can be in an open stream and in a closed one, and that
\* frames wait only while the stream is open.
Phases ==
    /\ phase \in {"flush", "drop", "dropped"} => is_open
    /\ ~is_open => queued = 0

\* The inductive invariant of every stream.
StreamInv == StreamTypeOK /\ Armed /\ Phases

\* What is true besides when on_dropped does not send: a flush is never part of
\* closing, `at` walks along the queue only while the stream closes, and never
\* past its end.
Separate ==
    /\ at <= queued
    /\ phase = "flush" => flush_from # "dropped"
    /\ phase \notin {"drop", "dropped"} => at = 0

-----------------------------------------------------------------------------
(* The ring. *)

\* A place less than two rings along lies in the ring, or wraps around once.
LEMMA Wraps ==
    ASSUME NEW x \in 0 .. 2 * SlotCount - 1
    PROVE  /\ x % SlotCount = IF x < SlotCount THEN x ELSE x - SlotCount
           /\ x % SlotCount \in Ring
<1>1. x % SlotCount = IF x < SlotCount THEN x ELSE x - SlotCount
  BY SlotsAssumption, SMTT(30)
<1> QED BY <1>1, SlotsAssumption DEF Ring

\* The slot n places behind the head lies in the ring: after the head, or
\* wrapped around.
LEMMA SlotIs ==
    ASSUME NEW h \in Ring, NEW n \in Ring
    PROVE  /\ (h + n) % SlotCount = IF h + n < SlotCount THEN h + n ELSE h + n - SlotCount
           /\ (h + n) % SlotCount \in Ring
<1>1. h + n \in 0 .. 2 * SlotCount - 1
  BY SlotsAssumption DEF Ring
<1>2. PICK x \in 0 .. 2 * SlotCount - 1 : x = h + n
  BY <1>1
<1>3. x % SlotCount = IF x < SlotCount THEN x ELSE x - SlotCount
  BY Wraps
<1>4. x % SlotCount \in Ring
  BY Wraps
<1>5. (h + n) % SlotCount = x % SlotCount
  BY <1>2
<1> QED BY <1>2, <1>3, <1>4, <1>5, SlotsAssumption DEF Ring

\* Different places have different slots.
LEMMA SlotsDiffer ==
    ASSUME NEW h \in Ring, NEW m \in Ring, NEW n \in Ring, m # n
    PROVE  (h + m) % SlotCount # (h + n) % SlotCount
<1>1. (h + m) % SlotCount = IF h + m < SlotCount THEN h + m ELSE h + m - SlotCount
  BY SlotIs
<1>2. (h + n) % SlotCount = IF h + n < SlotCount THEN h + n ELSE h + n - SlotCount
  BY SlotIs
<1>3. (IF h + m < SlotCount THEN h + m ELSE h + m - SlotCount) #
      (IF h + n < SlotCount THEN h + n ELSE h + n - SlotCount)
  BY SlotsAssumption DEF Ring
<1> QED BY <1>1, <1>2, <1>3

\* The slot at the head is the head.
LEMMA SlotZero == ASSUME NEW h \in Ring PROVE (h + 0) % SlotCount = h
<1>1. 0 \in Ring
  BY SlotsAssumption DEF Ring
<1>2. (h + 0) % SlotCount = IF h + 0 < SlotCount THEN h + 0 ELSE h + 0 - SlotCount
  BY <1>1, SlotIs
<1> QED BY <1>2, SlotsAssumption DEF Ring

\* The place after the head is where the next head finds its own.
LEMMA SlotMoves ==
    ASSUME NEW h \in Ring, NEW n \in Nat, n + 1 < SlotCount
    PROVE  (((h + 1) % SlotCount) + n) % SlotCount = (h + (n + 1)) % SlotCount
<1>1. 1 \in Ring /\ n \in Ring /\ n + 1 \in Ring
  BY SlotsAssumption DEF Ring
<1> DEFINE g == (h + 1) % SlotCount
<1>2. g = (IF h + 1 < SlotCount THEN h + 1 ELSE h + 1 - SlotCount) /\ g \in Ring
  BY <1>1, SlotIs
<1> HIDE DEF g
<1>3. (g + n) % SlotCount = IF g + n < SlotCount THEN g + n ELSE g + n - SlotCount
  BY <1>1, <1>2, SlotIs
<1>4. (h + (n + 1)) % SlotCount =
        IF h + (n + 1) < SlotCount THEN h + (n + 1) ELSE h + (n + 1) - SlotCount
  BY <1>1, SlotIs
<1>5. (g + n) % SlotCount = (h + (n + 1)) % SlotCount
  BY <1>1, <1>2, <1>3, <1>4, SlotsAssumption DEF Ring
<1> QED BY <1>5 DEF g

-----------------------------------------------------------------------------
(* Every stream. *)

\* A slot out of the queue is one of the ring's.
LEMMA EmptyTyped == Empty \in SlotRecords
<1>1. 0 \in 0 .. SlotBytes /\ 0 \in 0 .. MaxFrames
  BY SlotsAssumption, FramesAssumption
<1> QED BY <1>1 DEF Empty, SlotRecords

\* inkwell_stream_init().
LEMMA StreamInitInv == StreamInit => StreamInv /\ Separate
<1> SUFFICES ASSUME StreamInit PROVE StreamInv /\ Separate
  OBVIOUS
<1>1. /\ 0 \in Ring /\ 0 \in 0 .. SlotCount /\ 0 \in 0 .. MaxFrames /\ 0 \in 0 .. ReadsPerTurn
  BY SlotsAssumption, FramesAssumption, ReadsAssumption DEF Ring
<1>2. Empty \in SlotRecords
  BY EmptyTyped
<1>3. <<>> \in Seq(0 .. MaxFrames) /\ <<>> \in Seq(Frames)
  OBVIOUS
<1>4. {is_open, watched, want_write, refused, writable, broken} \subseteq BOOLEAN
  BY DEF StreamInit
<1>5. StreamTypeOK
  BY <1>1, <1>2, <1>3, <1>4 DEF StreamInit, StreamTypeOK, SlotRecords
<1> QED BY <1>5 DEF StreamInit, StreamInv, Armed, Phases, Separate

\* What stream_update_write_interest() leaves: the interest asked for, or a
\* refusal.
LEMMA InterestIs ==
    ASSUME StreamTypeOK, NEW n \in Nat, update_write_interest(n)
    PROVE  /\ want_write' \in BOOLEAN /\ refused' \in BOOLEAN
           /\ watched /\ ~refused' => (want_write' <=> n > 0)
<1>1. (n > 0) \in BOOLEAN /\ want_write \in BOOLEAN /\ watched \in BOOLEAN
  BY DEF StreamTypeOK
<1> DEFINE want == n > 0
<1>2. \/ want_write' = (IF watched /\ want # want_write THEN want ELSE want_write) /\ refused' = FALSE
      \/ want_write' = want_write /\ refused' = TRUE
  BY DEF update_write_interest
<1>3. want \in BOOLEAN
  OBVIOUS
<1> HIDE DEF want
<1>4. want_write' \in BOOLEAN /\ refused' \in BOOLEAN
  BY <1>1, <1>2, <1>3, Zenon
<1>5. watched /\ ~refused' => want_write' = want
  BY <1>1, <1>2, <1>3, Zenon
<1> QED BY <1>4, <1>5 DEF want

\* A frame goes into the ring.
LEMMA SendInv ==
    ASSUME StreamInv, NEW length \in 0 .. SlotBytes, NEW id \in BOOLEAN, Send(length, id)
    PROVE  StreamInv'
<1> DEFINE new == [frame |-> sent + 1, length |-> length, sent |-> 0,
                   id |-> IF id THEN sent + 1 ELSE 0]
<1>1. new \in SlotRecords /\ sent' \in 0 .. MaxFrames /\ queued' \in 0 .. SlotCount
  BY FramesAssumption, SlotsAssumption DEF Send, StreamInv, StreamTypeOK, SlotRecords
<1>2. slots' = [slots EXCEPT ![Slot(queued)] = new]
  BY DEF Send
<1> HIDE DEF new
<1>3. slots' \in [Ring -> SlotRecords]
  BY <1>1, <1>2 DEF StreamInv, StreamTypeOK, SlotRecords
<1>4. want_write' \in BOOLEAN /\ refused' \in BOOLEAN /\ (watched => want_write' \/ refused')
  <2>1. queued + 1 \in Nat /\ queued + 1 > 0
    BY SlotsAssumption DEF StreamInv, StreamTypeOK
  <2>2. StreamTypeOK /\ update_write_interest(queued + 1)
    BY DEF Send, StreamInv
  <2>3. /\ want_write' \in BOOLEAN /\ refused' \in BOOLEAN
        /\ watched /\ ~refused' => (want_write' <=> queued + 1 > 0)
    BY <2>1, <2>2, InterestIs
  <2> QED BY <2>1, <2>3
<1>5. flush_from' \in {"app", "bytes", "dropped"}
  BY DEF Send, MaySend
<1>6. StreamTypeOK'
  BY <1>1, <1>3, <1>4, <1>5 DEF Send, peer, StreamInv, StreamTypeOK, SlotRecords
<1>7. Armed' /\ Phases'
  BY <1>4, SlotsAssumption DEF Send, StreamInv, StreamTypeOK, Armed, Phases
<1> QED BY <1>6, <1>7 DEF StreamInv

\* One write.
LEMMA WriteInv == ASSUME StreamInv, NEW k \in 0 .. SlotBytes, Write(k) PROVE StreamInv'
<1>1. slots[head] \in SlotRecords /\ head \in Ring
  BY DEF StreamInv, StreamTypeOK, SlotRecords
<1>2. slots[head].sent + k \in 0 .. SlotBytes
  BY <1>1, SlotsAssumption DEF Write, Left, Front, SlotRecords
<1>3. slots' \in [Ring -> SlotRecords]
  <2>1. slots \in [Ring -> SlotRecords]
    BY DEF StreamInv, StreamTypeOK, SlotRecords
  <2>2. CASE k = Left
    BY <2>1, <2>2, EmptyTyped DEF Write
  <2>3. CASE k # Left
    BY <1>1, <1>2, <2>1, <2>3 DEF Write, SlotRecords
  <2> QED BY <2>2, <2>3
<1>4. wire' \in Seq(0 .. MaxFrames)
  <2>1. [i \in 1 .. k |-> Front.frame] \in Seq(0 .. MaxFrames)
    BY <1>1, SlotsAssumption DEF Front, SlotRecords
  <2> QED BY <2>1, ConcatProperties DEF Write, StreamInv, StreamTypeOK
<1>5. CASE k = Left
  <2>1. /\ head' = Slot(1) /\ queued' = queued - 1
        /\ writable' \in BOOLEAN
        /\ UNCHANGED <<is_open, watched, want_write, refused, broken, sent, dropped, at, turn, phase,
                       flow>>
    BY <1>5 DEF Write
  <2>2. head' \in Ring
    BY <2>1, SlotsAssumption DEF Slot, StreamInv, StreamTypeOK, Ring
  <2>3. queued' \in 0 .. SlotCount
    BY <2>1, SlotsAssumption DEF Write, StreamInv, StreamTypeOK
  <2>4. StreamTypeOK'
    BY <1>3, <1>4, <2>1, <2>2, <2>3 DEF StreamInv, StreamTypeOK, SlotRecords, flow
  <2>5. Armed' /\ Phases'
    BY <2>1, SlotsAssumption DEF Write, StreamInv, StreamTypeOK, Armed, Phases
  <2> QED BY <2>4, <2>5 DEF StreamInv
<1>6. CASE k # Left
  <2>1. /\ writable' = FALSE /\ update_write_interest(queued) /\ phase' = flush_from
        /\ UNCHANGED <<is_open, watched, head, queued, broken, sent, dropped, at, turn, flow>>
    BY <1>6 DEF Write
  <2>2. writable' \in BOOLEAN
    BY <2>1
  <2>3. want_write' \in BOOLEAN /\ refused' \in BOOLEAN /\ (watched => want_write' \/ refused')
    BY <2>1, InterestIs, SlotsAssumption DEF Write, StreamInv, StreamTypeOK
  <2>4. StreamTypeOK'
    BY <1>3, <1>4, <2>1, <2>2, <2>3 DEF StreamInv, StreamTypeOK, SlotRecords, flow
  <2>5. Armed' /\ Phases'
    BY <2>1, <2>3 DEF Write, StreamInv, StreamTypeOK, Armed, Phases
  <2> QED BY <2>4, <2>5 DEF StreamInv
<1> QED BY <1>5, <1>6

\* The rest of flush().
LEMMA FlushInv == StreamInv /\ (FlushEnds \/ WriteFails) => StreamInv'
<1> SUFFICES ASSUME StreamInv, FlushEnds \/ WriteFails PROVE StreamInv'
  OBVIOUS
<1>1. CASE FlushEnds
  <2>1. /\ want_write' \in BOOLEAN /\ refused' \in BOOLEAN
        /\ watched /\ ~refused' => (want_write' <=> queued > 0)
    BY <1>1, InterestIs, SlotsAssumption DEF FlushEnds, StreamInv, StreamTypeOK
  <2>2. StreamTypeOK'
    BY <1>1, <2>1 DEF FlushEnds, ring, peer, flow, StreamInv, StreamTypeOK
  <2>4. Armed' /\ Phases'
    BY <1>1, <2>1 DEF FlushEnds, ring, StreamInv, StreamTypeOK, Armed, Phases
  <2> QED BY <2>2, <2>4 DEF StreamInv
<1>2. CASE WriteFails
  <2>1. broken' \in BOOLEAN
    BY <1>2 DEF WriteFails
  <2>2. StreamTypeOK'
    BY <1>2, <2>1 DEF WriteFails, watch, ring, flow, StreamInv, StreamTypeOK
  <2>3. Armed' /\ Phases'
    BY <1>2 DEF WriteFails, watch, ring, StreamInv, StreamTypeOK, Armed, Phases
  <2> QED BY <2>2, <2>3 DEF StreamInv
<1> QED BY <1>1, <1>2

\* What the loop and the far end do, and reading.
LEMMA ReadingInv == StreamInv /\ (OnWritable \/ FlushCall \/ Drains \/ WriteRaw \/ Reading) => StreamInv'
<1> SUFFICES ASSUME StreamInv, OnWritable \/ FlushCall \/ Drains \/ WriteRaw \/ Reading PROVE StreamInv'
  OBVIOUS
<1> USE DEF watch, ring, flow, peer
<1>1. CASE OnWritable \/ FlushCall
  BY <1>1 DEF OnWritable, FlushCall, MaySend, StreamInv, StreamTypeOK, Armed, Phases
<1>2. CASE Drains
  <2>1. writable' \in BOOLEAN
    BY <1>2 DEF Drains
  <2> QED BY <1>2, <2>1 DEF Drains, StreamInv, StreamTypeOK, Armed, Phases
<1>3. CASE WriteRaw
  <2>1. 0 \in 0 .. MaxFrames
    BY FramesAssumption
  <2>2. wire' \in Seq(0 .. MaxFrames)
    BY <1>3, <2>1 DEF WriteRaw, StreamInv, StreamTypeOK
  <2> QED BY <1>3, <2>2 DEF WriteRaw, StreamInv, StreamTypeOK, Armed, Phases
<1>4. CASE Reading
  <2>1. turn' \in 0 .. ReadsPerTurn
    BY <1>4, ReadsAssumption DEF Reading, Pump, Read, BytesTaken, PumpEnds, StreamInv, StreamTypeOK
  <2>2. phase \in {"app", "pump", "bytes"} /\ phase' \in {"app", "pump", "bytes"}
    BY <1>4 DEF Reading, Pump, Read, BytesTaken, PumpEnds
  <2>3. UNCHANGED <<watch, ring, peer, sent, wire, dropped, at, flow>>
    BY <1>4 DEF Reading, Pump, Read, BytesTaken, PumpEnds
  <2> QED BY <2>1, <2>2, <2>3 DEF StreamInv, StreamTypeOK, Armed, Phases
<1> QED BY <1>1, <1>2, <1>3, <1>4

\* Opening, and closing step by step.
LEMMA ClosingInv == StreamInv /\ (StreamOpen \/ StreamClose \/ Closing) => StreamInv'
<1> SUFFICES ASSUME StreamInv, StreamOpen \/ StreamClose \/ Closing PROVE StreamInv'
  OBVIOUS
<1> USE DEF watch, ring, flow, peer
<1>0. 0 \in Ring /\ 0 \in 0 .. SlotCount
  BY SlotsAssumption DEF Ring
<1>1. CASE StreamOpen
  <2>1. {is_open', watched', want_write', refused', writable', broken'} \subseteq BOOLEAN
    BY <1>1 DEF StreamOpen
  <2>2. <<>> \in Seq(0 .. MaxFrames) /\ <<>> \in Seq(Frames)
    OBVIOUS
  <2>3. StreamTypeOK'
    BY <1>0, <1>1, <2>1, <2>2 DEF StreamOpen, StreamInv, StreamTypeOK
  <2>4. Armed' /\ Phases'
    BY <1>1 DEF StreamOpen, StreamInv, StreamTypeOK, Armed, Phases
  <2> QED BY <2>3, <2>4 DEF StreamInv
<1>2. CASE StreamClose
  BY <1>0, <1>2 DEF StreamClose, StreamInv, StreamTypeOK, Armed, Phases
<1>3. CASE DropNext
  <2> DEFINE i == Slot(at)
             id == slots[i].id
  <2>1. at \in Ring
    BY <1>3, SlotsAssumption DEF DropNext, StreamInv, StreamTypeOK, Ring
  <2>2. i \in Ring
    BY <2>1, SlotIs DEF Slot, StreamInv, StreamTypeOK
  <2> HIDE DEF i
  <2>3. id \in 0 .. MaxFrames
    BY <2>2 DEF StreamInv, StreamTypeOK
  <2>4. /\ id = 0 => dropped' = dropped /\ phase' = phase
        /\ id # 0 => dropped' = Append(dropped, id) /\ phase' = "dropped"
    BY <1>3 DEF DropNext, i
  <2> HIDE DEF id
  <2>5. dropped' \in Seq(Frames)
    <3>1. id # 0 => id \in Frames
      BY <2>3, FramesAssumption DEF Frames
    <3>2. dropped \in Seq(Frames)
      BY DEF StreamInv, StreamTypeOK
    <3> QED BY <2>4, <3>1, <3>2, AppendProperties
  <2>6. at' \in 0 .. SlotCount
    BY <1>3, SlotsAssumption DEF DropNext, StreamInv, StreamTypeOK
  <2>7. phase' \in {"drop", "dropped"}
    BY <1>3, <2>4 DEF DropNext
  <2> QED BY <1>3, <2>5, <2>6, <2>7 DEF DropNext, StreamInv, StreamTypeOK, Armed, Phases
<1>4. CASE DroppedReturns
  BY <1>4 DEF DroppedReturns, StreamInv, StreamTypeOK, Armed, Phases
<1>5. CASE CloseEnds
  <2>1. {is_open', watched', want_write', refused', writable', broken'} \subseteq BOOLEAN
    BY <1>5 DEF CloseEnds
  <2>4. slots' \in [Ring -> SlotRecords]
    BY <1>5, EmptyTyped DEF CloseEnds
  <2>2. StreamTypeOK'
    BY <1>0, <1>5, <2>1, <2>4 DEF CloseEnds, StreamInv, StreamTypeOK, SlotRecords
  <2>3. Armed' /\ Phases'
    BY <1>5 DEF CloseEnds, StreamInv, StreamTypeOK, Armed, Phases
  <2> QED BY <2>2, <2>3 DEF StreamInv
<1> QED BY <1>1, <1>2, <1>3, <1>4, <1>5 DEF Closing

\* Every step.
LEMMA StreamNextInv == StreamInv /\ [StreamNext]_stream_vars => StreamInv'
<1> SUFFICES ASSUME StreamInv, [StreamNext]_stream_vars PROVE StreamInv'
  OBVIOUS
<1>1. CASE Owner
  BY <1>1, SendInv, ReadingInv, ClosingInv DEF Owner
<1>2. CASE Flush
  BY <1>2, WriteInv, FlushInv DEF Flush
<1>3. CASE OnWritable \/ Reading \/ Drains
  BY <1>3, ReadingInv
<1>4. CASE Closing
  BY <1>4, ClosingInv
<1>5. CASE UNCHANGED stream_vars
  BY <1>5 DEF stream_vars, watch, ring, flow, peer, StreamInv, StreamTypeOK, Armed, Phases
<1> QED BY <1>1, <1>2, <1>3, <1>4, <1>5 DEF StreamNext

\* The inductive invariant holds of every behaviour of the stream.
THEOREM StreamInvariant == StreamSafeSpec => []StreamInv
<1>1. StreamInit => StreamInv
  BY StreamInitInv
<1>2. StreamInv /\ [StreamNext]_stream_vars => StreamInv'
  BY StreamNextInv
<1> QED BY <1>1, <1>2, PTL DEF StreamSafeSpec

\* Whenever the owner has control and the loop did not refuse the last change, OUT
\* is armed exactly while something waits: after a short write, a failed one, a
\* flush that empties the queue, a send from a callback, a refusal that was made
\* good, and a turn of reading.
THEOREM ArmedExactly == StreamSafeSpec => []ArmedWhileQueued
<1>1. StreamInv => ArmedWhileQueued
  BY DEF StreamInv, Armed, ArmedWhileQueued
<1> QED BY <1>1, StreamInvariant, PTL

-----------------------------------------------------------------------------
(* The ring as a queue.  At(h, m) is the slot m places behind the head h, and *)
(* Ordered the rows of the queue of a ring, less the first a of them.         *)

At(h, m) == (h + m) % SlotCount

Row(s) == [frame |-> s.frame, left |-> s.length - s.sent, id |-> s.id]

Rows == [frame : 0 .. MaxFrames, left : Int, id : 0 .. MaxFrames]

Ordered(s, h, q, a) == [n \in 1 .. q - a |-> Row(s[At(h, a + n - 1)])]

\* What the lemmas about the ring say of At.
LEMMA AtFacts ==
    ASSUME NEW h \in Ring
    PROVE  /\ \A m \in Ring : At(h, m) \in Ring
           /\ \A m, n \in Ring : m # n => At(h, m) # At(h, n)
           /\ At(h, 0) = h
           /\ At(h, 1) \in Ring
           /\ \A n \in Nat : n + 1 < SlotCount => At(At(h, 1), n) = At(h, n + 1)
<1>1. At(h, 1) \in Ring
  <2>1. h + 1 \in 0 .. 2 * SlotCount - 1
    BY SlotsAssumption DEF Ring
  <2> QED BY <2>1, Wraps DEF At
<1> QED BY <1>1, SlotIs, SlotsDiffer, SlotZero, SlotMoves DEF At

\* The waiting frames are a sequence of rows.
LEMMA OrderedIs ==
    ASSUME NEW s \in [Ring -> SlotRecords], NEW h \in Ring,
           NEW q \in 0 .. SlotCount, NEW a \in 0 .. q
    PROVE  /\ Ordered(s, h, q, a) \in Seq(Rows)
           /\ Len(Ordered(s, h, q, a)) = q - a
           /\ \A n \in 1 .. q - a :
                 Ordered(s, h, q, a)[n] = Row(s[At(h, a + n - 1)])
<1>1. q - a \in Nat
  BY SlotsAssumption
<1>2. ASSUME NEW n \in 1 .. q - a PROVE Row(s[At(h, a + n - 1)]) \in Rows
  <2>1. a + n - 1 \in Ring
    BY SlotsAssumption DEF Ring
  <2>2. PICK i \in Ring : i = At(h, a + n - 1)
    BY <2>1, AtFacts
  <2>3. s[i] \in SlotRecords
    OBVIOUS
  <2>4. Row(s[i]) \in Rows
    BY <2>3, SlotsAssumption DEF SlotRecords, Row, Rows
  <2> QED BY <2>2, <2>4
<1>3. Ordered(s, h, q, a) \in [1 .. q - a -> Rows]
  BY <1>2 DEF Ordered
<1>4. Ordered(s, h, q, a) \in Seq(Rows) /\ Len(Ordered(s, h, q, a)) = q - a
  <2> DEFINE o == Ordered(s, h, q, a)
             l == q - a
  <2>1. o \in [1 .. l -> Rows] /\ l \in Nat
    BY <1>1, <1>3
  <2> HIDE DEF o, l
  <2>2. o \in Seq(Rows) /\ Len(o) = l
    BY <2>1, LenProperties
  <2> QED BY <2>2 DEF o, l
<1> QED BY <1>4 DEF Ordered

\* The whole queue, when none of it has been walked past.
LEMMA OrderedWhole ==
    ASSUME NEW s \in [Ring -> SlotRecords], NEW h \in Ring, NEW q \in 0 .. SlotCount
    PROVE  /\ Ordered(s, h, q, 0) \in Seq(Rows)
           /\ Len(Ordered(s, h, q, 0)) = q
           /\ \A n \in 1 .. q : Ordered(s, h, q, 0)[n] = Row(s[At(h, n - 1)])
<1>1. 0 \in 0 .. q /\ q - 0 = q
  BY SlotsAssumption
<1>2. /\ Ordered(s, h, q, 0) \in Seq(Rows)
      /\ Len(Ordered(s, h, q, 0)) = q - 0
      /\ \A n \in 1 .. q - 0 : Ordered(s, h, q, 0)[n] = Row(s[At(h, 0 + n - 1)])
  BY <1>1, OrderedIs
<1>3. ASSUME NEW n \in 1 .. q PROVE Ordered(s, h, q, 0)[n] = Row(s[At(h, n - 1)])
  <2>1. 0 + n - 1 = n - 1
    BY SlotsAssumption
  <2> QED BY <1>1, <1>2, <2>1
<1> QED BY <1>1, <1>2, <1>3

\* A frame put into the slot behind the last one is appended to the queue.
LEMMA Appends ==
    ASSUME NEW s \in [Ring -> SlotRecords], NEW h \in Ring, NEW q \in 0 .. SlotCount - 1,
           NEW r \in SlotRecords
    PROVE  Ordered([s EXCEPT ![At(h, q)] = r], h, q + 1, 0) =
             Append(Ordered(s, h, q, 0), Row(r))
<1> DEFINE t == [s EXCEPT ![At(h, q)] = r]
           old == Ordered(s, h, q, 0)
           new == Ordered(t, h, q + 1, 0)
<1>1. q \in Ring /\ q + 1 \in 0 .. SlotCount /\ q \in 0 .. SlotCount
      /\ 0 \in 0 .. q /\ 0 \in 0 .. q + 1
  BY SlotsAssumption DEF Ring
<1>2. At(h, q) \in Ring
  BY <1>1, AtFacts
<1>3. t \in [Ring -> SlotRecords] /\ t[At(h, q)] = r
  BY <1>2
<1>4. \A n \in 1 .. q : t[At(h, n - 1)] = s[At(h, n - 1)]
  <2> SUFFICES ASSUME NEW n \in 1 .. q PROVE t[At(h, n - 1)] = s[At(h, n - 1)]
    OBVIOUS
  <2>1. n - 1 \in Ring /\ n - 1 # q
    BY SlotsAssumption DEF Ring
  <2>2. PICK i \in Ring : i = At(h, n - 1)
    BY <2>1, AtFacts
  <2>3. i # At(h, q)
    BY <1>1, <2>1, <2>2, AtFacts
  <2> QED BY <2>2, <2>3
<1>5. /\ old \in Seq(Rows) /\ Len(old) = q
      /\ \A n \in 1 .. q : old[n] = Row(s[At(h, n - 1)])
  BY <1>1, OrderedWhole
<1> HIDE DEF t
<1>6. /\ new \in Seq(Rows) /\ Len(new) = q + 1
      /\ \A n \in 1 .. q + 1 : new[n] = Row(t[At(h, n - 1)])
  BY <1>1, <1>3, OrderedWhole
<1> HIDE DEF old, new
<1>7. Row(r) \in Rows
  BY SlotsAssumption DEF Row, Rows, SlotRecords
<1>8. /\ Append(old, Row(r)) \in Seq(Rows) /\ Len(Append(old, Row(r))) = q + 1
      /\ \A n \in 1 .. q : Append(old, Row(r))[n] = old[n]
      /\ Append(old, Row(r))[q + 1] = Row(r)
  BY <1>5, <1>7, AppendProperties
<1>9. \A n \in 1 .. q + 1 : new[n] = Append(old, Row(r))[n]
  <2>1. \A n \in 1 .. q : new[n] = Append(old, Row(r))[n]
    BY <1>4, <1>5, <1>6, <1>8
  <2>2. new[q + 1] = Append(old, Row(r))[q + 1]
    <3>1. q + 1 \in 1 .. q + 1 /\ (q + 1) - 1 = q
      BY <1>1
    <3> QED BY <1>3, <1>6, <1>8, <3>1
  <2>3. \A n \in 1 .. q + 1 : n \in 1 .. q \/ n = q + 1
    BY <1>1
  <2> QED BY <2>1, <2>2, <2>3
<1>10. new = Append(old, Row(r))
  BY <1>6, <1>8, <1>9, SeqEqual
<1> QED BY <1>10 DEF new, old, t

\* The row at the head, and that it is the first of the queue.
LEMMA HeadIs ==
    ASSUME NEW s \in [Ring -> SlotRecords], NEW h \in Ring,
           NEW q \in 0 .. SlotCount, NEW a \in 0 .. q, a < q
    PROVE  /\ Ordered(s, h, q, a) # <<>>
           /\ Head(Ordered(s, h, q, a)) = Row(s[At(h, a)])
<1>1. 1 \in 1 .. q - a /\ a + 1 - 1 = a
  BY SlotsAssumption
<1>2. /\ Ordered(s, h, q, a) \in Seq(Rows) /\ Len(Ordered(s, h, q, a)) = q - a
      /\ \A n \in 1 .. q - a : Ordered(s, h, q, a)[n] = Row(s[At(h, a + n - 1)])
  BY OrderedIs
<1>3. Ordered(s, h, q, a)[1] = Row(s[At(h, a)])
  BY <1>1, <1>2
<1>4. q - a > 0
  BY SlotsAssumption
<1>5. Ordered(s, h, q, a) # <<>>
  BY <1>2, <1>4
<1> QED BY <1>2, <1>3, <1>5

\* Walking one place along the queue takes its first row.
LEMMA Walks ==
    ASSUME NEW s \in [Ring -> SlotRecords], NEW h \in Ring,
           NEW q \in 0 .. SlotCount, NEW a \in 0 .. q, a < q
    PROVE  Ordered(s, h, q, a + 1) = Tail(Ordered(s, h, q, a))
<1> DEFINE old == Ordered(s, h, q, a)
           new == Ordered(s, h, q, a + 1)
<1>1. a + 1 \in 0 .. q
  BY SlotsAssumption
<1>2. /\ old \in Seq(Rows) /\ Len(old) = q - a /\ old # <<>>
      /\ \A n \in 1 .. q - a : old[n] = Row(s[At(h, a + n - 1)])
  BY OrderedIs, HeadIs
<1>3. /\ new \in Seq(Rows) /\ Len(new) = q - (a + 1)
      /\ \A n \in 1 .. q - (a + 1) : new[n] = Row(s[At(h, (a + 1) + n - 1)])
  BY <1>1, OrderedIs
<1> HIDE DEF old, new
<1>4. /\ Tail(old) \in Seq(Rows) /\ Len(Tail(old)) = (q - a) - 1
      /\ \A n \in 1 .. (q - a) - 1 : Tail(old)[n] = old[n + 1]
  BY <1>2, HeadTailProperties
<1>5. \A n \in 1 .. q - (a + 1) : new[n] = Tail(old)[n]
  <2> SUFFICES ASSUME NEW n \in 1 .. q - (a + 1) PROVE new[n] = Tail(old)[n]
    OBVIOUS
  <2>1. n + 1 \in 1 .. q - a /\ n \in 1 .. (q - a) - 1 /\ (a + 1) + n - 1 = a + (n + 1) - 1
    BY SlotsAssumption
  <2>2. old[n + 1] = Row(s[At(h, a + (n + 1) - 1)])
    BY <1>2, <2>1
  <2> QED BY <1>3, <1>4, <2>1, <2>2
<1>6. Len(new) = Len(Tail(old))
  BY <1>3, <1>4, SlotsAssumption
<1>7. new = Tail(old)
  BY <1>3, <1>4, <1>5, <1>6, SeqEqual
<1> QED BY <1>7 DEF new, old

\* Moving the head one slot along takes the first row of the queue too, and what
\* the slot at the head holds no longer matters.
LEMMA Pops ==
    ASSUME NEW s \in [Ring -> SlotRecords], NEW h \in Ring,
           NEW q \in 1 .. SlotCount, NEW r \in SlotRecords
    PROVE  Ordered([s EXCEPT ![h] = r], At(h, 1), q - 1, 0) = Tail(Ordered(s, h, q, 0))
<1> DEFINE t == [s EXCEPT ![h] = r]
           old == Ordered(s, h, q, 0)
           new == Ordered(t, At(h, 1), q - 1, 0)
<1>1. q \in 0 .. SlotCount /\ q - 1 \in 0 .. SlotCount /\ 0 \in 0 .. q /\ 0 < q
      /\ 0 \in 0 .. q - 1 /\ At(h, 1) \in Ring
  BY SlotsAssumption, AtFacts
<1>2. /\ old \in Seq(Rows) /\ Len(old) = q /\ old # <<>>
      /\ \A n \in 1 .. q : old[n] = Row(s[At(h, n - 1)])
  BY <1>1, OrderedWhole, HeadIs
<1>3. t \in [Ring -> SlotRecords] /\ \A i \in Ring : i # h => t[i] = s[i]
  OBVIOUS
<1> HIDE DEF t
<1>4. /\ new \in Seq(Rows) /\ Len(new) = q - 1
      /\ \A n \in 1 .. q - 1 : new[n] = Row(t[At(At(h, 1), n - 1)])
  BY <1>1, <1>3, OrderedWhole
<1> HIDE DEF old, new
<1>5. /\ Tail(old) \in Seq(Rows) /\ Len(Tail(old)) = q - 1
      /\ \A n \in 1 .. q - 1 : Tail(old)[n] = old[n + 1]
  BY <1>2, HeadTailProperties
<1>6. \A n \in 1 .. q - 1 : new[n] = Tail(old)[n]
  <2> SUFFICES ASSUME NEW n \in 1 .. q - 1 PROVE new[n] = Tail(old)[n]
    OBVIOUS
  <2>1. /\ n - 1 \in Nat /\ (n - 1) + 1 < SlotCount /\ n \in Ring /\ 0 \in Ring /\ n # 0
        /\ n + 1 \in 1 .. q /\ (n - 1) + 1 = n /\ (n + 1) - 1 = n
    BY SlotsAssumption DEF Ring
  <2>2. At(At(h, 1), n - 1) = At(h, n)
    BY <2>1, AtFacts
  <2>3. PICK i \in Ring : i = At(h, n)
    BY <2>1, AtFacts
  <2>4. i # h
    BY <2>1, <2>3, AtFacts
  <2>5. new[n] = Row(t[i])
    BY <1>4, <2>1, <2>2, <2>3
  <2>6. old[n + 1] = Row(s[i])
    BY <1>2, <2>1, <2>3
  <2> QED BY <1>3, <1>5, <2>4, <2>5, <2>6
<1>7. new = Tail(old)
  BY <1>4, <1>5, <1>6, SeqEqual
<1> QED BY <1>7 DEF new, old, t

\* Bytes of the frame at the head leave the first row shorter.
LEMMA Shortens ==
    ASSUME NEW s \in [Ring -> SlotRecords], NEW h \in Ring,
           NEW q \in 1 .. SlotCount, NEW k \in Int,
           NEW t \in [Ring -> SlotRecords], \A i \in Ring : i # h => t[i] = s[i],
           t[h] = [s[h] EXCEPT !.sent = @ + k]
    PROVE  Ordered(t, h, q, 0) = [Ordered(s, h, q, 0) EXCEPT ![1].left = @ - k]
<1> DEFINE old == Ordered(s, h, q, 0)
           new == Ordered(t, h, q, 0)
           first == [old[1] EXCEPT !.left = @ - k]
<1>1. q \in 0 .. SlotCount /\ 0 \in 0 .. q /\ 1 \in 1 .. q
  BY SlotsAssumption
<1>2. /\ old \in Seq(Rows) /\ Len(old) = q
      /\ \A n \in 1 .. q : old[n] = Row(s[At(h, n - 1)])
  BY <1>1, OrderedWhole
<1>3. /\ t[h] = [s[h] EXCEPT !.sent = @ + k]
      /\ \A i \in Ring : i # h => t[i] = s[i]
  OBVIOUS
<1>5. /\ new \in Seq(Rows) /\ Len(new) = q
      /\ \A n \in 1 .. q : new[n] = Row(t[At(h, n - 1)])
  BY <1>1, OrderedWhole
<1> HIDE DEF old, new
<1>6. old[1] = Row(s[h]) /\ new[1] = Row(t[h])
  <2>1. At(h, 1 - 1) = h
    BY AtFacts
  <2> QED BY <1>1, <1>2, <1>5, <2>1
<1>7. first = Row(t[h])
  <2>1. s[h] \in SlotRecords
    OBVIOUS
  <2>2. /\ t[h].frame = s[h].frame /\ t[h].id = s[h].id /\ t[h].length = s[h].length
        /\ t[h].sent = s[h].sent + k
    BY <1>3, <2>1 DEF SlotRecords
  <2>3. s[h].length - (s[h].sent + k) = (s[h].length - s[h].sent) - k
    BY <2>1, SlotsAssumption DEF SlotRecords
  <2> QED BY <1>6, <2>2, <2>3 DEF Row
<1>8. first \in Rows
  BY <1>5, <1>6, <1>7, <1>1, ElementOfSeq
<1> HIDE DEF first
<1>9. /\ [old EXCEPT ![1] = first] \in Seq(Rows)
      /\ Len([old EXCEPT ![1] = first]) = q
      /\ \A n \in 1 .. q : [old EXCEPT ![1] = first][n] = IF n = 1 THEN first ELSE old[n]
  BY <1>1, <1>2, <1>8, ExceptSeq
<1>10. \A n \in 1 .. q : new[n] = [old EXCEPT ![1] = first][n]
  <2> SUFFICES ASSUME NEW n \in 1 .. q PROVE new[n] = [old EXCEPT ![1] = first][n]
    OBVIOUS
  <2>1. CASE n = 1
    BY <1>6, <1>7, <1>9, <2>1
  <2>2. CASE n # 1
    <3>1. 0 \in Ring /\ n - 1 \in Ring /\ n - 1 # 0
      BY <2>2, SlotsAssumption DEF Ring
    <3>2. PICK m \in Ring : m = n - 1 /\ m # 0
      BY <3>1
    <3>3. At(h, m) \in Ring /\ At(h, m) # h
      <4>1. At(h, m) \in Ring /\ At(h, 0) = h
        BY AtFacts
      <4>2. At(h, m) # At(h, 0)
        BY <3>1, <3>2, SlotsDiffer DEF At
      <4> QED BY <4>1, <4>2
    <3>4. new[n] = old[n]
      BY <1>2, <1>3, <1>5, <3>2, <3>3
    <3> QED BY <1>9, <2>2, <3>4
  <2> QED BY <2>1, <2>2
<1>11. new = [old EXCEPT ![1] = first]
  BY <1>5, <1>9, <1>10, SeqEqual
<1> QED BY <1>11 DEF new, old, first

-----------------------------------------------------------------------------
(* The ring implements the queue of frames. *)

\* Without sends from on_dropped, closing and flushing keep apart.
LEMMA NextSeparate ==
    ASSUME SendsFromDrop = FALSE, StreamInv, Separate, [StreamNext]_stream_vars
    PROVE  Separate'
<1> USE DEF watch, ring, flow, peer
<1>1. CASE \E length \in 0 .. SlotBytes, id \in BOOLEAN : Send(length, id)
  BY <1>1, SlotsAssumption DEF Send, MaySend, StreamInv, StreamTypeOK, Separate
<1>2. CASE \E k \in 0 .. SlotBytes : Write(k)
  <2>1. PICK k \in 0 .. SlotBytes : Write(k)
    BY <1>2
  <2>2. /\ phase = "flush" /\ queued > 0 /\ at = 0 /\ at' = 0 /\ flush_from' = flush_from
        /\ flush_from # "dropped" /\ queued \in 0 .. SlotCount
    BY <2>1 DEF Write, StreamInv, StreamTypeOK, Separate
  <2>3. IF k = Left THEN queued' = queued - 1 /\ phase' = phase
        ELSE queued' = queued /\ phase' = flush_from
    BY <2>1 DEF Write
  <2>4. queued' >= 0 /\ phase' \in {phase, flush_from}
    BY <2>2, <2>3, SlotsAssumption
  <2> QED BY <2>2, <2>4 DEF StreamInv, StreamTypeOK, Separate
<1>3. CASE FlushEnds \/ WriteFails \/ WriteRaw
  BY <1>3 DEF FlushEnds, WriteFails, WriteRaw, StreamInv, StreamTypeOK, Separate
<1>4. CASE OnWritable \/ FlushCall \/ Drains \/ Reading
  BY <1>4 DEF OnWritable, FlushCall, MaySend, Drains, Reading, Pump, Read, BytesTaken, PumpEnds, Separate
<1>5. CASE StreamOpen \/ StreamClose
  BY <1>5, SlotsAssumption DEF StreamOpen, StreamClose, StreamInv, StreamTypeOK, Separate
<1>6. CASE DropNext
  BY <1>6, SlotsAssumption DEF DropNext, StreamInv, StreamTypeOK, Separate
<1>7. CASE DroppedReturns \/ CloseEnds
  BY <1>7 DEF DroppedReturns, CloseEnds, StreamInv, StreamTypeOK, Separate
<1>8. CASE UNCHANGED stream_vars
  BY <1>8 DEF stream_vars, Separate
<1> QED
  BY <1>1, <1>2, <1>3, <1>4, <1>5, <1>6, <1>7, <1>8 DEF StreamNext, Owner, Flush, Closing

\* The mode of the queue, as the refinement mapping has it.
Mode == IF phase \in {"drop", "dropped"} THEN "closing"
        ELSE IF is_open THEN "open" ELSE "closed"

\* The queue of the refinement mapping is that of the ring, before a step and
\* after it.
LEMMA WaitingIs ==
    /\ Waiting = Ordered(slots, head, queued, at)
    /\ Waiting' = Ordered(slots', head', queued', at')
BY DEF Waiting, Ordered, Row, Slot, At

\* A step that changes neither the ring nor the mode changes nothing that the
\* queue of frames promises.
LEMMA Stutters ==
    ASSUME UNCHANGED <<ring, at, wire, dropped>>, Mode' = Mode
    PROVE  UNCHANGED Q!vars
<1>1. Waiting' = Waiting
  BY WaitingIs DEF ring
<1> QED BY <1>1 DEF Q!vars, Mode

\* send() puts the frame at the end of the queue.
LEMMA SendAccepts ==
    ASSUME SendsFromDrop = FALSE, StreamInv, Separate,
           NEW length \in 0 .. SlotBytes, NEW id \in BOOLEAN, Send(length, id)
    PROVE  Q!Next
<1> DEFINE new == [frame |-> sent + 1, length |-> length, sent |-> 0,
                   id |-> IF id THEN sent + 1 ELSE 0]
           name == IF id THEN sent + 1 ELSE 0
<1>1. /\ slots \in [Ring -> SlotRecords] /\ head \in Ring /\ queued \in 0 .. SlotCount - 1
      /\ sent + 1 \in Frames /\ queued \in 0 .. SlotCount
  BY SlotsAssumption, FramesAssumption DEF Send, StreamInv, StreamTypeOK, SlotRecords, Frames
<1>2. new \in SlotRecords
  BY <1>1, FramesAssumption, SlotsAssumption DEF SlotRecords, Frames
<1>3. /\ at = 0 /\ at' = 0 /\ head' = head /\ queued' = queued + 1
      /\ Mode = "open" /\ Mode' = "open" /\ wire' = wire /\ dropped' = dropped
  BY DEF Send, MaySend, Separate, Mode
<1>4. slots' = [slots EXCEPT ![At(head, queued)] = new]
  BY DEF Send, Slot, At
<1>5. Row(new) = [frame |-> sent + 1, left |-> length, id |-> name]
  <2>1. length - 0 = length
    BY SlotsAssumption
  <2> QED BY <2>1 DEF Row
<1> HIDE DEF new
<1>6. Waiting' = Append(Waiting, [frame |-> sent + 1, left |-> length, id |-> name])
  BY <1>1, <1>2, <1>3, <1>4, <1>5, Appends, WaitingIs
<1>7. Len(Waiting) < SlotCount
  <2>1. Len(Waiting) = queued
    BY <1>1, <1>3, OrderedWhole, WaitingIs
  <2> QED BY <1>1, <2>1, SlotsAssumption
<1>8. name \in {0, sent + 1}
  OBVIOUS
<1> HIDE DEF name
<1>9. Q!Accept(sent + 1, length, name)
  BY <1>3, <1>6, <1>7 DEF Q!Accept, Mode
<1> QED BY <1>1, <1>8, <1>9 DEF Q!Next

\* A write takes its bytes from the first frame of the queue.
LEMMA WriteTransmits ==
    ASSUME StreamInv, Separate, NEW k \in 0 .. SlotBytes, Write(k)
    PROVE  Q!Next
<1>1. /\ slots \in [Ring -> SlotRecords] /\ head \in Ring /\ queued \in 1 .. SlotCount
      /\ queued \in 0 .. SlotCount /\ 0 \in 0 .. queued /\ 0 < queued
  BY SlotsAssumption DEF Write, StreamInv, StreamTypeOK, SlotRecords
<1>2. slots[head] \in SlotRecords
  BY <1>1
<1>3. at = 0 /\ at' = 0 /\ Mode = "open" /\ Mode' = "open" /\ dropped' = dropped
  BY DEF Write, flow, Separate, Mode, StreamInv, Phases, StreamTypeOK
<1>4. Waiting # <<>> /\ Head(Waiting) = Row(slots[head])
  <2>1. At(head, 0) = head
    BY <1>1, AtFacts
  <2> QED BY <1>1, <1>3, <2>1, HeadIs, WaitingIs
<1>5. Head(Waiting).left = Left /\ Head(Waiting).frame = Front.frame
  BY <1>4 DEF Row, Left, Front
<1>6. slots' \in [Ring -> SlotRecords]
  BY WriteInv DEF StreamInv, StreamTypeOK, SlotRecords
<1>7. wire' = wire \o [i \in 1 .. k |-> Head(Waiting).frame]
  BY <1>5 DEF Write
<1>8. CASE k = Left
  <2>1. head' = At(head, 1) /\ queued' = queued - 1
    BY <1>8 DEF Write, Slot, At
  <2>2. slots'[head] \in SlotRecords /\ slots' = [slots EXCEPT ![head] = slots'[head]]
    BY <1>1, <1>6, <1>8 DEF Write
  <2>3. Waiting' = Tail(Waiting)
    BY <1>1, <1>3, <2>1, <2>2, Pops, WaitingIs
  <2>4. Q!Transmit(k)
    BY <1>3, <1>4, <1>5, <1>7, <1>8, <2>3 DEF Write, Q!Transmit, Mode
  <2> QED BY <2>4 DEF Q!Next
<1>9. CASE k # Left
  <2>1. head' = head /\ queued' = queued /\ slots' = [slots EXCEPT ![head].sent = @ + k]
    BY <1>9 DEF Write
  <2>2. Waiting' = [Waiting EXCEPT ![1].left = @ - k]
    <3>1. k \in Int
      BY SlotsAssumption
    <3>2. Ordered(slots', head, queued, 0) =
            [Ordered(slots, head, queued, 0) EXCEPT ![1].left = @ - k]
      <4>1. \A i \in Ring : i # head => slots'[i] = slots[i]
        BY <1>1, <2>1
      <4>2. slots'[head] = [slots[head] EXCEPT !.sent = @ + k]
        BY <1>1, <2>1
      <4>3. slots' \in [Ring -> SlotRecords]
        BY <1>6
      <4> QED BY <1>1, <3>1, <4>1, <4>2, <4>3, Shortens
    <3> QED BY <1>3, <2>1, <3>2, WaitingIs
  <2>3. Q!Transmit(k)
    BY <1>3, <1>4, <1>5, <1>7, <1>9, <2>2 DEF Write, Q!Transmit, Mode
  <2> QED BY <2>3 DEF Q!Next
<1> QED BY <1>8, <1>9

\* Opening starts with an empty queue, and closing reports what is left of it
\* frame by frame.
LEMMA ClosingReports ==
    ASSUME StreamInv, Separate, StreamOpen \/ StreamClose \/ Closing
    PROVE  Q!Next \/ UNCHANGED Q!vars
<1> USE DEF watch, ring, flow, peer
<1>0. /\ slots \in [Ring -> SlotRecords] /\ head \in Ring /\ queued \in 0 .. SlotCount
      /\ at \in 0 .. queued
  BY SlotsAssumption DEF StreamInv, StreamTypeOK, SlotRecords, Separate
<1>1. CASE StreamOpen
  <2>1. queued = 0 /\ queued' = 0 /\ at = 0 /\ at' = 0
    BY <1>1 DEF StreamOpen, StreamInv, Phases, Separate
  <2>2. Waiting = <<>> /\ Waiting' = <<>>
    BY <2>1 DEF Waiting
  <2>3. Mode = "closed" /\ Mode' = "open"
    BY <1>1 DEF StreamOpen, Mode
  <2>4. Q!Open
    BY <1>1, <2>2, <2>3 DEF StreamOpen, Q!Open, Mode
  <2> QED BY <2>4 DEF Q!Next
<1>2. CASE StreamClose
  <2>1. at = 0 /\ at' = 0
    BY <1>2 DEF StreamClose, Separate
  <2>2. Waiting' = Waiting
    BY <1>2, <2>1, WaitingIs DEF StreamClose
  <2>3. Mode = "open" /\ Mode' = "closing"
    BY <1>2 DEF StreamClose, Mode
  <2>4. Q!Close
    BY <1>2, <2>2, <2>3 DEF StreamClose, Q!Close, Mode
  <2> QED BY <2>4 DEF Q!Next
<1>3. CASE DropNext
  <2>1. at < queued /\ at' = at + 1 /\ wire' = wire
    BY <1>3 DEF DropNext
  <2>2. Waiting # <<>> /\ Head(Waiting) = Row(slots[At(head, at)])
    BY <1>0, <2>1, HeadIs, WaitingIs
  <2>3. Head(Waiting).id = slots[Slot(at)].id
    BY <2>2 DEF Row, Slot, At
  <2>4. Waiting' = Tail(Waiting)
    BY <1>0, <1>3, <2>1, Walks, WaitingIs DEF DropNext
  <2>5. Mode = "closing" /\ Mode' = "closing"
    BY <1>3 DEF DropNext, Mode
  <2>6. dropped' = IF Head(Waiting).id = 0 THEN dropped
                   ELSE Append(dropped, Head(Waiting).id)
    BY <1>3, <2>3 DEF DropNext
  <2>7. Q!Drop
    BY <2>1, <2>2, <2>4, <2>5, <2>6 DEF Q!Drop, Mode
  <2> QED BY <2>7 DEF Q!Next
<1>4. CASE DroppedReturns
  BY <1>4, Stutters DEF DroppedReturns, Mode
<1>5. CASE CloseEnds
  <2>1. queued - at = 0 /\ queued' - at' = 0
    BY <1>0, <1>5, SlotsAssumption DEF CloseEnds
  <2>2. Waiting = <<>> /\ Waiting' = <<>>
    BY <2>1 DEF Waiting
  <2>3. Mode = "closing" /\ Mode' = "closed"
    BY <1>5 DEF CloseEnds, Mode, StreamInv, StreamTypeOK
  <2>4. Q!Closed
    BY <1>5, <2>2, <2>3 DEF CloseEnds, Q!Closed, Mode
  <2> QED BY <2>4 DEF Q!Next
<1> QED BY <1>1, <1>2, <1>3, <1>4, <1>5 DEF Closing

\* Everything else is invisible to the queue, but for bytes past it.
LEMMA OthersStutter ==
    ASSUME SendsFromDrop = FALSE, StreamInv, Separate,
           FlushEnds \/ WriteFails \/ OnWritable \/ FlushCall \/ Drains \/ WriteRaw \/ Reading
    PROVE  Q!Next \/ UNCHANGED Q!vars
<1> USE DEF watch, ring, flow, peer
<1>1. CASE FlushEnds \/ WriteFails \/ OnWritable \/ FlushCall
  <2>1. Mode' = Mode
    BY <1>1 DEF FlushEnds, WriteFails, OnWritable, FlushCall, MaySend, Mode, Separate, StreamInv,
                StreamTypeOK
  <2> QED BY <1>1, <2>1, Stutters DEF FlushEnds, WriteFails, OnWritable, FlushCall
<1>2. CASE Drains
  BY <1>2, Stutters DEF Drains, Mode
<1>3. CASE WriteRaw
  <2>1. Waiting' = Waiting
    BY <1>3, WaitingIs DEF WriteRaw
  <2>2. Mode = "open" /\ Mode' = "open"
    BY <1>3 DEF WriteRaw, Mode
  <2>3. Q!Raw
    BY <1>3, <2>1, <2>2 DEF WriteRaw, Q!Raw, Mode
  <2> QED BY <2>3 DEF Q!Next
<1>4. CASE Reading
  <2>1. Mode' = Mode
    BY <1>4 DEF Reading, Pump, Read, BytesTaken, PumpEnds, Mode
  <2> QED BY <1>4, <2>1, Stutters DEF Reading, Pump, Read, BytesTaken, PumpEnds
<1> QED BY <1>1, <1>2, <1>3, <1>4

\* The ring implements the queue of frames, for every ring and every sequence of
\* sends, short writes, failures, closings and openings, as long as on_dropped
\* does not send: whole frames leave in the order they were accepted, none is
\* lost, none goes out twice, and close() reports each one that is left, once.
THEOREM Delivers == ASSUME SendsFromDrop = FALSE PROVE StreamSafeSpec => DeliversFrames
<1>1. StreamInit => StreamInv /\ Separate /\ Q!Init
  <2> SUFFICES ASSUME StreamInit PROVE StreamInv /\ Separate /\ Q!Init
    OBVIOUS
  <2>1. Waiting = <<>>
    BY DEF StreamInit, Waiting
  <2>2. Mode = "closed"
    BY DEF StreamInit, Mode
  <2> QED BY <2>1, <2>2, StreamInitInv DEF StreamInit, Q!Init, Mode
<1>2. StreamInv /\ Separate /\ [StreamNext]_stream_vars => StreamInv' /\ Separate'
  BY StreamNextInv, NextSeparate
<1>3. StreamInv /\ Separate /\ [StreamNext]_stream_vars => [Q!Next]_Q!vars
  <2> SUFFICES ASSUME StreamInv, Separate, [StreamNext]_stream_vars PROVE Q!Next \/ UNCHANGED Q!vars
    OBVIOUS
  <2>1. CASE Owner
    BY <2>1, SendAccepts, OthersStutter, ClosingReports DEF Owner
  <2>2. CASE Flush
    BY <2>2, WriteTransmits, OthersStutter DEF Flush
  <2>3. CASE OnWritable \/ Reading \/ Drains
    BY <2>3, OthersStutter
  <2>4. CASE Closing
    BY <2>4, ClosingReports
  <2>5. CASE UNCHANGED stream_vars
    BY <2>5, Stutters DEF stream_vars, watch, ring, Mode
  <2> QED BY <2>1, <2>2, <2>3, <2>4, <2>5 DEF StreamNext
<1> QED BY <1>1, <1>2, <1>3, PTL DEF StreamSafeSpec, DeliversFrames, Q!Spec
=============================================================================
