---------------------------- MODULE UsbStorage ----------------------------
(***************************************************************************)
(* Writing an image to a USB drive, src/io/usb_storage.c.                  *)
(*                                                                         *)
(* The writer claims the drive with an exclusive open, forks a child that  *)
(* copies the image chunk by chunk and syncs each one, and reads the       *)
(* child's count of synced bytes from a pipe.  Meanwhile the platform's    *)
(* hotplug scripts mount and unmount the drive whenever they like, another *)
(* program may take it, and it may be pulled.  Each system call of         *)
(* write_start() that looks at or changes a mount is a step of its own, so *)
(* the platform acts between any two; the drain and the reaping of one     *)
(* tick are two steps, so the child acts between them.                     *)
(*                                                                         *)
(* Bytes are counted in chunks and the clock runs in steps since the last  *)
(* count.  `mounts` is /proc/mounts as far as it concerns us: what is      *)
(* mounted from which source at which mountpoint, oldest first.            *)
(***************************************************************************)
EXTENDS Integers, Sequences, SequencesExt

CONSTANTS
    Chunks,         \* the image's length in chunks
    Timeout,        \* INKWELL_USB_STORAGE_IDLE_TIMEOUT_MS, in clock steps
    Sources,        \* the spellings under which something is mounted
    Points,         \* the mountpoints
    MountsMax,      \* INKWELL_USB_STORAGE_MOUNTS_MAX
    Attempts,       \* how often claim() tries to open the drive
    MaxMounts,      \* bound: how many mounts the platform makes at a time
    MaxWrites       \* bound: how many writes are started

ASSUME UsbAssumption ==
    /\ {Chunks, Timeout, MountsMax, Attempts} \subseteq Nat \ {0}
    /\ {MaxMounts, MaxWrites} \subseteq Nat
    /\ Sources \subseteq {"device", "respelled", "partition",
                          "respelled_partition", "another_drive"}

VARIABLES
    present,        \* the drive's node is there
    holder,         \* another program has the drive open exclusively
    mounts,         \* /proc/mounts: a sequence of [source, point]
    target,         \* what find() filled in for the application
    again,          \* the target claim() reads for itself
    attempt,        \* claim()'s loop counter
    pc,             \* where the process is
    proc,           \* the child: its pid's state and its exit status
    job,            \* what the child is about to do
    at,             \* chunks the child is through with
    synced,         \* chunks on the drive; 0 again once the write has failed
    pipe,           \* counts in the pipe, unread
    state, error,   \* write->state, write->error
    child, progress_fd, device_fd,  \* the write's descriptors, open or not
    watched,        \* progress_fd is registered with the loop
    written,        \* write->written
    idle,           \* clock steps since idle_deadline_ms was last moved
    lookup,         \* a lookup's child was forked with the drive open
    writes          \* writes started so far

platform == <<present, holder, mounts>>
claiming == <<target, again, attempt>>
process  == <<proc, job, at, synced, pipe>>
writer   == <<state, error, child, progress_fd, device_fd, watched, written,
              idle>>
vars     == <<platform, claiming, pc, process, writer, lookup, writes>>

-----------------------------------------------------------------------------
(* The drive's mounts. *)

\* Any of these filesystems writes to our drive.
OnDrive(source) == source # "another_drive"

Mounted == \E i \in DOMAIN mounts : OnDrive(mounts[i].source)

\* The open file description that claim() opened is shared with every child
\* forked meanwhile, and is closed with the last of its descriptors: the
\* resolver's child (src/net/resolve.c) closes nothing it inherits.
Claimed == device_fd \/ proc = "running" \/ pc = "fork" \/ lookup

\* stat() tells the device under any spelling; the string tells a partition,
\* whose device number differs, only in the usual spelling.
mount_source_is_device(source) ==
    source \in {"device", "respelled", "partition"}

NoTarget == [points |-> <<>>, too_many |-> FALSE]

\* Which of the mounts are found to be our drive's, and the n-th of them.
Ours == {i \in DOMAIN mounts : mount_source_is_device(mounts[i].source)}

NthOfOurs(n) ==
    Min({i \in DOMAIN mounts : Cardinality({j \in Ours : j <= i}) >= n})

\* read_mounts(): our drive's mountpoints, as many as the target holds.
read_mounts ==
    LET found == Cardinality(Ours)
    IN  [points   |-> [n \in 1 .. IF found < MountsMax THEN found ELSE MountsMax
                         |-> mounts[NthOfOurs(n)].point],
         too_many |-> found > MountsMax]

\* umount2(): the filesystem on top at that point comes off.
umount(point) ==
    LET there == {i \in DOMAIN mounts : mounts[i].point = point}
    IN  IF there = {} THEN mounts
        ELSE RemoveAt(mounts, Max(there))

-----------------------------------------------------------------------------
\* Every variable has its type.
TypeOK ==
    /\ present \in BOOLEAN /\ holder \in BOOLEAN
    /\ mounts \in BoundedSeq([source : Sources, point : Points], MaxMounts)
    /\ target.points \in BoundedSeq(Points, MountsMax)
    /\ again.points \in BoundedSeq(Points, MountsMax)
    /\ attempt \in 0 .. Attempts
    /\ pc \in {"app", "unmount", "open", "busy", "take_off", "fork", "tick"}
    /\ proc \in {"none", "running", "0", "EXIT_WRITE", "EXIT_SYNC", "killed",
                 "reaped_elsewhere"}
    /\ job \in {"write", "sync", "report"}
    /\ at \in 0 .. Chunks /\ synced \in 0 .. Chunks
    /\ pipe \in BoundedSeq(1 .. Chunks, Chunks)
    /\ state \in {"IDLE", "RUNNING", "DONE", "FAILED"}
    /\ error \in {"0", "EIO", "ETIMEDOUT", "ECHILD"}
    /\ {child, progress_fd, device_fd, watched} \subseteq BOOLEAN
    /\ written \in 0 .. Chunks
    /\ idle \in 0 .. Timeout
    /\ lookup \in BOOLEAN
    /\ writes \in 0 .. MaxWrites

Init ==
    /\ present = FALSE /\ holder = FALSE /\ mounts = <<>>
    /\ target = NoTarget /\ again = NoTarget /\ attempt = 0
    /\ pc = "app"
    /\ proc = "none" /\ job = "write" /\ at = 0 /\ synced = 0 /\ pipe = <<>>
    /\ state = "IDLE" /\ error = "0"
    /\ child = FALSE /\ progress_fd = FALSE /\ device_fd = FALSE
    /\ watched = FALSE
    /\ written = 0 /\ idle = 0
    /\ lookup = FALSE /\ writes = 0

-----------------------------------------------------------------------------
(* The platform, at any moment. *)

\* A drive that was pulled comes back under its name once nothing holds it.
PlugOrPull ==
    /\ present \/ (~Claimed /\ ~Mounted /\ ~holder)
    /\ present' = ~present
    /\ UNCHANGED <<holder, mounts, claiming, pc, process, writer, lookup,
                   writes>>

\* mount takes the claim that O_EXCL takes, and fails when it is taken.
HotplugMounts ==
    /\ Len(mounts) < MaxMounts
    /\ \E s \in Sources, p \in Points :
          /\ OnDrive(s) => present /\ ~Claimed /\ ~holder
          /\ mounts' = Append(mounts, [source |-> s, point |-> p])
    /\ UNCHANGED <<present, holder, claiming, pc, process, writer, lookup,
                   writes>>

HotplugUnmounts ==
    /\ \E p \in Points : mounts' = umount(p)
    /\ mounts' # mounts
    /\ UNCHANGED <<present, holder, claiming, pc, process, writer, lookup,
                   writes>>

HolderTakesOrLeaves ==
    /\ holder \/ (present /\ ~Claimed /\ ~Mounted)
    /\ holder' = ~holder
    /\ UNCHANGED <<present, mounts, claiming, pc, process, writer, lookup,
                   writes>>

-----------------------------------------------------------------------------
(* Finding the drive and taking it off its mountpoints. *)

\* find(): -ENOENT leaves the target empty.
Find ==
    /\ pc = "app"
    /\ target' = IF present THEN read_mounts ELSE NoTarget
    /\ UNCHANGED <<platform, again, attempt, pc, process, writer, lookup,
                   writes>>

\* unmount() by the application, of what find() read some time ago; more
\* mountpoints than the target holds are left alone (-E2BIG).
Unmount ==
    /\ pc = "app"
    /\ ~target.too_many /\ target.points # <<>>
    /\ pc' = "unmount"
    /\ UNCHANGED <<platform, claiming, process, writer, lookup, writes>>

\* unmount()'s loop, last mountpoint first.  A mountpoint with nothing on it
\* (-EINVAL, -ENOENT) is passed over; a filesystem in use (-EBUSY) ends it.
UnmountOne(t) ==
    /\ mounts' = umount(Last(t.points))
    /\ UNCHANGED <<present, holder, process, writer, lookup, writes>>

UnmountFails(t) ==
    /\ umount(Last(t.points)) # mounts
    /\ UNCHANGED <<platform, process, writer, lookup, writes>>

UnmountTarget ==
    /\ pc = "unmount"
    /\ UNCHANGED <<again, attempt>>
    /\ \/ /\ UnmountOne(target)
          /\ target' = [target EXCEPT !.points = Front(@)]
          /\ pc' = IF target'.points = <<>> THEN "app" ELSE pc
       \/ UnmountFails(target) /\ pc' = "app" /\ UNCHANGED target

-----------------------------------------------------------------------------
(* write_start().  The claim comes first, and its fd is open from then on. *)

\* The claim ends, and with it its locals.
ClaimReturns(next) ==
    /\ pc' = next
    /\ again' = NoTarget /\ attempt' = 0

StartWrite ==
    /\ pc = "app" /\ state # "RUNNING"
    /\ writes < MaxWrites
    /\ writes' = writes + 1
    /\ pc' = "open" /\ attempt' = 0
    /\ idle' = 0                    \* now_ms was read before the claim
    /\ UNCHANGED <<platform, target, again, process, state, error, child,
                   progress_fd, device_fd, watched, written, lookup>>

\* Mutant: open() without O_EXCL.
OpenShared ==
    /\ pc = "open"
    /\ ClaimReturns(IF present THEN "fork" ELSE "app")
    /\ UNCHANGED <<platform, target, process, writer, lookup, writes>>

\* open(O_WRONLY | O_EXCL): no drive, taken, or ours.
ClaimOpen ==
    /\ pc = "open"
    /\ \/ ~present /\ ClaimReturns("app")
       \/ /\ present /\ (holder \/ Mounted \/ Claimed)
          /\ pc' = "busy" /\ UNCHANGED <<again, attempt>>
       \/ /\ present /\ ~holder /\ ~Mounted /\ ~Claimed
          /\ ClaimReturns("fork")
    /\ UNCHANGED <<platform, target, process, writer, lookup, writes>>

\* Busy: mounted nowhere, or in too many places, and the claim gives up.
ClaimReadMounts ==
    /\ pc = "busy"
    /\ IF read_mounts.points = <<>> \/ read_mounts.too_many
       THEN ClaimReturns("app")
       ELSE pc' = "take_off" /\ again' = read_mounts /\ UNCHANGED attempt
    /\ UNCHANGED <<platform, target, process, writer, lookup, writes>>

ClaimUnmount ==
    /\ pc = "take_off"
    /\ UNCHANGED target
    /\ \/ /\ UnmountOne(again)
          /\ IF Len(again.points) > 1
             THEN /\ again' = [again EXCEPT !.points = Front(@)]
                  /\ UNCHANGED <<pc, attempt>>
             ELSE IF attempt + 1 = Attempts THEN ClaimReturns("app")
             ELSE /\ again' = NoTarget /\ attempt' = attempt + 1
                  /\ pc' = "open"
       \/ UnmountFails(again) /\ ClaimReturns("app")

\* pipe() or fork() failed, and the claim is let go.
ForkFails ==
    /\ pc = "fork"
    /\ pc' = "app"
    /\ UNCHANGED <<platform, claiming, process, writer, lookup, writes>>

\* The writer is cleared and owns the child, the pipe and the claim; a loop
\* that does not take the pipe leaves it to the tick.
Fork ==
    /\ pc = "fork"
    /\ pc' = "app"
    /\ proc' = "running" /\ job' = "write" /\ at' = 0 /\ synced' = 0
    /\ pipe' = <<>>
    /\ state' = "RUNNING" /\ error' = "0" /\ written' = 0
    /\ child' = TRUE /\ progress_fd' = TRUE /\ device_fd' = TRUE
    /\ watched' \in BOOLEAN
    /\ UNCHANGED <<platform, claiming, idle, lookup, writes>>

-----------------------------------------------------------------------------
(* write_child().  It may hang in any call, and may be killed at any point. *)

OthersIdle == UNCHANGED <<platform, claiming, pc, writer, lookup, writes>>

ChildWrites ==
    /\ proc = "running" /\ job = "write" /\ at < Chunks
    /\ \/ present /\ job' = "sync" /\ UNCHANGED proc
       \/ proc' = "EXIT_WRITE" /\ UNCHANGED job
    /\ UNCHANGED <<at, synced, pipe>> /\ OthersIdle

\* Mutant: the count goes out before the chunk is on the drive.
ChildSyncsLast ==
    /\ proc = "running" /\ job = "sync"
    /\ job' = "report" /\ at' = at + 1
    /\ synced' = IF at' = Chunks THEN at' ELSE synced
    /\ UNCHANGED <<proc, pipe>> /\ OthersIdle

\* fdatasync().
ChildSyncs ==
    /\ proc = "running" /\ job = "sync"
    /\ \/ /\ present
          /\ job' = "report" /\ at' = at + 1 /\ synced' = at'
          /\ UNCHANGED proc
       \/ proc' = "EXIT_SYNC" /\ UNCHANGED <<job, at, synced>>
    /\ UNCHANGED pipe /\ OthersIdle

ChildReports ==
    /\ proc = "running" /\ job = "report"
    /\ pipe' = Append(pipe, at)
    /\ job' = "write"
    /\ UNCHANGED <<proc, at, synced>> /\ OthersIdle

ChildEnds ==
    /\ proc = "running"
    /\ \/ at = Chunks /\ job = "write" /\ proc' = "0"
       \/ proc' = "killed"
    /\ UNCHANGED <<job, at, synced, pipe>> /\ OthersIdle

Exited == {"0", "EXIT_WRITE", "EXIT_SYNC", "killed"}

\* Someone else in the process reaps children: waitpid() finds none.
ReapedElsewhere ==
    /\ proc \in Exited
    /\ proc' = "reaped_elsewhere"
    /\ UNCHANGED <<job, at, synced, pipe>> /\ OthersIdle

\* A lookup's child is forked during the write, and ends.
LookupForksOrEnds ==
    /\ pc = "app"
    /\ lookup \/ device_fd
    /\ lookup' = ~lookup
    /\ UNCHANGED <<platform, claiming, pc, process, writer, writes>>

-----------------------------------------------------------------------------
(* The writer, in the process's thread. *)

\* The counts in the pipe that do not go back or past the end.  Read line by line,
\* the last one that is taken is the largest, and each one moves the deadline.
write_consume == {n \in Range(pipe) : n <= Chunks /\ n >= written}

Drained ==
    IF write_consume = {} THEN [written |-> written, idle |-> idle]
    ELSE [written |-> Max(write_consume), idle |-> 0]

write_drain ==
    /\ written' = Drained.written /\ idle' = Drained.idle
    /\ pipe' = <<>>

OnProgress ==
    /\ pc = "app" /\ watched /\ pipe # <<>>
    /\ write_drain
    /\ UNCHANGED <<platform, claiming, pc, proc, job, at, synced, state, error,
                   child, progress_fd, device_fd, watched, lookup, writes>>

write_release_fd ==
    /\ device_fd' = FALSE /\ progress_fd' = FALSE /\ watched' = FALSE

\* The child is reaped, killed first if need be: its memory and the pipe go.
Reaped ==
    /\ proc' = "none" /\ child' = FALSE
    /\ job' = "write" /\ at' = 0 /\ pipe' = <<>>

\* The tick drains the pipe first; its now_ms is the same to the end.
WriteTick ==
    /\ pc = "app" /\ state = "RUNNING" /\ child
    /\ write_drain
    /\ pc' = "tick"
    /\ UNCHANGED <<platform, claiming, proc, job, at, synced, state, error,
                   child, progress_fd, device_fd, watched, lookup, writes>>

\* Mutant: a child that has gone is all that ends a write.
TickNeverStalls ==
    /\ idle >= Timeout /\ proc = "running"
    /\ UNCHANGED <<process, writer>>

\* Silence: the child is killed and reaped, even one that has just finished.
TickStalled ==
    /\ idle >= Timeout
    /\ Reaped /\ synced' = 0
    /\ write_release_fd
    /\ state' = "FAILED" /\ error' = "ETIMEDOUT"
    /\ UNCHANGED <<written, idle>>

\* write_finish(), after what the child left in the pipe.
write_finish(status) ==
    /\ Reaped
    /\ write_release_fd
    /\ idle' = Drained.idle
    /\ IF status = "0"
       THEN /\ state' = "DONE" /\ error' = "0" /\ written' = Chunks
            /\ UNCHANGED synced
       ELSE /\ state' = "FAILED" /\ error' = "EIO"
            /\ written' = Drained.written
            /\ synced' = 0

\* waitpid(WNOHANG).
TickReaps ==
    /\ idle < Timeout
    /\ \/ /\ proc = "running"
          /\ UNCHANGED <<process, writer>>
       \/ proc \in Exited /\ write_finish(proc)
       \/ /\ proc = "reaped_elsewhere"
          /\ Reaped /\ synced' = 0
          /\ write_release_fd
          /\ state' = "FAILED" /\ error' = "ECHILD"
          /\ UNCHANGED <<written, idle>>

TickEnds ==
    /\ pc = "tick"
    /\ pc' = "app"
    /\ TickStalled \/ TickReaps
    /\ UNCHANGED <<platform, claiming, lookup, writes>>

Cancel ==
    /\ pc = "app"
    /\ Reaped /\ synced' = 0
    /\ write_release_fd
    /\ state' = "IDLE" /\ error' = "0"
    /\ UNCHANGED <<platform, claiming, pc, written, idle, lookup, writes>>

ClockAdvances ==
    /\ pc # "tick" /\ idle < Timeout
    /\ pc # "app" \/ state = "RUNNING"      \* nobody looks at it otherwise
    /\ idle' = idle + 1
    /\ UNCHANGED <<platform, claiming, pc, process, state, error, child,
                   progress_fd, device_fd, watched, written, lookup, writes>>

-----------------------------------------------------------------------------
Platform ==
    PlugOrPull \/ HotplugMounts \/ HotplugUnmounts \/ HolderTakesOrLeaves

Child ==
    \/ ChildWrites \/ ChildSyncs \/ ChildReports \/ ChildEnds
    \/ ReapedElsewhere \/ LookupForksOrEnds

Claim ==
    \/ UnmountTarget \/ ClaimOpen \/ ClaimReadMounts \/ ClaimUnmount
    \/ ForkFails \/ Fork

Next ==
    \/ Platform \/ Child \/ Claim
    \/ Find \/ Unmount \/ StartWrite \/ Cancel
    \/ OnProgress \/ WriteTick \/ TickEnds \/ ClockAdvances

\* The process runs, its caller ticks a write it has started, and time passes.
Fairness ==
    /\ WF_vars(Claim)
    /\ SF_vars(WriteTick) /\ WF_vars(TickEnds)
    /\ SF_vars(ClockAdvances)

Spec == Init /\ [][Next]_vars /\ Fairness

-----------------------------------------------------------------------------
(* Properties. *)

\* write_progress(): 100 is kept for a write that is done.
write_progress ==
    IF state = "DONE" THEN 100
    ELSE IF written = Chunks THEN 99 ELSE (written * 100) \div Chunks

\* A child process, zombies included, the progress pipe and the claim on the
\* drive belong to a running write: whichever way a write ends, or fails to
\* start, none of them is left behind, and a running one has all three.
WriteOwns ==
    /\ TypeOK
    /\ pc # "tick" =>
          /\ child <=> state = "RUNNING"
          /\ progress_fd <=> child
          /\ device_fd <=> child
          /\ watched => progress_fd
          /\ proc # "none" <=> child

\* From before the first byte until the child has been reaped no filesystem
\* of the drive is mounted and no other program has it: the claim is taken
\* before the fork, survives a child that dies halfway and is let go last,
\* whatever the hotplug scripts do meanwhile.
NobodyElseWrites ==
    state = "RUNNING" => ~Mounted /\ ~holder

\* The drive and what it takes to write it are the write's, and nobody else's.
DriveOwned == WriteOwns /\ NobodyElseWrites

\* The progress shown never runs ahead of the drive, and 100 means that every
\* chunk is on it: each chunk is synced before its count is sent, and the last
\* count is not taken for the end.
ProgressIsSynced ==
    /\ state \in {"RUNNING", "DONE"} => written <= synced
    /\ write_progress = 100 <=> state = "DONE"
    /\ state = "DONE" => synced = Chunks

\* Every write ends, even if the child hangs in a write to a dead drive: each
\* count is a new lease of the silence deadline, and there are finitely many.
WriteEnds == state = "RUNNING" ~> state # "RUNNING"

=============================================================================
