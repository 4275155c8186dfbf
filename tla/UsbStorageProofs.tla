-------------------------- MODULE UsbStorageProofs --------------------------
(***************************************************************************)
(* Proofs about the writer of USB drives, for every length of image, every *)
(* timeout and any number of mounts, mountpoints and writes: nobody else   *)
(* has the drive while a write runs, nothing is left behind by one that    *)
(* has ended, and the progress shown is what is on the drive.              *)
(***************************************************************************)
EXTENDS UsbStorage, SequenceTheorems, FiniteSetTheorems, TLAPS

\* The constants that are numbers.
LEMMA Numbers ==
    /\ Chunks \in Nat \ {0} /\ Timeout \in Nat \ {0} /\ MountsMax \in Nat \ {0}
    /\ Attempts \in Nat \ {0} /\ MaxMounts \in Nat /\ MaxWrites \in Nat
BY UsbAssumption

Mount == [source : Sources, point : Points]

Targets == [points : BoundedSeq(Points, MountsMax), too_many : BOOLEAN]

\* A claim is under way with an attempt left, and both targets are targets.
Claims == target \in Targets /\ again \in Targets /\ attempt < Attempts

\* WriteOwns without its guard: a tick belongs to a running write, and keeps
\* everything until it is decided.
Owns ==
    /\ child <=> state = "RUNNING"
    /\ progress_fd <=> child
    /\ device_fd <=> child
    /\ watched => progress_fd
    /\ proc # "none" <=> child
    /\ pc = "tick" => state = "RUNNING"

\* Whoever still shares the open file description of the claim shuts the others
\* out: the writer, its child, a claim on its way to the fork, a lookup's child.
Exclusive == Claimed => ~Mounted /\ ~holder

\* How far the child is, what is on the drive, in the pipe and in `written`.
Counting ==
    /\ state = "RUNNING" => at = synced /\ written <= synced
    /\ \A i \in 1 .. Len(pipe) : pipe[i] <= at
    /\ Len(pipe) <= at
    /\ job = "sync" => at < Chunks
    /\ job = "report" => Len(pipe) < at
    /\ proc = "0" => at = Chunks
    /\ state = "DONE" => synced = Chunks /\ written = Chunks

\* The inductive invariant.
Inv == TypeOK /\ Claims /\ Owns /\ Exclusive /\ Counting

-----------------------------------------------------------------------------
(* Numbers and sequences. *)

\* A set of naturals has a least element, and one with an upper bound a greatest.
LEMMA Least ==
    ASSUME NEW T \in SUBSET Nat, T # {}
    PROVE  \E x \in T : \A y \in T : x <= y
<1> DEFINE R == OpToRel(<, Nat)
<1>1. IsWellFoundedOn(R, Nat)
  BY NatLessThanWellFounded
<1>2. \A x, y \in Nat : <<y, x>> \in R <=> y < x
  BY DEF OpToRel
<1> HIDE DEF R
<1>3. PICK x \in T : \A y \in T : ~(<<y, x>> \in R)
  BY <1>1, WFMin
<1>4. ASSUME NEW y \in T PROVE x <= y
  <2>1. x \in Nat /\ y \in Nat
    OBVIOUS
  <2>2. ~(y < x)
    BY <1>2, <1>3, <2>1
  <2> QED BY <2>1, <2>2
<1> QED BY <1>4

LEMMA Greatest ==
    ASSUME NEW n \in Nat, NEW T \in SUBSET (0 .. n), T # {}
    PROVE  \E x \in T : \A y \in T : x >= y
<1> DEFINE U == {k \in Nat : \E x \in T : k = n - x}
<1>1. U # {} /\ U \in SUBSET Nat
  <2>1. PICK x \in T : TRUE
    OBVIOUS
  <2>2. x \in 0 .. n /\ n - x \in Nat
    OBVIOUS
  <2>3. n - x \in U
    BY <2>2
  <2> QED BY <2>3
<1>2. PICK u \in U : \A v \in U : u <= v
  BY <1>1, Least
<1>3. PICK x \in T : u = n - x
  BY <1>2
<1>4. \A y \in T : x >= y
  BY <1>2, <1>3
<1> QED BY <1>4

\* So Min and Max are elements of the sets they are taken of.
LEMMA MinIn == ASSUME NEW T \in SUBSET Nat, T # {} PROVE Min(T) \in T
BY Least DEF Min

LEMMA MaxIn ==
    ASSUME NEW n \in Nat, NEW T \in SUBSET (0 .. n), T # {}
    PROVE  Max(T) \in T
BY Greatest DEF Max

\* What BoundedSeq is.
LEMMA BoundedIs ==
    ASSUME NEW S, NEW n \in Nat
    PROVE  \A s : s \in BoundedSeq(S, n) <=> s \in Seq(S) /\ Len(s) <= n
<1> SUFFICES ASSUME NEW s PROVE s \in BoundedSeq(S, n) <=> s \in Seq(S) /\ Len(s) <= n
  OBVIOUS
<1>1. ASSUME s \in BoundedSeq(S, n) PROVE s \in Seq(S) /\ Len(s) <= n
  <2>1. PICK m \in 0 .. n : s \in [1 .. m -> S]
    BY <1>1 DEF BoundedSeq, SeqOf
  <2> QED BY <2>1
<1>2. ASSUME s \in Seq(S), Len(s) <= n PROVE s \in BoundedSeq(S, n)
  <2>1. Len(s) \in 0 .. n /\ s \in [1 .. Len(s) -> S]
    BY <1>2, LenProperties
  <2> QED BY <2>1 DEF BoundedSeq, SeqOf
<1> QED BY <1>1, <1>2

LEMMA EmptyIs == ASSUME NEW S, NEW n \in Nat PROVE <<>> \in BoundedSeq(S, n)
<1>1. <<>> \in Seq(S) /\ Len(<<>>) <= n
  BY EmptySeq
<1> QED BY <1>1, BoundedIs

\* Leaving out one element of a sequence.
LEMMA RemoveIs ==
    ASSUME NEW S, NEW s \in Seq(S), NEW i \in 1 .. Len(s)
    PROVE  RemoveAt(s, i) \in Seq(S) /\ Len(RemoveAt(s, i)) = Len(s) - 1
<1> DEFINE a == SubSeq(s, 1, i - 1)
           b == SubSeq(s, i + 1, Len(s))
<1>1. Len(s) \in Nat /\ \A j \in 1 .. Len(s) : s[j] \in S
  BY LenProperties, ElementOfSeq
<1>2. /\ i - 1 \in Int /\ i + 1 \in Int /\ 1 \in Int /\ Len(s) \in Int
      /\ \A j \in 1 .. i - 1 : s[j] \in S
      /\ \A j \in i + 1 .. Len(s) : s[j] \in S
  BY <1>1
<1>3. a \in Seq(S) /\ Len(a) = IF 1 <= i - 1 THEN (i - 1) - 1 + 1 ELSE 0
  BY <1>2, SubSeqProperties
<1>4. b \in Seq(S) /\ Len(b) = IF i + 1 <= Len(s) THEN Len(s) - (i + 1) + 1 ELSE 0
  BY <1>2, SubSeqProperties
<1>5. RemoveAt(s, i) = a \o b
  BY DEF RemoveAt
<1> HIDE DEF a, b
<1>6. a \o b \in Seq(S) /\ Len(a \o b) = Len(a) + Len(b)
  BY <1>3, <1>4, ConcatProperties
<1>7. Len(a) + Len(b) = Len(s) - 1
  <2> DEFINE l == Len(s)
  <2> HIDE DEF l
  <2>1. l \in Nat /\ i \in 1 .. l
    BY <1>1 DEF l
  <2>2. Len(a) = i - 1
    BY <1>3, <2>1
  <2>3. Len(b) = l - i
    BY <1>4, <2>1 DEF l
  <2>4. (i - 1) + (l - i) = l - 1
    BY <2>1
  <2> QED BY <2>2, <2>3, <2>4 DEF l
<1> QED BY <1>5, <1>6, <1>7

\* All but the last element.
LEMMA FrontIs ==
    ASSUME NEW S, NEW n \in Nat, NEW s \in BoundedSeq(S, n)
    PROVE  Front(s) \in BoundedSeq(S, n)
<1>1. s \in Seq(S) /\ Len(s) <= n
  BY BoundedIs
<1>2. Len(s) \in Nat /\ \A j \in 1 .. Len(s) : s[j] \in S
  BY <1>1, LenProperties, ElementOfSeq
<1>3. 1 \in Int /\ Len(s) - 1 \in Int /\ \A j \in 1 .. Len(s) - 1 : s[j] \in S
  BY <1>2
<1>4. /\ SubSeq(s, 1, Len(s) - 1) \in Seq(S)
      /\ Len(SubSeq(s, 1, Len(s) - 1)) =
           IF 1 <= Len(s) - 1 THEN (Len(s) - 1) - 1 + 1 ELSE 0
  BY <1>3, SubSeqProperties
<1>5. Len(SubSeq(s, 1, Len(s) - 1)) <= n
  BY <1>1, <1>2, <1>4
<1> QED BY <1>4, <1>5, BoundedIs DEF Front

\* An image that is not all there yet shows less than 100.
LEMMA NotYetHundred ==
    ASSUME NEW n \in Nat \ {0}, NEW w \in 0 .. n - 1
    PROVE  (w * 100) \div n # 100
<1> DEFINE x == w * 100
<1>1. x \in 0 .. n * 100 - 1
  OBVIOUS
<1> HIDE DEF x
<1>2. x \div n # 100
  BY <1>1, SMTT(30)
<1> QED BY <1>2 DEF x

-----------------------------------------------------------------------------
(* Mounts. *)

Foreign == {m \in Mount : ~OnDrive(m.source)}

\* The mounts are a sequence, of mounts of other drives if ours is not mounted.
LEMMA MountsAre ==
    ASSUME TypeOK
    PROVE  /\ mounts \in Seq(Mount) /\ Len(mounts) \in Nat /\ Len(mounts) <= MaxMounts
           /\ DOMAIN mounts = 1 .. Len(mounts)
           /\ ~Mounted => mounts \in Seq(Foreign)
<1>1. mounts \in Seq(Mount) /\ Len(mounts) <= MaxMounts
  BY Numbers, BoundedIs DEF TypeOK, Mount
<1>2. Len(mounts) \in Nat /\ DOMAIN mounts = 1 .. Len(mounts)
  BY <1>1, LenProperties
<1>3. ASSUME ~Mounted PROVE mounts \in Seq(Foreign)
  <2>1. \A i \in 1 .. Len(mounts) : mounts[i] \in Foreign
    BY <1>1, <1>2, <1>3, ElementOfSeq DEF Mounted, Foreign
  <2>2. mounts \in [1 .. Len(mounts) -> Foreign]
    BY <1>1, <1>2, <2>1, LenProperties
  <2> QED BY <1>2, <2>2
<1> QED BY <1>1, <1>2, <1>3

\* What comes off a mountpoint leaves a shorter table of the same mounts.
LEMMA UmountIs ==
    ASSUME TypeOK, NEW p
    PROVE  /\ umount(p) \in BoundedSeq(Mount, MaxMounts)
           /\ ~Mounted => umount(p) \in Seq(Foreign)
<1> DEFINE there == {i \in DOMAIN mounts : mounts[i].point = p}
<1>1. /\ mounts \in Seq(Mount) /\ Len(mounts) \in Nat /\ Len(mounts) <= MaxMounts
      /\ DOMAIN mounts = 1 .. Len(mounts)
      /\ ~Mounted => mounts \in Seq(Foreign)
  BY MountsAre
<1>2. CASE there = {}
  <2>1. umount(p) = mounts
    BY <1>2 DEF umount
  <2> QED BY <1>1, <2>1, Numbers, BoundedIs
<1>3. CASE there # {}
  <2>1. there \in SUBSET (0 .. Len(mounts))
    BY <1>1
  <2>2. Max(there) \in there
    BY <1>1, <1>3, <2>1, MaxIn
  <2>3. umount(p) = RemoveAt(mounts, Max(there))
    BY <1>3 DEF umount
  <2>4. Max(there) \in 1 .. Len(mounts)
    BY <1>1, <2>2
  <2> HIDE DEF there
  <2>5. umount(p) \in Seq(Mount) /\ Len(umount(p)) = Len(mounts) - 1
    BY <1>1, <2>3, <2>4, RemoveIs
  <2>6. ~Mounted => umount(p) \in Seq(Foreign)
    BY <1>1, <2>3, <2>4, RemoveIs
  <2>7. Len(umount(p)) <= MaxMounts
    BY <1>1, <2>5, Numbers
  <2> QED BY <2>5, <2>6, <2>7, Numbers, BoundedIs
<1> QED BY <1>2, <1>3

\* What read_mounts() finds is a target.
LEMMA ReadIs == ASSUME TypeOK PROVE read_mounts \in Targets
<1> DEFINE found == Cardinality(Ours)
           count == IF found < MountsMax THEN found ELSE MountsMax
           points == [n \in 1 .. count |-> mounts[NthOfOurs(n)].point]
<1>1. /\ mounts \in Seq(Mount) /\ Len(mounts) \in Nat
      /\ DOMAIN mounts = 1 .. Len(mounts)
  BY MountsAre
<1>2. Ours \in SUBSET (1 .. Len(mounts)) /\ IsFiniteSet(1 .. Len(mounts))
  BY <1>1, FS_Interval DEF Ours
<1>3. found \in Nat
  BY <1>2, FS_Subset, FS_CardinalityType
<1> HIDE DEF found
<1>4. count \in 0 .. MountsMax /\ count <= found
  BY <1>3, Numbers
<1>5. ASSUME NEW n \in 1 .. count PROVE mounts[NthOfOurs(n)].point \in Points
  <2> DEFINE T == {i \in DOMAIN mounts : Cardinality({j \in Ours : j <= i}) >= n}
  <2>1. CASE Len(mounts) = 0
    <3>1. Ours = {}
      BY <1>2, <2>1
    <3>2. found = 0
      BY <3>1, FS_EmptySet DEF found
    <3> QED BY <1>3, <1>4, <3>2
  <2>2. CASE Len(mounts) # 0
    <3>1. {j \in Ours : j <= Len(mounts)} = Ours
      <4>1. \A j \in Ours : j <= Len(mounts)
        BY <1>1, <1>2
      <4> QED BY <4>1
    <3>2. Len(mounts) \in T
      <4>1. Cardinality({j \in Ours : j <= Len(mounts)}) = found
        BY <3>1 DEF found
      <4>2. found >= n
        <5> HIDE DEF count
        <5> QED BY <1>3, <1>4, Numbers
      <4>3. Len(mounts) \in DOMAIN mounts
        BY <1>1, <2>2
      <4> QED BY <4>1, <4>2, <4>3
    <3>3. T \in SUBSET Nat
      BY <1>1
    <3>4. Min(T) \in T
      BY <3>2, <3>3, MinIn
    <3>5. NthOfOurs(n) \in 1 .. Len(mounts)
      BY <1>1, <3>4 DEF NthOfOurs
    <3>6. mounts[NthOfOurs(n)] \in Mount
      BY <1>1, <3>5, ElementOfSeq
    <3> QED BY <3>6 DEF Mount
  <2> QED BY <2>1, <2>2
<1>6. points \in [1 .. count -> Points]
  BY <1>5
<1>7. points \in BoundedSeq(Points, MountsMax)
  <2>1. \E m \in 0 .. MountsMax : points \in [1 .. m -> Points]
    BY <1>4, <1>6
  <2> QED BY <2>1 DEF BoundedSeq, SeqOf
<1>8. read_mounts = [points |-> points, too_many |-> found > MountsMax]
  BY DEF read_mounts, found
<1>9. (found > MountsMax) \in BOOLEAN
  BY <1>3, Numbers
<1> HIDE DEF points
<1> QED BY <1>7, <1>8, <1>9 DEF Targets

\* What the drain makes of the pipe: a count that was synced, and no later
\* deadline than now.
LEMMA DrainedIs ==
    ASSUME TypeOK, Counting
    PROVE  /\ Drained.written \in 0 .. Chunks /\ Drained.idle \in 0 .. Timeout
           /\ state = "RUNNING" => Drained.written <= synced
<1>1. CASE write_consume = {}
  <2>1. Drained.written = written /\ Drained.idle = idle
    BY <1>1 DEF Drained
  <2> QED BY <2>1 DEF TypeOK, Counting
<1>2. CASE write_consume # {}
  <2>1. pipe \in Seq(1 .. Chunks)
    BY Numbers, BoundedIs DEF TypeOK
  <2>2. Len(pipe) \in Nat /\ DOMAIN pipe = 1 .. Len(pipe)
    BY <2>1, LenProperties
  <2>3. write_consume \in SUBSET (0 .. Chunks)
    <3> SUFFICES ASSUME NEW n \in write_consume PROVE n \in 0 .. Chunks
      OBVIOUS
    <3>1. PICK i \in 1 .. Len(pipe) : n = pipe[i]
      BY <2>2 DEF write_consume, Range
    <3> QED BY <2>1, <3>1, ElementOfSeq, Numbers
  <2>4. Max(write_consume) \in write_consume
    BY <1>2, <2>3, MaxIn, Numbers
  <2>5. PICK i \in 1 .. Len(pipe) : Max(write_consume) = pipe[i]
    BY <2>2, <2>4 DEF write_consume, Range
  <2>6. Max(write_consume) <= at
    BY <2>5 DEF Counting
  <2>7. Drained.written = Max(write_consume) /\ Drained.idle = 0
    BY <1>2 DEF Drained
  <2>8. 0 \in 0 .. Timeout
    BY Numbers
  <2> QED BY <2>3, <2>4, <2>6, <2>7, <2>8 DEF Counting
<1> QED BY <1>1, <1>2

-----------------------------------------------------------------------------
(* The steps. *)

LEMMA InitInv == Init => Inv
<1> SUFFICES ASSUME Init PROVE Inv
  OBVIOUS
<1>1. /\ 0 \in 0 .. Chunks /\ 0 \in 0 .. Timeout /\ 0 \in 0 .. Attempts
      /\ 0 \in 0 .. MaxWrites /\ 0 < Attempts
  BY Numbers
<1>2. /\ <<>> \in BoundedSeq(Mount, MaxMounts) /\ <<>> \in BoundedSeq(Points, MountsMax)
      /\ <<>> \in BoundedSeq(1 .. Chunks, Chunks)
  BY Numbers, EmptyIs
<1>3. {present, holder, child, progress_fd, device_fd, watched, lookup} \subseteq BOOLEAN
  BY DEF Init
<1>4. TypeOK
  BY <1>1, <1>2, <1>3 DEF Init, TypeOK, NoTarget, Mount
<1>5. NoTarget \in Targets
  BY <1>2 DEF NoTarget, Targets
<1>6. Claims /\ Owns /\ Exclusive
  BY <1>1, <1>5 DEF Init, Claims, Owns, Exclusive, Claimed
<1>7. Counting
  <2>1. Len(pipe) = 0
    BY DEF Init
  <2> QED BY <2>1 DEF Init, Counting
<1> QED BY <1>4, <1>6, <1>7 DEF Inv

\* The table of mounts changes, but by no mount of a claimed drive.
LEMMA MountsChange ==
    ASSUME Inv, mounts' \in BoundedSeq(Mount, MaxMounts), holder' \in BOOLEAN,
           present' \in BOOLEAN, Claimed => ~Mounted' /\ ~holder',
           UNCHANGED <<claiming, pc, process, writer, lookup, writes>>
    PROVE  Inv'
<1> USE DEF claiming, process, writer
<1>0. {child', progress_fd', device_fd', watched'} \subseteq BOOLEAN
  BY DEF Inv, TypeOK
<1>1. TypeOK'
  BY <1>0 DEF Inv, TypeOK, Mount
<1>2. Claims' /\ Owns' /\ Counting'
  BY DEF Inv, Claims, Owns, Counting
<1>3. Exclusive'
  BY DEF Exclusive, Claimed
<1> QED BY <1>1, <1>2, <1>3 DEF Inv

\* A table of other drives' mounts has none of ours.
LEMMA ForeignOnly == ASSUME NEW m \in Seq(Foreign), mounts' = m PROVE ~Mounted'
<1>1. DOMAIN m = 1 .. Len(m) /\ \A i \in 1 .. Len(m) : m[i] \in Foreign
  BY LenProperties, ElementOfSeq
<1> QED BY <1>1 DEF Mounted, Foreign

\* Something comes off a mountpoint.
LEMMA UmountKeeps ==
    ASSUME Inv, NEW p, mounts' = umount(p)
    PROVE  /\ mounts' \in BoundedSeq(Mount, MaxMounts)
           /\ Claimed => ~Mounted' /\ ~holder
<1>1. /\ umount(p) \in BoundedSeq(Mount, MaxMounts)
      /\ ~Mounted => umount(p) \in Seq(Foreign)
  BY UmountIs DEF Inv
<1>2. ~Mounted => ~Mounted'
  BY <1>1, ForeignOnly
<1> QED BY <1>1, <1>2 DEF Inv, Exclusive

LEMMA PlatformInv == Inv /\ Platform => Inv'
<1> SUFFICES ASSUME Inv, Platform PROVE Inv'
  OBVIOUS
<1>0. mounts \in BoundedSeq(Mount, MaxMounts) /\ holder \in BOOLEAN /\ present \in BOOLEAN
  BY DEF Inv, TypeOK, Mount
<1>1. CASE PlugOrPull
  <2>1. present' \in BOOLEAN /\ mounts' = mounts /\ holder' = holder
    BY <1>1 DEF PlugOrPull
  <2>2. Claimed => ~Mounted' /\ ~holder'
    BY <2>1 DEF Inv, Exclusive, Mounted
  <2> QED BY <1>0, <1>1, <2>1, <2>2, MountsChange DEF PlugOrPull
<1>2. CASE HotplugMounts
  <2>1. PICK s \in Sources, p \in Points :
            /\ OnDrive(s) => present /\ ~Claimed /\ ~holder
            /\ mounts' = Append(mounts, [source |-> s, point |-> p])
    BY <1>2 DEF HotplugMounts
  <2> DEFINE m == [source |-> s, point |-> p]
  <2>2. m \in Mount
    BY DEF Mount
  <2>3. /\ mounts \in Seq(Mount) /\ Len(mounts) \in Nat /\ Len(mounts) < MaxMounts
        /\ ~Mounted => mounts \in Seq(Foreign)
    BY <1>2, MountsAre DEF HotplugMounts, Inv
  <2>4. ~OnDrive(s) => m \in Foreign
    BY <2>2 DEF Foreign
  <2>5. mounts' = Append(mounts, m)
    BY <2>1
  <2> HIDE DEF m
  <2>6. mounts' \in Seq(Mount) /\ Len(mounts') = Len(mounts) + 1
    BY <2>2, <2>3, <2>5, AppendProperties
  <2>7. Len(mounts') <= MaxMounts
    BY <2>3, <2>6, Numbers
  <2>8. mounts' \in BoundedSeq(Mount, MaxMounts)
    BY <2>6, <2>7, Numbers, BoundedIs
  <2>9. ASSUME Claimed PROVE ~Mounted'
    <3>1. ~Mounted /\ ~OnDrive(s)
      BY <2>1, <2>9 DEF Inv, Exclusive
    <3>2. mounts' \in Seq(Foreign)
      BY <2>3, <2>4, <2>5, <3>1, AppendProperties
    <3> QED BY <3>2, ForeignOnly
  <2>10. Claimed => ~holder'
    BY <1>2 DEF HotplugMounts, Inv, Exclusive
  <2> QED BY <1>0, <1>2, <2>8, <2>9, <2>10, MountsChange DEF HotplugMounts
<1>3. CASE HotplugUnmounts
  <2>1. PICK p \in Points : mounts' = umount(p)
    BY <1>3 DEF HotplugUnmounts
  <2>2. mounts' \in BoundedSeq(Mount, MaxMounts) /\ (Claimed => ~Mounted' /\ ~holder)
    BY <2>1, UmountKeeps
  <2> QED BY <1>0, <1>3, <2>2, MountsChange DEF HotplugUnmounts
<1>4. CASE HolderTakesOrLeaves
  <2>1. holder' \in BOOLEAN /\ mounts' = mounts /\ present' = present
    BY <1>4 DEF HolderTakesOrLeaves
  <2>2. Claimed => ~Mounted' /\ ~holder'
    BY <1>4, <2>1 DEF HolderTakesOrLeaves, Inv, Exclusive, Mounted
  <2> QED BY <1>0, <1>4, <2>1, <2>2, MountsChange DEF HolderTakesOrLeaves
<1> QED BY <1>1, <1>2, <1>3, <1>4 DEF Platform

\* A step of the process that changes nothing but where it is, its targets and
\* the mounts, and takes no claim that is not free.
LEMMA ClaimMoves ==
    ASSUME Inv, target' \in Targets, again' \in Targets,
           attempt' \in 0 .. Attempts - 1,
           pc # "tick", pc' \in {"app", "unmount", "open", "busy", "take_off", "fork"},
           mounts' \in BoundedSeq(Mount, MaxMounts), UNCHANGED <<present, holder>>,
           Claimed \/ pc' = "fork" => ~Mounted' /\ ~holder,
           UNCHANGED <<process, writer, lookup, writes>>
    PROVE  Inv'
<1> USE DEF process, writer
<1>1. target'.points \in BoundedSeq(Points, MountsMax)
      /\ again'.points \in BoundedSeq(Points, MountsMax)
  BY DEF Targets
<1>2. attempt' \in 0 .. Attempts /\ attempt' < Attempts
  <2>1. \A n \in 0 .. Attempts - 1 : n \in 0 .. Attempts /\ n < Attempts
    BY Numbers
  <2> QED BY <2>1
<1>0. {child', progress_fd', device_fd', watched'} \subseteq BOOLEAN
  BY DEF Inv, TypeOK
<1>3. TypeOK'
  BY <1>0, <1>1, <1>2 DEF Inv, TypeOK, Mount
<1>4. Claims'
  BY <1>2 DEF Claims
<1>5. Owns'
  BY DEF Inv, Owns
<1>6. Exclusive'
  BY DEF Inv, Exclusive, Claimed
<1>7. Counting'
  BY DEF Inv, Counting
<1> QED BY <1>3, <1>4, <1>5, <1>6, <1>7 DEF Inv

\* find(), unmount() and the claim, up to the fork.
LEMMA ClaimInv ==
    ASSUME Inv,
           \/ Find \/ Unmount \/ UnmountTarget
           \/ ClaimOpen \/ ClaimReadMounts \/ ClaimUnmount \/ ForkFails
    PROVE  Inv'
<1> USE DEF platform, claiming, ClaimReturns
<1>0. /\ target \in Targets /\ again \in Targets /\ NoTarget \in Targets
      /\ attempt \in 0 .. Attempts - 1 /\ 0 \in 0 .. Attempts - 1
      /\ mounts \in BoundedSeq(Mount, MaxMounts) /\ read_mounts \in Targets
  <2>1. attempt \in 0 .. Attempts /\ attempt < Attempts
    BY DEF Inv, TypeOK, Claims
  <2>2. attempt \in 0 .. Attempts - 1 /\ 0 \in 0 .. Attempts - 1
    BY <2>1, Numbers
  <2>3. NoTarget \in Targets
    BY Numbers, EmptyIs DEF NoTarget, Targets
  <2> QED BY <2>2, <2>3, ReadIs DEF Inv, TypeOK, Claims, Mount
<1>1. Claimed => ~Mounted /\ ~holder
  BY DEF Inv, Exclusive
<1>2. mounts' = mounts => (Mounted' <=> Mounted)
  BY DEF Mounted
<1>3. \A t \in Targets : [t EXCEPT !.points = Front(@)] \in Targets
  <2> SUFFICES ASSUME NEW t \in Targets PROVE [t EXCEPT !.points = Front(@)] \in Targets
    OBVIOUS
  <2>1. t.points \in BoundedSeq(Points, MountsMax)
    BY DEF Targets
  <2>2. Front(t.points) \in BoundedSeq(Points, MountsMax)
    BY <2>1, Numbers, FrontIs
  <2> QED BY <2>2 DEF Targets
<1>4. CASE Find
  <2>1. target' \in Targets
    BY <1>0, <1>4 DEF Find
  <2> QED BY <1>0, <1>1, <1>2, <1>4, <2>1, ClaimMoves DEF Find
<1>5. CASE Unmount
  BY <1>0, <1>1, <1>2, <1>5, ClaimMoves DEF Unmount
<1>6. CASE UnmountTarget
  <2>1. /\ pc = "unmount" /\ pc' \in {"app", "unmount"} /\ target' \in Targets
        /\ UNCHANGED <<again, attempt, present, holder, process, writer, lookup, writes>>
    BY <1>0, <1>3, <1>6 DEF UnmountTarget, UnmountOne, UnmountFails
  <2>2. mounts' = umount(Last(target.points)) \/ mounts' = mounts
    BY <1>6 DEF UnmountTarget, UnmountOne, UnmountFails
  <2>3. mounts' \in BoundedSeq(Mount, MaxMounts) /\ (Claimed => ~Mounted' /\ ~holder)
    BY <1>0, <1>1, <1>2, <2>2, UmountKeeps
  <2> QED BY <1>0, <2>1, <2>3, ClaimMoves
<1>7. CASE ClaimOpen
  <2>1. /\ pc = "open" /\ pc' \in {"app", "busy", "fork"}
        /\ again' \in {again, NoTarget} /\ attempt' \in {attempt, 0}
        /\ UNCHANGED <<target, present, holder, mounts, process, writer, lookup, writes>>
    BY <1>7 DEF ClaimOpen
  <2>2. pc' = "fork" => ~Mounted /\ ~holder
    BY <1>7 DEF ClaimOpen
  <2> QED BY <1>0, <1>1, <1>2, <2>1, <2>2, ClaimMoves
<1>8. CASE ClaimReadMounts
  <2>1. /\ pc = "busy" /\ pc' \in {"app", "take_off"}
        /\ again' \in {NoTarget, read_mounts} /\ attempt' \in {attempt, 0}
        /\ UNCHANGED <<target, present, holder, mounts, process, writer, lookup, writes>>
    BY <1>8 DEF ClaimReadMounts
  <2> QED BY <1>0, <1>1, <1>2, <2>1, ClaimMoves
<1>9. CASE ClaimUnmount
  <2>1. /\ pc = "take_off" /\ pc' \in {"app", "take_off", "open"}
        /\ again' \in {NoTarget, [again EXCEPT !.points = Front(@)]}
        /\ UNCHANGED <<target, present, holder, process, writer, lookup, writes>>
    BY <1>9 DEF ClaimUnmount, UnmountOne, UnmountFails
  <2>2. attempt' \in 0 .. Attempts - 1
    <3>1. attempt' \in {attempt, 0} \/ (attempt + 1 # Attempts /\ attempt' = attempt + 1)
      BY <1>9 DEF ClaimUnmount, UnmountOne, UnmountFails
    <3>2. attempt + 1 # Attempts => attempt + 1 \in 0 .. Attempts - 1
      BY <1>0, Numbers
    <3> QED BY <1>0, <3>1, <3>2
  <2>3. mounts' = umount(Last(again.points)) \/ mounts' = mounts
    BY <1>9 DEF ClaimUnmount, UnmountOne, UnmountFails
  <2>4. mounts' \in BoundedSeq(Mount, MaxMounts) /\ (Claimed => ~Mounted' /\ ~holder)
    BY <1>0, <1>1, <1>2, <2>3, UmountKeeps
  <2>5. again' \in Targets
    BY <1>0, <1>3, <2>1
  <2> QED BY <1>0, <2>1, <2>2, <2>4, <2>5, ClaimMoves
<1>10. CASE ForkFails
  BY <1>0, <1>1, <1>2, <1>10, ClaimMoves DEF ForkFails
<1> QED BY <1>4, <1>5, <1>6, <1>7, <1>8, <1>9, <1>10

\* The fork: a write begins, with everything it needs.
LEMMA ForkInv == Inv /\ Fork => Inv'
<1> SUFFICES ASSUME Inv, Fork PROVE Inv'
  OBVIOUS
<1> USE DEF platform, claiming
<1>1. 0 \in 0 .. Chunks
  BY Numbers
<1>2. {child', progress_fd', device_fd', watched'} \subseteq BOOLEAN
  BY DEF Fork
<1>3. pipe' = <<>> /\ pipe' \in BoundedSeq(1 .. Chunks, Chunks) /\ Len(pipe') = 0
  BY Numbers, EmptyIs DEF Fork
<1>4. TypeOK'
  BY <1>1, <1>2, <1>3 DEF Fork, Inv, TypeOK
<1>5. Claims' /\ Owns'
  BY DEF Fork, Inv, Claims, Owns
<1>6. Exclusive'
  <2>1. Claimed
    BY DEF Fork, Claimed
  <2>2. ~Mounted /\ ~holder
    BY <2>1 DEF Inv, Exclusive
  <2>3. Mounted' <=> Mounted
    BY DEF Fork, Mounted
  <2> QED BY <2>2, <2>3 DEF Fork, Exclusive
<1>7. Counting'
  BY <1>1, <1>3 DEF Fork, Counting
<1> QED BY <1>4, <1>5, <1>6, <1>7 DEF Inv

\* The child writes, syncs, reports, ends; other children come and go.
LEMMA ChildInv == Inv /\ Child => Inv'
<1> SUFFICES ASSUME Inv, Child PROVE Inv'
  OBVIOUS
<1> USE DEF platform, claiming, writer, OthersIdle
<1>0. /\ pipe \in Seq(1 .. Chunks) /\ Len(pipe) \in Nat /\ Len(pipe) <= Chunks
      /\ at \in 0 .. Chunks
      /\ Mounted' <=> Mounted
  <2>1. pipe \in Seq(1 .. Chunks) /\ Len(pipe) <= Chunks
    BY Numbers, BoundedIs DEF Inv, TypeOK
  <2>2. mounts' = mounts
    BY DEF Child, ChildWrites, ChildSyncs, ChildReports, ChildEnds, ReapedElsewhere,
           LookupForksOrEnds
  <2> QED BY <2>1, <2>2, LenProperties DEF Mounted, Inv, TypeOK
<1>1. CASE ChildWrites
  <2>1. TypeOK' /\ Claims'
    BY <1>1 DEF ChildWrites, Inv, TypeOK, Claims
  <2>2. Owns' /\ Exclusive'
    BY <1>0, <1>1 DEF ChildWrites, Inv, Owns, Exclusive, Claimed
  <2>3. Counting'
    BY <1>0, <1>1 DEF ChildWrites, Inv, Counting
  <2> QED BY <2>1, <2>2, <2>3 DEF Inv
<1>2. CASE ChildSyncs
  <2>1. at' \in 0 .. Chunks /\ synced' \in 0 .. Chunks /\ at' >= at
    BY <1>0, <1>2, Numbers DEF ChildSyncs, Inv, TypeOK, Counting
  <2>2. TypeOK' /\ Claims'
    BY <1>2, <2>1 DEF ChildSyncs, Inv, TypeOK, Claims
  <2>3. Owns' /\ Exclusive'
    BY <1>0, <1>2 DEF ChildSyncs, Inv, Owns, Exclusive, Claimed
  <2>4. \A i \in 1 .. Len(pipe) : pipe[i] <= at'
    <3> SUFFICES ASSUME NEW i \in 1 .. Len(pipe) PROVE pipe[i] <= at'
      OBVIOUS
    <3>1. pipe[i] \in 1 .. Chunks /\ pipe[i] <= at
      BY <1>0, ElementOfSeq DEF Inv, Counting
    <3> QED BY <1>0, <2>1, <3>1, Numbers
  <2>5. CASE job' = "report"
    <3>1. at' = at + 1 /\ synced' = at' /\ proc' = proc /\ proc = "running" /\ job' = "report"
      BY <1>2, <2>5 DEF ChildSyncs
    <3>2. /\ state = "RUNNING" => at = synced /\ written <= synced
          /\ Len(pipe) <= at
          /\ state = "DONE" => synced = Chunks /\ written = Chunks
      BY DEF Inv, Counting
    <3>3. state # "DONE"
      BY <3>1 DEF Inv, Owns
    <3>4. state = "RUNNING" => written <= synced'
      BY <1>0, <3>1, <3>2, Numbers DEF Inv, TypeOK
    <3>5. Len(pipe) < at'
      BY <1>0, <3>1, <3>2
    <3> QED BY <1>0, <1>2, <2>1, <2>2, <2>3, <2>4, <3>1, <3>3, <3>4, <3>5
            DEF ChildSyncs, Inv, Counting
  <2>6. CASE job' # "report"
    <3>1. UNCHANGED <<job, at, synced>> /\ proc' = "EXIT_SYNC"
      BY <1>2, <2>6 DEF ChildSyncs
    <3>2. Counting'
      BY <1>2, <3>1 DEF ChildSyncs, Inv, Counting
    <3> QED BY <2>2, <2>3, <3>2 DEF Inv
  <2> QED BY <2>5, <2>6
<1>3. CASE ChildReports
  <2>0. Len(pipe) < at /\ at \in 1 .. Chunks /\ pipe' = Append(pipe, at)
    BY <1>0, <1>3, Numbers DEF ChildReports, Inv, Counting
  <2>1. /\ pipe' \in Seq(1 .. Chunks) /\ Len(pipe') = Len(pipe) + 1
        /\ \A i \in 1 .. Len(pipe) : pipe'[i] = pipe[i]
        /\ pipe'[Len(pipe) + 1] = at
    BY <1>0, <2>0, AppendProperties
  <2>2. Len(pipe') <= Chunks /\ Len(pipe') <= at
    BY <1>0, <2>0, <2>1, Numbers
  <2>3. pipe' \in BoundedSeq(1 .. Chunks, Chunks)
    BY <2>1, <2>2, Numbers, BoundedIs
  <2>4. \A i \in 1 .. Len(pipe') : pipe'[i] <= at
    <3> SUFFICES ASSUME NEW i \in 1 .. Len(pipe') PROVE pipe'[i] <= at
      OBVIOUS
    <3>1. CASE i \in 1 .. Len(pipe)
      BY <2>1, <3>1 DEF Inv, Counting
    <3>2. CASE i = Len(pipe) + 1
      BY <2>0, <2>1, <3>2
    <3> QED BY <1>0, <2>1, <3>1, <3>2
  <2>5. TypeOK' /\ Claims'
    BY <1>3, <2>3 DEF ChildReports, Inv, TypeOK, Claims
  <2>6. Owns' /\ Exclusive'
    BY <1>0, <1>3 DEF ChildReports, Inv, Owns, Exclusive, Claimed
  <2>7. Counting'
    BY <1>3, <2>2, <2>4 DEF ChildReports, Inv, Counting
  <2> QED BY <2>5, <2>6, <2>7 DEF Inv
<1>4. CASE ChildEnds
  <2>1. TypeOK' /\ Claims'
    BY <1>4 DEF ChildEnds, Inv, TypeOK, Claims
  <2>2. Owns' /\ Exclusive'
    BY <1>0, <1>4 DEF ChildEnds, Inv, Owns, Exclusive, Claimed
  <2>3. Counting'
    BY <1>4 DEF ChildEnds, Inv, Counting
  <2> QED BY <2>1, <2>2, <2>3 DEF Inv
<1>5. CASE ReapedElsewhere
  <2>1. TypeOK' /\ Claims'
    BY <1>5 DEF ReapedElsewhere, Inv, TypeOK, Claims
  <2>2. Owns' /\ Exclusive'
    BY <1>0, <1>5 DEF ReapedElsewhere, Exited, Inv, Owns, Exclusive, Claimed
  <2>3. Counting'
    BY <1>5 DEF ReapedElsewhere, Inv, Counting
  <2> QED BY <2>1, <2>2, <2>3 DEF Inv
<1>6. CASE LookupForksOrEnds
  <2>0. lookup' \in BOOLEAN
    BY <1>6 DEF LookupForksOrEnds
  <2> USE DEF process
  <2>1. TypeOK' /\ Claims'
    BY <1>6, <2>0 DEF LookupForksOrEnds, Inv, TypeOK, Claims
  <2>2. Owns' /\ Counting'
    BY <1>6 DEF LookupForksOrEnds, Inv, Owns, Counting
  <2>3. Exclusive'
    BY <1>0, <1>6 DEF LookupForksOrEnds, Inv, Exclusive, Claimed
  <2> QED BY <2>1, <2>2, <2>3 DEF Inv
<1> QED BY <1>1, <1>2, <1>3, <1>4, <1>5, <1>6 DEF Child

\* A write is asked for, and time passes.
LEMMA StartInv == Inv /\ (StartWrite \/ ClockAdvances) => Inv'
<1> SUFFICES ASSUME Inv, StartWrite \/ ClockAdvances PROVE Inv'
  OBVIOUS
<1> USE DEF platform, claiming, process
<1>1. idle' \in 0 .. Timeout /\ attempt' \in 0 .. Attempts /\ attempt' < Attempts
      /\ writes' \in 0 .. MaxWrites
  BY Numbers, SMTT(40) DEF StartWrite, ClockAdvances, Inv, TypeOK, Claims
<1>2. pc' \in {pc, "open"} /\ (pc = "tick" => pc' = "tick")
      /\ (pc' = "fork" => pc = "fork") /\ (pc' = "tick" => pc = "tick")
  BY DEF StartWrite, ClockAdvances
<1>3. UNCHANGED <<platform, target, again, process, state, error, child, progress_fd,
                  device_fd, watched, written, lookup>>
  BY DEF StartWrite, ClockAdvances
<1>4. TypeOK' /\ Claims'
  BY <1>1, <1>2, <1>3 DEF Inv, TypeOK, Claims
<1>5. Owns' /\ Counting'
  BY <1>2, <1>3 DEF Inv, Owns, Counting
<1>6. Exclusive'
  <2>1. Mounted' <=> Mounted
    BY <1>3 DEF Mounted
  <2> QED BY <1>2, <1>3, <2>1 DEF Inv, Exclusive, Claimed
<1> QED BY <1>4, <1>5, <1>6 DEF Inv

\* The pipe is drained, by its event or by the tick.
LEMMA DrainInv == Inv /\ (OnProgress \/ WriteTick) => Inv'
<1> SUFFICES ASSUME Inv, OnProgress \/ WriteTick PROVE Inv'
  OBVIOUS
<1> USE DEF platform, claiming
<1>1. /\ written' \in 0 .. Chunks /\ idle' \in 0 .. Timeout
      /\ state = "RUNNING" => written' <= synced
      /\ state # "DONE"
  <2>1. written' = Drained.written /\ idle' = Drained.idle
    BY DEF OnProgress, WriteTick, write_drain
  <2>2. state # "DONE"
    BY DEF OnProgress, WriteTick, Inv, Owns
  <2> QED BY <2>1, <2>2, DrainedIs DEF Inv
<1>2. pipe' = <<>> /\ pipe' \in BoundedSeq(1 .. Chunks, Chunks) /\ Len(pipe') = 0
  BY Numbers, EmptyIs DEF OnProgress, WriteTick, write_drain
<1>3. pc' \in {"app", "tick"} /\ pc = "app" /\ (pc' = "tick" => state = "RUNNING")
  BY DEF OnProgress, WriteTick
<1>4. UNCHANGED <<platform, claiming, proc, job, at, synced, state, error, child,
                  progress_fd, device_fd, watched, lookup, writes>>
  BY DEF OnProgress, WriteTick
<1>5. TypeOK' /\ Claims'
  BY <1>1, <1>2, <1>3, <1>4 DEF Inv, TypeOK, Claims
<1>6. Owns'
  BY <1>3, <1>4 DEF Inv, Owns
<1>7. Exclusive'
  <2>1. Mounted' <=> Mounted
    BY <1>4 DEF Mounted
  <2> QED BY <1>3, <1>4, <2>1 DEF Inv, Exclusive, Claimed
<1>8. Counting'
  <2>1. 0 <= at /\ (job = "report" => 0 < at)
    <3>1. at \in Nat /\ Len(pipe) \in Nat /\ Len(pipe) <= at /\ (job = "report" => Len(pipe) < at)
      <4>1. pipe \in Seq(1 .. Chunks)
        BY Numbers, BoundedIs DEF Inv, TypeOK
      <4>2. Len(pipe) \in Nat
        BY <4>1, LenProperties
      <4> QED BY <4>2, Numbers DEF Inv, TypeOK, Counting
    <3> QED BY <3>1
  <2> QED BY <1>1, <1>2, <1>4, <2>1 DEF Inv, Counting
<1> QED BY <1>5, <1>6, <1>7, <1>8 DEF Inv

\* The child is reaped and the descriptors are closed.
LEMMA EndInv ==
    ASSUME Inv, Reaped, write_release_fd, pc \in {"app", "tick"}, pc' = "app",
           state' \in {"IDLE", "DONE", "FAILED"}, error' \in {"0", "EIO", "ETIMEDOUT", "ECHILD"},
           written' \in 0 .. Chunks, idle' \in 0 .. Timeout, synced' \in 0 .. Chunks,
           state' = "DONE" => synced' = Chunks /\ written' = Chunks,
           UNCHANGED <<platform, claiming, lookup, writes>>
    PROVE  Inv'
<1> USE DEF platform, claiming
<1>1. {child', progress_fd', device_fd', watched'} \subseteq BOOLEAN
  BY DEF Reaped, write_release_fd
<1>2. 0 \in 0 .. Chunks
  BY Numbers
<1>3. pipe' = <<>> /\ pipe' \in BoundedSeq(1 .. Chunks, Chunks) /\ Len(pipe') = 0
  BY Numbers, EmptyIs DEF Reaped
<1>4. TypeOK' /\ Claims'
  BY <1>1, <1>2, <1>3 DEF Reaped, Inv, TypeOK, Claims
<1>5. Owns'
  BY DEF Reaped, write_release_fd, Owns
<1>6. Exclusive'
  <2>1. Mounted' <=> Mounted
    BY DEF Mounted
  <2> QED BY <2>1 DEF Reaped, write_release_fd, Inv, Exclusive, Claimed
<1>7. Counting'
  BY <1>2, <1>3 DEF Reaped, Counting
<1> QED BY <1>4, <1>5, <1>6, <1>7 DEF Inv

\* A write ends, one way or another.
LEMMA TickInv == Inv /\ (TickEnds \/ Cancel) => Inv'
<1> SUFFICES ASSUME Inv, TickEnds \/ Cancel PROVE Inv'
  OBVIOUS
<1>0. 0 \in 0 .. Chunks /\ Chunks \in 0 .. Chunks /\ written \in 0 .. Chunks
      /\ idle \in 0 .. Timeout /\ synced \in 0 .. Chunks
  BY Numbers DEF Inv, TypeOK
<1>1. CASE Cancel
  BY <1>0, <1>1, EndInv DEF Cancel
<1>2. CASE TickEnds /\ TickStalled
  BY <1>0, <1>2, EndInv DEF TickEnds, TickStalled
<1>3. CASE TickEnds /\ proc = "running" /\ UNCHANGED <<process, writer>>
  <2> USE DEF platform, claiming, process, writer
  <2>0. pc = "tick" /\ pc' = "app" /\ UNCHANGED <<platform, claiming, lookup, writes>>
    BY <1>3 DEF TickEnds
  <2>1. TypeOK' /\ Claims'
    BY <1>3, <2>0 DEF Inv, TypeOK, Claims
  <2>2. Owns' /\ Counting'
    BY <1>3, <2>0 DEF Inv, Owns, Counting
  <2>3. Mounted' <=> Mounted
    BY <2>0 DEF Mounted
  <2>4. Exclusive'
    BY <1>3, <2>0, <2>3 DEF Inv, Exclusive, Claimed
  <2> QED BY <2>1, <2>2, <2>4 DEF Inv
<1>4. CASE TickEnds /\ proc \in Exited /\ write_finish(proc)
  <2>1. Drained.written \in 0 .. Chunks /\ Drained.idle \in 0 .. Timeout
    BY DrainedIs DEF Inv
  <2>2. pc = "tick" /\ pc' = "app" /\ UNCHANGED <<platform, claiming, lookup, writes>>
    BY <1>4 DEF TickEnds
  <2>3. CASE proc = "0"
    <3>1. /\ state' = "DONE" /\ error' = "0" /\ written' = Chunks /\ synced' = synced
          /\ Reaped /\ write_release_fd /\ idle' = Drained.idle
      BY <1>4, <2>3 DEF write_finish
    <3>2. synced = Chunks
      BY <2>2, <2>3 DEF Inv, Owns, Counting
    <3> QED BY <1>0, <2>1, <2>2, <3>1, <3>2, EndInv
  <2>4. CASE proc # "0"
    <3>1. /\ state' = "FAILED" /\ error' = "EIO" /\ written' = Drained.written /\ synced' = 0
          /\ Reaped /\ write_release_fd /\ idle' = Drained.idle
      BY <1>4, <2>4 DEF write_finish
    <3> QED BY <1>0, <2>1, <2>2, <3>1, EndInv
  <2> QED BY <2>3, <2>4
<1>5. CASE /\ TickEnds /\ Reaped /\ synced' = 0 /\ write_release_fd
           /\ state' = "FAILED" /\ error' = "ECHILD" /\ UNCHANGED <<written, idle>>
  BY <1>0, <1>5, EndInv DEF TickEnds
<1> QED BY <1>1, <1>2, <1>3, <1>4, <1>5 DEF TickEnds, TickReaps

\* Every step.
LEMMA NextInv == Inv /\ [Next]_vars => Inv'
<1> SUFFICES ASSUME Inv, [Next]_vars PROVE Inv'
  OBVIOUS
<1>1. CASE Platform
  BY <1>1, PlatformInv
<1>2. CASE Child
  BY <1>2, ChildInv
<1>3. CASE Claim \/ Find \/ Unmount
  BY <1>3, ClaimInv, ForkInv DEF Claim
<1>4. CASE StartWrite \/ ClockAdvances
  BY <1>4, StartInv
<1>5. CASE OnProgress \/ WriteTick
  BY <1>5, DrainInv
<1>6. CASE TickEnds \/ Cancel
  BY <1>6, TickInv
<1>7. CASE UNCHANGED vars
  <2> USE DEF vars, platform, claiming, process, writer
  <2>1. TypeOK' /\ Claims'
    BY <1>7 DEF Inv, TypeOK, Claims
  <2>2. Owns' /\ Counting'
    BY <1>7 DEF Inv, Owns, Counting
  <2>3. Exclusive'
    BY <1>7 DEF Inv, Exclusive, Claimed, Mounted
  <2> QED BY <2>1, <2>2, <2>3 DEF Inv
<1> QED BY <1>1, <1>2, <1>3, <1>4, <1>5, <1>6, <1>7 DEF Next

\* The inductive invariant holds of every behaviour of the writer.
THEOREM Invariant == Spec => []Inv
<1>1. Init => Inv
  BY InitInv
<1>2. Inv /\ [Next]_vars => Inv'
  BY NextInv
<1> QED BY <1>1, <1>2, PTL DEF Spec

\* Child, pipe and claim belong to a running write, and from the fork until the
\* child is reaped no filesystem of the drive is mounted and no other program
\* has it, whatever is mounted, pulled or opened meanwhile.
THEOREM OwnsDrive == Spec => []DriveOwned
<1>1. Inv => DriveOwned
  BY DEF Inv, Owns, Exclusive, Claimed, DriveOwned, WriteOwns, NobodyElseWrites
<1> QED BY <1>1, Invariant, PTL

\* The progress shown never runs ahead of what is synced, and 100 means that the
\* whole image is on the drive.
THEOREM ShowsSynced == Spec => []ProgressIsSynced
<1>1. ASSUME Inv PROVE ProgressIsSynced
  <2>1. state \in {"RUNNING", "DONE"} => written <= synced
    BY <1>1, Numbers DEF Inv, Counting, TypeOK
  <2>2. write_progress = 100 <=> state = "DONE"
    <3>1. CASE state = "DONE" \/ written = Chunks
      BY <3>1 DEF write_progress
    <3>2. CASE state # "DONE" /\ written # Chunks
      <4>1. written \in 0 .. Chunks - 1
        BY <1>1, <3>2, Numbers DEF Inv, TypeOK
      <4>2. (written * 100) \div Chunks # 100
        BY <4>1, Numbers, NotYetHundred
      <4> QED BY <3>2, <4>2 DEF write_progress
    <3> QED BY <3>1, <3>2
  <2> QED BY <1>1, <2>1, <2>2 DEF Inv, Counting, ProgressIsSynced
<1> QED BY <1>1, Invariant, PTL
=============================================================================
