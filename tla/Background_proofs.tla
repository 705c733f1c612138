--------------------------- MODULE Background_proofs ---------------------------
(***************************************************************************)
(* Proofs about the work that goes on without a dialogue: the uploads of   *)
(* DiskUploader and the planned stages of ScheduledLifecycle.              *)
(*                                                                         *)
(* DiskUploader: any number of jobs that create or replace the file, of    *)
(* attempts, of deliveries and of failures, as long as an invocation has   *)
(* ended when its generation is old enough to lose its lock (~Late).  Then *)
(* a lock that is taken over belongs to nobody who is still running, so    *)
(* the last version of the lock names the only job that works on the file; *)
(* what that job has read of the marker stays true until it writes its     *)
(* own, and the marker never goes back.                                    *)
(*                                                                         *)
(* ScheduledLifecycle: any masters, dialogues that plan at the same time,  *)
(* hours, commands and failures.  The last stage of a closing runs in the  *)
(* game's own group, the only one that takes the game in and out of the    *)
(* archive; and once the closing has begun, nothing but its completion     *)
(* touches its plan.                                                       *)
(***************************************************************************)
EXTENDS DiskUploader, ScheduledLifecycle, SequenceTheorems, TLAPS

(***************************************************************************)
(* The uploads                                                             *)
(***************************************************************************)
\* An invocation that runs has a generation that is not old.
RunsInTime == \A j \in Jobs : Running(j) => j \notin stale

\* An invocation that may put a lock or a marker has counted its attempt.
Attempting(j) == job[j].phase \in Holding \cup {"acquire", "sweep"}

AttemptsCounted ==
    \A j \in Jobs : Attempting(j) => job[j].delivery >= 1 /\ job[j].attempt \in 1 .. Attempts

\* Who works on the file has the last version of the lock.
HasLock(j) == job[j].phase \in Holding \cup {"sweep"}

LockHeld ==
    \A j \in Jobs :
        /\ HasLock(j) => lock # <<>> /\ Last(lock) = Own(j)
        /\ At(j, "sweep") => job[j].previous.gen # j

\* What an attempt has read of the marker is still so, and older than the job.
MarkerKnown ==
    \A j \in Jobs :
        /\ job[j].phase \in {"fetch", "link", "upload", "publish", "conflict", "mark"} =>
               Current(marks) = job[j].previous /\ job[j].previous.gen < j
        /\ At(j, "prune") => Current(marks) = Own(j) /\ job[j].previous.gen < j
        /\ job[j].phase \in {"skip", "unstage"} => Current(marks).gen >= j

\* The workbook is on the disk before the marker says so.
UploadedBeforeMark ==
    \A j \in Jobs :
        /\ job[j].phase \in {"publish", "mark"} => Served(j)
        /\ At(j, "conflict") => disk # 0 /\ j \notin Overwriting

\* Why a staged workbook is gone, or a result is "success": the marker has
\* reached the generation, or the job was given up before, or nobody is told.
Settled(j) == Current(marks).gen >= j \/ "failure" \in reported[j] \/ j \notin Called

StagedUntilSettled ==
    \A j \in Jobs :
        /\ j \notin staged => Settled(j)
        /\ At(j, "existing") => j \notin staged
        /\ At(j, "release") /\ job[j].error = "none" => Settled(j)
        /\ At(j, "report") => Settled(j)
        /\ At(j, "clean") => Settled(j)
        /\ "success" \in reported[j] => Settled(j)
        /\ j \notin Called => reported[j] = {}

\* The inductive invariant.
IInv ==
    /\ TypeOK /\ RunsInTime /\ AttemptsCounted /\ LockHeld
    /\ MarkerKnown /\ UploadedBeforeMark /\ MarkerIsOnDisk /\ StagedUntilSettled

-----------------------------------------------------------------------------
(***************************************************************************)
(* Versions of an object                                                   *)
(***************************************************************************)

\* Deleting a version leaves versions, and the newest is still the newest.
LEMMA WithoutVersion ==
    ASSUME NEW S, NEW s \in Seq(S), NEW v
    PROVE  /\ Without(s, v) \in Seq(S)
           /\ s # <<>> /\ Last(s) # v => Without(s, v) # <<>> /\ Last(Without(s, v)) = Last(s)
<1>1. CASE ~ \E i \in DOMAIN s : s[i] = v
  BY <1>1 DEF Without
<1>2. CASE \E i \in DOMAIN s : s[i] = v
  <2> DEFINE i == CHOOSE k \in DOMAIN s : s[k] = v
             left == SubSeq(s, 1, i - 1)
             right == SubSeq(s, i + 1, Len(s))
  <2>1. i \in 1 .. Len(s) /\ s[i] = v /\ Len(s) \in Nat
    BY <1>2
  <2>2. Without(s, v) = left \o right
    BY <1>2 DEF Without, RemoveAt
  <2> HIDE DEF i
  <2>3. /\ left \in Seq(S) /\ Len(left) = i - 1
    BY <2>1, SubSeqProperties
  <2>4. /\ right \in Seq(S) /\ Len(right) = Len(s) - i
        /\ \A k \in 1 .. Len(s) - i : right[k] = s[i + k]
    BY <2>1, SubSeqProperties
  <2> HIDE DEF left, right
  <2>5. /\ left \o right \in Seq(S)
        /\ Len(left \o right) = Len(s) - 1
        /\ \A k \in 1 .. Len(s) - 1 :
               (left \o right)[k] = IF k <= i - 1 THEN left[k] ELSE right[k - (i - 1)]
    BY <2>1, <2>3, <2>4, ConcatProperties
  <2>6. ASSUME Last(s) # v
        PROVE  left \o right # <<>> /\ Last(left \o right) = Last(s)
    <3>1. i < Len(s)
      BY <2>1, <2>6 DEF Last
    <3>2. (left \o right)[Len(s) - 1] = right[Len(s) - i]
      <4>1. /\ Len(s) - 1 \in 1 .. Len(s) - 1 /\ ~(Len(s) - 1 <= i - 1)
            /\ (Len(s) - 1) - (i - 1) = Len(s) - i
        BY <2>1, <3>1
      <4> QED
        BY <2>5, <4>1
    <3>3. right[Len(s) - i] = s[Len(s)]
      BY <2>1, <2>4, <3>1
    <3> QED
      BY <2>1, <2>5, <3>1, <3>2, <3>3 DEF Last
  <2> QED
    BY <2>2, <2>5, <2>6
<1> QED
  BY <1>1, <1>2

\* A version that is put is the newest.
LEMMA AppendVersion ==
    ASSUME NEW S, NEW s \in Seq(S), NEW v \in S
    PROVE  /\ Append(s, v) \in Seq(S) /\ Append(s, v) # <<>>
           /\ Last(Append(s, v)) = v
BY AppendProperties DEF Last

\* The last of some versions is one of them.
LEMMA LastVersion ==
    ASSUME NEW S, NEW s \in Seq(S), s # <<>>
    PROVE  Last(s) \in S
BY DEF Last

-----------------------------------------------------------------------------
(***************************************************************************)
(* What the steps do to an invocation                                      *)
(***************************************************************************)

\* The invocation of job j becomes the given one, the others stay.
Becomes(j, phase, delivery, try, previous, error) ==
    /\ job' \in [Jobs -> Invocation]
    /\ job'[j].phase = phase /\ job'[j].delivery = delivery /\ job'[j].attempt = try
    /\ job'[j].previous = previous /\ job'[j].error = error
    /\ \A k \in Jobs \ {j} : job'[k] = job[k]

\* A step to another phase changes nothing else of the invocation.
LEMMA GoToEffect ==
    ASSUME TypeOK, NEW j \in Jobs, NEW p \in Phases, GoTo(j, p)
    PROVE  Becomes(j, p, job[j].delivery, job[j].attempt, job[j].previous, job[j].error)
BY DEF TypeOK, GoTo, Becomes, Invocation

\* After an attempt there is a report, another attempt, or the end of the
\* invocation.
LEMMA EndedEffect ==
    ASSUME TypeOK, AttemptsCounted, NEW j \in Jobs, Attempting(j), NEW e \in {"none", "busy", "failed"},
           job' = [job EXCEPT ![j] = Ended(j, e)]
    PROVE  \E p \in {"report", "acquire", "give_up", "waiting"} :
           \E a \in 1 .. Attempts :
               /\ Becomes(j, p, job[j].delivery, a, job[j].previous, e)
               /\ p = "report" <=> e = "none"
<1>1. job[j] \in Invocation /\ job[j].attempt \in 1 .. Attempts /\ Attempts \in Nat \ {0}
  BY DiskUploaderAssumption DEF TypeOK, AttemptsCounted
<1>2. \E p \in {"report", "acquire", "give_up", "waiting"} : \E a \in 1 .. Attempts :
          /\ Ended(j, e) = [job[j] EXCEPT !.error = e, !.phase = p, !.attempt = a]
          /\ p = "report" <=> e = "none"
  <2>1. CASE e = "none"
    BY <1>1, <2>1 DEF Ended, Invocation
  <2>2. CASE e # "none" /\ job[j].attempt < AttemptsOf(j)
    <3>1. job[j].attempt + 1 \in 1 .. Attempts
      BY <1>1, <2>2 DEF AttemptsOf
    <3> QED
      BY <1>1, <2>2, <3>1 DEF Ended, Invocation
  <2>3. CASE e # "none" /\ ~(job[j].attempt < AttemptsOf(j))
    BY <1>1, <2>3 DEF Ended, Invocation
  <2> QED
    BY <2>1, <2>2, <2>3
<1>3. PICK p \in {"report", "acquire", "give_up", "waiting"}, a \in 1 .. Attempts :
          /\ Ended(j, e) = [job[j] EXCEPT !.error = e, !.phase = p, !.attempt = a]
          /\ p = "report" <=> e = "none"
  BY <1>2
<1> DEFINE r == [job[j] EXCEPT !.error = e, !.phase = p, !.attempt = a]
<1>4. /\ r.phase = p /\ r.attempt = a /\ r.error = e
      /\ r.delivery = job[j].delivery /\ r.previous = job[j].previous
  BY <1>1 DEF Invocation
<1>5. r \in Invocation
  <2>1. p \in Phases /\ a \in 0 .. Attempts
    BY <1>1 DEF Phases
  <2> QED
    BY <1>1, <2>1 DEF Invocation
<1>6. job' = [job EXCEPT ![j] = r]
  BY <1>3
<1> HIDE DEF r
<1>7. job' \in [Jobs -> Invocation] /\ job'[j] = r /\ \A k \in Jobs \ {j} : job'[k] = job[k]
  BY <1>5, <1>6 DEF TypeOK
<1> QED
  BY <1>3, <1>4, <1>7 DEF Becomes

\* What an attempt puts is a version of its job.
LEMMA OwnVersion ==
    ASSUME TypeOK, AttemptsCounted, NEW j \in Jobs, Attempting(j)
    PROVE  Own(j) \in Version /\ Own(j).gen = j
BY DEF TypeOK, AttemptsCounted, Own, Version, Invocation

\* The version that is read, if any, is one of some job; without any its
\* generation is older than that of every job.
LEMMA CurrentVersion ==
    ASSUME NEW s \in Seq(Version)
    PROVE  /\ Current(s) \in Version \cup {NoVersion}
           /\ Current(s).gen \in Nat
           /\ s # <<>> => Current(s) = Last(s) /\ Current(s).gen \in Jobs
           /\ s = <<>> => Current(s).gen = 0
<1>1. CASE s = <<>>
  BY <1>1 DEF Current, NoVersion
<1>2. CASE s # <<>>
  <2>1. Current(s) = Last(s) /\ Current(s) \in Version
    BY <1>2, LastVersion DEF Current
  <2>2. Current(s).gen \in Jobs
    BY <2>1 DEF Version
  <2> QED
    BY <1>2, <2>1, <2>2, DiskUploaderAssumption DEF Jobs
<1> QED
  BY <1>1, <1>2

\* One job at most works on the file.
LEMMA OneHolder ==
    ASSUME IInv, NEW j \in Jobs, NEW k \in Jobs, HasLock(j), HasLock(k)
    PROVE  j = k
BY OwnVersion DEF IInv, LockHeld, HasLock, Attempting

\* A lock may be put only while nobody works on the file.
LEMMA LockIsFree ==
    ASSUME IInv, lock = <<>> \/ MayTakeOver, NEW k \in Jobs
    PROVE  ~HasLock(k)
<1> SUFFICES ASSUME HasLock(k) PROVE FALSE
  OBVIOUS
<1>1. lock # <<>> /\ Last(lock) = Own(k) /\ Own(k).gen = k
  BY OwnVersion DEF IInv, LockHeld, HasLock, Attempting
<1>2. k \in stale
  BY <1>1 DEF MayTakeOver
<1> QED
  BY <1>2 DEF IInv, RunsInTime, Running, HasLock, Holding

-----------------------------------------------------------------------------
(***************************************************************************)
(* Every step preserves the invariant                                      *)
(***************************************************************************)

\* Actions on the lock.
LEMMA AcquireStep ==
    ASSUME IInv, NEW j \in Jobs, Acquire(j)
    PROVE  IInv'
<1> DEFINE p == IF lock = <<>> THEN "generation" ELSE "sweep"
<1>1. Becomes(j, p, job[j].delivery, job[j].attempt, Current(lock), job[j].error)
  <2>1. Current(lock) \in Version \cup {NoVersion} /\ p \in Phases
    BY CurrentVersion DEF IInv, TypeOK, Phases, Holding
  <2> QED
    BY <2>1, ZenonT(30) DEF IInv, TypeOK, Acquire, Becomes, Invocation
<1>2. Own(j) \in Version /\ Own(j).gen = j /\ \A k \in Jobs : Own(k)' = Own(k)
  BY <1>1, OwnVersion DEF IInv, Own, Becomes, Acquire, At, Attempting
<1>3. TypeOK'
  BY <1>1, <1>2, AppendVersion DEF IInv, TypeOK, Acquire, PutLock, Becomes
<1>4. LockHeld'
  <2>1. \A k \in Jobs : ~HasLock(k)
    BY LockIsFree DEF Acquire, PutLock
  <2>2. lock' # <<>> /\ Last(lock') = Own(j)
    BY <1>2, AppendVersion DEF IInv, TypeOK, Acquire, PutLock
  <2>3. p = "sweep" => Current(lock).gen # j
    BY DEF IInv, RunsInTime, Running, Acquire, PutLock, MayTakeOver, At, Current
  <2> QED
    BY <1>1, <1>2, <2>1, <2>2, <2>3 DEF LockHeld, HasLock, At, Becomes, Holding
<1>5. RunsInTime' /\ AttemptsCounted'
  BY <1>1 DEF IInv, RunsInTime, AttemptsCounted, Acquire, Becomes, At, Holding, Attempting, Running
<1>6. MarkerKnown' /\ UploadedBeforeMark'
  BY <1>1, <1>2 DEF IInv, MarkerKnown, UploadedBeforeMark, Acquire, Becomes, At, Served, Current
<1>7. MarkerIsOnDisk' /\ StagedUntilSettled'
  BY <1>1 DEF IInv, MarkerIsOnDisk, StagedUntilSettled, Acquire, Becomes, At, Served, Current, Settled
<1> QED
  BY <1>3, <1>4, <1>5, <1>6, <1>7 DEF IInv

LEMMA SweepStep ==
    ASSUME IInv, NEW j \in Jobs, Sweep(j)
    PROVE  IInv'
<1>1. Becomes(j, "generation", job[j].delivery, job[j].attempt, job[j].previous, job[j].error)
  BY GoToEffect DEF Sweep, IInv, Phases, Holding
<1>2. \A k \in Jobs : Own(k)' = Own(k)
  BY <1>1 DEF Own, Becomes
<1>3. TypeOK'
  BY <1>1, WithoutVersion DEF IInv, TypeOK, Sweep, Becomes
<1>4. LockHeld'
  BY <1>1, <1>2, WithoutVersion, OwnVersion
  DEF IInv, TypeOK, LockHeld, Sweep, Becomes, HasLock, At, Holding, Attempting, Jobs
<1>5. RunsInTime' /\ AttemptsCounted'
  BY <1>1 DEF IInv, RunsInTime, AttemptsCounted, Sweep, Becomes, At, Holding, Attempting, Running
<1>6. MarkerKnown' /\ UploadedBeforeMark'
  BY <1>1, <1>2 DEF IInv, MarkerKnown, UploadedBeforeMark, Sweep, Becomes, At, Served, Current
<1>7. MarkerIsOnDisk' /\ StagedUntilSettled'
  BY <1>1 DEF IInv, MarkerIsOnDisk, StagedUntilSettled, Sweep, Becomes, At, Served, Current, Settled
<1> QED
  BY <1>3, <1>4, <1>5, <1>6, <1>7 DEF IInv

\* An attempt that ends without a lock, or leaves one that nobody will release.
LEMMA EndedStep ==
    ASSUME IInv, NEW j \in Jobs, Busy(j) \/ AcquireFails(j)
    PROVE  IInv'
<1>1. job[j].phase \in {"acquire", "sweep"}
  BY DEF Busy, AcquireFails, At
<1>2. PICK e \in {"busy", "failed"} : job' = [job EXCEPT ![j] = Ended(j, e)]
  BY DEF Busy, AcquireFails
<1>3. PICK p \in {"acquire", "give_up", "waiting"}, a \in 1 .. Attempts :
          Becomes(j, p, job[j].delivery, a, job[j].previous, e)
  BY <1>1, <1>2, EndedEffect DEF IInv, Attempting
<1>4. /\ UNCHANGED <<marks, staged, disk, shared, stale, reported>>
      /\ failures' \in 0 .. MaxFailures
  BY DiskUploaderAssumption DEF IInv, TypeOK, Busy, AcquireFails, MayFail, CountFailure
<1>5. ((lock = <<>> \/ MayTakeOver) /\ lock' = Append(lock, Own(j))) \/ lock' = lock
  BY DEF Busy, AcquireFails, PutLock
<1>6. Own(j) \in Version /\ \A k \in Jobs \ {j} : Own(k)' = Own(k)
  BY <1>1, <1>3, OwnVersion DEF IInv, Own, Becomes, Attempting
<1>7. TypeOK'
  <2>1. lock' \in Seq(Version)
    BY <1>5, <1>6, AppendVersion DEF IInv, TypeOK
  <2> QED
    BY <1>3, <1>4, <2>1 DEF IInv, TypeOK, Becomes
<1>8. LockHeld'
  BY <1>3, <1>5, <1>6, LockIsFree DEF IInv, LockHeld, HasLock, At, Becomes, Holding
<1>9. RunsInTime' /\ AttemptsCounted'
  BY <1>1, <1>3, <1>4 DEF IInv, RunsInTime, AttemptsCounted, Becomes, Holding, Attempting, Running
<1>10. MarkerKnown' /\ UploadedBeforeMark'
  BY <1>3, <1>4, <1>6 DEF IInv, MarkerKnown, UploadedBeforeMark, Becomes, At, Served, Current
<1>11. MarkerIsOnDisk' /\ StagedUntilSettled'
  BY <1>3, <1>4 DEF IInv, MarkerIsOnDisk, StagedUntilSettled, Becomes, At, Served, Current, Settled
<1> QED
  BY <1>7, <1>8, <1>9, <1>10, <1>11 DEF IInv

LEMMA ReleaseStep ==
    ASSUME IInv, NEW j \in Jobs, Release(j)
    PROVE  IInv'
<1>1. Attempting(j) /\ HasLock(j) /\ job[j].phase = "release" /\ job[j].error \in {"none", "busy", "failed"}
  BY DEF IInv, TypeOK, Invocation, Release, At, Attempting, HasLock, Holding
<1>2. PICK p \in {"report", "acquire", "give_up", "waiting"}, a \in 1 .. Attempts :
          /\ Becomes(j, p, job[j].delivery, a, job[j].previous, job[j].error)
          /\ p = "report" <=> job[j].error = "none"
  BY <1>1, EndedEffect DEF IInv, Release
<1>3. /\ UNCHANGED <<marks, staged, disk, shared, stale, reported>>
      /\ failures' \in 0 .. MaxFailures
      /\ lock' = Without(lock, Own(j)) \/ lock' = lock
  BY DiskUploaderAssumption DEF IInv, TypeOK, Release, MayFail, CountFailure
<1>4. \A k \in Jobs \ {j} : ~HasLock(k) /\ Own(k)' = Own(k)
  BY <1>1, <1>2, OneHolder DEF Own, Becomes
<1>5. TypeOK'
  BY <1>2, <1>3, WithoutVersion DEF IInv, TypeOK, Becomes
<1>6. LockHeld'
  BY <1>2, <1>4 DEF LockHeld, HasLock, At, Becomes, Holding
<1>7. RunsInTime' /\ AttemptsCounted'
  BY <1>1, <1>2, <1>3 DEF IInv, RunsInTime, AttemptsCounted, Becomes, Holding, Attempting, Running
<1>8. MarkerKnown' /\ UploadedBeforeMark'
  BY <1>2, <1>3, <1>4 DEF IInv, MarkerKnown, UploadedBeforeMark, Becomes, At, Served, Current
<1>9. MarkerIsOnDisk' /\ StagedUntilSettled'
  BY <1>1, <1>2, <1>3 DEF IInv, MarkerIsOnDisk, StagedUntilSettled, Becomes, At, Served, Current, Settled
<1> QED
  BY <1>5, <1>6, <1>7, <1>8, <1>9 DEF IInv

\* An invocation that does not work on the file disturbs nobody.
LEMMA OutsideStep ==
    ASSUME IInv, NEW j \in Jobs, TypeOK',
           \A k \in Jobs \ {j} : job'[k] = job[k],
           job'[j].phase \in {"acquire", "give_up", "waiting"},
           job'[j].phase = "acquire" => job'[j].delivery >= 1 /\ job'[j].attempt \in 1 .. Attempts,
           job'[j].phase = "waiting" \/ j \notin stale,
           UNCHANGED <<lock, marks, staged, disk, shared, stale, reported>>
    PROVE  IInv'
<1>1. \A k \in Jobs \ {j} : Own(k)' = Own(k)
  BY DEF Own
<1>2. LockHeld'
  BY <1>1 DEF IInv, LockHeld, HasLock, At, Holding
<1>3. RunsInTime' /\ AttemptsCounted'
  BY DEF IInv, RunsInTime, AttemptsCounted, Holding, Attempting, Running
<1>4. MarkerKnown' /\ UploadedBeforeMark'
  BY <1>1 DEF IInv, MarkerKnown, UploadedBeforeMark, At, Served, Current
<1>5. MarkerIsOnDisk' /\ StagedUntilSettled'
  BY DEF IInv, MarkerIsOnDisk, StagedUntilSettled, At, Served, Current, Settled
<1> QED
  BY <1>2, <1>3, <1>4, <1>5 DEF IInv

\* The platform begins an invocation.
LEMMA BeginStep ==
    ASSUME ~Late, IInv, NEW j \in Jobs, Deliver(j) \/ NoToken(j)
    PROVE  IInv'
<1>1. job[j] \in Invocation /\ job \in [Jobs -> Invocation] /\ failures' \in 0 .. MaxFailures
  BY DiskUploaderAssumption DEF IInv, TypeOK, Deliver, NoToken, MayFail, CountFailure
<1>2. CASE Deliver(j)
  <2>1. Becomes(j, "acquire", job[j].delivery + 1, 1, job[j].previous, "none")
    BY <1>1, <1>2, DiskUploaderAssumption DEF Deliver, Becomes, Invocation, Phases
  <2>2. job[j].delivery + 1 >= 1 /\ 1 \in 1 .. Attempts /\ j \notin stale
    BY <1>1, <1>2, DiskUploaderAssumption DEF Deliver, Invocation
  <2>3. TypeOK' /\ UNCHANGED <<lock, marks, staged, disk, shared, stale, reported>>
    BY <1>1, <1>2, <2>1 DEF IInv, TypeOK, Deliver, Becomes
  <2> QED
    BY <2>1, <2>2, <2>3, OutsideStep DEF Becomes
<1>3. CASE NoToken(j)
  <2>1. PICK p \in {"give_up", "waiting"} :
            Becomes(j, p, job[j].delivery + 1, job[j].attempt, job[j].previous, job[j].error)
    BY <1>1, <1>3, DiskUploaderAssumption DEF NoToken, Becomes, Invocation, Phases
  <2>2. /\ TypeOK' /\ UNCHANGED <<lock, marks, staged, disk, shared, stale, reported>>
        /\ j \notin stale
    BY <1>1, <1>3, <2>1 DEF IInv, TypeOK, NoToken, Becomes
  <2> QED
    BY <2>1, <2>2, OutsideStep DEF Becomes
<1> QED
  BY <1>2, <1>3

\* The platform breaks an invocation off, or leaves it for another delivery.
LEMMA BreakStep ==
    ASSUME IInv, NEW j \in Jobs, Killed(j) \/ TellingFails(j)
    PROVE  IInv'
<1>1. Becomes(j, "waiting", job[j].delivery, job[j].attempt, job[j].previous, job[j].error)
  BY GoToEffect DEF IInv, Killed, TellingFails, Phases
<1>2. TypeOK' /\ UNCHANGED <<lock, marks, staged, disk, shared, stale, reported>>
  BY <1>1, DiskUploaderAssumption DEF IInv, TypeOK, Killed, TellingFails, MayFail, CountFailure, Becomes
<1> QED
  BY <1>1, <1>2, OutsideStep DEF Becomes

\* Only generations of which no invocation runs become old.
LEMMA AgeStep ==
    ASSUME ~Late, IInv, NEW j \in Jobs, Age(j)
    PROVE  IInv'
<1>1. UNCHANGED <<lock, marks, staged, disk, shared, job, reported, failures>>
  BY DEF Age
<1>2. TypeOK' /\ RunsInTime'
  BY <1>1 DEF IInv, TypeOK, RunsInTime, Running, Age
<1>3. AttemptsCounted' /\ LockHeld'
  BY <1>1 DEF IInv, AttemptsCounted, Attempting, LockHeld, HasLock, At, Own
<1>4. MarkerKnown' /\ UploadedBeforeMark' /\ MarkerIsOnDisk' /\ StagedUntilSettled'
  BY <1>1 DEF IInv, MarkerKnown, UploadedBeforeMark, MarkerIsOnDisk, StagedUntilSettled, At, Own, Served,
     Settled, Current
<1> QED
  BY <1>2, <1>3, <1>4 DEF IInv

\* The marker is read once the lock is held; by then it is of the last job that
\* has written it.
LEMMA ReadStep ==
    ASSUME IInv, NEW j \in Jobs, ReadGeneration(j)
    PROVE  IInv'
<1> DEFINE p == IF Superseded(j, Current(marks)) THEN "skip" ELSE "fetch"
<1>1. Becomes(j, p, job[j].delivery, job[j].attempt, Current(marks), job[j].error)
  <2>1. Current(marks) \in Version \cup {NoVersion} /\ p \in Phases
    BY CurrentVersion DEF IInv, TypeOK, Phases, Holding
  <2> QED
    BY <2>1, ZenonT(30) DEF IInv, TypeOK, ReadGeneration, Becomes, Invocation
<1>2. \A k \in Jobs : Own(k)' = Own(k)
  BY <1>1 DEF Own, Becomes
<1>3. TypeOK'
  BY <1>1 DEF IInv, TypeOK, ReadGeneration, Becomes
<1>4. LockHeld'
  BY <1>1, <1>2 DEF IInv, LockHeld, HasLock, At, Becomes, Holding, ReadGeneration
<1>5. RunsInTime' /\ AttemptsCounted'
  BY <1>1 DEF IInv, RunsInTime, AttemptsCounted, ReadGeneration, Becomes, At, Holding, Attempting, Running
<1>6. MarkerKnown' /\ UploadedBeforeMark'
  <2>1. IF p = "skip" THEN Current(marks).gen >= j ELSE Current(marks).gen < j
    BY CurrentVersion, DiskUploaderAssumption DEF IInv, TypeOK, Superseded, Jobs
  <2> QED
    BY <1>1, <1>2, <2>1 DEF IInv, MarkerKnown, UploadedBeforeMark, ReadGeneration, Becomes, At, Served, Current
<1>7. MarkerIsOnDisk' /\ StagedUntilSettled'
  BY <1>1 DEF IInv, MarkerIsOnDisk, StagedUntilSettled, ReadGeneration, Becomes, At, Served, Current, Settled
<1> QED
  BY <1>3, <1>4, <1>5, <1>6, <1>7 DEF IInv

\* Steps that look at what is there; a superseded job deletes its workbook.
LEMMA LookStep ==
    ASSUME IInv, NEW j \in Jobs, Skip(j) \/ Fetch(j) \/ Link(j) \/ RequestFails(j)
    PROVE  IInv'
<1>1. job[j].phase \in Holding
  BY DEF Skip, Fetch, Link, RequestFails, At, Holding
<1>2. PICK p \in {"existing", "link", "conflict", "upload", "release"}, e \in {job[j].error, "failed"} :
          /\ Becomes(j, p, job[j].delivery, job[j].attempt, job[j].previous, e)
          /\ p = "existing" => j \notin staged'
          /\ p = "link" => job[j].phase = "fetch"
          /\ p \in {"conflict", "upload"} => job[j].phase = "link"
          /\ p = "conflict" => Refused(j)
          /\ p = "release" => e = "failed"
          /\ staged' = staged \/ (staged' = staged \ {j} /\ job[j].phase = "skip")
  <2>1. CASE RequestFails(j)
    <3>1. Becomes(j, "release", job[j].delivery, job[j].attempt, job[j].previous, "failed")
      BY <2>1, ZenonT(30) DEF IInv, TypeOK, RequestFails, Becomes, Invocation, Phases, Holding
    <3> QED
      BY <2>1, <3>1 DEF RequestFails
  <2>2. CASE Skip(j)
    BY <2>2, GoToEffect DEF IInv, Skip, At, Phases, Holding
  <2>3. CASE Fetch(j)
    BY <2>3, GoToEffect DEF IInv, Fetch, At, Phases, Holding
  <2>4. CASE Link(j)
    BY <2>4, GoToEffect DEF IInv, Link, At, Phases, Holding
  <2> QED
    BY <2>1, <2>2, <2>3, <2>4
<1>3. /\ UNCHANGED <<lock, marks, disk, shared, stale, reported>>
      /\ failures' \in 0 .. MaxFailures
  BY DiskUploaderAssumption DEF IInv, TypeOK, Skip, Fetch, Link, RequestFails, MayFail, CountFailure
<1>4. \A k \in Jobs : Own(k)' = Own(k)
  BY <1>2 DEF Own, Becomes
<1>5. TypeOK'
  BY <1>2, <1>3 DEF IInv, TypeOK, Becomes
<1>6. LockHeld'
  BY <1>1, <1>2, <1>3, <1>4 DEF IInv, LockHeld, HasLock, At, Becomes, Holding
<1>7. RunsInTime' /\ AttemptsCounted'
  BY <1>1, <1>2, <1>3 DEF IInv, RunsInTime, AttemptsCounted, Becomes, Holding, Attempting, Running
<1>8. MarkerKnown' /\ UploadedBeforeMark'
  BY <1>2, <1>3, <1>4 DEF IInv, MarkerKnown, UploadedBeforeMark, Becomes, At, Served, Current, Refused
<1>9. MarkerIsOnDisk' /\ StagedUntilSettled'
  <2>1. job[j].phase = "skip" => Settled(j)
    BY DEF IInv, MarkerKnown, Settled
  <2>2. \A k \in Jobs : Settled(k)' <=> Settled(k)
    BY <1>3 DEF Settled, Current
  <2> QED
    BY <1>2, <1>3, <2>1, <2>2 DEF IInv, MarkerIsOnDisk, StagedUntilSettled, Becomes, At, Served, Current
<1> QED
  BY <1>5, <1>6, <1>7, <1>8, <1>9 DEF IInv

\* A result for a workbook that was uploaded before.
LEMMA ExistingStep ==
    ASSUME IInv, NEW j \in Jobs, Existing(j)
    PROVE  IInv'
<1>1. PICK e \in {"none", "failed"} :
          Becomes(j, "release", job[j].delivery, job[j].attempt, job[j].previous, e)
  BY ZenonT(30) DEF IInv, TypeOK, Existing, Becomes, Invocation, Phases, Holding
<1>2. /\ job[j].phase = "existing" /\ shared' \in BOOLEAN
      /\ UNCHANGED <<lock, marks, staged, disk, stale, reported, failures>>
  BY DEF Existing, At
<1>3. \A k \in Jobs : Own(k)' = Own(k)
  BY <1>1 DEF Own, Becomes
<1>4. TypeOK'
  BY <1>1, <1>2 DEF IInv, TypeOK, Becomes
<1>5. LockHeld' /\ RunsInTime' /\ AttemptsCounted'
  BY <1>1, <1>2, <1>3
  DEF IInv, LockHeld, HasLock, At, Becomes, Holding, RunsInTime, AttemptsCounted, Attempting, Running
<1>6. MarkerKnown' /\ UploadedBeforeMark'
  BY <1>1, <1>2, <1>3 DEF IInv, MarkerKnown, UploadedBeforeMark, Becomes, At, Served, Current
<1>7. MarkerIsOnDisk' /\ StagedUntilSettled'
  BY <1>1, <1>2 DEF IInv, MarkerIsOnDisk, StagedUntilSettled, Becomes, At, Served, Current, Settled
<1> QED
  BY <1>4, <1>5, <1>6, <1>7 DEF IInv

\* The file gets a workbook newer than the marker.
LEMMA UploadStep ==
    ASSUME IInv, NEW j \in Jobs, Upload(j)
    PROVE  IInv'
<1>1. Becomes(j, "publish", job[j].delivery, job[j].attempt, job[j].previous, job[j].error)
  BY GoToEffect DEF Upload, IInv, Phases, Holding
<1>2. /\ job[j].phase = "upload" /\ HasLock(j) /\ disk' = j
      /\ UNCHANGED <<lock, marks, staged, shared, stale, reported, failures>>
  BY DEF Upload, At, HasLock, Holding
<1>3. \A k \in Jobs : Own(k)' = Own(k)
  BY <1>1 DEF Own, Becomes
<1>4. \A k \in Jobs \ {j} : ~HasLock(k)
  BY <1>2, OneHolder
<1>5. TypeOK'
  BY <1>1, <1>2 DEF IInv, TypeOK, Becomes
<1>6. LockHeld' /\ RunsInTime' /\ AttemptsCounted'
  BY <1>1, <1>2, <1>3
  DEF IInv, LockHeld, HasLock, At, Becomes, Holding, RunsInTime, AttemptsCounted, Attempting, Running
<1>7. \A i \in Jobs : i <= j => Served(i)'
  BY <1>2, DiskUploaderAssumption DEF Served, Jobs
<1>8. MarkerKnown' /\ UploadedBeforeMark'
  <2>1. j <= j
    BY DiskUploaderAssumption DEF Jobs
  <2>2. \A k \in Jobs \ {j} : job'[k].phase \notin Holding
    BY <1>1, <1>4 DEF HasLock, Becomes
  <2>3. MarkerKnown'
    BY <1>1, <1>2, <1>3, <2>2
    DEF IInv, MarkerKnown, Becomes, At, Current, Holding
  <2>4. UploadedBeforeMark'
    BY <1>1, <1>2, <1>3, <1>7, <2>1, <2>2
    DEF IInv, UploadedBeforeMark, Becomes, At, Holding
  <2> QED
    BY <2>3, <2>4
<1>9. MarkerIsOnDisk' /\ StagedUntilSettled'
  <2>1. marks # <<>> => Current(marks).gen \in Jobs /\ Current(marks).gen <= j
    <3>1. Current(marks).gen < j
      BY <1>2 DEF IInv, MarkerKnown
    <3>2. marks \in Seq(Version)
      BY DEF IInv, TypeOK
    <3>3. marks # <<>> => Current(marks).gen \in Jobs
      BY <3>2, CurrentVersion
    <3> QED
      BY <3>1, <3>3, DiskUploaderAssumption DEF Jobs
  <2>2. Current(marks)' = Current(marks)
    BY <1>2 DEF Current
  <2>3. MarkerIsOnDisk'
    BY <1>2, <1>7, <2>1, <2>2 DEF MarkerIsOnDisk
  <2>4. StagedUntilSettled'
    BY <1>1, <1>2 DEF IInv, StagedUntilSettled, Becomes, At, Current, Settled
  <2> QED
    BY <2>3, <2>4
<1> QED
  BY <1>5, <1>6, <1>8, <1>9 DEF IInv

LEMMA PublishStep ==
    ASSUME IInv, NEW j \in Jobs, Publish(j)
    PROVE  IInv'
<1>1. Becomes(j, "mark", job[j].delivery, job[j].attempt, job[j].previous, job[j].error)
  BY GoToEffect DEF Publish, IInv, Phases, Holding
<1>2. /\ job[j].phase \in {"publish", "conflict"} /\ shared' \in BOOLEAN
      /\ UNCHANGED <<lock, marks, staged, disk, stale, reported, failures>>
  BY DEF Publish, At
<1>3. \A k \in Jobs : Own(k)' = Own(k)
  BY <1>1 DEF Own, Becomes
<1>4. TypeOK'
  BY <1>1, <1>2 DEF IInv, TypeOK, Becomes
<1>5. LockHeld' /\ RunsInTime' /\ AttemptsCounted'
  BY <1>1, <1>2, <1>3
  DEF IInv, LockHeld, HasLock, At, Becomes, Holding, RunsInTime, AttemptsCounted, Attempting, Running
<1>6. MarkerKnown' /\ UploadedBeforeMark'
  <2>1. Served(j)
    BY <1>2, DiskUploaderAssumption DEF IInv, UploadedBeforeMark, At, Served, Jobs
  <2> QED
    BY <1>1, <1>2, <1>3, <2>1 DEF IInv, MarkerKnown, UploadedBeforeMark, Becomes, At, Served, Current
<1>7. MarkerIsOnDisk' /\ StagedUntilSettled'
  BY <1>1, <1>2 DEF IInv, MarkerIsOnDisk, StagedUntilSettled, Becomes, At, Served, Current, Settled
<1> QED
  BY <1>4, <1>5, <1>6, <1>7 DEF IInv

\* The marker moves forward, to a generation that is on the disk.
LEMMA MarkStep ==
    ASSUME IInv, NEW j \in Jobs, Mark(j)
    PROVE  IInv'
<1>1. Becomes(j, "prune", job[j].delivery, job[j].attempt, job[j].previous, job[j].error)
  BY GoToEffect DEF Mark, IInv, Phases, Holding
<1>2. /\ job[j].phase = "mark" /\ HasLock(j) /\ Attempting(j) /\ marks' = Append(marks, Own(j))
      /\ UNCHANGED <<lock, staged, disk, shared, stale, reported, failures>>
  BY DEF Mark, At, HasLock, Attempting, Holding
<1>3. Own(j) \in Version /\ Own(j).gen = j /\ \A k \in Jobs : Own(k)' = Own(k)
  BY <1>1, <1>2, OwnVersion DEF IInv, Own, Becomes
<1>4. \A k \in Jobs \ {j} : ~HasLock(k)
  BY <1>2, OneHolder
<1>5. marks' \in Seq(Version) /\ marks' # <<>> /\ Current(marks)' = Own(j)
  BY <1>2, <1>3, AppendVersion DEF IInv, TypeOK, Current
<1>6. TypeOK'
  BY <1>1, <1>2, <1>5 DEF IInv, TypeOK, Becomes
<1>7. LockHeld' /\ RunsInTime' /\ AttemptsCounted'
  BY <1>1, <1>2, <1>3
  DEF IInv, LockHeld, HasLock, At, Becomes, Holding, RunsInTime, AttemptsCounted, Attempting, Running
<1>8. MarkerKnown' /\ UploadedBeforeMark'
  <2>1. \A k \in Jobs \ {j} : job'[k].phase \notin Holding
    BY <1>1, <1>4 DEF HasLock, Becomes
  <2> QED
    BY <1>1, <1>2, <1>3, <1>5, <2>1 DEF IInv, MarkerKnown, UploadedBeforeMark, Becomes, At, Holding
<1>9. MarkerIsOnDisk' /\ StagedUntilSettled'
  <2>1. Current(marks).gen \in Nat /\ Current(marks).gen < j /\ Served(j)
    BY <1>2, CurrentVersion DEF IInv, TypeOK, MarkerKnown, UploadedBeforeMark
  <2>2. MarkerIsOnDisk'
    BY <1>2, <1>3, <1>5, <2>1 DEF MarkerIsOnDisk, Served
  <2>3. \A k \in Jobs : Settled(k) => Settled(k)'
    BY <1>2, <1>3, <1>5, <2>1, DiskUploaderAssumption DEF Settled, Jobs
  <2>4. StagedUntilSettled'
    BY <1>1, <1>2, <2>3 DEF IInv, StagedUntilSettled, Becomes, At
  <2> QED
    BY <2>2, <2>4
<1> QED
  BY <1>6, <1>7, <1>8, <1>9 DEF IInv

\* Pruning leaves the newest version of the marker.
LEMMA PruneStep ==
    ASSUME IInv, NEW j \in Jobs, Prune(j)
    PROVE  IInv'
<1>1. Becomes(j, "unstage", job[j].delivery, job[j].attempt, job[j].previous, job[j].error)
  BY GoToEffect DEF Prune, IInv, Phases, Holding
<1>2. /\ job[j].phase = "prune" /\ HasLock(j) /\ Attempting(j)
      /\ marks' = Without(marks, job[j].previous) \/ marks' = marks
      /\ UNCHANGED <<lock, staged, disk, shared, stale, reported>> /\ failures' \in 0 .. MaxFailures
  BY DiskUploaderAssumption
  DEF IInv, TypeOK, Prune, At, HasLock, Attempting, Holding, MayFail, CountFailure
<1>3. Own(j) \in Version /\ Own(j).gen = j /\ \A k \in Jobs : Own(k)' = Own(k)
  BY <1>1, <1>2, OwnVersion DEF IInv, Own, Becomes
<1>4. \A k \in Jobs \ {j} : ~HasLock(k)
  BY <1>2, OneHolder
<1>5. Current(marks) = Own(j) /\ job[j].previous.gen < j /\ marks \in Seq(Version)
  BY <1>2 DEF IInv, TypeOK, MarkerKnown, At
<1>6. marks # <<>> /\ Last(marks) = Own(j) /\ job[j].previous # Own(j)
  BY <1>3, <1>5, CurrentVersion, DiskUploaderAssumption DEF Jobs
<1>7. marks' \in Seq(Version) /\ marks' # <<>> /\ Current(marks)' = Own(j)
  BY <1>2, <1>5, <1>6, WithoutVersion DEF Current
<1>8. TypeOK'
  BY <1>1, <1>2, <1>7 DEF IInv, TypeOK, Becomes
<1>9. LockHeld' /\ RunsInTime' /\ AttemptsCounted'
  BY <1>1, <1>2, <1>3
  DEF IInv, LockHeld, HasLock, At, Becomes, Holding, RunsInTime, AttemptsCounted, Attempting, Running
<1>10. MarkerKnown' /\ UploadedBeforeMark'
  <2>1. \A k \in Jobs \ {j} : job'[k].phase \notin Holding
    BY <1>1, <1>4 DEF HasLock, Becomes
  <2>2. j >= j
    BY DiskUploaderAssumption DEF Jobs
  <2> QED
    BY <1>1, <1>3, <1>7, <2>1, <2>2 DEF MarkerKnown, UploadedBeforeMark, Becomes, At, Holding
<1>11. MarkerIsOnDisk' /\ StagedUntilSettled'
  BY <1>1, <1>2, <1>5, <1>6, <1>7
  DEF IInv, MarkerIsOnDisk, StagedUntilSettled, Becomes, At, Served, Settled
<1> QED
  BY <1>8, <1>9, <1>10, <1>11 DEF IInv

\* The staged workbook is deleted once the marker says that it is uploaded.
LEMMA UnstageStep ==
    ASSUME IInv, NEW j \in Jobs, Unstage(j)
    PROVE  IInv'
<1>1. Becomes(j, "release", job[j].delivery, job[j].attempt, job[j].previous, "none")
  BY ZenonT(30) DEF IInv, TypeOK, Unstage, Becomes, Invocation, Phases, Holding
<1>2. /\ job[j].phase = "unstage" /\ staged' = staged \ {j}
      /\ UNCHANGED <<lock, marks, disk, shared, stale, reported, failures>>
  BY DEF Unstage, At
<1>3. \A k \in Jobs : Own(k)' = Own(k)
  BY <1>1 DEF Own, Becomes
<1>4. TypeOK'
  BY <1>1, <1>2 DEF IInv, TypeOK, Becomes
<1>5. LockHeld' /\ RunsInTime' /\ AttemptsCounted'
  BY <1>1, <1>2, <1>3
  DEF IInv, LockHeld, HasLock, At, Becomes, Holding, RunsInTime, AttemptsCounted, Attempting, Running
<1>6. MarkerKnown' /\ UploadedBeforeMark'
  BY <1>1, <1>2, <1>3 DEF IInv, MarkerKnown, UploadedBeforeMark, Becomes, At, Served, Current
<1>7. MarkerIsOnDisk' /\ StagedUntilSettled'
  <2>1. Settled(j)
    BY <1>2 DEF IInv, MarkerKnown, Settled
  <2> QED
    BY <1>1, <1>2, <2>1 DEF IInv, MarkerIsOnDisk, StagedUntilSettled, Becomes, At, Served, Current, Settled
<1> QED
  BY <1>4, <1>5, <1>6, <1>7 DEF IInv

\* The end of a job: the result is told before anything is cleaned up.
LEMMA FinishStep ==
    ASSUME IInv, NEW j \in Jobs, Report(j) \/ GiveUp(j) \/ Clean(j)
    PROVE  IInv'
<1>1. PICK p \in {"done", "clean"} :
          Becomes(j, p, job[j].delivery, job[j].attempt, job[j].previous, job[j].error)
  BY GoToEffect DEF IInv, Report, GiveUp, Clean, Phases
<1>2. /\ job[j].phase \in {"report", "give_up", "clean"}
      /\ UNCHANGED <<lock, marks, disk, shared, stale>> /\ failures' \in 0 .. MaxFailures
  BY DiskUploaderAssumption DEF IInv, TypeOK, Report, GiveUp, Clean, At, MayFail, CountFailure
<1>3. \A k \in Jobs : Own(k)' = Own(k)
  BY <1>1 DEF Own, Becomes
<1>4. TypeOK'
  <2>1. reported' \in [Jobs -> SUBSET {"success", "failure"}] /\ staged' \subseteq Jobs
    BY DEF IInv, TypeOK, Report, GiveUp, Clean, Tell
  <2> QED
    BY <1>1, <1>2, <2>1 DEF IInv, TypeOK, Becomes
<1>5. LockHeld'
  BY <1>1, <1>2, <1>3 DEF IInv, LockHeld, HasLock, At, Becomes, Holding
<1>6. RunsInTime'
  BY <1>1, <1>2 DEF IInv, RunsInTime, Becomes, Running
<1>7. AttemptsCounted'
  BY <1>1, <1>2 DEF IInv, AttemptsCounted, Attempting, Becomes, Holding
<1>8. MarkerKnown' /\ UploadedBeforeMark' /\ MarkerIsOnDisk'
  BY <1>1, <1>2, <1>3 DEF IInv, MarkerKnown, UploadedBeforeMark, MarkerIsOnDisk, Becomes, At, Served, Current
<1>9. StagedUntilSettled'
  <2>1. reported \in [Jobs -> SUBSET {"success", "failure"}]
    BY DEF IInv, TypeOK
  <2>2. Current(marks)' = Current(marks)
    BY <1>2 DEF Current
  <2>3. CASE Report(j)
    <3>1. Becomes(j, "done", job[j].delivery, job[j].attempt, job[j].previous, job[j].error)
      BY <2>3, GoToEffect DEF IInv, Report, Phases
    <3>2. \A k \in Jobs : Settled(k) => Settled(k)'
      BY <2>1, <2>2, <2>3 DEF Report, Tell, Settled
    <3> QED
      BY <2>1, <2>3, <3>1, <3>2 DEF IInv, StagedUntilSettled, Report, Tell, Becomes, At
  <2>4. CASE GiveUp(j)
    <3>1. Becomes(j, "clean", job[j].delivery, job[j].attempt, job[j].previous, job[j].error)
      BY <2>4, GoToEffect DEF IInv, GiveUp, Phases
    <3>2. Settled(j)' /\ \A k \in Jobs : Settled(k) => Settled(k)'
      BY <2>1, <2>2, <2>4 DEF GiveUp, Tell, Settled
    <3> QED
      BY <2>1, <2>4, <3>1, <3>2 DEF IInv, StagedUntilSettled, GiveUp, Tell, Becomes, At
  <2>5. CASE Clean(j)
    <3>1. Becomes(j, "done", job[j].delivery, job[j].attempt, job[j].previous, job[j].error)
      BY <2>5, GoToEffect DEF IInv, Clean, Phases
    <3>2. \A k \in Jobs : Settled(k)' <=> Settled(k)
      BY <2>2, <2>5 DEF Clean, Settled
    <3> QED
      BY <2>5, <3>1, <3>2 DEF IInv, StagedUntilSettled, Clean, Becomes, At
  <2> QED
    BY <2>3, <2>4, <2>5
<1> QED
  BY <1>4, <1>5, <1>6, <1>7, <1>8, <1>9 DEF IInv

-----------------------------------------------------------------------------
(***************************************************************************)
(* Theorems                                                                *)
(***************************************************************************)

\* The inductive invariant holds: whoever works on the file has the lock, knows
\* the marker, uploads before it marks, and keeps the staged workbook until then.
THEOREM Invariant == ASSUME ~Late PROVE Spec => []IInv
<1>1. Init => IInv
  <2> SUFFICES ASSUME Init PROVE IInv
    OBVIOUS
  <2>1. \A j \in Jobs : job[j].phase = "waiting"
    BY DEF Init
  <2>2. NoVersion \in Version \cup {NoVersion}
    OBVIOUS
  <2>3. TypeOK
    <3>1. job \in [Jobs -> Invocation]
      BY <2>2, DiskUploaderAssumption DEF Init, Invocation, Phases
    <3>2. lock \in Seq(Version) /\ marks \in Seq(Version)
      BY EmptySeq DEF Init
    <3>3. failures \in 0 .. MaxFailures
      BY DiskUploaderAssumption DEF Init
    <3>4. reported \in [Jobs -> SUBSET {"success", "failure"}]
      BY DEF Init
    <3> QED
      BY <3>1, <3>2, <3>3, <3>4 DEF Init, TypeOK
  <2>4. RunsInTime /\ AttemptsCounted /\ LockHeld
    BY <2>1 DEF RunsInTime, Running, AttemptsCounted, Attempting, LockHeld, HasLock, Holding, At
  <2>5. MarkerKnown /\ UploadedBeforeMark /\ MarkerIsOnDisk /\ StagedUntilSettled
    BY <2>1 DEF Init, MarkerKnown, UploadedBeforeMark, MarkerIsOnDisk, StagedUntilSettled, At
  <2> QED
    BY <2>3, <2>4, <2>5 DEF IInv
<1>2. IInv /\ [Next]_vars => IInv'
  <2> SUFFICES ASSUME IInv, [Next]_vars PROVE IInv'
    OBVIOUS
  <2>1. CASE UNCHANGED vars
    BY <2>1 DEF vars, IInv, TypeOK, RunsInTime, Running, AttemptsCounted, Attempting, LockHeld, HasLock, Own,
       MarkerKnown, UploadedBeforeMark, MarkerIsOnDisk, StagedUntilSettled, Served, Settled, Current, At
  <2>2. ASSUME NEW j \in Jobs, Uploading(j) PROVE IInv'
    BY <2>2, ReadStep, LookStep, ExistingStep, UploadStep, PublishStep, MarkStep, PruneStep, UnstageStep,
       ReleaseStep DEF Uploading
  <2> QED
    BY <2>1, <2>2, BeginStep, AgeStep, BreakStep, AcquireStep, SweepStep, EndedStep, FinishStep DEF Next
<1> QED
  BY <1>1, <1>2, PTL DEF Spec

\* Between reading the marker and writing it no other job touches the file.
THEOREM Serialized == ASSUME ~Late PROVE Spec => []OneReplacementAtATime
<1>1. IInv => OneReplacementAtATime
  BY OneHolder DEF OneReplacementAtATime, HasLock
<1> QED
  BY <1>1, Invariant, PTL

\* The marker never runs ahead of the file, so no job is dropped for it whose
\* workbook is newer than the file.
THEOREM MarkerFollowsDisk == ASSUME ~Late PROVE Spec => []MarkerIsOnDisk
<1>1. IInv => MarkerIsOnDisk
  BY DEF IInv
<1> QED
  BY <1>1, Invariant, PTL

\* Success is only reported of workbooks that are on the disk, or were replaced
\* by newer ones, however often a job was tried and whatever failed.
THEOREM SuccessIsTrue == ASSUME ~Late PROVE Spec => []SuccessMeansUploaded
<1>1. IInv => SuccessMeansUploaded
  <2> SUFFICES ASSUME IInv, NEW j \in Jobs, reported[j] = {"success"} PROVE Served(j)
    BY DEF SuccessMeansUploaded
  <2>1. Current(marks).gen >= j
    BY DEF IInv, StagedUntilSettled, Settled
  <2>2. marks # <<>> /\ Current(marks).gen \in Jobs
    BY <2>1, CurrentVersion, DiskUploaderAssumption DEF IInv, TypeOK, Jobs
  <2>3. Served(Current(marks).gen)
    BY <2>2 DEF IInv, MarkerIsOnDisk
  <2> QED
    BY <2>1, <2>2, <2>3, DiskUploaderAssumption DEF IInv, TypeOK, Served, Jobs
<1> QED
  BY <1>1, Invariant, PTL

-----------------------------------------------------------------------------
(***************************************************************************)
(* The planned stages of a game                                            *)
(***************************************************************************)

\* Commands wait in their group, and those of a closing carry its hour.
ClosingKinds == {"closePlanned", "statistics", "finalize"}

HasHour(c) == c.kind \in ClosingKinds => c.at # Never

CommandsPlaced ==
    /\ \A g \in Groups : \A i \in DOMAIN queue[g] : GroupOf(queue[g][i]) = g /\ HasHour(queue[g][i])
    /\ \A i \in DOMAIN timer : HasHour(timer[i])

\* A command of a master that was accepted for a game in use finds it in use:
\* only the game's own group archives it.
SetSound(g) ==
    attempt[g] = "set" =>
        CommandAt(g).kind \in MasterKinds /\ (CommandAt(g).kind # "unarchive" => ~game.archived)

\* The last stage of a closing works for the plan in force, and has archived
\* the game before it tells anybody.
FinalizeSound(g) ==
    /\ Reached(g, "archive", {"finalize"}) \/ Reached(g, "tell", {"finalize"}) =>
           game.closeOp = CommandAt(g).at /\ game.closeAt = CommandAt(g).at
    /\ Reached(g, "tell", {"finalize"}) => game.done \/ (game.archived /\ game.status = "closed")

ArchivedIsClosed == game.archived => game.status = "closed"

\* The inductive invariant.
LifecycleInv ==
    /\ LifecycleTypeOK /\ CommandsPlaced /\ ArchivedIsClosed
    /\ \A g \in Groups : SetSound(g) /\ FinalizeSound(g)

-----------------------------------------------------------------------------
\* A queue that grows at its end keeps its head.
LEMMA QueueGrows ==
    ASSUME queue \in [Groups -> Seq(Command)], NEW c \in Command, NEW q,
           q = queue \/ q = [queue EXCEPT ![GroupOf(c)] = Append(@, c)]
    PROVE  /\ q \in [Groups -> Seq(Command)]
           /\ \A g \in Groups : queue[g] # <<>> => q[g] # <<>> /\ Head(q[g]) = Head(queue[g])
           /\ \A g \in Groups : \A i \in DOMAIN q[g] :
                \/ i \in DOMAIN queue[g] /\ q[g][i] = queue[g][i]
                \/ q[g][i] = c /\ GroupOf(c) = g
<1>1. GroupOf(c) \in Groups
  BY DEF GroupOf, Groups
<1>2. ASSUME NEW s \in Seq(Command)
      PROVE  /\ Append(s, c) \in Seq(Command) /\ Append(s, c) # <<>>
             /\ s # <<>> => Head(Append(s, c)) = Head(s)
             /\ \A i \in DOMAIN Append(s, c) :
                  (i \in DOMAIN s /\ Append(s, c)[i] = s[i]) \/ Append(s, c)[i] = c
  <2>1. /\ Append(s, c) \in Seq(Command)
        /\ Len(Append(s, c)) = Len(s) + 1 /\ Len(s) \in Nat
        /\ \A i \in 1 .. Len(s) : Append(s, c)[i] = s[i]
        /\ Append(s, c)[Len(s) + 1] = c
    BY AppendProperties
  <2>2. Append(s, c) # <<>>
    BY <2>1
  <2>3. s # <<>> => Head(Append(s, c)) = Head(s)
    <3>1. s # <<>> => 1 \in 1 .. Len(s) /\ Head(s) = s[1]
      BY <2>1
    <3>2. Head(Append(s, c)) = Append(s, c)[1]
      BY <2>1
    <3> QED
      BY <2>1, <3>1, <3>2
  <2>4. \A i \in DOMAIN Append(s, c) : (i \in DOMAIN s /\ Append(s, c)[i] = s[i]) \/ Append(s, c)[i] = c
    BY <2>1
  <2> QED
    BY <2>1, <2>2, <2>3, <2>4
<1>3. CASE q = queue
  BY <1>3
<1>4. CASE q = [queue EXCEPT ![GroupOf(c)] = Append(@, c)]
  <2>1. queue[GroupOf(c)] \in Seq(Command)
    BY <1>1
  <2>2. q[GroupOf(c)] = Append(queue[GroupOf(c)], c) /\ \A g \in Groups \ {GroupOf(c)} : q[g] = queue[g]
    BY <1>1, <1>4
  <2>3. q \in [Groups -> Seq(Command)]
    BY <1>1, <1>2, <1>4, <2>1
  <2>4. /\ q[GroupOf(c)] # <<>>
        /\ queue[GroupOf(c)] # <<>> => Head(q[GroupOf(c)]) = Head(queue[GroupOf(c)])
        /\ \A i \in DOMAIN q[GroupOf(c)] :
             \/ i \in DOMAIN queue[GroupOf(c)] /\ q[GroupOf(c)][i] = queue[GroupOf(c)][i]
             \/ q[GroupOf(c)][i] = c
    BY <1>2, <2>1, <2>2
  <2> QED
    BY <2>2, <2>3, <2>4
<1> QED
  BY <1>3, <1>4

LEMMA PublishedGrows ==
    ASSUME NEW c
    PROVE  Published(c) = queue \/ Published(c) = [queue EXCEPT ![GroupOf(c)] = Append(@, c)]
BY DEF Published

-----------------------------------------------------------------------------
LEMMA LifecycleInitial == LifecycleInit => LifecycleInv
<1> SUFFICES ASSUME LifecycleInit PROVE LifecycleInv
  OBVIOUS
<1>1. game \in Game /\ ~game.archived
  <2>1. game \in [status : {"created"}, archived : {FALSE}, openAt : Optional, deadline : Optional,
                   closeAt : Optional, closeOp : {Never}, told : {{}}, done : {FALSE}]
    BY DEF LifecycleInit
  <2> QED
    BY <2>1 DEF Game, Optional
<1>2. NoEdit \in Edit
  BY DEF NoEdit, Edit, Optional
<1>3. <<>> \in Seq(Command) /\ DOMAIN <<>> = {}
  OBVIOUS
<1>4. LifecycleTypeOK
  <2>1. clock \in 0 .. MaxTime /\ edits \in 0 .. MaxEdits /\ commands \in 0 .. MaxCommands /\ failed \in 0 .. MaxFailed
    BY ScheduledLifecycleAssumption DEF LifecycleInit
  <2>2. edit \in [Editors -> Edit]
    BY <1>2 DEF LifecycleInit
  <2>3. queue \in [Groups -> Seq(Command)] /\ attempt \in [Groups -> Steps] /\ timer \in Seq(Command)
    BY <1>3 DEF LifecycleInit, Steps
  <2> QED
    BY <1>1, <2>1, <2>2, <2>3 DEF LifecycleInit, LifecycleTypeOK
<1>5. CommandsPlaced
  BY <1>3 DEF LifecycleInit, CommandsPlaced
<1>6. \A g \in Groups : attempt[g] = "idle"
  BY DEF LifecycleInit
<1> QED
  BY <1>1, <1>4, <1>5, <1>6 DEF LifecycleInv, ArchivedIsClosed, SetSound, FinalizeSound, Reached

\* The last stage of a closing has an hour.
LEMMA HeadHasHour ==
    ASSUME LifecycleInv, NEW g \in Groups,
           Reached(g, "archive", {"finalize"}) \/ Reached(g, "tell", {"finalize"})
    PROVE  game.closeOp # Never
<1>1. queue[g] \in Seq(Command) /\ queue[g] # <<>>
  BY DEF LifecycleInv, LifecycleTypeOK, Reached
<1>2. 1 \in DOMAIN queue[g] /\ Head(queue[g]) = queue[g][1]
  BY <1>1
<1>3. HasHour(CommandAt(g)) /\ CommandAt(g).kind = "finalize"
  BY <1>2 DEF LifecycleInv, CommandsPlaced, CommandAt, Reached
<1> QED
  BY <1>3 DEF LifecycleInv, FinalizeSound, HasHour, ClosingKinds

-----------------------------------------------------------------------------
(***************************************************************************)
(* Planning and publishing                                                 *)
(***************************************************************************)
\* What concerns neither the row of the game, nor the queues, nor the worker.
LEMMA AsideKeepsLifecycle ==
    ASSUME LifecycleInv, LifecycleTypeOK', UNCHANGED <<game, queue, attempt, timer>>
    PROVE  LifecycleInv'
<1>1. CommandsPlaced' /\ ArchivedIsClosed'
  BY DEF LifecycleInv, CommandsPlaced, ArchivedIsClosed
<1>2. ASSUME NEW g \in Groups PROVE SetSound(g)' /\ FinalizeSound(g)'
  BY DEF LifecycleInv, SetSound, FinalizeSound, Reached, CommandAt
<1> QED
  BY <1>1, <1>2 DEF LifecycleInv

LEMMA TickKeeps == ASSUME LifecycleInv, Tick PROVE LifecycleInv'
<1>1. clock' \in 0 .. MaxTime
  BY ScheduledLifecycleAssumption DEF LifecycleInv, LifecycleTypeOK, Tick
<1>2. LifecycleTypeOK'
  BY <1>1 DEF LifecycleInv, LifecycleTypeOK, Tick
<1> QED
  BY <1>2, AsideKeepsLifecycle DEF Tick

LEMMA BeginEditKeeps == ASSUME LifecycleInv, NEW m \in Editors, BeginEdit(m) PROVE LifecycleInv'
<1>1. PICK plan \in Edit : Plan(m, plan)
  <2>1. PICK at \in Optional :
           \/ Plan(m, [kind |-> "close", at |-> at, deadline |-> Never, checked |-> TRUE])
           \/ Plan(m, [kind |-> "confirmation", at |-> at, deadline |-> Never, checked |-> at = Never])
    BY DEF BeginEdit
  <2> QED
    BY <2>1 DEF Edit, Optional
<1>2. edit' \in [Editors -> Edit]
  BY <1>1 DEF Plan, LifecycleInv, LifecycleTypeOK
<1>3. edits' \in 0 .. MaxEdits
  BY ScheduledLifecycleAssumption DEF BeginEdit, LifecycleInv, LifecycleTypeOK
<1>4. LifecycleTypeOK'
  BY <1>1, <1>2, <1>3 DEF LifecycleInv, LifecycleTypeOK, Plan
<1> QED
  BY <1>1, <1>4, AsideKeepsLifecycle DEF Plan

LEMMA EnterDeadlineKeeps == ASSUME LifecycleInv, NEW m \in Editors, EnterDeadline(m) PROVE LifecycleInv'
<1>1. PICK plan \in Edit : Plan(m, plan)
  <2>1. edit[m] \in Edit
    BY DEF LifecycleInv, LifecycleTypeOK
  <2>2. CASE Plan(m, NoEdit)
    BY <2>2 DEF Edit, NoEdit, Optional
  <2>3. CASE \E deadline \in Instants : Plan(m, [edit[m] EXCEPT !.deadline = deadline, !.checked = TRUE])
    BY <2>1, <2>3 DEF Edit, Optional
  <2> QED
    BY <2>2, <2>3 DEF EnterDeadline
<1>2. edit' \in [Editors -> Edit]
  BY <1>1 DEF Plan, LifecycleInv, LifecycleTypeOK
<1>3. LifecycleTypeOK'
  BY <1>1, <1>2 DEF LifecycleInv, LifecycleTypeOK, Plan, EnterDeadline
<1> QED
  BY <1>1, <1>3, AsideKeepsLifecycle DEF Plan

\* The fields of the row that a write of a plan may change, once a closing
\* has begun.
LEMMA WriteEditWrites ==
    ASSUME LifecycleTypeOK, NEW m \in Editors, WriteEdit(m)
    PROVE  /\ game' \in Game
           /\ game'.status = game.status /\ game'.archived = game.archived
           /\ game'.closeOp = game.closeOp
           /\ game.closeOp # Never => game'.closeAt = game.closeAt /\ game'.done = game.done
           /\ game'.done => game.done
<1>1. game \in Game /\ edit[m] \in Edit
  BY DEF LifecycleTypeOK
<1>2. CASE edit[m].kind = "close"
  <2>1. edit[m].at \in Optional /\ Never \in Optional /\ {} \in SUBSET Masters
    BY <1>1 DEF Edit, Optional
  <2>2. \/ game' = game
        \/ /\ game' = [game EXCEPT !.closeAt = edit[m].at, !.closeOp = Never, !.told = {}, !.done = FALSE]
           /\ game.closeOp = Never
    BY <1>2 DEF WriteEdit, SetClose
  <2> QED
    BY <1>1, <2>1, <2>2 DEF Game
<1>3. CASE edit[m].kind # "close"
  BY <1>1, <1>3 DEF WriteEdit, Game, Edit
<1> QED
  BY <1>2, <1>3

LEMMA WriteEditKeeps == ASSUME LifecycleInv, NEW m \in Editors, WriteEdit(m) PROVE LifecycleInv'
<1> USE DEF LifecycleInv
<1>1. /\ game' \in Game
      /\ game'.status = game.status /\ game'.archived = game.archived
      /\ game'.closeOp = game.closeOp
      /\ game.closeOp # Never => game'.closeAt = game.closeAt /\ game'.done = game.done
  BY WriteEditWrites
<1>2. edit' \in [Editors -> Edit]
  BY DEF WriteEdit, LifecycleTypeOK, NoEdit, Edit, Optional
<1>3. LifecycleTypeOK'
  BY <1>1, <1>2 DEF LifecycleTypeOK, WriteEdit
<1>4. CommandsPlaced' /\ ArchivedIsClosed'
  BY <1>1 DEF CommandsPlaced, ArchivedIsClosed, WriteEdit
<1>5. ASSUME NEW g \in Groups PROVE SetSound(g)' /\ FinalizeSound(g)'
  <2>1. attempt' = attempt /\ queue' = queue
    BY DEF WriteEdit
  <2>2. SetSound(g)'
    BY <1>1, <2>1 DEF SetSound, CommandAt
  <2>3. Reached(g, "archive", {"finalize"}) \/ Reached(g, "tell", {"finalize"}) => game.closeOp # Never
    BY HeadHasHour
  <2>4. FinalizeSound(g)'
    BY <1>1, <2>1, <2>3 DEF FinalizeSound, Reached, CommandAt
  <2> QED
    BY <2>2, <2>4
<1> QED
  BY <1>3, <1>4, <1>5

LEMMA PublicationKeeps ==
    ASSUME LifecycleInv, LifecycleTypeOK', NEW c \in Command, HasHour(c),
           queue' = queue \/ queue' = [queue EXCEPT ![GroupOf(c)] = Append(@, c)],
           UNCHANGED game,
           \A g \in Groups : attempt'[g] = attempt[g] \/ attempt'[g] = "reply",
           \A i \in DOMAIN timer' : HasHour(timer'[i])
    PROVE  LifecycleInv'
<1>1. queue \in [Groups -> Seq(Command)]
  BY DEF LifecycleInv, LifecycleTypeOK
<1>2. /\ \A g \in Groups : queue[g] # <<>> => queue'[g] # <<>> /\ Head(queue'[g]) = Head(queue[g])
      /\ \A g \in Groups : \A i \in DOMAIN queue'[g] :
           \/ i \in DOMAIN queue[g] /\ queue'[g][i] = queue[g][i]
           \/ queue'[g][i] = c /\ GroupOf(c) = g
  BY <1>1, QueueGrows
<1>3. CommandsPlaced'
  BY <1>2 DEF LifecycleInv, CommandsPlaced, HasHour
<1>4. ArchivedIsClosed'
  BY DEF LifecycleInv, ArchivedIsClosed
<1>5. ASSUME NEW g \in Groups PROVE SetSound(g)' /\ FinalizeSound(g)'
  <2>1. CASE attempt'[g] \in {"idle", "reply"}
    BY <2>1 DEF SetSound, FinalizeSound, Reached
  <2>2. CASE attempt'[g] = attempt[g] /\ attempt[g] # "idle"
    <3>1. CommandAt(g)' = CommandAt(g)
      BY <1>2, <2>2 DEF LifecycleInv, LifecycleTypeOK, CommandAt
    <3> QED
      BY <2>2, <3>1 DEF LifecycleInv, SetSound, FinalizeSound, Reached
  <2> QED
    BY <2>1, <2>2
<1> QED
  BY <1>3, <1>4, <1>5 DEF LifecycleInv

LEMMA PublishByMasterKeeps == ASSUME LifecycleInv, PublishByMaster PROVE LifecycleInv'
<1>1. PICK k \in MasterKinds, deadline \in Optional :
         queue' = [queue EXCEPT !["game"] = Append(@, [kind |-> k, at |-> Never, deadline |-> deadline])]
  BY DEF PublishByMaster
<1> DEFINE c == [kind |-> k, at |-> Never, deadline |-> deadline]
<1>2. k \in {"register", "confirm", "close", "archive", "unarchive"}
  BY ScheduledLifecycleAssumption
<1>3. c \in Command /\ GroupOf(c) = "game" /\ HasHour(c)
  BY <1>2 DEF Command, Optional, GroupOf, HasHour, ClosingKinds
<1>4. queue' = [queue EXCEPT ![GroupOf(c)] = Append(@, c)]
  BY <1>1, <1>3
<1> HIDE DEF c
<1>5. queue \in [Groups -> Seq(Command)]
  BY DEF LifecycleInv, LifecycleTypeOK
<1>6. queue' \in [Groups -> Seq(Command)] /\ \A g \in Groups : queue[g] # <<>> => queue'[g] # <<>>
  BY <1>3, <1>4, <1>5, QueueGrows
<1>7. commands' \in 0 .. MaxCommands
  BY ScheduledLifecycleAssumption DEF LifecycleInv, LifecycleTypeOK, PublishByMaster
<1>8. LifecycleTypeOK'
  BY <1>6, <1>7 DEF LifecycleInv, LifecycleTypeOK, PublishByMaster
<1>9. UNCHANGED <<game, attempt, timer>>
  BY DEF PublishByMaster
<1>10. \A i \in DOMAIN timer' : HasHour(timer'[i])
  BY <1>9 DEF LifecycleInv, CommandsPlaced
<1> QED
  BY <1>3, <1>4, <1>8, <1>9, <1>10, PublicationKeeps

LEMMA TimerReadKeeps == ASSUME LifecycleInv, TimerRead PROVE LifecycleInv'
<1> DEFINE opening == [kind |-> "openPlanned", at |-> game.openAt, deadline |-> game.deadline]
           closing == [kind |-> "closePlanned", at |-> game.closeAt, deadline |-> Never]
<1>1. game \in Game
  BY DEF LifecycleInv, LifecycleTypeOK
<1>2. opening \in Command /\ closing \in Command
  BY <1>1 DEF Game, Command, ScheduledKinds, Optional
<1>3. HasHour(opening) /\ (CloseDue => HasHour(closing))
  BY DEF HasHour, ClosingKinds, CloseDue
<1>4. timer' = (IF OpenDue THEN <<opening>> ELSE <<>>) \o (IF CloseDue THEN <<closing>> ELSE <<>>)
  BY DEF TimerRead
<1> HIDE DEF opening, closing
<1> DEFINE Timely == {c \in Command : HasHour(c)}
<1>5. timer' \in Seq(Timely)
  <2>1. opening \in Timely /\ (CloseDue => closing \in Timely)
    BY <1>2, <1>3
  <2> HIDE DEF Timely
  <2>2. (IF OpenDue THEN <<opening>> ELSE <<>>) \in Seq(Timely)
    BY <2>1
  <2>3. (IF CloseDue THEN <<closing>> ELSE <<>>) \in Seq(Timely)
    BY <2>1
  <2> QED
    BY <1>4, <2>2, <2>3, ConcatProperties
<1>6. timer' \in Seq(Command) /\ \A i \in DOMAIN timer' : HasHour(timer'[i])
  BY <1>5
<1>7. LifecycleTypeOK'
  BY <1>6 DEF LifecycleInv, LifecycleTypeOK, TimerRead
<1>8. UNCHANGED <<game, queue, attempt>>
  BY DEF TimerRead
<1> QED
  BY <1>2, <1>3, <1>6, <1>7, <1>8, PublicationKeeps

LEMMA TimerPublishKeeps == ASSUME LifecycleInv, TimerPublish PROVE LifecycleInv'
<1> DEFINE c == Head(timer)
<1>1. timer \in Seq(Command) /\ timer # <<>> /\ queue \in [Groups -> Seq(Command)]
  BY DEF LifecycleInv, LifecycleTypeOK, TimerPublish
<1>2. c \in Command /\ HasHour(c)
  <2>1. 1 \in DOMAIN timer /\ c = timer[1] /\ c \in Command
    BY <1>1
  <2> QED
    BY <2>1 DEF LifecycleInv, CommandsPlaced
<1>3. timer' = Tail(timer) \/ timer' = <<>>
  BY DEF TimerPublish
<1>4. timer' \in Seq(Command)
  <2>1. Tail(timer) \in Seq(Command)
    BY <1>1, HeadTailProperties
  <2>2. <<>> \in Seq(Command)
    OBVIOUS
  <2> QED
    BY <1>3, <2>1, <2>2
<1>5. \A i \in DOMAIN timer' : i + 1 \in DOMAIN timer /\ timer'[i] = timer[i + 1]
  <2>1. CASE timer' = Tail(timer)
    <3>1. /\ Len(timer) \in Nat /\ DOMAIN timer = 1 .. Len(timer) /\ Len(Tail(timer)) = Len(timer) - 1
          /\ DOMAIN Tail(timer) = 1 .. Len(timer) - 1
          /\ \A i \in 1 .. Len(timer) - 1 : Tail(timer)[i] = timer[i + 1]
      BY <1>1, HeadTailProperties
    <3>2. \A i \in DOMAIN Tail(timer) : i + 1 \in DOMAIN timer /\ Tail(timer)[i] = timer[i + 1]
      BY <3>1
    <3> QED
      BY <2>1, <3>2
  <2>2. CASE timer' = <<>>
    BY <2>2
  <2> QED
    BY <1>3, <2>1, <2>2
<1>6. \A i \in DOMAIN timer' : HasHour(timer'[i])
  BY <1>5 DEF LifecycleInv, CommandsPlaced
<1>7. queue' = queue \/ queue' = [queue EXCEPT ![GroupOf(c)] = Append(@, c)]
  BY PublishedGrows DEF TimerPublish
<1> HIDE DEF c
<1>8. /\ queue' \in [Groups -> Seq(Command)]
      /\ \A g \in Groups : queue[g] # <<>> => queue'[g] # <<>> /\ Head(queue'[g]) = Head(queue[g])
      /\ \A g \in Groups : \A i \in DOMAIN queue'[g] :
           \/ i \in DOMAIN queue[g] /\ queue'[g][i] = queue[g][i]
           \/ queue'[g][i] = c /\ GroupOf(c) = g
  BY <1>1, <1>2, <1>7, QueueGrows
<1>9. failed' \in 0 .. MaxFailed
  BY ScheduledLifecycleAssumption DEF LifecycleInv, LifecycleTypeOK, TimerPublish, Fails
<1>10. LifecycleTypeOK'
  BY <1>4, <1>8, <1>9 DEF LifecycleInv, LifecycleTypeOK, TimerPublish
<1>11. UNCHANGED <<game, attempt>>
  BY DEF TimerPublish
<1> QED
  BY <1>2, <1>6, <1>7, <1>10, <1>11, PublicationKeeps

LEMMA PublishNextKeeps == ASSUME LifecycleInv, NEW g \in Groups, PublishNext(g) PROVE LifecycleInv'
<1> DEFINE c == CommandAt(g)
           next == IF c.kind = "statistics" \/ game.archived THEN "finalize" ELSE "statistics"
           d == [c EXCEPT !.kind = next]
<1>1. queue \in [Groups -> Seq(Command)] /\ queue[g] # <<>> /\ attempt \in [Groups -> Steps]
  BY DEF LifecycleInv, LifecycleTypeOK, PublishNext, Reached
<1>2. c \in Command /\ HasHour(c) /\ c.kind \in {"closePlanned", "statistics"}
  <2>1. 1 \in DOMAIN queue[g] /\ c = queue[g][1] /\ c \in Command
    BY <1>1 DEF CommandAt
  <2> QED
    BY <2>1 DEF LifecycleInv, CommandsPlaced, PublishNext, Reached
<1>3. queue' = Published(d)
  BY DEF PublishNext
<1> HIDE DEF c
<1>4. d \in Command /\ HasHour(d)
  BY <1>2 DEF Command, ScheduledKinds, HasHour, ClosingKinds
<1> HIDE DEF d
<1>5. queue' = queue \/ queue' = [queue EXCEPT ![GroupOf(d)] = Append(@, d)]
  BY <1>3, PublishedGrows
<1>6. /\ queue' \in [Groups -> Seq(Command)]
      /\ \A h \in Groups : queue[h] # <<>> => queue'[h] # <<>> /\ Head(queue'[h]) = Head(queue[h])
      /\ \A h \in Groups : \A i \in DOMAIN queue'[h] :
           \/ i \in DOMAIN queue[h] /\ queue'[h][i] = queue[h][i]
           \/ queue'[h][i] = d /\ GroupOf(d) = h
  BY <1>1, <1>4, <1>5, QueueGrows
<1>7. attempt' \in [Groups -> Steps] /\ \A h \in Groups : attempt'[h] = attempt[h] \/ (h = g /\ attempt'[h] = "reply")
  BY <1>1 DEF PublishNext, Continue, Steps
<1>8. \A h \in Groups : attempt'[h] # "idle" => queue'[h] # <<>>
  BY <1>1, <1>6, <1>7 DEF LifecycleInv, LifecycleTypeOK
<1>9. LifecycleTypeOK'
  BY <1>6, <1>7, <1>8 DEF LifecycleInv, LifecycleTypeOK, PublishNext
<1>10. UNCHANGED <<game, timer>>
  BY DEF PublishNext
<1>11. \A i \in DOMAIN timer' : HasHour(timer'[i])
  BY <1>10 DEF LifecycleInv, CommandsPlaced
<1> QED
  BY <1>4, <1>5, <1>7, <1>9, <1>10, <1>11, PublicationKeeps

-----------------------------------------------------------------------------
(***************************************************************************)
(* The worker                                                              *)
(***************************************************************************)
\* What the head of a group is, and where it waits.
LEMMA HeadIsPlaced ==
    ASSUME LifecycleInv, NEW g \in Groups, attempt[g] # "idle" \/ queue[g] # <<>>
    PROVE  CommandAt(g) \in Command /\ GroupOf(CommandAt(g)) = g /\ HasHour(CommandAt(g))
<1>1. queue[g] \in Seq(Command) /\ queue[g] # <<>>
  BY DEF LifecycleInv, LifecycleTypeOK
<1>2. 1 \in DOMAIN queue[g] /\ CommandAt(g) = queue[g][1] /\ CommandAt(g) \in Command
  BY <1>1 DEF CommandAt
<1> QED
  BY <1>2 DEF LifecycleInv, CommandsPlaced

LEMMA LoadKeeps == ASSUME LifecycleInv, NEW g \in Groups, Load(g) PROVE LifecycleInv'
<1> DEFINE c == CommandAt(g)
<1>1. PICK step \in Begin(c) : Continue(g, step)
  BY DEF Load
<1>2. c \in Command
  BY HeadIsPlaced DEF Load
<1>3. step \in {"open", "reply", "start", "publish", "count", "archive", "set"}
  BY <1>1 DEF Begin
<1>4. step = "archive" => game.closeOp = c.at /\ game.closeAt = c.at
  BY <1>1 DEF Begin, Stale
<1>5. step = "set" => c.kind \in MasterKinds /\ (c.kind # "unarchive" => ~game.archived)
  BY <1>1, <1>2 DEF Begin, Command, ScheduledKinds
<1> HIDE DEF c
<1>6. attempt \in [Groups -> Steps] /\ queue[g] # <<>>
  BY DEF LifecycleInv, LifecycleTypeOK, Load
<1>7. attempt' \in [Groups -> Steps] /\ attempt'[g] = step /\ \A h \in Groups \ {g} : attempt'[h] = attempt[h]
  BY <1>1, <1>3, <1>6 DEF Continue, Steps
<1>8. UNCHANGED <<game, queue, timer>>
  BY DEF Load
<1>9. LifecycleTypeOK'
  BY <1>6, <1>7 DEF LifecycleInv, LifecycleTypeOK, Load
<1>10. CommandsPlaced' /\ ArchivedIsClosed'
  BY <1>8 DEF LifecycleInv, CommandsPlaced, ArchivedIsClosed
<1>11. ASSUME NEW h \in Groups PROVE SetSound(h)' /\ FinalizeSound(h)'
  <2>1. CommandAt(h)' = CommandAt(h)
    BY <1>8 DEF CommandAt
  <2>2. CASE h = g
    BY <1>3, <1>4, <1>5, <1>7, <1>8, <2>1, <2>2 DEF SetSound, FinalizeSound, Reached, c
  <2>3. CASE h # g
    BY <1>7, <1>8, <2>1, <2>3 DEF LifecycleInv, SetSound, FinalizeSound, Reached
  <2> QED
    BY <2>2, <2>3
<1> QED
  BY <1>9, <1>10, <1>11 DEF LifecycleInv

\* What goes on with attempts that only reply, invite or work on the
\* statistics.
LEMMA QuietKeeps ==
    ASSUME LifecycleInv, LifecycleTypeOK', NEW g \in Groups, UNCHANGED <<game, queue, timer>>,
           NEW step, attempt' = [attempt EXCEPT ![g] = step], step \in {"idle", "reply", "publish", "commit"}
    PROVE  LifecycleInv'
<1>1. attempt \in [Groups -> Steps]
  BY DEF LifecycleInv, LifecycleTypeOK
<1>2. attempt'[g] = step /\ \A h \in Groups \ {g} : attempt'[h] = attempt[h]
  BY <1>1
<1>3. CommandsPlaced' /\ ArchivedIsClosed'
  BY DEF LifecycleInv, CommandsPlaced, ArchivedIsClosed
<1>4. ASSUME NEW h \in Groups PROVE SetSound(h)' /\ FinalizeSound(h)'
  <2>1. CommandAt(h)' = CommandAt(h)
    BY DEF CommandAt
  <2>2. CASE h = g
    BY <1>2, <2>2 DEF SetSound, FinalizeSound, Reached
  <2>3. CASE h # g
    BY <1>2, <2>1, <2>3 DEF LifecycleInv, SetSound, FinalizeSound, Reached
  <2> QED
    BY <2>2, <2>3
<1> QED
  BY <1>3, <1>4 DEF LifecycleInv

LEMMA InviteKeeps == ASSUME LifecycleInv, NEW g \in Groups, Invite(g) PROVE LifecycleInv'
<1>1. attempt' = [attempt EXCEPT ![g] = "reply"] /\ attempt[g] = "invite"
  BY DEF Invite, Continue
<1>2. LifecycleTypeOK'
  BY <1>1 DEF LifecycleInv, LifecycleTypeOK, Invite, Steps
<1> QED
  BY <1>1, <1>2, QuietKeeps DEF Invite

LEMMA CountKeeps == ASSUME LifecycleInv, NEW g \in Groups, Count(g) PROVE LifecycleInv'
<1>1. PICK step \in {"commit", "reply"} : attempt' = [attempt EXCEPT ![g] = step]
  BY DEF Count, Continue
<1>2. attempt[g] = "count"
  BY DEF Count, Reached
<1>3. failed' \in 0 .. MaxFailed
  BY ScheduledLifecycleAssumption DEF Count, Fails, LifecycleInv, LifecycleTypeOK
<1>4. LifecycleTypeOK'
  BY <1>1, <1>2, <1>3 DEF LifecycleInv, LifecycleTypeOK, Count, Steps
<1> QED
  BY <1>1, <1>4, QuietKeeps DEF Count

LEMMA CommitKeeps == ASSUME LifecycleInv, NEW g \in Groups, Commit(g) PROVE LifecycleInv'
<1>1. attempt' = [attempt EXCEPT ![g] = "publish"] /\ attempt[g] = "commit"
  BY DEF Commit, Continue, Reached
<1>2. LifecycleTypeOK'
  BY <1>1 DEF LifecycleInv, LifecycleTypeOK, Commit, Steps
<1> QED
  BY <1>1, <1>2, QuietKeeps DEF Commit

LEMMA FailKeeps == ASSUME LifecycleInv, NEW g \in Groups, Fail(g) PROVE LifecycleInv'
<1>1. attempt' = [attempt EXCEPT ![g] = "idle"]
  BY DEF Fail, Continue
<1>2. failed' \in 0 .. MaxFailed
  BY ScheduledLifecycleAssumption DEF Fail, Fails, LifecycleInv, LifecycleTypeOK
<1>3. LifecycleTypeOK'
  BY <1>1, <1>2 DEF LifecycleInv, LifecycleTypeOK, Fail, Steps
<1> QED
  BY <1>1, <1>3, QuietKeeps DEF Fail

LEMMA ReplyKeeps == ASSUME LifecycleInv, NEW g \in Groups, Reply(g) PROVE LifecycleInv'
<1>1. /\ queue \in [Groups -> Seq(Command)] /\ queue[g] # <<>> /\ attempt \in [Groups -> Steps]
  BY DEF LifecycleInv, LifecycleTypeOK, Reply
<1>2. /\ attempt'[g] = "idle" /\ \A h \in Groups \ {g} : attempt'[h] = attempt[h] /\ queue'[h] = queue[h]
      /\ queue'[g] = Tail(queue[g])
  BY <1>1 DEF Reply, Continue
<1>3. /\ Tail(queue[g]) \in Seq(Command)
      /\ \A i \in DOMAIN Tail(queue[g]) : i + 1 \in DOMAIN queue[g] /\ Tail(queue[g])[i] = queue[g][i + 1]
  BY <1>1, HeadTailProperties
<1>4. queue' \in [Groups -> Seq(Command)] /\ attempt' \in [Groups -> Steps]
  BY <1>1, <1>3 DEF Reply, Continue, Steps
<1>5. \A h \in Groups : attempt'[h] # "idle" => queue'[h] # <<>>
  BY <1>2 DEF LifecycleInv, LifecycleTypeOK
<1>6. LifecycleTypeOK'
  BY <1>4, <1>5 DEF LifecycleInv, LifecycleTypeOK, Reply
<1>7. UNCHANGED <<game, timer>>
  BY DEF Reply
<1>8. CommandsPlaced'
  <2>1. ASSUME NEW h \in Groups, NEW i \in DOMAIN queue'[h]
        PROVE  GroupOf(queue'[h][i]) = h /\ HasHour(queue'[h][i])
    <3>1. CASE h = g
      <4>1. i + 1 \in DOMAIN queue[g] /\ queue'[h][i] = queue[g][i + 1]
        BY <1>2, <1>3, <2>1, <3>1
      <4> QED
        BY <3>1, <4>1 DEF LifecycleInv, CommandsPlaced
    <3>2. CASE h # g
      BY <1>2, <2>1, <3>2 DEF LifecycleInv, CommandsPlaced
    <3> QED
      BY <3>1, <3>2
  <2>2. \A i \in DOMAIN timer' : HasHour(timer'[i])
    BY <1>7 DEF LifecycleInv, CommandsPlaced
  <2> QED
    BY <2>1, <2>2 DEF CommandsPlaced
<1>9. ArchivedIsClosed'
  BY <1>7 DEF LifecycleInv, ArchivedIsClosed
<1>10. ASSUME NEW h \in Groups PROVE SetSound(h)' /\ FinalizeSound(h)'
  <2>1. CASE h = g
    BY <1>2, <2>1 DEF SetSound, FinalizeSound, Reached
  <2>2. CASE h # g
    BY <1>2, <1>7, <2>2 DEF LifecycleInv, SetSound, FinalizeSound, Reached, CommandAt
  <2> QED
    BY <2>1, <2>2
<1> QED
  BY <1>6, <1>8, <1>9, <1>10 DEF LifecycleInv

-----------------------------------------------------------------------------
(***************************************************************************)
(* What the worker writes of the game                                      *)
(***************************************************************************)
\* A write to the game in the attempt of group g.  Only a planned closing
\* begins one, only the game's own group takes a game in and out of the
\* archive.
LEMMA GameWriteKeeps ==
    ASSUME LifecycleInv, NEW g \in Groups, UNCHANGED <<clock, counted, queue, timer, edit, edits, commands, failed>>,
           invited' \in BOOLEAN,
           attempt[g] # "idle", NEW step \in Steps, attempt' = [attempt EXCEPT ![g] = step], step # "set",
           game' \in Game, game'.archived => game'.status = "closed",
           game.closeOp # Never => game'.closeOp = game.closeOp /\ game'.closeAt = game.closeAt,
           game.done => game'.done,
           game'.archived # game.archived \/ game'.status # game.status =>
               g = "game" \/ (game'.archived = game.archived /\ game'.status = "closed"),
           step \in {"archive", "tell"} => CommandAt(g).kind # "finalize" \/ FinalizeSound(g)'
    PROVE  LifecycleInv'
<1>1. attempt \in [Groups -> Steps] /\ queue[g] # <<>>
  BY DEF LifecycleInv, LifecycleTypeOK
<1>2. attempt' \in [Groups -> Steps] /\ attempt'[g] = step /\ \A h \in Groups \ {g} : attempt'[h] = attempt[h]
  BY <1>1
<1>3. LifecycleTypeOK'
  BY <1>1, <1>2 DEF LifecycleInv, LifecycleTypeOK
<1>4. CommandsPlaced' /\ ArchivedIsClosed'
  BY DEF LifecycleInv, CommandsPlaced, ArchivedIsClosed
<1>5. ASSUME NEW h \in Groups PROVE SetSound(h)' /\ FinalizeSound(h)'
  <2>1. CommandAt(h)' = CommandAt(h)
    BY DEF CommandAt
  <2>2. CASE h = g
    BY <1>2, <2>1, <2>2 DEF SetSound, FinalizeSound, Reached
  <2>3. CASE h # g
    <3>1. attempt'[h] = attempt[h] /\ SetSound(h) /\ FinalizeSound(h)
      BY <1>2, <2>3 DEF LifecycleInv
    <3>2. attempt[h] = "set" => h = "game"
      <4>1. attempt[h] = "set" => GroupOf(CommandAt(h)) = h /\ CommandAt(h).kind \in MasterKinds
        BY <3>1, HeadIsPlaced DEF SetSound
      <4> QED
        BY <4>1, ScheduledLifecycleAssumption DEF GroupOf
    <3>3. SetSound(h)'
      BY <2>1, <2>3, <3>1, <3>2 DEF SetSound, Game
    <3>4. Reached(h, "archive", {"finalize"}) \/ Reached(h, "tell", {"finalize"}) => game.closeOp # Never /\ h = "game"
      <4>1. Reached(h, "archive", {"finalize"}) \/ Reached(h, "tell", {"finalize"}) =>
              GroupOf(CommandAt(h)) = h /\ CommandAt(h).kind = "finalize"
        BY HeadIsPlaced DEF Reached
      <4> QED
        BY <4>1, HeadHasHour DEF GroupOf
    <3>5. FinalizeSound(h)'
      BY <2>1, <2>3, <3>1, <3>4 DEF FinalizeSound, Reached
    <3> QED
      BY <3>3, <3>5
  <2> QED
    BY <2>2, <2>3
<1> QED
  BY <1>3, <1>4, <1>5 DEF LifecycleInv

\* The game of a record is a game.
LEMMA GameIsGame == LifecycleInv => game \in Game /\ (game.archived => game.status = "closed")
BY DEF LifecycleInv, LifecycleTypeOK, ArchivedIsClosed

LEMMA OpenKeeps == ASSUME LifecycleInv, NEW g \in Groups, Open(g) PROVE LifecycleInv'
<1>1. attempt[g] # "idle" /\ g = "game"
  <2>1. attempt[g] # "idle" /\ CommandAt(g).kind = "openPlanned"
    BY DEF Open, Reached
  <2> QED
    BY <2>1, HeadIsPlaced DEF GroupOf
<1>2. PICK step \in {"invite", "reply"} : attempt' = [attempt EXCEPT ![g] = step]
  BY DEF Open, Continue
<1>3. \/ game' = game
      \/ ~game.archived /\ game' = [game EXCEPT !.status = "confirmation_open", !.openAt = Never]
  BY DEF Open
<1>4. game' \in Game /\ (game'.archived => game'.status = "closed")
      /\ game'.closeOp = game.closeOp /\ game'.closeAt = game.closeAt /\ game'.done = game.done
  BY <1>3, GameIsGame DEF Game, Optional
<1>5. step \in Steps /\ step \notin {"set", "archive", "tell"}
  BY <1>2 DEF Steps
<1>6. UNCHANGED <<clock, counted, queue, timer, edit, edits, commands, failed>> /\ invited' \in BOOLEAN
  BY DEF Open, LifecycleInv, LifecycleTypeOK
<1> QED
  BY <1>1, <1>2, <1>4, <1>5, <1>6, GameWriteKeeps

LEMMA SetKeeps == ASSUME LifecycleInv, NEW g \in Groups, Set(g) PROVE LifecycleInv'
<1> DEFINE c == CommandAt(g)
<1>1. attempt[g] = "set" /\ c \in Command /\ GroupOf(c) = g
  BY HeadIsPlaced DEF Set
<1>2. c.kind \in MasterKinds /\ (c.kind # "unarchive" => ~game.archived)
  BY <1>1 DEF LifecycleInv, SetSound
<1>3. g = "game" /\ c.kind \in {"register", "confirm", "close", "archive", "unarchive"}
  BY <1>1, <1>2, ScheduledLifecycleAssumption DEF GroupOf
<1>4. PICK step \in {"invite", "reply"} : attempt' = [attempt EXCEPT ![g] = step]
  BY DEF Set, Continue
<1>5. game' = CASE c.kind = "register" -> [game EXCEPT !.status = "created"]
                [] c.kind = "close" -> [game EXCEPT !.status = "closed"]
                [] c.kind = "archive" -> [game EXCEPT !.status = "closed", !.archived = TRUE]
                [] c.kind = "unarchive" -> [game EXCEPT !.archived = FALSE]
                [] c.kind = "confirm" -> [game EXCEPT !.status = "confirmation_open",
                                                      !.openAt = Never, !.deadline = c.deadline]
  BY DEF Set
<1>6. c.deadline \in Optional
  BY <1>1 DEF Command
<1> HIDE DEF c
<1>7. game' \in Game /\ (game'.archived => game'.status = "closed")
      /\ game'.closeOp = game.closeOp /\ game'.closeAt = game.closeAt /\ game'.done = game.done
  BY <1>2, <1>3, <1>5, <1>6, GameIsGame DEF Game, Optional
<1>8. step \in Steps /\ step \notin {"set", "archive", "tell"}
  BY <1>4 DEF Steps
<1>9. UNCHANGED <<clock, counted, queue, timer, edit, edits, commands, failed>> /\ invited' \in BOOLEAN
  BY DEF Set, LifecycleInv, LifecycleTypeOK
<1> QED
  BY <1>1, <1>3, <1>4, <1>7, <1>8, <1>9, GameWriteKeeps

LEMMA StartKeeps == ASSUME LifecycleInv, NEW g \in Groups, Start(g) PROVE LifecycleInv'
<1> DEFINE at == CommandAt(g).at
<1>1. attempt[g] # "idle" /\ at \in Optional
  BY HeadIsPlaced DEF Start, Reached, Command
<1>2. attempt' = [attempt EXCEPT ![g] = "publish"]
  BY DEF Start, Continue
<1>3. \/ game' = game
      \/ ~game.archived /\ game.closeOp = Never /\ game' = [game EXCEPT !.status = "closed", !.closeOp = at]
  BY DEF Start, StartMatches
<1> HIDE DEF at
<1>4. /\ game' \in Game /\ (game'.archived => game'.status = "closed")
      /\ game.closeOp # Never => game'.closeOp = game.closeOp /\ game'.closeAt = game.closeAt
      /\ game'.done = game.done
      /\ game'.archived = game.archived /\ (game'.status = game.status \/ game'.status = "closed")
  BY <1>1, <1>3, GameIsGame DEF Game
<1>5. "publish" \in Steps
  BY DEF Steps
<1>6. UNCHANGED <<clock, counted, queue, timer, edit, edits, commands, failed>> /\ invited' \in BOOLEAN
  BY DEF Start, LifecycleInv, LifecycleTypeOK
<1> QED
  BY <1>1, <1>2, <1>4, <1>5, <1>6, GameWriteKeeps

LEMMA ArchiveKeeps == ASSUME LifecycleInv, NEW g \in Groups, Archive(g) PROVE LifecycleInv'
<1>1. attempt[g] = "archive" /\ CommandAt(g).kind = "finalize" /\ g = "game"
  <2>1. attempt[g] = "archive" /\ CommandAt(g).kind = "finalize"
    BY DEF Archive, Reached
  <2> QED
    BY <2>1, HeadIsPlaced DEF GroupOf
<1>2. attempt' = [attempt EXCEPT ![g] = "tell"]
  BY DEF Archive, Continue
<1>3. \/ game' = game /\ (game.archived \/ game.done)
      \/ game' = [game EXCEPT !.status = "closed", !.archived = TRUE]
  BY DEF Archive
<1>4. /\ game' \in Game /\ (game'.archived => game'.status = "closed")
      /\ game'.closeOp = game.closeOp /\ game'.closeAt = game.closeAt /\ game'.done = game.done
      /\ game'.done \/ game'.archived
  BY <1>3, GameIsGame DEF Game
<1>5. "tell" \in Steps
  BY DEF Steps
<1>6. UNCHANGED <<clock, counted, queue, timer, edit, edits, commands, failed>> /\ invited' \in BOOLEAN
  BY DEF Archive, LifecycleInv, LifecycleTypeOK
<1>7. FinalizeSound(g)'
  <2>1. game.closeOp = CommandAt(g).at /\ game.closeAt = CommandAt(g).at
    BY <1>1 DEF LifecycleInv, FinalizeSound, Reached
  <2>2. CommandAt(g)' = CommandAt(g)
    BY <1>6 DEF CommandAt
  <2> QED
    BY <1>4, <2>1, <2>2 DEF FinalizeSound
<1> QED
  BY <1>1, <1>2, <1>4, <1>5, <1>6, <1>7, GameWriteKeeps

\* A notice, or the completion after all of them.
LEMMA TellMasterKeeps == ASSUME LifecycleInv, NEW g \in Groups, TellMaster(g) PROVE LifecycleInv'
<1>1. attempt[g] = "tell" /\ attempt \in [Groups -> Steps]
  BY DEF TellMaster, Reached, LifecycleInv, LifecycleTypeOK
<1>2. attempt' = [attempt EXCEPT ![g] = "tell"]
  BY <1>1 DEF TellMaster
<1>3. PICK m \in Masters : game' = [game EXCEPT !.told = @ \cup {m}]
  BY DEF TellMaster
<1>4. /\ game' \in Game
      /\ game'.status = game.status /\ game'.archived = game.archived
      /\ game'.closeOp = game.closeOp /\ game'.closeAt = game.closeAt /\ game'.done = game.done
  BY <1>3, GameIsGame DEF Game
<1>5. "tell" \in Steps
  BY DEF Steps
<1>6. UNCHANGED <<clock, counted, queue, timer, edit, edits, commands, failed>> /\ invited' \in BOOLEAN
  BY DEF TellMaster, LifecycleInv, LifecycleTypeOK
<1>7. FinalizeSound(g)'
  <2>1. CommandAt(g)' = CommandAt(g) /\ attempt' = attempt
    BY <1>6 DEF CommandAt, TellMaster
  <2>2. FinalizeSound(g)
    BY DEF LifecycleInv
  <2> QED
    BY <1>4, <2>1, <2>2 DEF FinalizeSound, Reached
<1> QED
  BY <1>1, <1>2, <1>4, <1>5, <1>6, <1>7, GameIsGame, GameWriteKeeps

LEMMA CompleteKeeps == ASSUME LifecycleInv, NEW g \in Groups, Complete(g) PROVE LifecycleInv'
<1>1. attempt[g] # "idle" /\ attempt' = [attempt EXCEPT ![g] = "reply"]
  BY DEF Complete, Reached, Continue
<1>2. game' = [game EXCEPT !.done = TRUE]
  BY DEF Complete
<1>3. /\ game' \in Game
      /\ game'.status = game.status /\ game'.archived = game.archived
      /\ game'.closeOp = game.closeOp /\ game'.closeAt = game.closeAt /\ game'.done
  BY <1>2, GameIsGame DEF Game
<1>4. "reply" \in Steps
  BY DEF Steps
<1>5. UNCHANGED <<clock, counted, queue, timer, edit, edits, commands, failed>> /\ invited' \in BOOLEAN
  BY DEF Complete, LifecycleInv, LifecycleTypeOK
<1> QED
  BY <1>1, <1>3, <1>4, <1>5, GameIsGame, GameWriteKeeps

-----------------------------------------------------------------------------
LEMMA LifecycleStep == LifecycleInv /\ [LifecycleNext]_lifecycleVars => LifecycleInv'
<1> SUFFICES ASSUME LifecycleInv, [LifecycleNext]_lifecycleVars PROVE LifecycleInv'
  OBVIOUS
<1>1. CASE Tick
  BY <1>1, TickKeeps
<1>2. CASE \E m \in Editors : BeginEdit(m) \/ EnterDeadline(m) \/ WriteEdit(m)
  BY <1>2, BeginEditKeeps, EnterDeadlineKeeps, WriteEditKeeps
<1>3. CASE PublishByMaster
  BY <1>3, PublishByMasterKeeps
<1>4. CASE TimerRead \/ TimerPublish
  BY <1>4, TimerReadKeeps, TimerPublishKeeps
<1>5. CASE \E g \in Groups : Work(g) \/ Fail(g)
  BY <1>5, LoadKeeps, OpenKeeps, InviteKeeps, SetKeeps, StartKeeps, PublishNextKeeps, CountKeeps, CommitKeeps,
     ArchiveKeeps, TellMasterKeeps, CompleteKeeps, ReplyKeeps, FailKeeps DEF Work
<1>6. CASE UNCHANGED lifecycleVars
  <2>1. LifecycleTypeOK'
    BY <1>6 DEF LifecycleInv, LifecycleTypeOK, lifecycleVars
  <2> QED
    BY <1>6, <2>1, AsideKeepsLifecycle DEF lifecycleVars
<1> QED
  BY <1>1, <1>2, <1>3, <1>4, <1>5, <1>6 DEF LifecycleNext

\* At every point of planning, timer, statistics and archiving the types, the
\* places of the commands and the plan a closing works for are in order.
\* (GC: _event, _start, _finalize.)
THEOREM LifecycleInvariant == LifecycleSpec => []LifecycleInv
<1> QED
  BY LifecycleInitial, LifecycleStep, PTL DEF LifecycleSpec

\* What a step does to the plan of a closing.
LEMMA WhoTouchesThePlan ==
    ASSUME LifecycleInv, LifecycleNext
    PROVE  /\ game'.closeOp # game.closeOp => game.closeAt # Never /\ game.closeOp = Never
           /\ game.closeOp # Never => game'.closeAt = game.closeAt
           /\ game'.done /\ ~game.done =>
                \E g \in Groups : Complete(g)
<1>1. game \in Game
  BY GameIsGame
<1>2. CASE \E m \in Editors : WriteEdit(m)
  BY <1>2, WriteEditWrites DEF LifecycleInv
<1>3. CASE \E g \in Groups : Open(g)
  BY <1>1, <1>3 DEF Open, Game
<1>4. CASE \E g \in Groups : Set(g)
  <2> PICK g \in Groups : Set(g)
    BY <1>4
  <2>1. attempt[g] = "set" /\ CommandAt(g).kind \in MasterKinds
    BY DEF Set, LifecycleInv, SetSound
  <2>2. CommandAt(g).kind \in {"register", "confirm", "close", "archive", "unarchive"}
    BY <2>1, ScheduledLifecycleAssumption
  <2> QED
    BY <1>1, <2>2 DEF Set, Game
<1>5. CASE \E g \in Groups : Start(g)
  BY <1>1, <1>5 DEF Start, StartMatches, Game
<1>6. CASE \E g \in Groups : Archive(g)
  BY <1>1, <1>6 DEF Archive, Game
<1>7. CASE \E g \in Groups : TellMaster(g)
  BY <1>1, <1>7 DEF TellMaster, Game
<1>8. CASE \E g \in Groups : Complete(g)
  BY <1>1, <1>8 DEF Complete, Game
<1>9. CASE UNCHANGED game
  BY <1>9
<1>10. LifecycleNext =>
         \/ \E m \in Editors : WriteEdit(m)
         \/ \E g \in Groups : Open(g) \/ Set(g) \/ Start(g) \/ Archive(g) \/ TellMaster(g) \/ Complete(g)
         \/ UNCHANGED game
  BY DEF LifecycleNext, Work, Tick, BeginEdit, EnterDeadline, Plan, PublishByMaster, TimerRead, TimerPublish,
         Load, Invite, PublishNext, Count, Commit, Reply, Fail
<1> QED
  BY <1>2, <1>3, <1>4, <1>5, <1>6, <1>7, <1>8, <1>9, <1>10

\* Whoever completes a closing has found the game archived and closed, and the
\* plan that has begun in force.
LEMMA CompletedFor ==
    ASSUME LifecycleInv, NEW g \in Groups, Complete(g), ~game.done
    PROVE  game.archived /\ game.status = "closed" /\ game.closeOp = game.closeAt /\ game.told = Masters
<1>1. Reached(g, "tell", {"finalize"}) /\ Masters \subseteq game.told
  BY DEF Complete, EverybodyTold
<1>2. game.told \subseteq Masters
  BY GameIsGame DEF Game
<1> QED
  BY <1>1, <1>2 DEF LifecycleInv, FinalizeSound

\* A closing that has begun cannot be moved or cancelled, and is completed only
\* for the plan it began with.  (event_repository.py: set_scheduled_close_at.)
THEOREM BegunStaysFixed == LifecycleSpec => BegunClosingIsFixed
<1>1. LifecycleInv /\ [LifecycleNext]_lifecycleVars =>
        [game.closeOp # Never =>
          /\ game'.closeAt = game.closeAt /\ game'.closeOp = game.closeOp
          /\ (game'.done => game.done \/ game.closeOp = game.closeAt)]_lifecycleVars
  BY WhoTouchesThePlan, CompletedFor
<1> QED
  BY <1>1, LifecycleInvariant, PTL DEF LifecycleSpec, BegunClosingIsFixed

\* A plan that has been cancelled closes nothing, even when the closing command
\* had been checked against it before.  (event_repository.py: start_scheduled_close.)
THEOREM CancelledNeverCloses == LifecycleSpec => CancelledClosingClosesNothing
<1>1. LifecycleInv /\ [LifecycleNext]_lifecycleVars =>
        [game'.closeOp # game.closeOp => game.closeAt # Never]_lifecycleVars
  BY WhoTouchesThePlan
<1> QED
  BY <1>1, LifecycleInvariant, PTL DEF LifecycleSpec, CancelledClosingClosesNothing

\* The closing is over only for a closed, archived game whose masters have all
\* been told.  (game_closings.py: _finalize.)
THEOREM CompletedIsComplete == LifecycleSpec => CompletionIsComplete
<1>1. LifecycleInv /\ [LifecycleNext]_lifecycleVars =>
        [game'.done /\ ~game.done =>
          game.archived /\ game.status = "closed" /\ game.told = Masters]_lifecycleVars
  BY WhoTouchesThePlan, CompletedFor
<1> QED
  BY <1>1, LifecycleInvariant, PTL DEF LifecycleSpec, CompletionIsComplete
================================================================================
