----------------------------- MODULE DiskUploader -----------------------------
(***************************************************************************)
(* functions/disk_uploader/index.go for one destination on Yandex Disk.    *)
(* A job carries a staged workbook and a generation, the instant at which  *)
(* it was staged (adapters/yandex_disk/uploader.py); here jobs are         *)
(* numbered in the order of their generations.  The platform invokes the   *)
(* uploader for each job, three times at most, in any order and at the     *)
(* same time.                                                              *)
(*                                                                         *)
(* Object Storage keeps versions: a lock and a generation marker are       *)
(* sequences of versions, of which the last one is read and each can be    *)
(* deleted by itself.  A step is one request; an instance may be killed    *)
(* between any two, and any request may fail.  Every file here is          *)
(* published.                                                              *)
(*                                                                         *)
(* Definitions whose comment begins with "Variant" are plausible mistakes; *)
(* no specification uses them.                                             *)
(***************************************************************************)
EXTENDS Naturals, Sequences, FiniteSets, SequencesExt

CONSTANTS
    JobCount,      \* jobs, in the order of their generations
    Overwriting,   \* jobs that replace the file, the others create it
    Mirrored,      \* jobs whose file is on Google Drive already
    Called,        \* jobs with a completion callback
    Attempts,      \* uploads tried in one invocation
    Deliveries,    \* invocations of one job
    Late,          \* an invocation may go on when its generation is old
    MaxFailures    \* bound: failed requests and killed instances

Jobs == 1 .. JobCount

ASSUME DiskUploaderAssumption ==
    /\ JobCount \in Nat \ {0} /\ Attempts \in Nat \ {0} /\ Deliveries \in Nat \ {0}
    /\ Overwriting \subseteq Jobs /\ Mirrored \subseteq Jobs /\ Called \subseteq Jobs
    /\ Late \in BOOLEAN /\ MaxFailures \in Nat

VARIABLES
    lock,      \* versions of the lock object
    marks,     \* versions of the generation marker
    staged,    \* jobs whose staged workbook exists
    disk,      \* generation of the file on Yandex Disk, 0 without a file
    shared,    \* the file has a public link
    job,       \* the invocation of each job
    stale,     \* jobs whose generation is older than lockStaleAfter
    reported,  \* history: results the completion function was called with
    failures   \* failed requests and killed instances so far

vars == <<lock, marks, staged, disk, shared, job, stale, reported, failures>>

\* What one attempt of one invocation has put.
Version == [gen : Jobs, delivery : 1 .. Deliveries, attempt : 1 .. Attempts]

NoVersion == [gen |-> 0, delivery |-> 0, attempt |-> 0]

\* The phases in which the attempt has a lock and will release it.
Holding == {"generation", "skip", "fetch", "existing", "link", "upload", "publish",
            "conflict", "mark", "prune", "unstage", "release"}

Phases == {"waiting", "acquire", "sweep", "report", "give_up", "clean", "done"} \cup Holding

Invocation == [phase : Phases, delivery : 0 .. Deliveries, attempt : 0 .. Attempts,
               previous : Version \cup {NoVersion}, error : {"none", "busy", "failed"}]

TypeOK ==
    /\ lock \in Seq(Version) /\ marks \in Seq(Version)
    /\ staged \subseteq Jobs /\ stale \subseteq Jobs
    /\ disk \in {0} \cup Jobs /\ shared \in BOOLEAN
    /\ job \in [Jobs -> Invocation]
    /\ reported \in [Jobs -> SUBSET {"success", "failure"}]
    /\ failures \in 0 .. MaxFailures

Init ==
    /\ lock = <<>> /\ marks = <<>>
    /\ staged = Jobs /\ stale = {} /\ disk = 0 /\ shared = FALSE
    /\ job = [j \in Jobs |-> [phase |-> "waiting", delivery |-> 0, attempt |-> 0,
                              previous |-> NoVersion, error |-> "none"]]
    /\ reported = [j \in Jobs |-> {}]
    /\ failures = 0

-----------------------------------------------------------------------------
Running(j) == job[j].phase \notin {"waiting", "done"}

At(j, phase) == job[j].phase = phase

GoTo(j, phase) == job' = [job EXCEPT ![j].phase = phase]

Current(versions) == IF versions = <<>> THEN NoVersion ELSE Last(versions)

\* Deletion of one version; nothing happens if there is none.
Without(versions, v) ==
    IF \E i \in DOMAIN versions : versions[i] = v
    THEN RemoveAt(versions, CHOOSE i \in DOMAIN versions : versions[i] = v)
    ELSE versions

Own(j) == [gen |-> j, delivery |-> job[j].delivery, attempt |-> job[j].attempt]

MayFail == failures < MaxFailures

CountFailure == failures' = failures + 1

-----------------------------------------------------------------------------
\* The platform invokes the uploader for a job that has not been completed.
Deliver(j) ==
    /\ At(j, "waiting") /\ job[j].delivery < Deliveries
    /\ Late \/ j \notin stale
    /\ job' = [job EXCEPT ![j].phase = "acquire", ![j].delivery = @ + 1, ![j].attempt = 1,
                          ![j].error = "none"]
    /\ UNCHANGED <<lock, marks, staged, disk, shared, stale, reported, failures>>

\* The invocation gets no token for Yandex Disk.
NoToken(j) ==
    /\ At(j, "waiting") /\ job[j].delivery < Deliveries
    /\ Late \/ j \notin stale
    /\ MayFail /\ CountFailure
    /\ job' = [job EXCEPT ![j].phase = IF j \in Mirrored THEN "give_up" ELSE "waiting",
                          ![j].delivery = @ + 1]
    /\ UNCHANGED <<lock, marks, staged, disk, shared, stale, reported>>

\* Six minutes have passed since the job was staged.
Age(j) ==
    /\ j \notin stale /\ (1 .. j - 1) \subseteq stale
    /\ Late \/ ~Running(j)
    /\ stale' = stale \cup {j}
    /\ UNCHANGED <<lock, marks, staged, disk, shared, job, reported, failures>>

-----------------------------------------------------------------------------
(***************************************************************************)
(* acquireDestination.  The age of a lock is the age of the generation     *)
(* written in it, not the time for which it has been held.                 *)
(***************************************************************************)
\* Variant: the age is not looked at.
MayTakeOverAlways == lock # <<>>

MayTakeOver == lock # <<>> /\ Last(lock).gen \in stale

PutLock(j) ==
    /\ lock = <<>> \/ MayTakeOver
    /\ lock' = Append(lock, Own(j))

\* A new lock, or a stale one taken over: its version is deleted next.
Acquire(j) ==
    /\ At(j, "acquire")
    /\ PutLock(j)
    /\ job' = [job EXCEPT ![j].phase = IF lock = <<>> THEN "generation" ELSE "sweep",
                          ![j].previous = Current(lock)]
    /\ UNCHANGED <<marks, staged, disk, shared, stale, reported, failures>>

Sweep(j) ==
    /\ At(j, "sweep")
    /\ lock' = Without(lock, job[j].previous)
    /\ GoTo(j, "generation")
    /\ UNCHANGED <<marks, staged, disk, shared, stale, reported, failures>>

\* What process() does after an attempt that ended with `error`.
AttemptsOf(j) == IF j \in Mirrored THEN 1 ELSE Attempts

Ended(j, error) ==
    LET next == [job[j] EXCEPT !.error = error] IN
    CASE error = "none" -> [next EXCEPT !.phase = "report"]
      [] error # "none" /\ job[j].attempt < AttemptsOf(j) ->
            [next EXCEPT !.phase = "acquire", !.attempt = @ + 1]
      [] OTHER ->
            IF j \in Mirrored \/ (error # "busy" /\ j \in Called)
            THEN [next EXCEPT !.phase = "give_up"]
            ELSE [next EXCEPT !.phase = "waiting"]

\* Ten tries have met a lock that is not stale.
Busy(j) ==
    /\ At(j, "acquire")
    /\ lock # <<>> /\ ~MayTakeOver
    /\ job' = [job EXCEPT ![j] = Ended(j, "busy")]
    /\ UNCHANGED <<lock, marks, staged, disk, shared, stale, reported, failures>>

\* A request fails before uploadOne has arranged for the release: the lock may
\* have been put although its answer was lost, and it stays.
AcquireFails(j) ==
    /\ MayFail /\ CountFailure
    /\ \/ At(j, "acquire") /\ (PutLock(j) \/ UNCHANGED lock)
       \/ At(j, "sweep") /\ UNCHANGED lock
    /\ job' = [job EXCEPT ![j] = Ended(j, "failed")]
    /\ UNCHANGED <<marks, staged, disk, shared, stale, reported>>

-----------------------------------------------------------------------------
(***************************************************************************)
(* uploadOne, under the lock.                                              *)
(***************************************************************************)
\* Variant: only the same generation counts as uploaded.
SupersededBySame(j, v) == v.gen = j

Superseded(j, v) == v.gen >= j

ReadGeneration(j) ==
    /\ At(j, "generation")
    /\ job' = [job EXCEPT ![j].previous = Current(marks),
                          ![j].phase = IF Superseded(j, Current(marks)) THEN "skip" ELSE "fetch"]
    /\ UNCHANGED <<lock, marks, staged, disk, shared, stale, reported, failures>>

Skip(j) ==
    /\ At(j, "skip")
    /\ staged' = staged \ {j}
    /\ GoTo(j, "existing")
    /\ UNCHANGED <<lock, marks, disk, shared, stale, reported, failures>>

\* A staged workbook that is gone is taken for one uploaded earlier.
Fetch(j) ==
    /\ At(j, "fetch")
    /\ GoTo(j, IF j \in staged THEN "link" ELSE "existing")
    /\ UNCHANGED <<lock, marks, staged, disk, shared, stale, reported, failures>>

\* existingResult as the result of the attempt.
Existing(j) ==
    /\ At(j, "existing")
    /\ shared' = (disk # 0)
    /\ job' = [job EXCEPT ![j].phase = "release",
                          ![j].error = IF disk = 0 THEN "failed" ELSE "none"]
    /\ UNCHANGED <<lock, marks, staged, disk, stale, reported, failures>>

\* Yandex Disk refuses an upload link for a file that is not to be replaced.
Refused(j) == j \notin Overwriting /\ disk # 0

Link(j) ==
    /\ At(j, "link")
    /\ GoTo(j, IF Refused(j) THEN "conflict" ELSE "upload")
    /\ UNCHANGED <<lock, marks, staged, disk, shared, stale, reported, failures>>

Upload(j) ==
    /\ At(j, "upload")
    /\ disk' = j
    /\ GoTo(j, "publish")
    /\ UNCHANGED <<lock, marks, staged, shared, stale, reported, failures>>

\* publish, and existingResult after a conflict.
Publish(j) ==
    /\ At(j, "publish") \/ At(j, "conflict")
    /\ shared' = TRUE
    /\ GoTo(j, "mark")
    /\ UNCHANGED <<lock, marks, staged, disk, stale, reported, failures>>

Mark(j) ==
    /\ At(j, "mark")
    /\ marks' = Append(marks, Own(j))
    /\ GoTo(j, "prune")
    /\ UNCHANGED <<lock, staged, disk, shared, stale, reported, failures>>

\* Deletion of the marker read before; its failure is only logged.
Prune(j) ==
    /\ At(j, "prune")
    /\ \/ marks' = Without(marks, job[j].previous) /\ UNCHANGED failures
       \/ MayFail /\ CountFailure /\ UNCHANGED marks
    /\ GoTo(j, "unstage")
    /\ UNCHANGED <<lock, staged, disk, shared, stale, reported>>

Unstage(j) ==
    /\ At(j, "unstage")
    /\ staged' = staged \ {j}
    /\ job' = [job EXCEPT ![j].phase = "release", ![j].error = "none"]
    /\ UNCHANGED <<lock, marks, disk, shared, stale, reported, failures>>

RequestFails(j) ==
    /\ job[j].phase \in Holding \ {"prune", "release"}
    /\ MayFail /\ CountFailure
    /\ job' = [job EXCEPT ![j].phase = "release", ![j].error = "failed"]
    /\ UNCHANGED <<lock, marks, staged, disk, shared, stale, reported>>

\* The deferred release of this attempt's version; its failure is only logged.
Release(j) ==
    /\ At(j, "release")
    /\ \/ lock' = Without(lock, Own(j)) /\ UNCHANGED failures
       \/ MayFail /\ CountFailure /\ UNCHANGED lock
    /\ job' = [job EXCEPT ![j] = Ended(j, job[j].error)]
    /\ UNCHANGED <<marks, staged, disk, shared, stale, reported>>

-----------------------------------------------------------------------------
(***************************************************************************)
(* The end of process(): the completion function is told, or the error is  *)
(* left to the platform, which invokes the uploader again.                 *)
(***************************************************************************)
Tell(j, result) == reported' = [reported EXCEPT ![j] = IF j \in Called THEN @ \cup {result} ELSE @]

Report(j) ==
    /\ At(j, "report")
    /\ Tell(j, "success")
    /\ GoTo(j, "done")
    /\ UNCHANGED <<lock, marks, staged, disk, shared, stale, failures>>

\* Variant: the staged workbook is deleted before the failure is reported.
GiveUpCleaning(j) ==
    /\ At(j, "give_up")
    /\ IF j \in staged
       THEN staged' = staged \ {j} /\ UNCHANGED <<reported, job>>
       ELSE Tell(j, "failure") /\ GoTo(j, "clean") /\ UNCHANGED staged
    /\ UNCHANGED <<lock, marks, disk, shared, stale, failures>>

GiveUp(j) ==
    /\ At(j, "give_up")
    /\ Tell(j, "failure")
    /\ GoTo(j, "clean")
    /\ UNCHANGED <<lock, marks, staged, disk, shared, stale, failures>>

TellingFails(j) ==
    /\ At(j, "report") \/ At(j, "give_up")
    /\ j \in Called
    /\ MayFail /\ CountFailure
    /\ GoTo(j, "waiting")
    /\ UNCHANGED <<lock, marks, staged, disk, shared, stale, reported>>

\* cleanupStaged; its failure is only logged.
Clean(j) ==
    /\ At(j, "clean")
    /\ \/ staged' = staged \ {j} /\ UNCHANGED failures
       \/ MayFail /\ CountFailure /\ UNCHANGED staged
    /\ GoTo(j, "done")
    /\ UNCHANGED <<lock, marks, disk, shared, stale, reported>>

\* The instance is killed, at the latest after the 300 seconds it may run.
Killed(j) ==
    /\ Running(j)
    /\ MayFail /\ CountFailure
    /\ GoTo(j, "waiting")
    /\ UNCHANGED <<lock, marks, staged, disk, shared, stale, reported>>

Uploading(j) ==
    \/ ReadGeneration(j) \/ Skip(j) \/ Fetch(j) \/ Existing(j) \/ Link(j) \/ Upload(j)
    \/ Publish(j) \/ Mark(j) \/ Prune(j) \/ Unstage(j) \/ RequestFails(j) \/ Release(j)

Next ==
    \E j \in Jobs :
        \/ Deliver(j) \/ NoToken(j) \/ Age(j)
        \/ Acquire(j) \/ Sweep(j) \/ Busy(j) \/ AcquireFails(j)
        \/ Uploading(j)
        \/ Report(j) \/ GiveUp(j) \/ TellingFails(j) \/ Clean(j) \/ Killed(j)

Spec == Init /\ [][Next]_vars

-----------------------------------------------------------------------------
\* Replacements of one file are serialized (README: "Per-destination Object
\* Storage locks serialize concurrent replacements"): between reading the
\* marker and writing it no other job touches the file.
OneReplacementAtATime ==
    \A j, k \in Jobs :
        job[j].phase \in Holding \ {"release"} /\ job[k].phase \in Holding \ {"release"} => j = k

\* The file has the workbook of job j or of a newer one.  A job that only
\* creates the file leaves the one it finds alone, and its generation counts as
\* uploaded nonetheless (index.go:772 "StatusConflict"): then there is a file.
Served(j) ==
    /\ disk # 0
    /\ disk >= j \/ \E k \in Jobs \ Overwriting : k >= j

\* The marker never runs ahead of the file: a job that it supersedes would be
\* dropped although its workbook is newer than the file.
MarkerIsOnDisk == marks # <<>> => Served(Current(marks).gen)

\* A job of which only success was reported has its workbook, or a newer one,
\* on Yandex Disk.
SuccessMeansUploaded == \A j \in Jobs : reported[j] = {"success"} => Served(j)
================================================================================
