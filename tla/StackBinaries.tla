---------------------------- MODULE StackBinaries ----------------------------
(***************************************************************************)
(* StackBinaryDownloader: processes (`check`, `stack run`, `contract test`)*)
(* that share one project directory look for the binaries of the stack and *)
(* download those that are not there with their size.  Every await, and    *)
(* every event of a stream, is a point where another process may act, and  *)
(* where this one may be killed.                                           *)
(***************************************************************************)
EXTENDS Naturals

CONSTANTS
    Proc,       \* processes working in the project directory
    Asset,      \* the assets of the release
    Binary,     \* EXECUTABLES among them
    Chunks,     \* a download is so many chunks long
    MaxFaults   \* bound on kills, broken connections and refused requests

ASSUME BinariesAreAssets == Binary \subseteq Asset
ASSUME ChunksPositive == Chunks \in Nat \ {0}
ASSUME FaultsBounded == MaxFaults \in Nat

VARIABLES
    cache,      \* releases.json
    fresh,      \* it is younger than RELEASES_CACHE_TIME
    file,       \* the assets in the directory of the stack
    pc,         \* where each command stands
    job,        \* its downloads: state, chunks written, file removed under it
    faults,
    overlap,    \* history: assets two processes downloaded at a time
    cut         \* history: binaries whose download died before the chmod

vars == <<cache, fresh, file, pc, job, faults, overlap, cut>>

Absent == [there |-> FALSE, chunks |-> {}, exec |-> FALSE]

Whole == 1..Chunks

NoJob == [st |-> "none", at |-> 0, gone |-> FALSE]
Asked == [st |-> "asked", at |-> 0, gone |-> FALSE]

NoJobs == [a \in Asset |-> NoJob]

File == [there : BOOLEAN, chunks : SUBSET Whole, exec : BOOLEAN]

Job == [st : {"none", "asked", "body", "ended", "stuck", "closed"}, at : 0..Chunks, gone : BOOLEAN]

Place == {"off", "releases", "fetch", "saving", "check", "download", "ready", "failed"}

TypeOK ==
    /\ cache \in {"absent", "torn", "whole"}
    /\ fresh \in BOOLEAN
    /\ file \in [Asset -> File]
    /\ pc \in [Proc -> Place]
    /\ job \in [Proc -> [Asset -> Job]]
    /\ faults \in 0..MaxFaults
    /\ overlap \subseteq Asset
    /\ cut \subseteq Binary

Init ==
    /\ cache = "absent"
    /\ fresh = FALSE
    /\ file = [a \in Asset |-> Absent]
    /\ pc = [p \in Proc |-> "off"]
    /\ job = [p \in Proc |-> NoJobs]
    /\ faults = 0
    /\ overlap = {}
    /\ cut = {}

Fault == faults < MaxFaults /\ faults' = faults + 1

\* The process ends with whatever its downloads were doing.
Dies(p) ==
    /\ pc' = [pc EXCEPT ![p] = "off"]
    /\ job' = [job EXCEPT ![p] = NoJobs]
    /\ cut' = cut \union {a \in Binary : job[p][a].st = "body" /\ job[p][a].at = Chunks}

-----------------------------------------------------------------------------
(* The list of releases.                                                   *)

Start(p) ==
    /\ pc[p] = "off"
    /\ pc' = [pc EXCEPT ![p] = "releases"]
    /\ UNCHANGED <<cache, fresh, file, job, faults, overlap, cut>>

\* Slip: the age of the cache is not looked at.
CachedOnce == cache # "absent"

Cached == cache # "absent" /\ fresh

\* JSON.parse throws on a file another process, or one that died, has left
\* half written.
ReadCache(p) ==
    /\ pc[p] = "releases"
    /\ IF Cached
       THEN IF cache = "whole"
            THEN pc' = [pc EXCEPT ![p] = "check"] /\ UNCHANGED <<job, cut>>
            ELSE Dies(p)
       ELSE pc' = [pc EXCEPT ![p] = "fetch"] /\ UNCHANGED <<job, cut>>
    /\ UNCHANGED <<cache, fresh, file, faults, overlap>>

\* The answer came: writeFileSync has opened, and emptied, the cache.
Fetched(p) ==
    /\ pc[p] = "fetch"
    /\ pc' = [pc EXCEPT ![p] = "saving"]
    /\ cache' = "torn"
    /\ fresh' = TRUE
    /\ UNCHANGED <<file, job, faults, overlap, cut>>

FetchFails(p) ==
    /\ pc[p] = "fetch"
    /\ Fault
    /\ Dies(p)
    /\ UNCHANGED <<cache, fresh, file, overlap>>

Saved(p) ==
    /\ pc[p] = "saving"
    /\ pc' = [pc EXCEPT ![p] = "check"]
    /\ cache' = "whole"
    /\ fresh' = TRUE
    /\ UNCHANGED <<file, job, faults, overlap, cut>>

Expire ==
    /\ fresh
    /\ fresh' = FALSE
    /\ UNCHANGED <<cache, file, pc, job, faults, overlap, cut>>

-----------------------------------------------------------------------------
(* The downloads of one process run concurrently.                          *)

\* The size is that of the asset as soon as the last chunk is written: a gap
\* before it does not show.
SizeMatches(a) == file[a].there /\ Chunks \in file[a].chunks

\* Slips: what is there is taken for complete; everything is downloaded again.
WantedIfAbsent == {a \in Asset : ~file[a].there}
WantedAlways == Asset

Wanted == {a \in Asset : ~SizeMatches(a)}

\* A download of p is not over.
Busy(p, a) == job[p][a].st \notin {"none", "closed"}

Check(p) ==
    /\ pc[p] = "check"
    /\ pc' = [pc EXCEPT ![p] = IF Wanted = {} THEN "ready" ELSE "download"]
    /\ job' = [job EXCEPT ![p] = [a \in Asset |-> IF a \in Wanted THEN Asked ELSE NoJob]]
    /\ overlap' = overlap \union {a \in Wanted : \E q \in Proc \ {p} : Busy(q, a)}
    /\ UNCHANGED <<cache, fresh, file, faults, cut>>

\* createWriteStream truncates a file that is there, which keeps its mode.
Answer(p, a) ==
    /\ job[p][a].st = "asked"
    /\ job' = [job EXCEPT ![p][a].st = "body"]
    /\ file' = [file EXCEPT ![a].there = TRUE, ![a].chunks = {}]
    /\ UNCHANGED <<cache, fresh, pc, faults, overlap, cut>>

\* The file of a download is removed under it.
Unlinked(j) == IF j.st \in {"body", "ended"} THEN [j EXCEPT !.gone = TRUE] ELSE j

\* The request failed, or its status is not 200.  rmSync removes the file, even
\* under another process that writes to it; if there is none rmSync throws, in
\* an executor whose promise nobody handles.
Refuse(p, a) ==
    /\ job[p][a].st = "asked"
    /\ Fault
    /\ file' = [file EXCEPT ![a] = Absent]
    /\ IF file[a].there
       THEN /\ pc' = [pc EXCEPT ![p] = "failed"]
            /\ job' = [q \in Proc |->
                   [job[q] EXCEPT ![a] = IF q = p THEN NoJob ELSE Unlinked(@)]]
            /\ UNCHANGED cut
       ELSE Dies(p)
    /\ UNCHANGED <<cache, fresh, overlap>>

More(p, a) == job[p][a].at < Chunks

\* A chunk has reached the disk, or a file that has no name any more.
Write(p, a) ==
    /\ job[p][a].st \in {"body", "ended"}
    /\ More(p, a)
    /\ job' = [job EXCEPT ![p][a].at = @ + 1]
    /\ file' = IF job[p][a].gone THEN file
               ELSE [file EXCEPT ![a].chunks = @ \union {job[p][a].at + 1}]
    /\ UNCHANGED <<cache, fresh, pc, faults, overlap, cut>>

\* Slip: the mode is not set.
ModeKept(a) == file

ModeSet(a) == IF a \in Binary THEN [file EXCEPT ![a].exec = TRUE] ELSE file

\* 'end': the last chunk may still be on its way to the disk.  chmodSync throws
\* out of the listener when the file is gone.
End(p, a) ==
    /\ job[p][a].st = "body"
    /\ job[p][a].at + 1 >= Chunks
    /\ IF a \in Binary /\ ~file[a].there
       THEN Dies(p) /\ UNCHANGED file
       ELSE job' = [job EXCEPT ![p][a].st = "ended"] /\ file' = ModeSet(a) /\ UNCHANGED <<pc, cut>>
    /\ UNCHANGED <<cache, fresh, faults, overlap>>

\* stream.close calls back once everything is written.
Close(p, a) ==
    /\ job[p][a].st = "ended"
    /\ job[p][a].at = Chunks
    /\ job' = [job EXCEPT ![p][a].st = "closed"]
    /\ UNCHANGED <<cache, fresh, file, pc, faults, overlap, cut>>

\* The connection breaks: neither 'end' nor the catch is ever reached.
Break(p, a) ==
    /\ job[p][a].st = "body"
    /\ More(p, a)
    /\ Fault
    /\ job' = [job EXCEPT ![p][a].st = "stuck"]
    /\ UNCHANGED <<cache, fresh, file, pc, overlap, cut>>

\* Every task of the list is over.
Done(p) ==
    /\ pc[p] = "download"
    /\ \A a \in Asset : ~Busy(p, a)
    /\ pc' = [pc EXCEPT ![p] = "ready"]
    /\ UNCHANGED <<cache, fresh, file, job, faults, overlap, cut>>

\* A command that failed exits, or prints its failure and lets the other
\* downloads run on for a while (`check`).
Exit(p) ==
    /\ pc[p] \in {"ready", "failed"}
    /\ Dies(p)
    /\ UNCHANGED <<cache, fresh, file, faults, overlap>>

Kill(p) ==
    /\ pc[p] \notin {"off", "ready", "failed"}
    /\ Fault
    /\ Dies(p)
    /\ UNCHANGED <<cache, fresh, file, overlap>>

-----------------------------------------------------------------------------
Command(p) ==
    \/ Start(p) \/ ReadCache(p) \/ Fetched(p) \/ Saved(p) \/ Check(p) \/ Done(p) \/ Exit(p)

Download(p, a) == Answer(p, a) \/ Write(p, a) \/ End(p, a) \/ Close(p, a)

Failure(p) == FetchFails(p) \/ Kill(p) \/ \E a \in Asset : Refuse(p, a) \/ Break(p, a)

Next ==
    \/ \E p \in Proc : Command(p) \/ Failure(p) \/ \E a \in Asset : Download(p, a)
    \/ Expire

\* Time passes, the streams deliver, and the user repeats the command; a
\* command that hangs is not interrupted.
Fairness ==
    /\ WF_vars(Expire)
    /\ \A p \in Proc : WF_vars(Command(p)) /\ \A a \in Asset : WF_vars(Download(p, a))

Spec == Init /\ [][Next]_vars
FairSpec == Spec /\ Fairness

-----------------------------------------------------------------------------
(* Properties.                                                             *)

Complete(a) == file[a].there /\ file[a].chunks = Whole

\* A command goes on to the stack only with assets that are there to the last
\* byte, whatever was killed or refused before it: the comparison of sizes
\* (StackBinaryDownloader.ts:142-149) tells a torn download from a whole one.
\* Two commands that download the same asset at a time are the exception.
ReadyMeansWhole ==
    \A p \in Proc : pc[p] = "ready" => \A a \in Asset \ overlap : Complete(a)

\* The last byte is written and the chmod is not: a command is about to do it, or
\* died before it.
Chmodless(a) == a \in cut \/ \E p \in Proc : job[p][a].st = "body"

\* ... and with binaries that can be executed, unless it found one whose chmod was
\* missing: the size hides that, for ever if the download is dead.
ReadyMeansExecutable ==
    \A p \in Proc : pc[p] = "ready" =>
        \A a \in Binary \ overlap : file[a].exec \/ Chmodless(a)

\* An asset that is complete is not touched again by commands that come later.
CompleteStays ==
    [][\A a \in Asset :
         Complete(a) /\ (\A p \in Proc : ~Busy(p, a))
         => file'[a] = file[a] /\ \A p \in Proc : ~Busy(p, a)']_vars

\* When the faults are over, users who repeat the command get one ready, through
\* a torn cache and torn files, if no download hangs.  (Not each of them: one
\* may meet the cache half written by the other time and again.)
Recovers ==
    (\E p \in Proc : pc[p] = "releases") ~>
        \E p \in Proc : pc[p] = "ready" \/ \E a \in Asset : job[p][a].st = "stuck"

=============================================================================
