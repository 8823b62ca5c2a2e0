------------------------- MODULE StackBinaries_proofs -------------------------
(***************************************************************************)
(* What TLAPS proves of StackBinaries, for any commands, assets, length of *)
(* a download and number of faults.                                        *)
(***************************************************************************)
EXTENDS StackBinaries, TLAPS

-----------------------------------------------------------------------------
(* Types.                                                                  *)

LEMMA NoJobType == NoJob \in Job /\ Asked \in Job
BY ChunksPositive DEF NoJob, Asked, Job

\* One download changes.
LEMMA JobsType ==
    ASSUME TypeOK, NEW p \in Proc, NEW a \in Asset, NEW r \in Job
    PROVE  [job EXCEPT ![p] = [job[p] EXCEPT ![a] = r]] \in [Proc -> [Asset -> Job]]
<1>1. [job[p] EXCEPT ![a] = r] \in [Asset -> Job]
    BY DEF TypeOK
<1> QED BY <1>1 DEF TypeOK

LEMMA DiesType ==
    ASSUME TypeOK, NEW p \in Proc, Dies(p)
    PROVE  pc' \in [Proc -> Place] /\ job' \in [Proc -> [Asset -> Job]] /\ cut' \subseteq Binary
BY NoJobType DEF TypeOK, Dies, NoJobs, Place

LEMMA FaultType == TypeOK /\ Fault => faults' \in 0..MaxFaults
BY FaultsBounded DEF TypeOK, Fault

LEMMA InitType == Init => TypeOK
<1> SUFFICES ASSUME Init PROVE TypeOK
    OBVIOUS
<1>1. fresh \in BOOLEAN
    BY Zenon DEF Init
<1> QED
    BY <1>1, NoJobType, FaultsBounded DEF Init, TypeOK, Absent, File, NoJobs, Place

LEMMA StepType == TypeOK /\ [Next]_vars => TypeOK'
<1> SUFFICES ASSUME TypeOK, [Next]_vars PROVE TypeOK'
    OBVIOUS
<1> USE ChunksPositive DEF TypeOK, Place
<1>1. ASSUME NEW p \in Proc, Start(p) PROVE TypeOK'
    BY <1>1 DEF Start
<1>2. ASSUME NEW p \in Proc, ReadCache(p) PROVE TypeOK'
    <2>1. CASE Dies(p)
        BY <1>2, <2>1, DiesType DEF ReadCache
    <2>2. CASE ~Dies(p)
        BY <1>2, <2>2 DEF ReadCache
    <2> QED BY <2>1, <2>2
<1>3. ASSUME NEW p \in Proc, Fetched(p) PROVE TypeOK'
    BY <1>3 DEF Fetched
<1>4. ASSUME NEW p \in Proc, FetchFails(p) PROVE TypeOK'
    BY <1>4, DiesType, FaultType DEF FetchFails
<1>5. ASSUME NEW p \in Proc, Saved(p) PROVE TypeOK'
    BY <1>5 DEF Saved
<1>6. CASE Expire
    BY <1>6 DEF Expire
<1>7. ASSUME NEW p \in Proc, Check(p) PROVE TypeOK'
    <2> DEFINE list == [a \in Asset |-> IF a \in Wanted THEN Asked ELSE NoJob]
    <2>1. list \in [Asset -> Job]
        BY NoJobType
    <2>2. job' = [job EXCEPT ![p] = list]
        BY <1>7 DEF Check
    <2>3. overlap' \subseteq Asset
        BY <1>7 DEF Check, Wanted
    <2> HIDE DEF list
    <2>4. job' \in [Proc -> [Asset -> Job]]
        BY <2>1, <2>2
    <2> QED BY <1>7, <2>3, <2>4 DEF Check
<1>8. ASSUME NEW p \in Proc, NEW a \in Asset, Answer(p, a) PROVE TypeOK'
    <2> DEFINE r == [job[p][a] EXCEPT !.st = "body"]
    <2>1. r \in Job
        BY DEF Job
    <2>2. job' = [job EXCEPT ![p] = [job[p] EXCEPT ![a] = r]]
        BY <1>8 DEF Answer
    <2>3. [file[a] EXCEPT !.there = TRUE, !.chunks = {}] \in File
        BY DEF File
    <2> HIDE DEF r
    <2>4. job' \in [Proc -> [Asset -> Job]]
        BY <2>1, <2>2, JobsType
    <2> QED BY <1>8, <2>3, <2>4 DEF Answer
<1>9. ASSUME NEW p \in Proc, NEW a \in Asset, Refuse(p, a) PROVE TypeOK'
    <2>1. file' \in [Asset -> File]
        BY <1>9 DEF Refuse, Absent, File
    <2>2. CASE file[a].there
        <3> DEFINE r(q) == IF q = p THEN NoJob ELSE Unlinked(job[q][a])
        <3>1. ASSUME NEW q \in Proc PROVE r(q) \in Job
            <4>1. job[q][a] \in Job
                OBVIOUS
            <4> QED BY <4>1, NoJobType DEF Unlinked, Job
        <3>2. \A q \in Proc : r(q) \in Job
            BY <3>1
        <3>3. job' = [q \in Proc |-> [job[q] EXCEPT ![a] = r(q)]]
            BY <1>9, <2>2 DEF Refuse
        <3> HIDE DEF r
        <3>4. \A q \in Proc : [job[q] EXCEPT ![a] = r(q)] \in [Asset -> Job]
            BY <3>2
        <3>5. job' \in [Proc -> [Asset -> Job]]
            BY <3>3, <3>4
        <3> QED BY <1>9, <2>1, <2>2, <3>5, FaultType DEF Refuse
    <2>3. CASE ~file[a].there
        BY <1>9, <2>1, <2>3, FaultType, DiesType DEF Refuse
    <2> QED BY <2>2, <2>3
<1>10. ASSUME NEW p \in Proc, NEW a \in Asset, Write(p, a) PROVE TypeOK'
    <2> DEFINE r == [job[p][a] EXCEPT !.at = @ + 1]
    <2>1. job[p][a].at + 1 \in Whole
        BY <1>10 DEF Write, More, Whole, Job
    <2>2. r \in Job
        <3>1. job[p][a] \in Job /\ job[p][a].at + 1 \in 0..Chunks
            BY <2>1 DEF Whole
        <3> QED BY <3>1 DEF Job
    <2>3. job' = [job EXCEPT ![p] = [job[p] EXCEPT ![a] = r]]
        BY <1>10 DEF Write
    <2>4. [file[a] EXCEPT !.chunks = @ \union {job[p][a].at + 1}] \in File
        BY <2>1 DEF File
    <2> HIDE DEF r
    <2>5. job' \in [Proc -> [Asset -> Job]]
        BY <2>2, <2>3, JobsType
    <2>6. file' \in [Asset -> File]
        BY <1>10, <2>4 DEF Write
    <2> QED BY <1>10, <2>5, <2>6 DEF Write
<1>11. ASSUME NEW p \in Proc, NEW a \in Asset, End(p, a) PROVE TypeOK'
    <2>1. CASE a \in Binary /\ ~file[a].there
        BY <1>11, <2>1, DiesType DEF End
    <2>2. CASE ~(a \in Binary /\ ~file[a].there)
        <3> DEFINE r == [job[p][a] EXCEPT !.st = "ended"]
        <3>1. r \in Job
            BY DEF Job
        <3>2. job' = [job EXCEPT ![p] = [job[p] EXCEPT ![a] = r]]
            BY <1>11, <2>2 DEF End
        <3>3. [file[a] EXCEPT !.exec = TRUE] \in File
            BY DEF File
        <3>4. file' \in [Asset -> File]
            BY <1>11, <2>2, <3>3 DEF End, ModeSet
        <3> HIDE DEF r
        <3>5. job' \in [Proc -> [Asset -> Job]]
            BY <3>1, <3>2, JobsType
        <3> QED BY <1>11, <2>2, <3>4, <3>5 DEF End
    <2> QED BY <2>1, <2>2
<1>12. ASSUME NEW p \in Proc, NEW a \in Asset, Close(p, a) PROVE TypeOK'
    <2> DEFINE r == [job[p][a] EXCEPT !.st = "closed"]
    <2>1. r \in Job
        BY DEF Job
    <2>2. job' = [job EXCEPT ![p] = [job[p] EXCEPT ![a] = r]]
        BY <1>12 DEF Close
    <2> HIDE DEF r
    <2>3. job' \in [Proc -> [Asset -> Job]]
        BY <2>1, <2>2, JobsType
    <2> QED BY <1>12, <2>3 DEF Close
<1>13. ASSUME NEW p \in Proc, NEW a \in Asset, Break(p, a) PROVE TypeOK'
    <2> DEFINE r == [job[p][a] EXCEPT !.st = "stuck"]
    <2>1. r \in Job
        BY DEF Job
    <2>2. job' = [job EXCEPT ![p] = [job[p] EXCEPT ![a] = r]]
        BY <1>13 DEF Break
    <2> HIDE DEF r
    <2>3. job' \in [Proc -> [Asset -> Job]]
        BY <2>1, <2>2, JobsType
    <2> QED BY <1>13, <2>3, FaultType DEF Break
<1>14. ASSUME NEW p \in Proc, Done(p) PROVE TypeOK'
    BY <1>14 DEF Done
<1>15. ASSUME NEW p \in Proc, Exit(p) PROVE TypeOK'
    BY <1>15, DiesType DEF Exit
<1>16. ASSUME NEW p \in Proc, Kill(p) PROVE TypeOK'
    BY <1>16, DiesType, FaultType DEF Kill
<1>17. CASE UNCHANGED vars
    BY <1>17 DEF vars
<1> HIDE DEF TypeOK
<1> QED
    BY <1>1, <1>2, <1>3, <1>4, <1>5, <1>6, <1>7, <1>8, <1>9, <1>10, <1>11, <1>12, <1>13,
       <1>14, <1>15, <1>16, <1>17 DEF Next, Command, Download, Failure

\* Every reachable state is well typed; in particular no download writes past
\* its last chunk.
THEOREM TypeCorrect == Spec => []TypeOK
BY InitType, StepType, PTL DEF Spec

-----------------------------------------------------------------------------
(* What a download and the file it writes have to do with each other, for  *)
(* an asset no two commands downloaded at a time.                          *)

OneDownload(a) == \A p, q \in Proc : Busy(p, a) /\ Busy(q, a) => p = q

\* Without a gap: what is there is what one download wrote, from the start.
NoGap(a) == \E k \in 0..Chunks : file[a].chunks = 1..k

\* A request is under way only for a file that is not complete.
AskedForTorn(a) ==
    \A p \in Proc : job[p][a].st = "asked" =>
        ~SizeMatches(a) /\ job[p][a].at = 0 /\ ~job[p][a].gone

WritesItsFile(a) ==
    \A p \in Proc : job[p][a].st \in {"body", "ended", "stuck"} =>
        file[a].there /\ ~job[p][a].gone /\ file[a].chunks = 1..job[p][a].at

\* A command that looked at the file and is not busy with it found it, or made
\* it, complete.
FoundComplete(a) ==
    \A p \in Proc : pc[p] \in {"download", "ready"} /\ ~Busy(p, a) => Complete(a)

ReadyIsOver(a) == \A p \in Proc : pc[p] = "ready" => ~Busy(p, a)

FileInv(a) ==
    /\ OneDownload(a) /\ NoGap(a) /\ AskedForTorn(a)
    /\ WritesItsFile(a) /\ FoundComplete(a) /\ ReadyIsOver(a)

WholeInv == \A a \in Asset \ overlap : FileInv(a)

LEMMA InitWhole == Init => WholeInv
<1> SUFFICES ASSUME Init, NEW a \in Asset PROVE FileInv(a)
    BY DEF WholeInv
<1>1. file[a].chunks = 1..0 /\ \A p \in Proc : pc[p] = "off" /\ job[p][a].st = "none"
    BY DEF Init, Absent, NoJobs, NoJob
<1> QED
    BY <1>1, ChunksPositive DEF FileInv, OneDownload, NoGap, AskedForTorn, WritesItsFile,
       FoundComplete, ReadyIsOver, Busy

\* Complete and of the right size are the same for a file without a gap.
LEMMA SizeTells ==
    ASSUME TypeOK, NEW a \in Asset, NoGap(a)
    PROVE  Complete(a) <=> SizeMatches(a)
<1>1. PICK k \in 0..Chunks : file[a].chunks = 1..k
    BY DEF NoGap
<1>2. Chunks \in 1..k <=> k = Chunks
    BY ChunksPositive
<1>3. 1..k = Whole <=> k = Chunks
    BY ChunksPositive, <1>2 DEF Whole
<1> QED BY <1>1, <1>2, <1>3 DEF Complete, SizeMatches

\* Nothing changes for an asset if a step leaves its file alone and each process
\* keeps its download of it, or ends; and if none becomes one that goes on.
Undisturbed(a) ==
    /\ file'[a] = file[a]
    /\ \A q \in Proc :
         \/ job'[q][a] = job[q][a] /\ (pc'[q] = pc[q] \/ pc'[q] \notin {"download", "ready"})
         \/ job'[q][a] = NoJob /\ pc'[q] \notin {"download", "ready"}

LEMMA UndisturbedStep ==
    ASSUME NEW a \in Asset, FileInv(a), Undisturbed(a)
    PROVE  FileInv(a)'
<1> USE DEF FileInv, Undisturbed, Busy, NoJob
<1>1. OneDownload(a)'
    BY DEF OneDownload
<1>2. NoGap(a)'
    BY DEF NoGap
<1>3. AskedForTorn(a)'
    BY DEF AskedForTorn, SizeMatches
<1>4. WritesItsFile(a)'
    BY DEF WritesItsFile
<1>5. FoundComplete(a)'
    BY DEF FoundComplete, Complete
<1>6. ReadyIsOver(a)'
    BY DEF ReadyIsOver
<1> QED BY <1>1, <1>2, <1>3, <1>4, <1>5, <1>6

LEMMA DiesUndisturbed ==
    ASSUME TypeOK, NEW p \in Proc, NEW a \in Asset, Dies(p), file'[a] = file[a]
    PROVE  Undisturbed(a)
BY DEF TypeOK, Undisturbed, Dies, NoJobs

\* The steps of a command leave every asset alone, but for Check and Done.
LEMMA CommandUndisturbed ==
    ASSUME TypeOK, NEW p \in Proc, NEW a \in Asset,
           Start(p) \/ ReadCache(p) \/ Fetched(p) \/ FetchFails(p) \/ Saved(p) \/ Exit(p) \/ Kill(p)
    PROVE  Undisturbed(a)
<1>1. file' = file
    BY DEF Start, ReadCache, Fetched, FetchFails, Saved, Exit, Kill
<1>2. CASE Dies(p)
    BY <1>1, <1>2, DiesUndisturbed
<1>3. CASE ~Dies(p)
    <2>1. job' = job /\ \E x \in {"releases", "check", "fetch", "saving"} : pc' = [pc EXCEPT ![p] = x]
        BY <1>3 DEF Start, ReadCache, Fetched, FetchFails, Saved, Exit, Kill
    <2> QED BY <1>1, <2>1 DEF TypeOK, Undisturbed
<1> QED BY <1>2, <1>3

\* A step of the download of one asset leaves the others alone.
LEMMA OtherUndisturbed ==
    ASSUME TypeOK, NEW p \in Proc, NEW a \in Asset, NEW b \in Asset, a # b,
           Download(p, b) \/ Refuse(p, b) \/ Break(p, b)
    PROVE  Undisturbed(a)
<1>1. CASE Answer(p, b)
    BY <1>1 DEF Answer, TypeOK, Undisturbed
<1>2. CASE Write(p, b)
    BY <1>2 DEF Write, TypeOK, Undisturbed
<1>3. CASE End(p, b)
    <2>1. file'[a] = file[a]
        BY <1>3 DEF End, ModeSet, TypeOK
    <2>2. CASE Dies(p)
        BY <2>1, <2>2, DiesUndisturbed
    <2>3. CASE ~Dies(p)
        BY <1>3, <2>1, <2>3 DEF End, TypeOK, Undisturbed
    <2> QED BY <2>2, <2>3
<1>4. CASE Close(p, b)
    BY <1>4 DEF Close, TypeOK, Undisturbed
<1>5. CASE Break(p, b)
    BY <1>5 DEF Break, TypeOK, Undisturbed
<1>6. CASE Refuse(p, b)
    <2>1. file'[a] = file[a]
        BY <1>6 DEF Refuse, TypeOK
    <2>2. CASE Dies(p)
        BY <2>1, <2>2, DiesUndisturbed
    <2>3. CASE ~Dies(p)
        BY <1>6, <2>1, <2>3 DEF Refuse, TypeOK, Undisturbed
    <2> QED BY <2>2, <2>3
<1> QED BY <1>1, <1>2, <1>3, <1>4, <1>5, <1>6 DEF Download

\* The look at the files: what is not wanted has its size, hence is complete.
LEMMA CheckStep ==
    ASSUME TypeOK, NEW p \in Proc, Check(p), NEW a \in Asset, a \notin overlap', FileInv(a)
    PROVE  FileInv(a)'
<1> USE DEF TypeOK, Check, FileInv
<1>1. /\ file' = file
      /\ pc'[p] \in {"ready", "download"}
      /\ pc'[p] = "ready" => Wanted = {}
      /\ job'[p][a] = IF a \in Wanted THEN Asked ELSE NoJob
      /\ \A q \in Proc \ {p} : pc'[q] = pc[q] /\ job'[q][a] = job[q][a]
    OBVIOUS
<1>2. a \in Wanted => \A q \in Proc \ {p} : ~Busy(q, a)
    OBVIOUS
<1>3. a \notin Wanted => Complete(a)
    BY SizeTells DEF Wanted
<1> HIDE DEF TypeOK, Check
<1> USE DEF Busy, NoJob, Asked
<1>4. OneDownload(a)'
    BY <1>1, <1>2 DEF OneDownload
<1>5. NoGap(a)'
    BY <1>1 DEF NoGap
<1>6. AskedForTorn(a)'
    BY <1>1 DEF AskedForTorn, SizeMatches, Wanted
<1>7. WritesItsFile(a)'
    BY <1>1 DEF WritesItsFile
<1>8. FoundComplete(a)'
    BY <1>1, <1>3 DEF FoundComplete, Complete
<1>9. ReadyIsOver(a)'
    BY <1>1 DEF ReadyIsOver
<1> QED BY <1>4, <1>5, <1>6, <1>7, <1>8, <1>9

LEMMA DoneStep ==
    ASSUME TypeOK, NEW p \in Proc, Done(p), NEW a \in Asset, FileInv(a)
    PROVE  FileInv(a)'
<1>1. /\ file' = file /\ job' = job /\ pc[p] = "download" /\ pc'[p] = "ready" /\ ~Busy(p, a)
      /\ \A q \in Proc \ {p} : pc'[q] = pc[q]
    BY DEF Done, TypeOK
<1> QED
    BY <1>1 DEF FileInv, OneDownload, NoGap, AskedForTorn, SizeMatches, WritesItsFile, FoundComplete,
       Complete, ReadyIsOver, Busy

\* A download is the only one, so no other process sees its file change.
LEMMA OnlyDownload ==
    ASSUME NEW p \in Proc, NEW a \in Asset, Busy(p, a), OneDownload(a)
    PROVE  \A q \in Proc \ {p} : job[q][a].st \in {"none", "closed"}
BY DEF OneDownload, Busy

LEMMA AnswerStep ==
    ASSUME TypeOK, NEW p \in Proc, NEW a \in Asset, Answer(p, a), FileInv(a)
    PROVE  FileInv(a)'
<1>1. job[p][a].st = "asked" /\ job[p][a].at = 0 /\ ~job[p][a].gone /\ ~Complete(a)
    BY SizeTells DEF Answer, FileInv, AskedForTorn
<1>2. \A q \in Proc \ {p} : job[q][a].st \in {"none", "closed"}
    BY <1>1, OnlyDownload DEF FileInv, Busy
<1>3. /\ pc' = pc
      /\ file'[a].there /\ file'[a].chunks = 1..0
      /\ job'[p][a].st = "body" /\ job'[p][a].at = 0 /\ ~job'[p][a].gone
      /\ \A q \in Proc \ {p} : job'[q][a] = job[q][a]
    BY <1>1 DEF Answer, TypeOK, File, Job
<1> QED
    BY <1>1, <1>2, <1>3, ChunksPositive DEF FileInv, OneDownload, NoGap, AskedForTorn, WritesItsFile,
       FoundComplete, ReadyIsOver, Busy

LEMMA WriteStep ==
    ASSUME TypeOK, NEW p \in Proc, NEW a \in Asset, Write(p, a), FileInv(a)
    PROVE  FileInv(a)'
<1> DEFINE n == job[p][a].at
<1>1. /\ job[p][a].st \in {"body", "ended"} /\ ~job[p][a].gone
      /\ file[a].there /\ file[a].chunks = 1..n
      /\ n \in 0..Chunks /\ n < Chunks
    BY DEF Write, More, FileInv, WritesItsFile, TypeOK, Job
<1>2. \A q \in Proc \ {p} : job[q][a].st \in {"none", "closed"}
    BY <1>1, OnlyDownload DEF FileInv, Busy
<1>3. ~Complete(a)
    BY <1>1, ChunksPositive DEF Complete, Whole
<1>4. 1..n \union {n + 1} = 1..(n + 1) /\ n + 1 \in 0..Chunks
    BY <1>1, ChunksPositive
<1>5. job[p] \in [Asset -> Job] /\ job[p][a] \in Job /\ file[a] \in File
    BY DEF TypeOK
<1>6. file'[a].there /\ file'[a].chunks = 1..(n + 1)
    BY <1>1, <1>4, <1>5 DEF Write, TypeOK, File
<1>7. /\ pc' = pc
      /\ job'[p][a].st = job[p][a].st /\ job'[p][a].gone = job[p][a].gone /\ job'[p][a].at = n + 1
      /\ \A q \in Proc \ {p} : job'[q][a] = job[q][a]
    BY <1>5 DEF Write, TypeOK, Job
<1> HIDE DEF n
<1> QED
    BY <1>1, <1>2, <1>3, <1>4, <1>6, <1>7 DEF FileInv, OneDownload, NoGap, AskedForTorn, WritesItsFile,
       FoundComplete, ReadyIsOver, Busy

LEMMA EndStep ==
    ASSUME TypeOK, NEW p \in Proc, NEW a \in Asset, End(p, a), FileInv(a)
    PROVE  FileInv(a)'
<1>1. job[p][a].st = "body" /\ file[a].there
    BY DEF End, FileInv, WritesItsFile
<1>2. job[p] \in [Asset -> Job] /\ job[p][a] \in Job /\ file[a] \in File
    BY DEF TypeOK
<1>3. file'[a].there /\ file'[a].chunks = file[a].chunks
    BY <1>1, <1>2 DEF End, ModeSet, TypeOK, File
<1>4. /\ pc' = pc
      /\ job'[p][a].st = "ended" /\ job'[p][a].gone = job[p][a].gone /\ job'[p][a].at = job[p][a].at
      /\ \A q \in Proc \ {p} : job'[q][a] = job[q][a]
    BY <1>1, <1>2 DEF End, TypeOK, Job
<1> QED
    BY <1>1, <1>3, <1>4 DEF FileInv, OneDownload, NoGap, AskedForTorn, SizeMatches, WritesItsFile,
       FoundComplete, Complete, ReadyIsOver, Busy

\* A download that is over has written the whole file.
LEMMA CloseStep ==
    ASSUME TypeOK, NEW p \in Proc, NEW a \in Asset, Close(p, a), FileInv(a)
    PROVE  FileInv(a)'
<1>1. job[p][a].st = "ended" /\ Complete(a)
    BY DEF Close, FileInv, WritesItsFile, Complete, Whole
<1>2. job[p] \in [Asset -> Job] /\ job[p][a] \in Job
    BY DEF TypeOK
<1>3. /\ pc' = pc /\ file' = file
      /\ job'[p][a].st = "closed"
      /\ \A q \in Proc \ {p} : job'[q][a] = job[q][a]
    BY <1>2 DEF Close, TypeOK, Job
<1> QED
    BY <1>1, <1>3 DEF FileInv, OneDownload, NoGap, AskedForTorn, SizeMatches, WritesItsFile,
       FoundComplete, Complete, ReadyIsOver, Busy

LEMMA BreakStep ==
    ASSUME TypeOK, NEW p \in Proc, NEW a \in Asset, Break(p, a), FileInv(a)
    PROVE  FileInv(a)'
<1>1. job[p] \in [Asset -> Job] /\ job[p][a] \in Job
    BY DEF TypeOK
<1>2. /\ pc' = pc /\ file' = file
      /\ job[p][a].st = "body" /\ job'[p][a].st = "stuck"
      /\ job'[p][a].gone = job[p][a].gone /\ job'[p][a].at = job[p][a].at
      /\ \A q \in Proc \ {p} : job'[q][a] = job[q][a]
    BY <1>1 DEF Break, TypeOK, Job
<1> QED
    BY <1>2 DEF FileInv, OneDownload, NoGap, AskedForTorn, SizeMatches, WritesItsFile,
       FoundComplete, Complete, ReadyIsOver, Busy

\* The file that is removed was not complete, and nobody else wrote to it.
LEMMA RefuseStep ==
    ASSUME TypeOK, NEW p \in Proc, NEW a \in Asset, Refuse(p, a), FileInv(a)
    PROVE  FileInv(a)'
<1>1. job[p][a].st = "asked" /\ ~Complete(a)
    BY SizeTells DEF Refuse, FileInv, AskedForTorn
<1>2. \A q \in Proc \ {p} : job[q][a].st \in {"none", "closed"}
    BY <1>1, OnlyDownload DEF FileInv, Busy
<1>3. file'[a].chunks = 1..0
    BY DEF Refuse, TypeOK, Absent
<1>4. /\ job'[p][a].st = "none" /\ pc'[p] \notin {"download", "ready"}
      /\ \A q \in Proc \ {p} : job'[q][a] = job[q][a] /\ pc'[q] = pc[q]
    <2>1. CASE file[a].there
        <3> DEFINE r(q) == IF q = p THEN NoJob ELSE Unlinked(job[q][a])
        <3>1. job' = [q \in Proc |-> [job[q] EXCEPT ![a] = r(q)]]
            BY <2>1 DEF Refuse
        <3>2. \A q \in Proc : job[q] \in [Asset -> Job]
            BY DEF TypeOK
        <3> HIDE DEF r
        <3>3. \A q \in Proc : job'[q][a] = r(q)
            BY <3>1, <3>2
        <3>4. ASSUME NEW q \in Proc \ {p} PROVE r(q) = job[q][a]
            BY <1>2 DEF r, Unlinked
        <3>5. r(p).st = "none"
            BY DEF r, NoJob
        <3>6. pc'[p] = "failed" /\ \A q \in Proc \ {p} : pc'[q] = pc[q]
            BY <2>1 DEF Refuse, TypeOK
        <3> QED BY <3>3, <3>4, <3>5, <3>6
    <2>2. CASE ~file[a].there
        BY <2>2 DEF Refuse, Dies, NoJobs, NoJob, TypeOK
    <2> QED BY <2>1, <2>2
<1>5. OneDownload(a)' /\ AskedForTorn(a)' /\ WritesItsFile(a)' /\ FoundComplete(a)' /\ ReadyIsOver(a)'
    BY <1>1, <1>2, <1>4
       DEF FileInv, OneDownload, AskedForTorn, WritesItsFile, FoundComplete, ReadyIsOver, Busy
<1>6. NoGap(a)'
    BY <1>3, ChunksPositive DEF NoGap
<1> QED BY <1>5, <1>6 DEF FileInv

LEMMA OverlapGrows == [Next]_vars => overlap \subseteq overlap'
<1> SUFFICES ASSUME [Next]_vars PROVE overlap \subseteq overlap'
    OBVIOUS
<1>1. ASSUME NEW p \in Proc, Command(p) \/ FetchFails(p) \/ Kill(p) PROVE overlap \subseteq overlap'
    BY <1>1 DEF Command, Start, ReadCache, Fetched, Saved, Check, Done, Exit, FetchFails, Kill
<1>2. ASSUME NEW p \in Proc, NEW b \in Asset, Download(p, b) \/ Refuse(p, b) \/ Break(p, b)
      PROVE  overlap \subseteq overlap'
    BY <1>2 DEF Download, Answer, Write, End, Close, Refuse, Break
<1>3. CASE Expire \/ UNCHANGED vars
    BY <1>3 DEF Expire, vars
<1> QED BY <1>1, <1>2, <1>3 DEF Next, Failure

LEMMA StepWhole == TypeOK /\ WholeInv /\ [Next]_vars => WholeInv'
<1> SUFFICES ASSUME TypeOK, WholeInv, [Next]_vars, NEW a \in Asset, a \notin overlap'
             PROVE  FileInv(a)'
    BY DEF WholeInv
<1>1. FileInv(a)
    BY OverlapGrows DEF WholeInv
<1>2. ASSUME NEW p \in Proc,
             Start(p) \/ ReadCache(p) \/ Fetched(p) \/ FetchFails(p) \/ Saved(p) \/ Exit(p) \/ Kill(p)
      PROVE  FileInv(a)'
    BY <1>1, <1>2, CommandUndisturbed, UndisturbedStep
<1>3. ASSUME NEW p \in Proc, Check(p) PROVE FileInv(a)'
    BY <1>1, <1>3, CheckStep
<1>4. ASSUME NEW p \in Proc, Done(p) PROVE FileInv(a)'
    BY <1>1, <1>4, DoneStep
<1>5. ASSUME NEW p \in Proc, NEW b \in Asset, Download(p, b) \/ Refuse(p, b) \/ Break(p, b)
      PROVE  FileInv(a)'
    <2>1. CASE a = b
        <3>1. CASE Answer(p, a)
            BY <1>1, <3>1, AnswerStep
        <3>2. CASE Write(p, a)
            BY <1>1, <3>2, WriteStep
        <3>3. CASE End(p, a)
            BY <1>1, <3>3, EndStep
        <3>4. CASE Close(p, a)
            BY <1>1, <3>4, CloseStep
        <3>5. CASE Break(p, a)
            BY <1>1, <3>5, BreakStep
        <3>6. CASE Refuse(p, a)
            BY <1>1, <3>6, RefuseStep
        <3> QED BY <1>5, <2>1, <3>1, <3>2, <3>3, <3>4, <3>5, <3>6 DEF Download
    <2>2. CASE a # b
        BY <1>1, <1>5, <2>2, OtherUndisturbed, UndisturbedStep
    <2> QED BY <2>1, <2>2
<1>6. CASE Expire \/ UNCHANGED vars
    <2>1. Undisturbed(a)
        BY <1>6 DEF Expire, vars, Undisturbed
    <2> QED BY <1>1, <2>1, UndisturbedStep
<1> QED
    BY <1>2, <1>3, <1>4, <1>5, <1>6 DEF Next, Command, Failure

\* A command goes on only with complete assets, whatever was killed, refused or
\* broken off before, if no two commands downloaded the asset at a time.
THEOREM ReadyWhole == Spec => []ReadyMeansWhole
<1>1. WholeInv => ReadyMeansWhole
    BY DEF WholeInv, FileInv, FoundComplete, ReadyIsOver, ReadyMeansWhole
<1> QED
    BY TypeCorrect, InitWhole, StepWhole, <1>1, PTL DEF Spec

-----------------------------------------------------------------------------
(* What is complete is left alone.                                         *)

LEMMA StepStays ==
    ASSUME TypeOK, [Next]_vars, NEW a \in Asset, Complete(a), \A p \in Proc : ~Busy(p, a)
    PROVE  file'[a] = file[a] /\ \A p \in Proc : ~Busy(p, a)'
<1> USE DEF Undisturbed, Busy, NoJob
<1>1. ASSUME NEW p \in Proc,
             Start(p) \/ ReadCache(p) \/ Fetched(p) \/ FetchFails(p) \/ Saved(p) \/ Exit(p) \/ Kill(p)
      PROVE  Undisturbed(a)
    BY <1>1, CommandUndisturbed
<1>2. ASSUME NEW p \in Proc, Check(p)
      PROVE  file' = file /\ \A q \in Proc : job'[q][a] \in {job[q][a], NoJob}
    <2>1. a \notin Wanted
        BY ChunksPositive DEF Complete, SizeMatches, Wanted, Whole
    <2> QED BY <1>2, <2>1 DEF Check, TypeOK
<1>3. ASSUME NEW p \in Proc, Done(p) PROVE file' = file /\ job' = job
    BY <1>3 DEF Done
<1>4. ASSUME NEW p \in Proc, NEW b \in Asset, Download(p, b) \/ Refuse(p, b) \/ Break(p, b)
      PROVE  Undisturbed(a)
    <2>1. a # b
        BY <1>4 DEF Download, Answer, Write, End, Close, Refuse, Break
    <2> QED BY <1>4, <2>1, OtherUndisturbed
<1>5. CASE Expire \/ UNCHANGED vars
    BY <1>5 DEF Expire, vars
<1> QED
    BY <1>1, <1>2, <1>3, <1>4, <1>5 DEF Next, Command, Failure

\* Commands that come later leave alone what is complete, in every step.
THEOREM CompleteUntouched == Spec => CompleteStays
<1>1. TypeOK /\ [Next]_vars
      => [\A a \in Asset : Complete(a) /\ (\A p \in Proc : ~Busy(p, a))
            => file'[a] = file[a] /\ \A p \in Proc : ~Busy(p, a)']_vars
    BY StepStays
<1> QED
    BY TypeCorrect, <1>1, PTL DEF Spec, CompleteStays

-----------------------------------------------------------------------------
(* Binaries whose chmod is missing.                                        *)

\* A command has downloads only once it has looked at the files.
NoJobsYet ==
    \A p \in Proc : pc[p] \in {"off", "releases", "fetch", "saving", "check"} =>
        \A a \in Asset : job[p][a] = NoJob

EndedIsExecutable(a) == \A p \in Proc : job[p][a].st = "ended" => file[a].exec

ChmodOwed(a) == SizeMatches(a) /\ ~file[a].exec => Chmodless(a)

ExecInv == \A a \in Binary \ overlap : EndedIsExecutable(a) /\ ChmodOwed(a)

LEMMA InitExec == Init => NoJobsYet /\ ExecInv
BY BinariesAreAssets DEF Init, NoJobsYet, ExecInv, EndedIsExecutable, ChmodOwed, SizeMatches, Absent, NoJobs, NoJob

LEMMA DiesNoJobs == ASSUME TypeOK, NoJobsYet, NEW p \in Proc, Dies(p) PROVE NoJobsYet'
BY DEF TypeOK, NoJobsYet, Dies, NoJobs

LEMMA StepNoJobs == TypeOK /\ NoJobsYet /\ [Next]_vars => NoJobsYet'
<1> SUFFICES ASSUME TypeOK, NoJobsYet, [Next]_vars PROVE NoJobsYet'
    OBVIOUS
<1>1. ASSUME NEW p \in Proc, Command(p) \/ FetchFails(p) \/ Kill(p) PROVE NoJobsYet'
    <2>1. CASE Dies(p)
        BY <2>1, DiesNoJobs
    <2>2. CASE ~Dies(p) /\ ~Check(p)
        BY <1>1, <2>2 DEF Command, Start, ReadCache, Fetched, Saved, Done, Exit, FetchFails, Kill,
           TypeOK, NoJobsYet
    <2>3. CASE Check(p)
        BY <2>3 DEF Check, TypeOK, NoJobsYet
    <2> QED BY <2>1, <2>2, <2>3
<1>2. ASSUME NEW p \in Proc, NEW b \in Asset, Download(p, b) \/ Refuse(p, b) \/ Break(p, b)
      PROVE  NoJobsYet'
    <2>1. job[p][b].st \notin {"none"}
        BY <1>2 DEF Download, Answer, Write, End, Close, Refuse, Break
    <2>2. CASE Dies(p)
        BY <2>2, DiesNoJobs
    <2>3. CASE ~Dies(p) /\ ~Refuse(p, b)
        <3>1. pc' = pc /\ \A q \in Proc \ {p} : job'[q] = job[q]
            BY <1>2, <2>3 DEF Download, Answer, Write, End, Close, Break, TypeOK
        <3>2. pc[p] \notin {"off", "releases", "fetch", "saving", "check"}
            BY <2>1 DEF NoJobsYet, NoJob
        <3> QED BY <3>1, <3>2 DEF NoJobsYet
    <2>4. CASE ~Dies(p) /\ Refuse(p, b)
        <3>1. pc' = [pc EXCEPT ![p] = "failed"]
            BY <2>4 DEF Refuse
        <3>2. ASSUME NEW q \in Proc \ {p}, NEW a \in Asset, job[q][a] = NoJob PROVE job'[q][a] = NoJob
            <4>1. Unlinked(job[q][a]) = NoJob
                BY <3>2 DEF Unlinked, NoJob
            <4>2. job'[q] = [job[q] EXCEPT ![b] = Unlinked(@)]
                BY <2>4 DEF Refuse
            <4>3. job[q] \in [Asset -> Job]
                BY DEF TypeOK
            <4> QED BY <3>2, <4>1, <4>2, <4>3
        <3> QED BY <3>1, <3>2 DEF NoJobsYet, TypeOK
    <2> QED BY <1>2, <2>2, <2>3, <2>4
<1>3. CASE Expire \/ UNCHANGED vars
    BY <1>3 DEF Expire, vars, NoJobsYet
<1> QED
    BY <1>1, <1>2, <1>3 DEF Next, Failure

ExecAt(a) == EndedIsExecutable(a) /\ ChmodOwed(a)

\* A process that dies over a file with its last byte leaves a trace in cut.
LEMMA DiesExec ==
    ASSUME TypeOK, NEW p \in Proc, Dies(p), NEW a \in Binary, file'[a] = file[a], FileInv(a), ExecAt(a)
    PROVE  ExecAt(a)'
<1>1. a \in Asset /\ \A q \in Proc : job'[q][a] \in {job[q][a], NoJob} /\ (q # p => job'[q][a] = job[q][a])
    BY BinariesAreAssets DEF Dies, NoJobs, TypeOK
<1>2. EndedIsExecutable(a)'
    BY <1>1 DEF ExecAt, EndedIsExecutable, NoJob
<1>3. ASSUME SizeMatches(a), job[p][a].st = "body" PROVE a \in cut'
    <2>1. Chunks \in 1..job[p][a].at /\ job[p][a].at \in 0..Chunks
        BY <1>1, <1>3 DEF FileInv, WritesItsFile, SizeMatches, TypeOK, Job
    <2>2. job[p][a].at = Chunks
        BY <2>1, ChunksPositive
    <2> QED BY <1>3, <2>2 DEF Dies
<1>4. ChmodOwed(a)'
    <2>1. cut \subseteq cut'
        BY DEF Dies
    <2> QED BY <1>1, <1>3, <2>1 DEF ExecAt, ChmodOwed, Chmodless, SizeMatches
<1> QED BY <1>2, <1>4 DEF ExecAt

LEMMA StepExec ==
    ASSUME TypeOK, WholeInv, NoJobsYet, ExecInv, [Next]_vars, NEW a \in Binary, a \notin overlap'
    PROVE  ExecAt(a)'
<1>1. a \in Asset /\ FileInv(a) /\ ExecAt(a)
    BY BinariesAreAssets, OverlapGrows DEF WholeInv, ExecInv, ExecAt
<1> USE BinariesAreAssets
<1>2. ASSUME NEW p \in Proc, Command(p) \/ FetchFails(p) \/ Kill(p) PROVE ExecAt(a)'
    <2>1. file' = file /\ cut \subseteq cut'
        BY <1>2 DEF Command, Start, ReadCache, Fetched, Saved, Check, Done, Exit, FetchFails, Kill, Dies
    <2>2. CASE Dies(p)
        BY <1>1, <2>1, <2>2, DiesExec
    <2>3. CASE ~Dies(p) /\ ~Check(p)
        <3>1. job' = job
            BY <1>2, <2>3 DEF Command, Start, ReadCache, Fetched, Saved, Done, Exit, FetchFails, Kill
        <3> QED
            BY <1>1, <2>1, <3>1 DEF ExecAt, EndedIsExecutable, ChmodOwed, Chmodless, SizeMatches
    <2>4. CASE Check(p)
        <3>1. job[p][a] = NoJob /\ job'[p][a] \in {NoJob, Asked} /\ \A q \in Proc \ {p} : job'[q] = job[q]
            BY <1>1, <2>4 DEF Check, NoJobsYet, TypeOK
        <3> QED
            BY <1>1, <2>1, <3>1
               DEF ExecAt, EndedIsExecutable, ChmodOwed, Chmodless, SizeMatches, NoJob, Asked
    <2> QED BY <2>2, <2>3, <2>4
<1>3. ASSUME NEW p \in Proc, Answer(p, a) PROVE ExecAt(a)'
    <2>1. ~SizeMatches(a)' /\ \A q \in Proc : job'[q][a].st = "ended" => job[q][a].st = "ended" /\ q # p
        BY <1>1, <1>3 DEF Answer, TypeOK, Job, File, SizeMatches
    <2>2. \A q \in Proc \ {p} : job[q][a].st \in {"none", "closed"}
        BY <1>1, <1>3, OnlyDownload DEF Answer, FileInv, Busy
    <2> QED BY <2>1, <2>2 DEF ExecAt, EndedIsExecutable, ChmodOwed
<1>4. ASSUME NEW p \in Proc, Write(p, a) PROVE ExecAt(a)'
    <2>1. job[p] \in [Asset -> Job] /\ job[p][a] \in Job /\ file[a] \in File
        BY <1>1 DEF TypeOK
    <2>2. /\ cut' = cut /\ file'[a].exec = file[a].exec
          /\ \A q \in Proc : job'[q][a].st = job[q][a].st
        BY <1>1, <1>4, <2>1 DEF Write, TypeOK, Job, File
    <2>3. job[p][a].st \in {"body", "ended"}
        BY <1>4 DEF Write
    <2> QED
        BY <1>1, <2>2, <2>3 DEF ExecAt, EndedIsExecutable, ChmodOwed, Chmodless
<1>5. ASSUME NEW p \in Proc, End(p, a) PROVE ExecAt(a)'
    <2>1. file[a].there
        BY <1>1, <1>5 DEF End, FileInv, WritesItsFile
    <2>2. file'[a].exec
        BY <1>1, <1>5, <2>1 DEF End, ModeSet, TypeOK, File
    <2> QED BY <2>2 DEF ExecAt, EndedIsExecutable, ChmodOwed
<1>6. ASSUME NEW p \in Proc, Close(p, a) \/ Break(p, a) PROVE ExecAt(a)'
    <2>1. file' = file /\ cut' = cut
        BY <1>6 DEF Close, Break
    <2>2. job[p] \in [Asset -> Job] /\ job[p][a] \in Job
        BY <1>1 DEF TypeOK
    <2>3. \A q \in Proc : IF q = p THEN job'[q][a].st \in {"closed", "stuck"} ELSE job'[q][a] = job[q][a]
        BY <1>1, <1>6, <2>2 DEF Close, Break, TypeOK, Job
    <2>4. SizeMatches(a) => file[a].exec \/ job[p][a].st # "body"
        BY <1>1, <1>6, <2>2, ChunksPositive
           DEF Close, Break, More, FileInv, WritesItsFile, SizeMatches, Job
    <2>5. job[p][a].st = "ended" => file[a].exec
        BY <1>1 DEF ExecAt, EndedIsExecutable
    <2>6. job[p][a].st \in {"body", "ended"}
        BY <1>6 DEF Close, Break
    <2>7. EndedIsExecutable(a)'
        BY <1>1, <2>1, <2>3 DEF ExecAt, EndedIsExecutable
    <2>8. ChmodOwed(a)'
        BY <1>1, <2>1, <2>3, <2>4, <2>5, <2>6 DEF ExecAt, ChmodOwed, Chmodless, SizeMatches
    <2> QED BY <2>7, <2>8 DEF ExecAt
<1>7. ASSUME NEW p \in Proc, Refuse(p, a) PROVE ExecAt(a)'
    <2>1. ~SizeMatches(a)'
        BY <1>1, <1>7 DEF Refuse, Absent, TypeOK, SizeMatches
    <2>2. FileInv(a)'
        BY <1>1, <1>7, RefuseStep
    <2>3. \A q \in Proc : job'[q][a].st # "ended"
        BY <1>1, <1>7, <2>2 DEF Refuse, Absent, TypeOK, FileInv, WritesItsFile
    <2> QED BY <2>1, <2>3 DEF ExecAt, EndedIsExecutable, ChmodOwed
<1>8. ASSUME NEW p \in Proc, NEW b \in Asset, b # a, Download(p, b) \/ Refuse(p, b) \/ Break(p, b)
      PROVE  ExecAt(a)'
    <2>1. file'[a] = file[a] /\ cut \subseteq cut'
        BY <1>1, <1>8, OtherUndisturbed
           DEF Undisturbed, Download, Answer, Write, End, Close, Break, Refuse, Dies
    <2>2. CASE Dies(p)
        BY <1>1, <2>1, <2>2, DiesExec
    <2>3. CASE ~Dies(p)
        <3>1. \A q \in Proc : job'[q][a] = job[q][a]
            BY <1>1, <1>8, <2>3 DEF Download, Answer, Write, End, Close, Break, Refuse, TypeOK
        <3> QED
            BY <1>1, <2>1, <3>1 DEF ExecAt, EndedIsExecutable, ChmodOwed, Chmodless, SizeMatches
    <2> QED BY <2>2, <2>3
<1>9. CASE Expire \/ UNCHANGED vars
    BY <1>1, <1>9 DEF Expire, vars, ExecAt, EndedIsExecutable, ChmodOwed, Chmodless, SizeMatches
<1> QED
    BY <1>2, <1>3, <1>4, <1>5, <1>6, <1>7, <1>8, <1>9 DEF Next, Failure, Download

\* A command goes on only with executable binaries, but for those whose last byte
\* was written and whose chmod was not: a command is about to do it or died.
THEOREM ReadyExecutable == Spec => []ReadyMeansExecutable
<1>1. TypeOK /\ WholeInv /\ NoJobsYet /\ ExecInv /\ [Next]_vars => ExecInv'
    BY StepExec DEF ExecInv, ExecAt
<1>2. TypeOK /\ WholeInv /\ ExecInv => ReadyMeansExecutable
    <2> SUFFICES ASSUME TypeOK, WholeInv, ExecInv, NEW p \in Proc, pc[p] = "ready", NEW a \in Binary \ overlap
                 PROVE  file[a].exec \/ Chmodless(a)
        BY DEF ReadyMeansExecutable
    <2>1. a \in Asset /\ FileInv(a)
        BY BinariesAreAssets DEF WholeInv
    <2>2. SizeMatches(a)
        BY <2>1, SizeTells DEF FileInv, FoundComplete, ReadyIsOver
    <2> QED BY <2>2 DEF ExecInv, ChmodOwed
<1> QED
    BY TypeCorrect, InitWhole, StepWhole, InitExec, StepNoJobs, <1>1, <1>2, PTL DEF Spec

=============================================================================
