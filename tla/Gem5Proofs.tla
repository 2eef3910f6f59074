----------------------------- MODULE Gem5Proofs -----------------------------
(***************************************************************************)
(* Gem5Host, for any workloads, slots, limits, attempts, jobs and edits, and *)
(* any plans stage 2 may write and stage 3 may propose.                     *)
(*                                                                         *)
(* A version of a file is never used twice and only grows. So a number that  *)
(* was not above a file's version when something was read, and is the        *)
(* version of the file now, was its version all along: what was fingerprinted*)
(* before an install and still matches after the runs is what ran            *)
(* (RecordingInv), and what was recorded and still matches after an install   *)
(* is what is installed (GateInv). The waits rest on the order of dispatch:  *)
(* the awaited run is the first that is not over, so it holds a slot          *)
(* (FanInv).                                                                *)
(***************************************************************************)
EXTENDS Gem5Host, PlanGuardProofs, FiniteSetTheorems, SequenceTheorems

Versions == [scripts : Nat, loads : [Workloads -> Nat]]
Prints == Nat \X Nat
RunDirs == [has : Versions, added : BOOLEAN, marker : Versions]

\* The fingerprint is not newer than these versions of the scripts and of w.
Covers(v, print, w) == print[1] <= v.scripts /\ print[2] <= v.loads[w]
Below(v, u) == v.scripts <= u.scripts /\ \A w \in Workloads : v.loads[w] <= u.loads[w]

Installing == {"scripts", "workloads", "marker"}
OfBaseline == {"restore", "build", "record"}
Gating == {"gate", "correctness", "measure", "await"}
OfIntegrate == {"copy", "preflight", "turn", "check"} \cup Gating

\* Which stage is where.
ControlInv ==
  /\ \/ stage = "none" /\ pc = "idle"
     \/ stage = "baseline" /\ pc \in OfBaseline \cup Installing \cup {"install"}
     \/ stage = "integrate" /\ pc \in OfIntegrate \cup Installing \cup {"install"}
  /\ commit \in 1..MaxCommits /\ attempt \in 0..MaxAttempts /\ jobs \in 0..MaxJobs

\* Versions are numbers, and a file's version was given to it.
FileInv ==
  /\ edits \in 1..MaxEdits
  /\ files \in Versions
  /\ files.scripts <= edits /\ \A w \in Workloads : files.loads[w] <= edits
  /\ rundir \in RunDirs
  /\ payload \in Versions

\* How far an install has come, and that what it installs is not newer than
\* the repository.
InstallInv ==
  /\ pc \in Installing => Below(payload, files)
  /\ pc \in {"workloads", "marker"} => rundir.has.scripts = payload.scripts
  /\ pc = "marker" => rundir.has.loads = payload.loads /\ ~rundir.added
  /\ pc \in {"build", "preflight", "check"} => Below(rundir.has, files) /\ ~rundir.added

\* A recording whose numbers are of the files it names, none newer than now.
Sound(recorded) ==
  /\ recorded = [commit |-> recorded.commit, per_trace |-> recorded.per_trace,
                 prints |-> recorded.prints]
  /\ DOMAIN recorded.prints = DOMAIN recorded.per_trace
  /\ \A w \in DOMAIN recorded.per_trace :
       /\ w \in Workloads
       /\ recorded.prints[w] \in Prints
       /\ Covers(files, recorded.prints[w], w)
       /\ recorded.per_trace[w].print = recorded.prints[w]
       /\ recorded.per_trace[w].commit = recorded.commit
       /\ ~recorded.per_trace[w].added /\ ~recorded.per_trace[w].dirty

SoundInv == Sound(baseline) /\ Sound(held)

\* record_baseline: what it fingerprinted, has installed and has measured.
RecordingInv ==
  stage = "baseline" =>
    /\ recording = [names |-> recording.names, prints |-> recording.prints,
                    measured |-> recording.measured]
    /\ recording.names \subseteq Workloads
    /\ DOMAIN recording.prints = recording.names \cup DOMAIN baseline.per_trace
    /\ DOMAIN recording.measured \subseteq recording.names
    /\ pc # "restore" => ~dirty
    /\ \A w \in recording.names :
         /\ recording.prints[w] \in Prints
         /\ Covers(files, recording.prints[w], w)
         /\ pc \in Installing => Covers(payload, recording.prints[w], w)
         /\ pc = "build" => Covers(rundir.has, recording.prints[w], w)
    /\ pc = "record" =>
         \A w \in DOMAIN recording.measured \cap recording.names :
           LET m == recording.measured[w] IN
           /\ m.print \in Prints
           /\ recording.prints[w][1] <= m.print[1] /\ recording.prints[w][2] <= m.print[2]
           /\ Covers(files, m.print, w)
           /\ m.commit = commit /\ ~m.added /\ ~m.dirty

\* What stage 3 holds is what is installed, once an attempt has been let through.
GateInv ==
  /\ pc \in Installing => \A w \in DOMAIN held.prints : Covers(payload, held.prints[w], w)
  /\ pc = "check" => \A w \in DOMAIN held.prints : Covers(rundir.has, held.prints[w], w)
  /\ pc \in Gating =>
       /\ held.commit = commit /\ ~rundir.added
       /\ \A w \in baseline_workloads(inforce.tests, held) :
            w \in DOMAIN held.prints /\ held.prints[w] = content(w)
  /\ stage = "integrate" /\ pc # "copy" => port.resumed \/ port.commit = commit

\* What an attempt compared and ran, and what its executor believes.
ResultsInv ==
  /\ results = [correct |-> results.correct, good |-> results.good,
                compared |-> results.compared, ran |-> results.ran]
  /\ pc \notin {"idle", "correctness", "measure", "await"} => results = NoResults
  /\ port \in [commit : Nat, edition : Nat, resumed : BOOLEAN]
  /\ pc \in {"correctness", "measure", "await"} =>
       binaries \subseteq States /\ \A s \in binaries : copies[s] = port.edition
  /\ ComparedLikeWithLike
  /\ FanOutIsOfThisAttempt

\* run_workloads: whatever was dispatched before the awaited run is over, the
\* awaited run has been on the node as long as it has been waited for, and a
\* tick of a lost node is a tick of a run that never ends.
FanInv ==
  /\ answering \in BOOLEAN
  /\ pc # "await" => fan = NoFan /\ answering
  /\ pc = "await" =>
       /\ fan = [queue |-> fan.queue, next |-> fan.next, ticks |-> fan.ticks,
                 waited |-> fan.waited, lost |-> fan.lost, stalled |-> fan.stalled,
                 good |-> fan.good]
       /\ fan.queue \in Seq(DOMAIN fan.ticks)
       /\ fan.next \in Nat \ {0}
       /\ fan.ticks \in [DOMAIN fan.ticks -> Nat]
       /\ \A w \in DOMAIN fan.ticks : fan.ticks[w] < RunLimit \/ w \in over
       /\ fan.waited \in 0..RunLimit /\ fan.lost \in 0..RunLimit /\ fan.stalled \in BOOLEAN
       /\ fan.stalled => ~answering
       /\ ~fan.stalled => \A j \in 1..(fan.next - 1) : j <= Len(fan.queue) => fan.queue[j] \in over
       /\ answering =>
            /\ fan.lost = 0
            /\ awaiting /\ awaited \notin over => fan.waited <= fan.ticks[awaited]
       /\ ~fan.stalled /\ fan.lost > 0 =>
            awaiting /\ awaited \notin over /\ fan.lost <= fan.waited

\* Types of what the properties hardly read.
FilesType ==
  /\ edits \in 1..MaxEdits
  /\ files \in [scripts : 1..edits, loads : [Workloads -> 1..edits]]
  /\ dirty \in BOOLEAN

TreesType ==
  /\ port \in [commit : 0..commit, edition : Nat, resumed : BOOLEAN]
  /\ copies \in [States -> 0..port.edition]

JobType ==
  /\ attempt > 0 => stage = "integrate"
  /\ binaries \subseteq States
  /\ verdict \in {"none", "refused", "passed"}
  /\ revision \in 0..PlanRevisions

HostInv ==
  /\ ControlInv /\ FileInv /\ InstallInv /\ SoundInv
  /\ RecordingInv /\ GateInv /\ ResultsInv /\ FanInv
  /\ FilesType /\ TreesType /\ JobType

-----------------------------------------------------------------------------
(* Types of what is written *)

\* An agent's shell leaves a run directory behind.
LEMMA ShellEditsTyped == ASSUME rundir \in RunDirs PROVE ShellEdits \subseteq RunDirs
<1>1. Tampered \in Nat
  BY Gem5Assumption DEF Tampered
<1>2. /\ rundir = [has |-> rundir.has, added |-> rundir.added, marker |-> rundir.marker]
      /\ rundir.has \in Versions /\ rundir.marker \in Versions
  BY DEF RunDirs
<1>3. [rundir EXCEPT !.has.scripts = Tampered] \in RunDirs
  <2>1. [rundir.has EXCEPT !.scripts = Tampered] \in Versions
    BY <1>1, <1>2 DEF Versions
  <2> QED BY <1>2, <2>1 DEF RunDirs
<1>4. [rundir EXCEPT !.added = TRUE] \in RunDirs
  BY DEF RunDirs
<1>5. ASSUME NEW w \in Workloads PROVE [rundir EXCEPT !.has.loads[w] = Tampered] \in RunDirs
  <2>1. [rundir.has EXCEPT !.loads[w] = Tampered] \in Versions
    BY <1>1, <1>2 DEF Versions
  <2> QED BY <1>2, <2>1 DEF RunDirs
<1> QED BY <1>3, <1>4, <1>5 DEF ShellEdits

\* An install puts versions into place.
LEMMA InstallTyped ==
  ASSUME rundir \in RunDirs, payload \in Versions
  PROVE  /\ [rundir EXCEPT !.marker = NoContents] \in RunDirs
         /\ [rundir EXCEPT !.has.scripts = payload.scripts] \in RunDirs
         /\ [rundir EXCEPT !.has.loads = payload.loads, !.added = FALSE] \in RunDirs
         /\ [rundir EXCEPT !.marker = payload] \in RunDirs
<1>1. rundir.has \in Versions /\ NoContents \in Versions
  BY DEF RunDirs, Versions, NoContents
<1>2. [rundir.has EXCEPT !.scripts = payload.scripts] \in Versions
  BY <1>1 DEF Versions
<1>3. [rundir.has EXCEPT !.loads = payload.loads] \in Versions
  BY <1>1 DEF Versions
<1> QED BY <1>1, <1>2, <1>3 DEF RunDirs

-----------------------------------------------------------------------------
(* The invariant is preserved, conjunct by conjunct *)

\* Every action goes on in its own stage, or ends it.
LEMMA StepControl == ASSUME HostInv, [Next]_vars PROVE ControlInv'
<1>1. ControlInv /\ MaxCommits \in Nat /\ MaxAttempts \in Nat /\ MaxJobs \in Nat
  BY Gem5Assumption DEF HostInv
<1>2. CASE MoveCheckout
  BY <1>1, <1>2 DEF MoveCheckout, vars, gemVars, repo, node, job, gating, ControlInv,
     Installing, OfBaseline, OfIntegrate, Gating
<1>3. CASE TaskLost
  BY <1>1, <1>3 DEF TaskLost, JobEnds, vars, gemVars, repo, node, job, gating,
     ControlInv, Installing, OfBaseline, OfIntegrate, Gating
<1>4. CASE InstallNoOp
  BY <1>1, <1>4 DEF InstallNoOp, Goto, Installed, drift, vars, gemVars, repo, node,
     job, gating, ControlInv, Installing, OfBaseline, OfIntegrate, Gating
<1>5. CASE InstallBegins
  BY <1>1, <1>5 DEF InstallBegins, Goto, vars, gemVars, repo, node, job, gating,
     ControlInv, Installing, OfBaseline, OfIntegrate, Gating
<1>6. CASE InstallStep
  BY <1>1, <1>6 DEF InstallStep, Goto, Installed, vars, gemVars, repo, node, job,
     gating, ControlInv, Installing, OfBaseline, OfIntegrate, Gating
<1>7. CASE PlannerWorks
  BY <1>1, <1>7 DEF PlannerWorks, ShellEdits, vars, gemVars, repo, node, job, gating,
     ControlInv, Installing, OfBaseline, OfIntegrate, Gating
<1>8. ASSUME NEW list \in Lists, StartBaseline(list) PROVE ControlInv'
  BY <1>1, <1>8 DEF StartBaseline, JobStarts, vars, gemVars, repo, node, job, gating,
     ControlInv, Installing, OfBaseline, OfIntegrate, Gating
<1>9. CASE RestoreCheckout
  BY <1>1, <1>9 DEF RestoreCheckout, Goto, vars, gemVars, repo, node, job, gating,
     ControlInv, Installing, OfBaseline, OfIntegrate, Gating
<1>10. CASE RunBaseline
  BY <1>1, <1>10 DEF RunBaseline, Goto, vars, gemVars, repo, node, job, gating,
     ControlInv, Installing, OfBaseline, OfIntegrate, Gating
<1>11. CASE RecordBaseline
  BY <1>1, <1>11 DEF RecordBaseline, JobEnds, vars, gemVars, repo, node, job, gating,
     ControlInv, Installing, OfBaseline, OfIntegrate, Gating
<1>12. ASSUME NEW fresh \in BOOLEAN, StartIntegrate(fresh) PROVE ControlInv'
  BY <1>1, <1>12 DEF StartIntegrate, JobStarts, vars, gemVars, repo, node, job,
     gating, ControlInv, Installing, OfBaseline, OfIntegrate, Gating
<1>13. CASE CopyTree
  BY <1>1, <1>13 DEF CopyTree, Goto, vars, gemVars, repo, node, job, gating,
     ControlInv, Installing, OfBaseline, OfIntegrate, Gating
<1>14. CASE Preflight
  BY <1>1, <1>14 DEF Preflight, JobEnds, Goto, vars, gemVars, repo, node, job,
     gating, ControlInv, Installing, OfBaseline, OfIntegrate, Gating
<1>15. CASE AgentTurn
  BY <1>1, <1>15 DEF AgentTurn, JobEnds, Goto, ShellEdits, vars, gemVars, repo, node,
     job, gating, ControlInv, Installing, OfBaseline, OfIntegrate, Gating
<1>16. CASE StageStops
  BY <1>1, <1>16 DEF StageStops, JobEnds, vars, gemVars, repo, node, job, gating,
     ControlInv, Installing, OfBaseline, OfIntegrate, Gating
<1>17. CASE CheckBaseline
  BY <1>1, <1>17 DEF CheckBaseline, JobEnds, Goto, vars, gemVars, repo, node, job,
     gating, ControlInv, Installing, OfBaseline, OfIntegrate, Gating
<1>18. CASE BuildOff
  BY <1>1, <1>18 DEF BuildOff, Goto, Refused, vars, gemVars, repo, node, job, gating,
     ControlInv, Installing, OfBaseline, OfIntegrate, Gating
<1>19. CASE RunCorrectness
  BY <1>1, <1>19 DEF RunCorrectness, Goto, vars, gemVars, repo, node, job, gating,
     ControlInv, Installing, OfBaseline, OfIntegrate, Gating
<1>20. CASE Dispatch
  BY <1>1, <1>20 DEF Dispatch, Goto, vars, gemVars, repo, node, job, gating,
     ControlInv, Installing, OfBaseline, OfIntegrate, Gating
<1>21. CASE Measured
  BY <1>1, <1>21 DEF Measured, vars, gemVars, repo, node, job, gating, ControlInv,
     Installing, OfBaseline, OfIntegrate, Gating
<1>22. CASE Judge
  BY <1>1, <1>22 DEF Judge, JobEnds, Goto, Refused, vars, gemVars, repo, node, job,
     gating, ControlInv, Installing, OfBaseline, OfIntegrate, Gating
<1>23. CASE EditFiles \/ NothingRuns \/ Tick \/ NodeLost \/ TickLost \/ Collect \/
           TimesOut \/ UNCHANGED vars
  BY <1>1, <1>23 DEF EditFiles, NothingRuns, Tick, NodeLost, TickLost, Collect,
     TimesOut, vars, gemVars, repo, node, job, gating, ControlInv, Installing,
     OfBaseline, OfIntegrate, Gating
<1> QED
  BY <1>2, <1>3, <1>4, <1>5, <1>6, <1>7, <1>8, <1>9, <1>10, <1>11, <1>12, <1>13,
     <1>14, <1>15, <1>16, <1>17, <1>18, <1>19, <1>20, <1>21, <1>22, <1>23 DEF Next

\* An edit gives a file a number that no file has.
LEMMA StepFile == ASSUME HostInv, [Next]_vars PROVE FileInv'
<1>1. FileInv /\ Tampered \in Nat
  BY Gem5Assumption DEF HostInv, Tampered
<1>2. CASE EditFiles
  <2>1. /\ files = [scripts |-> files.scripts, loads |-> files.loads]
        /\ edits' = edits + 1 /\ edits' \in 1..MaxEdits /\ UNCHANGED <<rundir, payload>>
    BY <1>1, <1>2, Gem5Assumption DEF EditFiles, FileInv, Versions, node
  <2>2. CASE files' = [files EXCEPT !.scripts = edits']
    BY <1>1, <2>1, <2>2 DEF FileInv, Versions
  <2>3. ASSUME NEW w \in Workloads, files' = [files EXCEPT !.loads[w] = edits'] PROVE FileInv'
    BY <1>1, <2>1, <2>3 DEF FileInv, Versions
  <2> QED BY <1>2, <2>2, <2>3 DEF EditFiles
<1>3. CASE TaskLost
  BY <1>1, <1>3 DEF TaskLost, JobEnds, vars, gemVars, repo, node, job, gating,
     FileInv, Versions, NoContents
<1>4. CASE InstallBegins
  BY <1>1, <1>4, InstallTyped DEF InstallBegins, FileInv, repo
<1>5. CASE InstallStep
  <2>1. rundir' \in RunDirs /\ payload' \in Versions
    BY <1>1, <1>5, InstallTyped DEF InstallStep, FileInv, NoContents, Versions
  <2> QED BY <1>1, <2>1, <1>5 DEF InstallStep, FileInv, repo
<1>6. CASE PlannerWorks
  BY <1>1, <1>6, ShellEditsTyped DEF PlannerWorks, FileInv, repo
<1>7. CASE RecordBaseline
  BY <1>1, <1>7 DEF RecordBaseline, JobEnds, vars, gemVars, repo, node, job, gating,
     FileInv, Versions, NoContents
<1>8. CASE Preflight
  BY <1>1, <1>8 DEF Preflight, JobEnds, Goto, vars, gemVars, repo, node, job, gating,
     FileInv, Versions, NoContents
<1>9. CASE AgentTurn
  BY <1>1, <1>9, ShellEditsTyped DEF AgentTurn, FileInv, JobEnds, repo, NoContents, Versions
<1>10. CASE StageStops
  BY <1>1, <1>10 DEF StageStops, JobEnds, vars, gemVars, repo, node, job, gating,
     FileInv, Versions, NoContents
<1>11. CASE CheckBaseline
  BY <1>1, <1>11 DEF CheckBaseline, JobEnds, Goto, vars, gemVars, repo, node, job,
     gating, FileInv, Versions, NoContents
<1>12. CASE Judge
  BY <1>1, <1>12 DEF Judge, JobEnds, Goto, Refused, vars, gemVars, repo, node, job,
     gating, FileInv, Versions, NoContents
<1>13. CASE MoveCheckout \/ InstallNoOp \/ (\E list \in Lists : StartBaseline(list)) \/
           RestoreCheckout \/ RunBaseline \/ (\E fresh \in BOOLEAN :
           StartIntegrate(fresh)) \/ CopyTree \/ BuildOff \/ RunCorrectness \/ Dispatch
           \/ NothingRuns \/ Tick \/ NodeLost \/ TickLost \/ Collect \/ TimesOut \/
           Measured \/ UNCHANGED vars
  BY <1>1, <1>13 DEF MoveCheckout, InstallNoOp, StartBaseline, RestoreCheckout,
     RunBaseline, StartIntegrate, CopyTree, BuildOff, RunCorrectness, Dispatch,
     NothingRuns, Tick, NodeLost, TickLost, Collect, TimesOut, Measured, Goto,
     Installed, JobStarts, vars, gemVars, repo, node, job, gating, FileInv, Versions,
     NoContents
<1> QED
  BY <1>2, <1>3, <1>4, <1>5, <1>6, <1>7, <1>8, <1>9, <1>10, <1>11, <1>12, <1>13 DEF
     Next

\* An install puts there what the repository held when it began.
LEMMA StepInstall == ASSUME HostInv, [Next]_vars PROVE InstallInv'
<1>1. ControlInv /\ FileInv /\ InstallInv
  BY DEF HostInv
<1>2. CASE EditFiles
  BY <1>1, <1>2 DEF EditFiles, vars, gemVars, repo, node, job, gating, ControlInv,
     FileInv, InstallInv, RunDirs, Below, Versions, NoContents, Installing, OfBaseline,
     OfIntegrate, Gating
<1>3. CASE TaskLost
  BY <1>1, <1>3 DEF TaskLost, JobEnds, vars, gemVars, repo, node, job, gating,
     ControlInv, FileInv, InstallInv, RunDirs, Below, Versions, NoContents, Installing,
     OfBaseline, OfIntegrate, Gating
<1>4. CASE InstallNoOp
  BY <1>1, <1>4 DEF InstallNoOp, Goto, Installed, drift, vars, gemVars, repo, node,
     job, gating, ControlInv, FileInv, InstallInv, RunDirs, Below, Versions, NoContents,
     Installing, OfBaseline, OfIntegrate, Gating
<1>5. CASE InstallBegins
  BY <1>1, <1>5 DEF InstallBegins, Goto, vars, gemVars, repo, node, job, gating,
     ControlInv, FileInv, InstallInv, RunDirs, Below, Versions, NoContents, Installing,
     OfBaseline, OfIntegrate, Gating
<1>6. CASE InstallStep
  <2>1. /\ files \in Versions /\ payload \in Versions /\ UNCHANGED files
        /\ rundir = [has |-> rundir.has, added |-> rundir.added, marker |-> rundir.marker]
        /\ rundir.has = [scripts |-> rundir.has.scripts, loads |-> rundir.has.loads]
    BY <1>1, <1>6 DEF FileInv, RunDirs, Versions, InstallStep, repo
  <2>2. CASE pc = "scripts"
    BY <1>1, <2>1, <2>2, <1>6 DEF InstallStep, InstallInv, Goto, Below, Installing
  <2>3. CASE pc = "workloads"
    BY <1>1, <2>1, <2>3, <1>6 DEF InstallStep, InstallInv, Goto, Below, Installing
  <2>4. CASE pc = "marker"
    BY <1>1, <2>1, <2>4, <1>6 DEF InstallStep, InstallInv, Goto, Installed, Below, Installing
  <2> QED BY <1>6, <2>2, <2>3, <2>4 DEF InstallStep
<1>7. CASE PlannerWorks
  BY <1>1, <1>7 DEF PlannerWorks, ShellEdits, vars, gemVars, repo, node, job, gating,
     ControlInv, FileInv, InstallInv, RunDirs, Below, Versions, NoContents, Installing,
     OfBaseline, OfIntegrate, Gating
<1>8. ASSUME NEW list \in Lists, StartBaseline(list) PROVE InstallInv'
  BY <1>1, <1>8 DEF StartBaseline, JobStarts, vars, gemVars, repo, node, job, gating,
     ControlInv, FileInv, InstallInv, RunDirs, Below, Versions, NoContents, Installing,
     OfBaseline, OfIntegrate, Gating
<1>9. CASE RestoreCheckout
  BY <1>1, <1>9 DEF RestoreCheckout, Goto, vars, gemVars, repo, node, job, gating,
     ControlInv, FileInv, InstallInv, RunDirs, Below, Versions, NoContents, Installing,
     OfBaseline, OfIntegrate, Gating
<1>10. CASE RunBaseline
  BY <1>1, <1>10 DEF RunBaseline, Goto, vars, gemVars, repo, node, job, gating,
     ControlInv, FileInv, InstallInv, RunDirs, Below, Versions, NoContents, Installing,
     OfBaseline, OfIntegrate, Gating
<1>11. CASE RecordBaseline
  BY <1>1, <1>11 DEF RecordBaseline, JobEnds, vars, gemVars, repo, node, job, gating,
     ControlInv, FileInv, InstallInv, RunDirs, Below, Versions, NoContents, Installing,
     OfBaseline, OfIntegrate, Gating
<1>12. ASSUME NEW fresh \in BOOLEAN, StartIntegrate(fresh) PROVE InstallInv'
  BY <1>1, <1>12 DEF StartIntegrate, JobStarts, vars, gemVars, repo, node, job,
     gating, ControlInv, FileInv, InstallInv, RunDirs, Below, Versions, NoContents,
     Installing, OfBaseline, OfIntegrate, Gating
<1>13. CASE CopyTree
  BY <1>1, <1>13 DEF CopyTree, Goto, vars, gemVars, repo, node, job, gating,
     ControlInv, FileInv, InstallInv, RunDirs, Below, Versions, NoContents, Installing,
     OfBaseline, OfIntegrate, Gating
<1>14. CASE Preflight
  BY <1>1, <1>14 DEF Preflight, JobEnds, Goto, vars, gemVars, repo, node, job,
     gating, ControlInv, FileInv, InstallInv, RunDirs, Below, Versions, NoContents,
     Installing, OfBaseline, OfIntegrate, Gating
<1>15. CASE AgentTurn
  BY <1>1, <1>15 DEF AgentTurn, JobEnds, Goto, ShellEdits, vars, gemVars, repo, node,
     job, gating, ControlInv, FileInv, InstallInv, RunDirs, Below, Versions, NoContents,
     Installing, OfBaseline, OfIntegrate, Gating
<1>16. CASE StageStops
  BY <1>1, <1>16 DEF StageStops, JobEnds, vars, gemVars, repo, node, job, gating,
     ControlInv, FileInv, InstallInv, RunDirs, Below, Versions, NoContents, Installing,
     OfBaseline, OfIntegrate, Gating
<1>17. CASE CheckBaseline
  BY <1>1, <1>17 DEF CheckBaseline, JobEnds, Goto, vars, gemVars, repo, node, job,
     gating, ControlInv, FileInv, InstallInv, RunDirs, Below, Versions, NoContents,
     Installing, OfBaseline, OfIntegrate, Gating
<1>18. CASE BuildOff
  BY <1>1, <1>18 DEF BuildOff, Goto, Refused, vars, gemVars, repo, node, job, gating,
     ControlInv, FileInv, InstallInv, RunDirs, Below, Versions, NoContents, Installing,
     OfBaseline, OfIntegrate, Gating
<1>19. CASE RunCorrectness
  BY <1>1, <1>19 DEF RunCorrectness, Goto, vars, gemVars, repo, node, job, gating,
     ControlInv, FileInv, InstallInv, RunDirs, Below, Versions, NoContents, Installing,
     OfBaseline, OfIntegrate, Gating
<1>20. CASE Dispatch
  BY <1>1, <1>20 DEF Dispatch, Goto, vars, gemVars, repo, node, job, gating,
     ControlInv, FileInv, InstallInv, RunDirs, Below, Versions, NoContents, Installing,
     OfBaseline, OfIntegrate, Gating
<1>21. CASE Measured
  BY <1>1, <1>21 DEF Measured, vars, gemVars, repo, node, job, gating, ControlInv,
     FileInv, InstallInv, RunDirs, Below, Versions, NoContents, Installing, OfBaseline,
     OfIntegrate, Gating
<1>22. CASE Judge
  BY <1>1, <1>22 DEF Judge, JobEnds, Goto, Refused, vars, gemVars, repo, node, job,
     gating, ControlInv, FileInv, InstallInv, RunDirs, Below, Versions, NoContents,
     Installing, OfBaseline, OfIntegrate, Gating
<1>23. CASE MoveCheckout \/ NothingRuns \/ Tick \/ NodeLost \/ TickLost \/ Collect \/
           TimesOut \/ UNCHANGED vars
  BY <1>1, <1>23 DEF MoveCheckout, NothingRuns, Tick, NodeLost, TickLost, Collect,
     TimesOut, vars, gemVars, repo, node, job, gating, ControlInv, FileInv, InstallInv,
     RunDirs, Below, Versions, NoContents, Installing, OfBaseline, OfIntegrate, Gating
<1> QED
  BY <1>2, <1>3, <1>4, <1>5, <1>6, <1>7, <1>8, <1>9, <1>10, <1>11, <1>12, <1>13,
     <1>14, <1>15, <1>16, <1>17, <1>18, <1>19, <1>20, <1>21, <1>22, <1>23 DEF Next

\* A recording that measured what it fingerprinted, and what is carried into it.
LEMMA RecordedSound == ASSUME HostInv, RecordBaseline PROVE Sound(baseline)'
<1>1. /\ ControlInv /\ FileInv /\ Sound(baseline) /\ RecordingInv
      /\ pc = "record" /\ stage = "baseline" /\ files' = files
  BY DEF HostInv, SoundInv, ControlInv, OfIntegrate, Gating, Installing, RecordBaseline, repo
<1> DEFINE names == recording.names
           kept == names \cup carried
           record == [commit |-> commit,
                      per_trace |-> [w \in kept |-> IF w \in names THEN recording.measured[w]
                                                                   ELSE baseline.per_trace[w]],
                      prints |-> [w \in kept |-> recording.prints[w]]]
<1>2. CASE baseline' = baseline
  BY <1>1, <1>2 DEF Sound, Covers
<1>3. CASE moved = {} /\ DOMAIN recording.measured = names /\ baseline' = record
  <2>1. names \subseteq Workloads
    BY <1>1 DEF RecordingInv
  <2>2. ASSUME NEW w \in names
        PROVE  /\ recording.prints[w] \in Prints
               /\ Covers(files, recording.prints[w], w)
               /\ recording.measured[w].print = recording.prints[w]
               /\ recording.measured[w].commit = commit
               /\ ~recording.measured[w].added /\ ~recording.measured[w].dirty
    <3> DEFINE p == recording.prints[w]
               m == recording.measured[w]
    <3>1. p \in Prints /\ Covers(files, p, w) /\ p = <<files.scripts, files.loads[w]>>
      BY <1>1, <1>3 DEF RecordingInv, moved, workload_fingerprint
    <3>2. /\ m.print \in Prints /\ p[1] <= m.print[1] /\ p[2] <= m.print[2]
          /\ Covers(files, m.print, w)
          /\ m.commit = commit /\ ~m.added /\ ~m.dirty
      BY <1>1, <1>3 DEF RecordingInv
    <3>3. m.print = p
      BY <3>1, <3>2 DEF Covers, Prints
    <3> QED BY <3>1, <3>2, <3>3
  <2>3. ASSUME NEW w \in carried \ names
        PROVE  /\ w \in Workloads
               /\ recording.prints[w] \in Prints
               /\ Covers(files, recording.prints[w], w)
               /\ baseline.per_trace[w].print = recording.prints[w]
               /\ baseline.per_trace[w].commit = commit
               /\ ~baseline.per_trace[w].added /\ ~baseline.per_trace[w].dirty
    BY <1>1 DEF carried, Sound
  <2>4. DOMAIN record.per_trace = kept /\ DOMAIN record.prints = kept /\ record.commit = commit
    OBVIOUS
  <2>5. ASSUME NEW w \in kept
        PROVE  /\ w \in Workloads
               /\ record.prints[w] \in Prints
               /\ Covers(files, record.prints[w], w)
               /\ record.per_trace[w].print = record.prints[w]
               /\ record.per_trace[w].commit = record.commit
               /\ ~record.per_trace[w].added /\ ~record.per_trace[w].dirty
    BY <2>1, <2>2, <2>3
  <2>6. Sound(record)
    BY <2>4, <2>5 DEF Sound
  <2> QED BY <1>1, <1>3, <2>6 DEF Sound, Covers
<1> QED BY <1>2, <1>3 DEF RecordBaseline

\* No action makes a fingerprint newer than its file.
LEMMA StepSound == ASSUME HostInv, [Next]_vars PROVE SoundInv'
<1>1. SoundInv /\ FileInv
  BY DEF HostInv
<1>2. CASE EditFiles
  <2>1. \A w \in Workloads : files.loads[w] \in Nat /\ files.loads[w] <= files'.loads[w]
    BY <1>1, <1>2 DEF EditFiles, FileInv, Versions
  <2>2. files.scripts \in Nat /\ files.scripts <= files'.scripts
    BY <1>1, <1>2 DEF EditFiles, FileInv, Versions
  <2>3. files' \in Versions
    BY <1>2, StepFile DEF Next, FileInv
  <2>4. ASSUME NEW w \in Workloads, NEW print \in Prints, Covers(files, print, w)
        PROVE  Covers(files', print, w)
    BY <2>1, <2>2, <2>3, <2>4 DEF Covers, Prints, Versions
  <2>5. UNCHANGED <<baseline, held>>
    BY <1>2 DEF EditFiles
  <2> QED BY <1>1, <2>4, <2>5 DEF SoundInv, Sound
<1>3. CASE TaskLost
  BY <1>1, <1>3 DEF TaskLost, JobEnds, vars, gemVars, repo, node, job, gating,
     SoundInv, Sound, Covers, NoBaseline
<1>4. CASE RecordBaseline
  <2>1. Sound(baseline)'
    BY <1>4, RecordedSound
  <2>2. held' = NoBaseline
    BY <1>4 DEF RecordBaseline, JobEnds
  <2>3. Sound(held)'
    BY <2>2 DEF Sound, NoBaseline
  <2> QED BY <2>1, <2>3 DEF SoundInv
<1>5. CASE Preflight
  BY <1>1, <1>5 DEF Preflight, JobEnds, Goto, vars, gemVars, repo, node, job, gating,
     SoundInv, Sound, Covers, NoBaseline
<1>6. CASE AgentTurn
  BY <1>1, <1>6 DEF AgentTurn, JobEnds, Goto, ShellEdits, vars, gemVars, repo, node,
     job, gating, SoundInv, Sound, Covers, NoBaseline
<1>7. CASE StageStops
  BY <1>1, <1>7 DEF StageStops, JobEnds, vars, gemVars, repo, node, job, gating,
     SoundInv, Sound, Covers, NoBaseline
<1>8. CASE CheckBaseline
  BY <1>1, <1>8 DEF CheckBaseline, JobEnds, Goto, vars, gemVars, repo, node, job,
     gating, SoundInv, Sound, Covers, NoBaseline
<1>9. CASE Judge
  BY <1>1, <1>9 DEF Judge, JobEnds, Goto, Refused, vars, gemVars, repo, node, job,
     gating, SoundInv, Sound, Covers, NoBaseline
<1>10. CASE MoveCheckout \/ InstallNoOp \/ InstallBegins \/ InstallStep \/ PlannerWorks
           \/ (\E list \in Lists : StartBaseline(list)) \/ RestoreCheckout \/
           RunBaseline \/ (\E fresh \in BOOLEAN : StartIntegrate(fresh)) \/ CopyTree \/
           BuildOff \/ RunCorrectness \/ Dispatch \/ NothingRuns \/ Tick \/ NodeLost \/
           TickLost \/ Collect \/ TimesOut \/ Measured \/ UNCHANGED vars
  BY <1>1, <1>10 DEF MoveCheckout, InstallNoOp, InstallBegins, InstallStep,
     PlannerWorks, StartBaseline, RestoreCheckout, RunBaseline, StartIntegrate,
     CopyTree, BuildOff, RunCorrectness, Dispatch, NothingRuns, Tick, NodeLost,
     TickLost, Collect, TimesOut, Measured, Goto, Installed, JobStarts, vars, gemVars,
     repo, node, job, gating, SoundInv, Sound, Covers, NoBaseline
<1> QED
  BY <1>2, <1>3, <1>4, <1>5, <1>6, <1>7, <1>8, <1>9, <1>10 DEF Next

\* What was fingerprinted is not newer than what is installed after it.
LEMMA StepRecording == ASSUME HostInv, [Next]_vars PROVE RecordingInv'
<1>1. ControlInv /\ FileInv /\ InstallInv /\ SoundInv /\ RecordingInv
  BY DEF HostInv
<1>2. CASE EditFiles
  BY <1>1, <1>2 DEF EditFiles, vars, gemVars, repo, node, job, gating, ControlInv,
     FileInv, RunDirs, RecordingInv, Covers, Versions, Prints, Installing, OfBaseline,
     OfIntegrate, Gating
<1>3. CASE MoveCheckout
  BY <1>1, <1>3 DEF MoveCheckout, vars, gemVars, repo, node, job, gating, ControlInv,
     FileInv, RunDirs, RecordingInv, Covers, Versions, Prints, Installing, OfBaseline,
     OfIntegrate, Gating
<1>4. CASE TaskLost
  BY <1>1, <1>4 DEF TaskLost, JobEnds, vars, gemVars, repo, node, job, gating,
     ControlInv, FileInv, RunDirs, RecordingInv, Covers, Versions, Prints, Installing,
     OfBaseline, OfIntegrate, Gating
<1>5. CASE InstallNoOp
  BY <1>1, <1>5 DEF InstallNoOp, Goto, Installed, drift, vars, gemVars, repo, node,
     job, gating, ControlInv, FileInv, RunDirs, RecordingInv, Covers, Versions, Prints,
     Installing, OfBaseline, OfIntegrate, Gating
<1>6. CASE InstallBegins
  BY <1>1, <1>6 DEF InstallBegins, Goto, vars, gemVars, repo, node, job, gating,
     ControlInv, FileInv, RunDirs, RecordingInv, Covers, Versions, Prints, Installing,
     OfBaseline, OfIntegrate, Gating
<1>7. CASE InstallStep
  <2>1. /\ UNCHANGED <<recording, baseline, files, commit, dirty, stage>>
        /\ pc \in Installing
    BY <1>7 DEF InstallStep, repo, Goto, Installed, Installing
  <2>2. CASE stage # "baseline"
    BY <2>1, <2>2 DEF RecordingInv
  <2>3. CASE stage = "baseline" /\ pc # "marker"
    BY <1>1, <2>1, <2>3, <1>7 DEF InstallStep, Goto, RecordingInv, Covers, Installing
  <2>4. CASE stage = "baseline" /\ pc = "marker"
    <3>1. rundir.has.scripts = payload.scripts /\ rundir.has.loads = payload.loads
      BY <1>1, <2>4 DEF InstallInv
    <3>2. pc' = "build" /\ rundir'.has = rundir.has
      BY <1>1, <2>4, <1>7 DEF InstallStep, Goto, Installed, FileInv, RunDirs
    <3> QED BY <1>1, <2>1, <2>4, <3>1, <3>2 DEF RecordingInv, Covers, Installing
  <2> QED BY <2>2, <2>3, <2>4
<1>8. CASE PlannerWorks
  BY <1>1, <1>8 DEF PlannerWorks, ShellEdits, vars, gemVars, repo, node, job, gating,
     ControlInv, FileInv, RunDirs, RecordingInv, Covers, Versions, Prints, Installing,
     OfBaseline, OfIntegrate, Gating
<1>9. ASSUME NEW list \in Lists, StartBaseline(list) PROVE RecordingInv'
  <2> DEFINE prints == [w \in list \cup DOMAIN baseline.per_trace |-> workload_fingerprint(w)]
  <2>1. /\ pc' = "restore" /\ stage' = "baseline" /\ files' = files
        /\ recording' = [names |-> list, prints |-> prints, measured |-> <<>>]
        /\ baseline' = baseline
    BY <1>9 DEF StartBaseline, JobStarts, repo
  <2>2. list \subseteq Workloads
    BY Gem5Assumption
  <2>3. \A w \in list : prints[w] \in Prints /\ Covers(files, prints[w], w)
    BY <1>1, <2>2 DEF FileInv, Versions, Prints, Covers, workload_fingerprint
  <2> QED BY <2>1, <2>2, <2>3 DEF RecordingInv, Installing, Covers
<1>10. CASE RestoreCheckout
  BY <1>1, <1>10 DEF RestoreCheckout, Goto, vars, gemVars, repo, node, job, gating,
     ControlInv, FileInv, RunDirs, RecordingInv, Covers, Versions, Prints, Installing,
     OfBaseline, OfIntegrate, Gating
<1>11. CASE RunBaseline
  <2>1. PICK good \in SUBSET recording.names :
          recording' = [recording EXCEPT !.measured =
            [w \in good |-> [print |-> content(w), added |-> rundir.added, dirty |-> dirty,
                             commit |-> commit]]]
    BY <1>11 DEF RunBaseline
  <2>2. /\ pc = "build" /\ stage = "baseline" /\ pc' = "record"
        /\ UNCHANGED <<files, rundir, commit, baseline, dirty, payload>>
    BY <1>1, <1>11 DEF RunBaseline, Goto, ControlInv, OfIntegrate, Gating, Installing, repo, node
  <2>3. ASSUME NEW w \in recording.names
        PROVE  /\ content(w) \in Prints
               /\ recording.prints[w][1] <= content(w)[1]
               /\ recording.prints[w][2] <= content(w)[2]
               /\ Covers(files, content(w), w)
    BY <1>1, <2>2 DEF RecordingInv, Covers, content, FileInv, RunDirs, Versions, Prints,
                      InstallInv, Below
  <2>4. /\ recording'.names = recording.names /\ recording'.prints = recording.prints
        /\ recording'.measured =
             [w \in good |-> [print |-> content(w), added |-> rundir.added, dirty |-> dirty,
                              commit |-> commit]]
        /\ recording' = [names |-> recording'.names, prints |-> recording'.prints,
                         measured |-> recording'.measured]
    BY <1>1, <2>1, <2>2 DEF RecordingInv
  <2>5. ~rundir.added /\ ~dirty
    BY <1>1, <2>2 DEF InstallInv, RecordingInv
  <2> QED BY <1>1, <2>2, <2>3, <2>4, <2>5 DEF RecordingInv, Installing, Covers
<1>12. CASE RecordBaseline
  BY <1>1, <1>12 DEF RecordBaseline, JobEnds, vars, gemVars, repo, node, job, gating,
     ControlInv, FileInv, RunDirs, RecordingInv, Covers, Versions, Prints, Installing,
     OfBaseline, OfIntegrate, Gating
<1>13. ASSUME NEW fresh \in BOOLEAN, StartIntegrate(fresh) PROVE RecordingInv'
  BY <1>1, <1>13 DEF StartIntegrate, JobStarts, vars, gemVars, repo, node, job,
     gating, ControlInv, FileInv, RunDirs, RecordingInv, Covers, Versions, Prints,
     Installing, OfBaseline, OfIntegrate, Gating
<1>14. CASE CopyTree
  BY <1>1, <1>14 DEF CopyTree, Goto, vars, gemVars, repo, node, job, gating,
     ControlInv, FileInv, RunDirs, RecordingInv, Covers, Versions, Prints, Installing,
     OfBaseline, OfIntegrate, Gating
<1>15. CASE Preflight
  BY <1>1, <1>15 DEF Preflight, JobEnds, Goto, vars, gemVars, repo, node, job,
     gating, ControlInv, FileInv, RunDirs, RecordingInv, Covers, Versions, Prints,
     Installing, OfBaseline, OfIntegrate, Gating
<1>16. CASE AgentTurn
  BY <1>1, <1>16 DEF AgentTurn, JobEnds, Goto, ShellEdits, vars, gemVars, repo, node,
     job, gating, ControlInv, FileInv, RunDirs, RecordingInv, Covers, Versions, Prints,
     Installing, OfBaseline, OfIntegrate, Gating
<1>17. CASE StageStops
  BY <1>1, <1>17 DEF StageStops, JobEnds, vars, gemVars, repo, node, job, gating,
     ControlInv, FileInv, RunDirs, RecordingInv, Covers, Versions, Prints, Installing,
     OfBaseline, OfIntegrate, Gating
<1>18. CASE CheckBaseline
  BY <1>1, <1>18 DEF CheckBaseline, JobEnds, Goto, vars, gemVars, repo, node, job,
     gating, ControlInv, FileInv, RunDirs, RecordingInv, Covers, Versions, Prints,
     Installing, OfBaseline, OfIntegrate, Gating
<1>19. CASE BuildOff
  BY <1>1, <1>19 DEF BuildOff, Goto, Refused, vars, gemVars, repo, node, job, gating,
     ControlInv, FileInv, RunDirs, RecordingInv, Covers, Versions, Prints, Installing,
     OfBaseline, OfIntegrate, Gating
<1>20. CASE RunCorrectness
  BY <1>1, <1>20 DEF RunCorrectness, Goto, vars, gemVars, repo, node, job, gating,
     ControlInv, FileInv, RunDirs, RecordingInv, Covers, Versions, Prints, Installing,
     OfBaseline, OfIntegrate, Gating
<1>21. CASE Dispatch
  BY <1>1, <1>21 DEF Dispatch, Goto, vars, gemVars, repo, node, job, gating,
     ControlInv, FileInv, RunDirs, RecordingInv, Covers, Versions, Prints, Installing,
     OfBaseline, OfIntegrate, Gating
<1>22. CASE Measured
  BY <1>1, <1>22 DEF Measured, vars, gemVars, repo, node, job, gating, ControlInv,
     FileInv, RunDirs, RecordingInv, Covers, Versions, Prints, Installing, OfBaseline,
     OfIntegrate, Gating
<1>23. CASE Judge
  BY <1>1, <1>23 DEF Judge, JobEnds, Goto, Refused, vars, gemVars, repo, node, job,
     gating, ControlInv, FileInv, RunDirs, RecordingInv, Covers, Versions, Prints,
     Installing, OfBaseline, OfIntegrate, Gating
<1>24. CASE NothingRuns \/ Tick \/ NodeLost \/ TickLost \/ Collect \/ TimesOut \/
           UNCHANGED vars
  BY <1>1, <1>24 DEF NothingRuns, Tick, NodeLost, TickLost, Collect, TimesOut, vars,
     gemVars, repo, node, job, gating, ControlInv, FileInv, RunDirs, RecordingInv,
     Covers, Versions, Prints, Installing, OfBaseline, OfIntegrate, Gating
<1> QED
  BY <1>2, <1>3, <1>4, <1>5, <1>6, <1>7, <1>8, <1>9, <1>10, <1>11, <1>12, <1>13,
     <1>14, <1>15, <1>16, <1>17, <1>18, <1>19, <1>20, <1>21, <1>22, <1>23, <1>24 DEF
     Next

\* From the check to the verdict nothing that the check read changes.
LEMMA GateKept ==
  ASSUME GateInv, UNCHANGED <<held, rundir, commit, planVars, port, stage, payload>>,
         pc' = pc \/ (pc \in Gating /\ pc' \in Gating \cup {"turn"})
  PROVE  GateInv'
<1>1. baseline_workloads(inforce.tests, held)' = baseline_workloads(inforce.tests, held)
  BY DEF baseline_workloads, baseline_pointers, pointed, planVars
<1>2. \A w : content(w)' = content(w)
  BY DEF content
<1>3. \A w : Covers(rundir.has, held.prints[w], w)' = Covers(rundir.has, held.prints[w], w)
  BY DEF Covers
<1>4. \A w : Covers(payload, held.prints[w], w)' = Covers(payload, held.prints[w], w)
  BY DEF Covers
<1>5. pc' # pc => pc' \notin Installing /\ pc' # "check" /\ pc # "copy"
  BY DEF Gating, Installing
<1> QED BY <1>1, <1>2, <1>3, <1>4, <1>5 DEF GateInv, Gating

\* A comparison, in an attempt that was let through, is of like with like.
LEMMA CompareSound ==
  ASSUME HostInv, pc \in Gating,
         NEW ws, ws \subseteq baseline_workloads(inforce.tests, held), NEW c \in compare(ws)
  PROVE  /\ c.run = c.against.print /\ ~c.added
         /\ port.resumed \/ c.commit = c.against.commit
<1>1. PICK w \in ws \cap DOMAIN held.per_trace :
        c = [run |-> content(w), added |-> rundir.added, commit |-> port.commit,
             against |-> held.per_trace[w]]
  BY DEF compare
<1>2. /\ held.commit = commit /\ ~rundir.added /\ held.prints[w] = content(w)
      /\ port.resumed \/ port.commit = commit
  BY <1>1 DEF HostInv, GateInv, ControlInv, OfBaseline, Installing, Gating
<1>3. held.per_trace[w].print = held.prints[w] /\ held.per_trace[w].commit = held.commit
  BY <1>1 DEF HostInv, SoundInv, Sound
<1> QED BY <1>1, <1>2, <1>3

\* An attempt that was let through is held to what is installed.
LEMMA StepGate == ASSUME HostInv, [Next]_vars PROVE GateInv'
<1>1. ControlInv /\ FileInv /\ InstallInv /\ SoundInv /\ GateInv
  BY DEF HostInv
<1>2. CASE MoveCheckout
  BY <1>1, <1>2 DEF MoveCheckout, vars, gemVars, repo, node, job, gating, ControlInv,
     GateInv, Installing, OfBaseline, OfIntegrate, Gating
<1>3. CASE TaskLost
  BY <1>1, <1>3 DEF TaskLost, JobEnds, vars, gemVars, repo, node, job, gating,
     ControlInv, GateInv, Installing, OfBaseline, OfIntegrate, Gating
<1>4. CASE InstallNoOp
  <2>1. /\ UNCHANGED <<held, rundir, commit, planVars, port, stage>> /\ rundir.has = files
        /\ pc' \in {"build", "preflight", "check"}
    BY <1>4 DEF InstallNoOp, Goto, Installed, drift, repo, node
  <2>2. \A w \in DOMAIN held.prints : Covers(rundir.has, held.prints[w], w)
    BY <1>1, <2>1 DEF SoundInv, Sound
  <2> QED BY <1>1, <2>1, <2>2, <1>4 DEF GateInv, Covers, Installing, Gating, InstallNoOp
<1>5. CASE InstallBegins
  BY <1>1, <1>5 DEF InstallBegins, Goto, ControlInv, GateInv, SoundInv, Sound, Installing, Gating,
                   repo, node, job
<1>6. CASE InstallStep
  <2>1. /\ UNCHANGED <<held, commit, planVars, port, stage>> /\ pc \in Installing
    BY <1>6 DEF InstallStep, repo, node, Goto, Installed, Installing
  <2>2. CASE pc # "marker"
    BY <1>1, <2>1, <2>2, <1>6 DEF InstallStep, Goto, GateInv, Covers, Installing, Gating
  <2>3. CASE pc = "marker"
    <3>1. rundir.has.scripts = payload.scripts /\ rundir.has.loads = payload.loads
      BY <1>1, <2>3 DEF InstallInv
    <3>2. pc' \in {"build", "preflight", "check"} /\ rundir'.has = rundir.has
      BY <1>1, <2>3, <1>6 DEF InstallStep, Goto, Installed, FileInv, RunDirs
    <3> QED BY <1>1, <2>1, <2>3, <3>1, <3>2 DEF GateInv, Covers, Installing, Gating
  <2> QED BY <2>2, <2>3
<1>7. CASE PlannerWorks
  BY <1>1, <1>7 DEF PlannerWorks, ShellEdits, vars, gemVars, repo, node, job, gating,
     ControlInv, GateInv, Installing, OfBaseline, OfIntegrate, Gating
<1>8. ASSUME NEW list \in Lists, StartBaseline(list) PROVE GateInv'
  BY <1>1, <1>8 DEF StartBaseline, JobStarts, vars, gemVars, repo, node, job, gating,
     ControlInv, GateInv, Installing, OfBaseline, OfIntegrate, Gating
<1>9. CASE RestoreCheckout
  BY <1>1, <1>9 DEF RestoreCheckout, Goto, vars, gemVars, repo, node, job, gating,
     ControlInv, GateInv, Installing, OfBaseline, OfIntegrate, Gating
<1>10. CASE RunBaseline
  BY <1>1, <1>10 DEF RunBaseline, Goto, vars, gemVars, repo, node, job, gating,
     ControlInv, GateInv, Installing, OfBaseline, OfIntegrate, Gating
<1>11. CASE RecordBaseline
  BY <1>1, <1>11 DEF RecordBaseline, JobEnds, vars, gemVars, repo, node, job, gating,
     ControlInv, GateInv, Installing, OfBaseline, OfIntegrate, Gating
<1>12. ASSUME NEW fresh \in BOOLEAN, StartIntegrate(fresh) PROVE GateInv'
  BY <1>1, <1>12 DEF StartIntegrate, JobStarts, vars, gemVars, repo, node, job,
     gating, ControlInv, GateInv, Installing, OfBaseline, OfIntegrate, Gating
<1>13. CASE CopyTree
  BY <1>1, <1>13 DEF CopyTree, Goto, vars, gemVars, repo, node, job, gating,
     ControlInv, GateInv, Installing, OfBaseline, OfIntegrate, Gating
<1>14. CASE Preflight
  BY <1>1, <1>14 DEF Preflight, JobEnds, Goto, vars, gemVars, repo, node, job,
     gating, ControlInv, GateInv, Installing, OfBaseline, OfIntegrate, Gating
<1>15. CASE AgentTurn
  BY <1>1, <1>15 DEF AgentTurn, JobEnds, Goto, ShellEdits, vars, gemVars, repo, node,
     job, gating, ControlInv, GateInv, Installing, OfBaseline, OfIntegrate, Gating,
     Covers
<1>16. CASE StageStops
  BY <1>1, <1>16 DEF StageStops, JobEnds, vars, gemVars, repo, node, job, gating,
     ControlInv, GateInv, Installing, OfBaseline, OfIntegrate, Gating
<1>17. CASE CheckBaseline
  <2>1. CASE pc' = "idle"
    BY <1>1, <2>1, <1>17 DEF CheckBaseline, JobEnds, GateInv, Installing, Gating, Goto
  <2>2. CASE ~baseline_problems(held, inforce.tests) /\ Goto("gate")
    <3>1. /\ pc = "check" /\ pc' = "gate" /\ stage = "integrate" /\ stage' = stage
          /\ UNCHANGED <<held, rundir, commit, planVars, port, files>>
      BY <1>1, <2>2, <1>17 DEF CheckBaseline, Goto, ControlInv, OfBaseline, Installing, repo, node
    <3>2. held.commit = commit /\ ~rundir.added
      BY <1>1, <2>2, <3>1 DEF baseline_problems, InstallInv
    <3>3. ASSUME NEW w \in baseline_workloads(inforce.tests, held)
          PROVE  w \in DOMAIN held.prints /\ held.prints[w] = content(w)
      <4>1. w \in DOMAIN held.prints /\ held.prints[w] = <<files.scripts, files.loads[w]>>
        BY <2>2 DEF baseline_problems, workload_fingerprint
      <4>2. Covers(rundir.has, held.prints[w], w) /\ w \in Workloads
        BY <1>1, <3>1, <4>1 DEF GateInv, SoundInv, Sound
      <4> QED BY <1>1, <3>1, <4>1, <4>2
              DEF Covers, InstallInv, Below, FileInv, Versions, RunDirs, content
    <3>4. ~(pc' \in Installing) /\ pc' # "check"
      BY <3>1 DEF Installing
    <3>5. \A w \in baseline_workloads(inforce.tests, held)' :
            w \in DOMAIN held'.prints /\ held'.prints[w] = content(w)'
      BY <3>1, <3>3 DEF baseline_workloads, baseline_pointers, pointed, content, planVars
    <3> QED BY <1>1, <3>1, <3>2, <3>4, <3>5 DEF GateInv
  <2> QED BY <1>17, <2>1, <2>2 DEF CheckBaseline, JobEnds
<1>18. CASE BuildOff
  BY <1>1, <1>18, GateKept
     DEF BuildOff, Goto, Refused, Gating, planVars, repo, node, job
<1>19. CASE RunCorrectness
  BY <1>1, <1>19, GateKept
     DEF RunCorrectness, Goto, Refused, Gating, planVars, repo, node, job
<1>20. CASE Dispatch
  BY <1>1, <1>20, GateKept
     DEF Dispatch, Goto, Refused, Gating, planVars, repo, node, job
<1>21. CASE Measured
  BY <1>1, <1>21, GateKept
     DEF Measured, Goto, Refused, Gating, planVars, repo, node, job
<1>22. CASE Judge
  BY <1>1, <1>22 DEF Judge, JobEnds, Goto, Refused, vars, gemVars, repo, node, job,
     gating, ControlInv, GateInv, Installing, OfBaseline, OfIntegrate, Gating
<1>23. CASE EditFiles \/ NothingRuns \/ Tick \/ NodeLost \/ TickLost \/ Collect \/
           TimesOut \/ UNCHANGED vars
  BY <1>1, <1>23, GateKept DEF EditFiles, NothingRuns, Tick, NodeLost, TickLost,
     Collect, TimesOut, vars, gemVars, repo, node, job, gating, ControlInv, GateInv,
     Installing, OfBaseline, OfIntegrate, Gating, planVars
<1> QED
  BY <1>2, <1>3, <1>4, <1>5, <1>6, <1>7, <1>8, <1>9, <1>10, <1>11, <1>12, <1>13,
     <1>14, <1>15, <1>16, <1>17, <1>18, <1>19, <1>20, <1>21, <1>22, <1>23 DEF Next

\* What is compared was let through; what is run was built in this attempt.
LEMMA StepResults == ASSUME HostInv, [Next]_vars PROVE ResultsInv'
<1>1. ControlInv /\ SoundInv /\ GateInv /\ ResultsInv
  BY DEF HostInv
<1>2. CASE TaskLost
  BY <1>1, <1>2 DEF TaskLost, JobEnds, vars, gemVars, repo, node, job, gating,
     ControlInv, ResultsInv, ComparedLikeWithLike, FanOutIsOfThisAttempt, NoResults,
     NoPort, Installing, OfBaseline, OfIntegrate, Gating
<1>3. CASE InstallNoOp
  BY <1>1, <1>3 DEF InstallNoOp, Goto, Installed, drift, vars, gemVars, repo, node,
     job, gating, ControlInv, ResultsInv, ComparedLikeWithLike, FanOutIsOfThisAttempt,
     NoResults, NoPort, Installing, OfBaseline, OfIntegrate, Gating
<1>4. CASE InstallBegins
  BY <1>1, <1>4 DEF InstallBegins, Goto, vars, gemVars, repo, node, job, gating,
     ControlInv, ResultsInv, ComparedLikeWithLike, FanOutIsOfThisAttempt, NoResults,
     NoPort, Installing, OfBaseline, OfIntegrate, Gating
<1>5. CASE InstallStep
  BY <1>1, <1>5 DEF InstallStep, Goto, Installed, vars, gemVars, repo, node, job,
     gating, ControlInv, ResultsInv, ComparedLikeWithLike, FanOutIsOfThisAttempt,
     NoResults, NoPort, Installing, OfBaseline, OfIntegrate, Gating
<1>6. ASSUME NEW list \in Lists, StartBaseline(list) PROVE ResultsInv'
  BY <1>1, <1>6 DEF StartBaseline, JobStarts, vars, gemVars, repo, node, job, gating,
     ControlInv, ResultsInv, ComparedLikeWithLike, FanOutIsOfThisAttempt, NoResults,
     NoPort, Installing, OfBaseline, OfIntegrate, Gating
<1>7. CASE RestoreCheckout
  BY <1>1, <1>7 DEF RestoreCheckout, Goto, vars, gemVars, repo, node, job, gating,
     ControlInv, ResultsInv, ComparedLikeWithLike, FanOutIsOfThisAttempt, NoResults,
     NoPort, Installing, OfBaseline, OfIntegrate, Gating
<1>8. CASE RunBaseline
  BY <1>1, <1>8 DEF RunBaseline, Goto, vars, gemVars, repo, node, job, gating,
     ControlInv, ResultsInv, ComparedLikeWithLike, FanOutIsOfThisAttempt, NoResults,
     NoPort, Installing, OfBaseline, OfIntegrate, Gating
<1>9. CASE RecordBaseline
  BY <1>1, <1>9 DEF RecordBaseline, JobEnds, vars, gemVars, repo, node, job, gating,
     ControlInv, ResultsInv, ComparedLikeWithLike, FanOutIsOfThisAttempt, NoResults,
     NoPort, Installing, OfBaseline, OfIntegrate, Gating
<1>10. ASSUME NEW fresh \in BOOLEAN, StartIntegrate(fresh) PROVE ResultsInv'
  BY <1>1, <1>10 DEF StartIntegrate, JobStarts, vars, gemVars, repo, node, job,
     gating, ControlInv, ResultsInv, ComparedLikeWithLike, FanOutIsOfThisAttempt,
     NoResults, NoPort, Installing, OfBaseline, OfIntegrate, Gating
<1>11. CASE CopyTree
  <2>1. pc = "copy" /\ pc' = "install" /\ UNCHANGED results /\ results = NoResults
    BY <1>1, <1>11 DEF CopyTree, Goto, ResultsInv, gating
  <2>2. port' \in [commit : Nat, edition : Nat, resumed : BOOLEAN]
    <3>1. commit \in Nat /\ port \in [commit : Nat, edition : Nat, resumed : BOOLEAN]
      BY <1>1, Gem5Assumption DEF ControlInv, ResultsInv
    <3>2. [commit |-> commit, edition |-> 1, resumed |-> FALSE]
            \in [commit : Nat, edition : Nat, resumed : BOOLEAN]
      BY <3>1
    <3>3. [port EXCEPT !.resumed = TRUE] \in [commit : Nat, edition : Nat, resumed : BOOLEAN]
      BY <3>1
    <3> QED BY <3>2, <3>3, <1>11 DEF CopyTree
  <2> QED BY <2>1, <2>2 DEF ResultsInv, NoResults, ComparedLikeWithLike, FanOutIsOfThisAttempt
<1>12. CASE Preflight
  BY <1>1, <1>12 DEF Preflight, JobEnds, Goto, vars, gemVars, repo, node, job,
     gating, ControlInv, ResultsInv, ComparedLikeWithLike, FanOutIsOfThisAttempt,
     NoResults, NoPort, Installing, OfBaseline, OfIntegrate, Gating
<1>13. CASE AgentTurn
  BY <1>1, <1>13 DEF AgentTurn, JobEnds, Goto, ShellEdits, vars, gemVars, repo, node,
     job, gating, ControlInv, ResultsInv, ComparedLikeWithLike, FanOutIsOfThisAttempt,
     NoResults, NoPort, Installing, OfBaseline, OfIntegrate, Gating
<1>14. CASE StageStops
  BY <1>1, <1>14 DEF StageStops, JobEnds, vars, gemVars, repo, node, job, gating,
     ControlInv, ResultsInv, ComparedLikeWithLike, FanOutIsOfThisAttempt, NoResults,
     NoPort, Installing, OfBaseline, OfIntegrate, Gating
<1>15. CASE CheckBaseline
  BY <1>1, <1>15 DEF CheckBaseline, JobEnds, Goto, vars, gemVars, repo, node, job,
     gating, ControlInv, ResultsInv, ComparedLikeWithLike, FanOutIsOfThisAttempt,
     NoResults, NoPort, Installing, OfBaseline, OfIntegrate, Gating
<1>16. CASE BuildOff
  <2>1. pc' \in {"correctness", "turn"} /\ results' = NoResults /\ UNCHANGED port
    BY <1>16 DEF BuildOff, Goto, Refused
  <2>2. pc' = "correctness" => binaries' = {"off"} /\ copies' = built({"off"})
    BY <1>16 DEF BuildOff, Goto
  <2> QED BY <1>1, <2>1, <2>2
          DEF ResultsInv, NoResults, ComparedLikeWithLike, FanOutIsOfThisAttempt, built, States
<1>17. CASE RunCorrectness
  <2> DEFINE entries == inforce.tests.correctness
             on == rebuild_per_state /\ \E i \in DOMAIN entries : entries[i].feature_state # "off"
             ws == UNION {pointed(entries[i].pass_condition.pointer, held) : i \in
                     {j \in DOMAIN entries :
                        entries[j].pass_condition.kind = "metrics_equal_baseline"}}
  <2>1. /\ pc = "correctness" /\ pc' = "measure" /\ UNCHANGED port
        /\ results'.ran = results.ran /\ results'.compared = compare(ws)
        /\ results' = [correct |-> results'.correct, good |-> results'.good,
                       compared |-> results'.compared, ran |-> results'.ran]
    BY <1>1, <1>17 DEF RunCorrectness, Goto, ResultsInv
  <2>2. PICK keys \in SUBSET (IF on THEN {"on"} ELSE {}) :
          copies' = built(keys) /\ binaries' = binaries \cup keys
    BY <1>17 DEF RunCorrectness
  <2>3. binaries' \subseteq States /\ \A s \in binaries' : copies'[s] = port.edition
    BY <1>1, <2>1, <2>2 DEF ResultsInv, built, States
  <2>4. ws \subseteq baseline_workloads(inforce.tests, held)
    BY DEF baseline_workloads, baseline_pointers
  <2>5. ComparedLikeWithLike'
    BY <2>1, <2>4, CompareSound DEF ComparedLikeWithLike, Gating
  <2>6. FanOutIsOfThisAttempt'
    BY <1>1, <2>1 DEF ResultsInv, FanOutIsOfThisAttempt
  <2> QED BY <1>1, <2>1, <2>3, <2>5, <2>6 DEF ResultsInv
<1>18. CASE Dispatch
  <2> DEFINE key == build_key(Head(todo).side)
  <2>1. /\ pc = "measure" /\ pc' = "await" /\ UNCHANGED port
        /\ IF runnable(key) THEN UNCHANGED <<binaries, copies>>
           ELSE copies' = built({key}) /\ binaries' = binaries \cup {key}
        /\ results' = [results EXCEPT !.ran = @ \cup {[state |-> key, edition |-> copies'[key]]}]
    BY <1>18 DEF Dispatch, Goto
  <2>2. key \in States
    BY DEF build_key, States
  <2>3. /\ binaries' \subseteq States /\ key \in binaries'
        /\ \A s \in binaries' : copies'[s] = port.edition
    BY <1>1, <2>1, <2>2 DEF ResultsInv, built, runnable
  <2>4. results' = [correct |-> results.correct, good |-> results.good,
                   compared |-> results.compared,
                   ran |-> results.ran \cup {[state |-> key, edition |-> copies'[key]]}]
    BY <1>1, <2>1 DEF ResultsInv
  <2>5. ComparedLikeWithLike'
    BY <1>1, <2>1, <2>4 DEF ResultsInv, ComparedLikeWithLike
  <2>6. FanOutIsOfThisAttempt'
    BY <1>1, <2>1, <2>3, <2>4 DEF ResultsInv, FanOutIsOfThisAttempt
  <2> QED BY <1>1, <2>1, <2>3, <2>4, <2>5, <2>6 DEF ResultsInv
<1>19. CASE Measured
  BY <1>1, <1>19 DEF Measured, vars, gemVars, repo, node, job, gating, ControlInv,
     ResultsInv, ComparedLikeWithLike, FanOutIsOfThisAttempt, NoResults, NoPort,
     Installing, OfBaseline, OfIntegrate, Gating
<1>20. CASE Judge
  <2>1. pc = "measure" /\ UNCHANGED port
    BY <1>20 DEF Judge, node
  <2>2. CASE results' = NoResults /\ pc' = "turn"
    BY <1>1, <2>1, <2>2 DEF ResultsInv, NoResults, ComparedLikeWithLike, FanOutIsOfThisAttempt
  <2>3. CASE /\ results' = [results EXCEPT !.compared = @ \cup compare(recorded_entries)]
             /\ pc' = "idle"
    <3>1. recorded_entries \subseteq baseline_workloads(inforce.tests, held)
      BY DEF recorded_entries, baseline_workloads, baseline_pointers
    <3>2. results' = [correct |-> results.correct, good |-> results.good,
                     compared |-> results.compared \cup compare(recorded_entries),
                     ran |-> results.ran]
      BY <1>1, <2>3 DEF ResultsInv
    <3>3. ComparedLikeWithLike'
      BY <1>1, <2>1, <3>1, <3>2, CompareSound DEF ResultsInv, ComparedLikeWithLike, Gating
    <3>4. FanOutIsOfThisAttempt'
      BY <1>1, <2>1, <3>2 DEF ResultsInv, FanOutIsOfThisAttempt
    <3> QED BY <1>1, <2>1, <2>3, <3>2, <3>3, <3>4 DEF ResultsInv
  <2> QED BY <1>20, <2>2, <2>3 DEF Judge, JobEnds, Goto, Refused
<1>21. CASE EditFiles \/ MoveCheckout \/ PlannerWorks \/ NothingRuns \/ Tick \/ NodeLost
           \/ TickLost \/ Collect \/ TimesOut \/ UNCHANGED vars
  BY <1>1, <1>21 DEF EditFiles, MoveCheckout, PlannerWorks, NothingRuns, Tick,
     NodeLost, TickLost, Collect, TimesOut, vars, gemVars, repo, node, job, gating,
     ControlInv, ResultsInv, ComparedLikeWithLike, FanOutIsOfThisAttempt, NoResults,
     NoPort, Installing, OfBaseline, OfIntegrate, Gating
<1> QED
  BY <1>2, <1>3, <1>4, <1>5, <1>6, <1>7, <1>8, <1>9, <1>10, <1>11, <1>12, <1>13,
     <1>14, <1>15, <1>16, <1>17, <1>18, <1>19, <1>20, <1>21 DEF Next

\* The dispatched queue is a sequence of the workloads.
LEMMA QueueIsSeq == ASSUME NEW S, IsFiniteSet(S) PROVE SetToSeq(S) \in Seq(S)
<1> DEFINE Fs == {f \in [1..Cardinality(S) -> S] : IsInjective(f)}
<1>1. Cardinality(S) \in Nat /\ ExistsBijection(1..Cardinality(S), S)
  BY FS_CardinalityType
<1>2. \E f \in [1..Cardinality(S) -> S] : IsInjective(f)
  BY <1>1 DEF ExistsBijection, Bijection, Injection
<1>3. SetToSeq(S) \in [1..Cardinality(S) -> S]
  BY <1>2 DEF SetToSeq
<1> QED BY <1>1, <1>3, IsASeq

\* The run that is awaited holds a slot: all that were dispatched before are over.
LEMMA AwaitedRuns ==
  ASSUME FanInv, waiting
  PROVE  awaited \in running /\ awaited \in DOMAIN fan.ticks
<1>1. /\ fan.queue \in Seq(DOMAIN fan.ticks) /\ fan.next \in Nat \ {0}
      /\ fan.next <= Len(fan.queue) /\ awaited \notin over /\ ~fan.stalled
  BY DEF FanInv, waiting, awaiting
<1>2. fan.next \in DOMAIN fan.queue /\ awaited \in DOMAIN fan.ticks
  BY <1>1 DEF awaited
<1>3. {j \in 1..(fan.next - 1) : fan.queue[j] \notin over} = {}
  BY <1>1 DEF FanInv, waiting, awaiting
<1>4. ahead(fan.next) = 0
  BY <1>3, FS_EmptySet DEF ahead
<1>5. ahead(fan.next) < Slots
  BY <1>4, Gem5Assumption
<1> QED BY <1>1, <1>2, <1>5 DEF running, awaited

\* No wait for a node that answers outlasts its run.
LEMMA StepFan == ASSUME HostInv, [Next]_vars PROVE FanInv'
<1>1. ControlInv /\ FanInv /\ RunLimit \in Nat \ {0}
  BY Gem5Assumption DEF HostInv
<1>2. CASE TaskLost
  BY <1>1, <1>2 DEF TaskLost, JobEnds, vars, gemVars, repo, node, job, gating,
     ControlInv, FanInv, NoFan, Installing, OfBaseline, OfIntegrate, Gating
<1>3. CASE InstallNoOp
  BY <1>1, <1>3 DEF InstallNoOp, Goto, Installed, drift, vars, gemVars, repo, node,
     job, gating, ControlInv, FanInv, NoFan, Installing, OfBaseline, OfIntegrate, Gating
<1>4. CASE InstallBegins
  BY <1>1, <1>4 DEF InstallBegins, Goto, vars, gemVars, repo, node, job, gating,
     ControlInv, FanInv, NoFan, Installing, OfBaseline, OfIntegrate, Gating
<1>5. CASE InstallStep
  BY <1>1, <1>5 DEF InstallStep, Goto, Installed, vars, gemVars, repo, node, job,
     gating, ControlInv, FanInv, NoFan, Installing, OfBaseline, OfIntegrate, Gating
<1>6. ASSUME NEW list \in Lists, StartBaseline(list) PROVE FanInv'
  BY <1>1, <1>6 DEF StartBaseline, JobStarts, vars, gemVars, repo, node, job, gating,
     ControlInv, FanInv, NoFan, Installing, OfBaseline, OfIntegrate, Gating
<1>7. CASE RestoreCheckout
  BY <1>1, <1>7 DEF RestoreCheckout, Goto, vars, gemVars, repo, node, job, gating,
     ControlInv, FanInv, NoFan, Installing, OfBaseline, OfIntegrate, Gating
<1>8. CASE RunBaseline
  BY <1>1, <1>8 DEF RunBaseline, Goto, vars, gemVars, repo, node, job, gating,
     ControlInv, FanInv, NoFan, Installing, OfBaseline, OfIntegrate, Gating
<1>9. CASE RecordBaseline
  BY <1>1, <1>9 DEF RecordBaseline, JobEnds, vars, gemVars, repo, node, job, gating,
     ControlInv, FanInv, NoFan, Installing, OfBaseline, OfIntegrate, Gating
<1>10. ASSUME NEW fresh \in BOOLEAN, StartIntegrate(fresh) PROVE FanInv'
  BY <1>1, <1>10 DEF StartIntegrate, JobStarts, vars, gemVars, repo, node, job,
     gating, ControlInv, FanInv, NoFan, Installing, OfBaseline, OfIntegrate, Gating
<1>11. CASE CopyTree
  BY <1>1, <1>11 DEF CopyTree, Goto, vars, gemVars, repo, node, job, gating,
     ControlInv, FanInv, NoFan, Installing, OfBaseline, OfIntegrate, Gating
<1>12. CASE Preflight
  BY <1>1, <1>12 DEF Preflight, JobEnds, Goto, vars, gemVars, repo, node, job,
     gating, ControlInv, FanInv, NoFan, Installing, OfBaseline, OfIntegrate, Gating
<1>13. CASE AgentTurn
  BY <1>1, <1>13 DEF AgentTurn, JobEnds, Goto, ShellEdits, vars, gemVars, repo, node,
     job, gating, ControlInv, FanInv, NoFan, Installing, OfBaseline, OfIntegrate, Gating
<1>14. CASE StageStops
  BY <1>1, <1>14 DEF StageStops, JobEnds, vars, gemVars, repo, node, job, gating,
     ControlInv, FanInv, NoFan, Installing, OfBaseline, OfIntegrate, Gating
<1>15. CASE CheckBaseline
  BY <1>1, <1>15 DEF CheckBaseline, JobEnds, Goto, vars, gemVars, repo, node, job,
     gating, ControlInv, FanInv, NoFan, Installing, OfBaseline, OfIntegrate, Gating
<1>16. CASE BuildOff
  BY <1>1, <1>16 DEF BuildOff, Goto, Refused, vars, gemVars, repo, node, job, gating,
     ControlInv, FanInv, NoFan, Installing, OfBaseline, OfIntegrate, Gating
<1>17. CASE RunCorrectness
  BY <1>1, <1>17 DEF RunCorrectness, Goto, vars, gemVars, repo, node, job, gating,
     ControlInv, FanInv, NoFan, Installing, OfBaseline, OfIntegrate, Gating
<1>18. CASE Dispatch
  <2> DEFINE names == Head(todo).traces
  <2>1. /\ pc' = "await" /\ answering' = TRUE /\ fan' = dispatched(names) /\ IsFiniteSet(names)
    BY <1>1, <1>18 DEF Dispatch, Goto, FanInv
  <2>2. SetToSeq(names) \in Seq(names)
    BY <2>1, QueueIsSeq
  <2>3. /\ fan'.queue = SetToSeq(names) /\ fan'.next = 1 /\ fan'.ticks = [w \in names |-> 0]
        /\ fan'.waited = 0 /\ fan'.lost = 0 /\ fan'.stalled = FALSE
        /\ fan' = [queue |-> fan'.queue, next |-> fan'.next, ticks |-> fan'.ticks,
                   waited |-> fan'.waited, lost |-> fan'.lost, stalled |-> fan'.stalled,
                   good |-> fan'.good]
    BY <2>1 DEF dispatched
  <2>4. awaiting' => awaited' \in names
    BY <2>2, <2>3 DEF awaiting, awaited
  <2>5. \A w \in names : fan'.ticks[w] \in Nat /\ fan'.ticks[w] < RunLimit
    BY <1>1, <2>3
  <2>6. fan'.ticks \in [names -> Nat] /\ DOMAIN fan'.ticks = names
    BY <2>3
  <2>7. awaiting' => fan'.waited <= fan'.ticks[awaited']
    BY <2>3, <2>4
  <2>8. \A j \in 1..(fan'.next - 1) : FALSE
    BY <2>3
  <2>9. fan'.queue \in Seq(DOMAIN fan'.ticks)
    BY <2>2, <2>3, <2>6
  <2>10. \A w \in DOMAIN fan'.ticks : fan'.ticks[w] < RunLimit \/ w \in over'
    BY <2>5, <2>6
  <2>11. /\ fan'.waited \in 0..RunLimit /\ fan'.lost \in 0..RunLimit
         /\ fan'.next \in Nat \ {0} /\ ~fan'.stalled
         /\ fan'.lost = 0
    BY <1>1, <2>3
  <2> HIDE DEF names
  <2>12. \A j \in 1..(fan'.next - 1) : j <= Len(fan'.queue) => fan'.queue[j] \in over'
    BY <2>8
  <2>13. fan'.ticks \in [DOMAIN fan'.ticks -> Nat]
    BY <2>6
  <2>14. pc' = "await" /\ answering' \in BOOLEAN /\ fan'.stalled \in BOOLEAN
    BY <2>1, <2>3
  <2>15. ~(fan'.lost > 0)
    BY <2>11
  <2>16. fan' = [queue |-> fan'.queue, next |-> fan'.next, ticks |-> fan'.ticks,
                waited |-> fan'.waited, lost |-> fan'.lost, stalled |-> fan'.stalled,
                good |-> fan'.good]
    BY <2>3
  <2> QED BY <2>7, <2>9, <2>10, <2>11, <2>12, <2>13, <2>14, <2>15, <2>16 DEF FanInv
<1>19. CASE Tick
  <2>1. PICK ends \in SUBSET running :
          /\ {w \in running : fan.ticks[w] + 1 = RunLimit} \subseteq ends
          /\ fan' = [fan EXCEPT !.waited = @ + 1,
                       !.ticks = [w \in DOMAIN @ |->
                                    CASE w \in ends -> RunLimit + 1
                                      [] w \in running \ ends -> @[w] + 1
                                      [] OTHER -> @[w]]]
    BY <1>19 DEF Tick
  <2>2. waiting /\ answering /\ pc = "await" /\ UNCHANGED <<pc, answering>>
    BY <1>19 DEF Tick, waiting, awaiting, job
  <2>3. awaited \in running /\ awaited \in DOMAIN fan.ticks
    BY <1>1, <2>2, AwaitedRuns
  <2>4. /\ fan'.queue = fan.queue /\ fan'.next = fan.next /\ fan'.waited = fan.waited + 1
        /\ fan'.lost = fan.lost /\ fan'.stalled = fan.stalled
        /\ fan'.ticks = [w \in DOMAIN fan.ticks |->
                           CASE w \in ends -> RunLimit + 1
                             [] w \in running \ ends -> fan.ticks[w] + 1
                             [] OTHER -> fan.ticks[w]]
        /\ fan' = [queue |-> fan'.queue, next |-> fan'.next, ticks |-> fan'.ticks,
                   waited |-> fan'.waited, lost |-> fan'.lost, stalled |-> fan'.stalled,
                   good |-> fan'.good]
    BY <1>1, <2>1, <2>2 DEF FanInv
  <2>5. /\ \A w \in running : w \notin over
        /\ over \subseteq DOMAIN fan.ticks
    BY DEF running, over
  <2>6. ASSUME NEW w \in DOMAIN fan.ticks
        PROVE  /\ fan'.ticks[w] \in Nat
               /\ fan'.ticks[w] < RunLimit \/ fan'.ticks[w] = RunLimit + 1
               /\ w \in over => fan'.ticks[w] = RunLimit + 1
               /\ w \in running => fan'.ticks[w] = RunLimit + 1 \/ fan'.ticks[w] = fan.ticks[w] + 1
    BY <1>1, <2>1, <2>2, <2>4, <2>5 DEF FanInv, over
  <2>7. over \subseteq over' /\ DOMAIN fan'.ticks = DOMAIN fan.ticks
        /\ fan'.ticks \in [DOMAIN fan.ticks -> Nat]
    BY <2>4, <2>5, <2>6 DEF over
  <2>8. \A w \in DOMAIN fan'.ticks : fan'.ticks[w] < RunLimit \/ w \in over'
    BY <2>6, <2>7 DEF over
  <2>9. awaited' = awaited /\ (awaited \notin over' => fan.waited + 1 <= fan'.ticks[awaited])
    <3>1. awaited' = awaited
      BY <2>4 DEF awaited
    <3>2. fan.waited <= fan.ticks[awaited]
      BY <1>1, <2>2 DEF FanInv, waiting
    <3>3. awaited \notin over' => fan'.ticks[awaited] = fan.ticks[awaited] + 1
      BY <2>3, <2>6, <2>7 DEF over
    <3>4. fan.waited \in Nat /\ fan.ticks[awaited] \in Nat
      BY <1>1, <2>2, <2>3 DEF FanInv
    <3> QED BY <3>1, <3>2, <3>3, <3>4
  <2>10. fan'.waited \in 0..RunLimit
    BY <1>1, <2>2, <2>4 DEF FanInv, waiting
  <2>11. ~fan.stalled => \A j \in 1..(fan.next - 1) : j <= Len(fan.queue) => fan.queue[j] \in over'
    BY <1>1, <2>2, <2>7 DEF FanInv
  <2> QED BY <1>1, <2>2, <2>4, <2>7, <2>8, <2>9, <2>10, <2>11 DEF FanInv
<1>20. CASE NodeLost
  BY <1>1, <1>20 DEF NodeLost, vars, gemVars, repo, node, job, gating, ControlInv,
     FanInv, NoFan, Installing, OfBaseline, OfIntegrate, Gating, awaiting, awaited, over
<1>21. CASE TickLost
  <2>1. /\ fan' = [queue |-> fan.queue, next |-> fan.next, ticks |-> fan.ticks,
                   waited |-> fan.waited + 1, lost |-> fan.lost + 1,
                   stalled |-> fan.stalled, good |-> fan.good]
        /\ UNCHANGED <<pc, answering>>
    BY <1>1, <1>21 DEF TickLost, FanInv, waiting, awaiting, job
  <2>2. over' = over /\ awaited' = awaited /\ awaiting' = awaiting
    BY <2>1 DEF over, awaited, awaiting
  <2> QED BY <1>1, <2>1, <2>2, <1>21 DEF TickLost, FanInv, waiting, awaiting
<1>22. CASE Collect
  <2>1. PICK ok \in SUBSET {awaited} :
          fan' = [fan EXCEPT !.good = @ \cup ok, !.next = @ + 1, !.waited = next_wait]
    BY <1>22 DEF Collect
  <2>2. /\ awaiting /\ awaited \in over /\ pc = "await"
        /\ UNCHANGED <<pc, answering>>
    BY <1>22 DEF Collect, awaiting, job
  <2>3. fan' = [queue |-> fan.queue, next |-> fan.next + 1, ticks |-> fan.ticks,
               waited |-> 0, lost |-> fan.lost, stalled |-> fan.stalled, good |-> fan.good \cup ok]
    BY <1>1, <2>1, <2>2 DEF FanInv, next_wait
  <2>4. over' = over
    BY <2>3 DEF over
  <2>5. awaiting' => awaited' \in DOMAIN fan.ticks
    BY <1>1, <2>2, <2>3 DEF FanInv, awaiting, awaited
  <2>6. ~fan.stalled => \A j \in 1..fan.next : j <= Len(fan.queue) => fan.queue[j] \in over
    BY <1>1, <2>2 DEF FanInv, awaited
  <2>7. ~(~fan.stalled /\ fan.lost > 0)
    BY <1>1, <2>2 DEF FanInv
  <2> QED BY <1>1, <2>2, <2>3, <2>4, <2>5, <2>6, <2>7 DEF FanInv
<1>23. CASE TimesOut
  <2>1. /\ awaiting /\ awaited \notin over /\ pc = "await"
        /\ fan.waited >= RunLimit \/ fan.stalled
        /\ UNCHANGED <<pc, answering>>
    BY <1>23 DEF TimesOut, awaiting, job
  <2>2. fan' = [queue |-> fan.queue, next |-> fan.next + 1, ticks |-> fan.ticks,
               waited |-> 0, lost |-> fan.lost, stalled |-> TRUE, good |-> fan.good]
    BY <1>1, <2>1, <1>23 DEF TimesOut, FanInv, next_wait
  <2>3. over' = over
    BY <2>2 DEF over
  <2>4. awaited \in DOMAIN fan.ticks
    BY <1>1, <2>1 DEF FanInv, awaiting, awaited
  <2>5. ~answering
    BY <1>1, <2>1, <2>4 DEF FanInv
  <2> QED BY <1>1, <2>1, <2>2, <2>3, <2>5 DEF FanInv
<1>24. CASE Measured
  BY <1>1, <1>24 DEF Measured, vars, gemVars, repo, node, job, gating, ControlInv,
     FanInv, NoFan, Installing, OfBaseline, OfIntegrate, Gating
<1>25. CASE Judge
  BY <1>1, <1>25 DEF Judge, JobEnds, Goto, Refused, vars, gemVars, repo, node, job,
     gating, ControlInv, FanInv, NoFan, Installing, OfBaseline, OfIntegrate, Gating
<1>26. CASE EditFiles \/ MoveCheckout \/ PlannerWorks \/ NothingRuns \/ UNCHANGED vars
  BY <1>1, <1>26 DEF EditFiles, MoveCheckout, PlannerWorks, NothingRuns, vars,
     gemVars, repo, node, job, gating, ControlInv, FanInv, NoFan, Installing,
     OfBaseline, OfIntegrate, Gating, awaiting, awaited, over
<1> QED
  BY <1>2, <1>3, <1>4, <1>5, <1>6, <1>7, <1>8, <1>9, <1>10, <1>11, <1>12, <1>13,
     <1>14, <1>15, <1>16, <1>17, <1>18, <1>19, <1>20, <1>21, <1>22, <1>23, <1>24, <1>25,
     <1>26 DEF Next

\* An edit's number is the newest.
LEMMA StepFilesType == ASSUME HostInv, [Next]_vars PROVE FilesType'
<1>1. FilesType
  BY DEF HostInv
<1>2. CASE EditFiles
  <2>1. edits \in 1..MaxEdits /\ edits' = edits + 1 /\ edits' \in 1..MaxEdits /\ edits' \in 1..edits'
    BY <1>1, <1>2, Gem5Assumption DEF EditFiles, FilesType
  <2>2. /\ files.scripts \in 1..edits' /\ files.loads \in [Workloads -> 1..edits']
        /\ files = [scripts |-> files.scripts, loads |-> files.loads]
    BY <1>1, <2>1 DEF FilesType
  <2>3. CASE files' = [files EXCEPT !.scripts = edits']
    <3>1. files' = [scripts |-> edits', loads |-> files.loads]
      BY <2>2, <2>3
    <3> QED BY <1>1, <2>1, <2>2, <3>1, <1>2 DEF FilesType, EditFiles, node
  <2>4. ASSUME NEW w \in Workloads, files' = [files EXCEPT !.loads[w] = edits']
        PROVE  FilesType'
    <3>1. files' = [scripts |-> files.scripts, loads |-> [files.loads EXCEPT ![w] = edits']]
      BY <2>2, <2>4
    <3>2. [files.loads EXCEPT ![w] = edits'] \in [Workloads -> 1..edits']
      BY <2>1, <2>2
    <3> QED BY <1>1, <2>1, <2>2, <3>1, <3>2, <1>2 DEF FilesType, EditFiles, node
  <2> QED BY <2>3, <2>4, <1>2 DEF EditFiles
<1>3. CASE PlannerWorks
  BY <1>1, <1>3 DEF PlannerWorks, ShellEdits, vars, gemVars, repo, node, job, gating,
     FilesType
<1>4. CASE RestoreCheckout
  BY <1>1, <1>4 DEF RestoreCheckout, Goto, vars, gemVars, repo, node, job, gating,
     FilesType
<1>5. CASE MoveCheckout \/ TaskLost \/ InstallNoOp \/ InstallBegins \/ InstallStep \/
           (\E list \in Lists : StartBaseline(list)) \/ RunBaseline \/ RecordBaseline \/
           (\E fresh \in BOOLEAN : StartIntegrate(fresh)) \/ CopyTree \/ Preflight \/
           AgentTurn \/ StageStops \/ CheckBaseline \/ BuildOff \/ RunCorrectness \/
           Dispatch \/ NothingRuns \/ Tick \/ NodeLost \/ TickLost \/ Collect \/
           TimesOut \/ Measured \/ Judge \/ UNCHANGED vars
  BY <1>1, <1>5 DEF MoveCheckout, TaskLost, InstallNoOp, InstallBegins, InstallStep,
     StartBaseline, RunBaseline, RecordBaseline, StartIntegrate, CopyTree, Preflight,
     AgentTurn, StageStops, CheckBaseline, BuildOff, RunCorrectness, Dispatch,
     NothingRuns, Tick, NodeLost, TickLost, Collect, TimesOut, Measured, Judge, JobEnds,
     Goto, Installed, JobStarts, vars, gemVars, repo, node, job, gating, FilesType
<1> QED
  BY <1>2, <1>3, <1>4, <1>5 DEF Next

\* A binary is of an edition that has been.
LEMMA StepTreesType == ASSUME HostInv, [Next]_vars PROVE TreesType'
<1>1. TreesType /\ commit \in Nat
  BY Gem5Assumption DEF HostInv, ControlInv
<1>2. CASE MoveCheckout
  BY <1>1, <1>2 DEF MoveCheckout, vars, gemVars, repo, node, job, gating, TreesType,
     NoPort, States
<1>3. ASSUME NEW fresh \in BOOLEAN, StartIntegrate(fresh) PROVE TreesType'
  BY <1>1, <1>3 DEF StartIntegrate, JobStarts, vars, gemVars, repo, node, job,
     gating, TreesType, NoPort, States
<1>4. CASE CopyTree
  <2>1. /\ UNCHANGED <<commit, copies>>
        /\ \/ port = NoPort /\ port' = [commit |-> commit, edition |-> 1, resumed |-> FALSE]
           \/ port' = [port EXCEPT !.resumed = TRUE]
    BY <1>4 DEF CopyTree, repo
  <2>2. CASE port = NoPort /\ port' = [commit |-> commit, edition |-> 1, resumed |-> FALSE]
    BY <1>1, <2>1, <2>2 DEF TreesType, NoPort
  <2>3. CASE port' = [port EXCEPT !.resumed = TRUE]
    BY <1>1, <2>1, <2>3 DEF TreesType
  <2> QED BY <2>1, <2>2, <2>3
<1>5. CASE AgentTurn
  <2>1. port' = [port EXCEPT !.edition = @ + 1] /\ UNCHANGED <<commit, copies>>
    BY <1>5 DEF AgentTurn, repo
  <2>2. /\ port' \in [commit : 0..commit, edition : Nat, resumed : BOOLEAN]
        /\ port'.edition = port.edition + 1 /\ port.edition \in Nat
    BY <1>1, <2>1 DEF TreesType
  <2>3. copies \in [States -> 0..port'.edition]
    BY <1>1, <2>2 DEF TreesType
  <2> QED BY <2>1, <2>2, <2>3 DEF TreesType
<1>6. CASE BuildOff
  BY <1>1, <1>6 DEF BuildOff, Goto, Refused, vars, gemVars, repo, node, job, gating,
     TreesType, NoPort, States, built
<1>7. CASE RunCorrectness
  BY <1>1, <1>7 DEF RunCorrectness, Goto, vars, gemVars, repo, node, job, gating,
     TreesType, NoPort, States, built
<1>8. CASE Dispatch
  BY <1>1, <1>8 DEF Dispatch, Goto, vars, gemVars, repo, node, job, gating,
     TreesType, NoPort, States, built, build_key
<1>9. CASE EditFiles \/ TaskLost \/ InstallNoOp \/ InstallBegins \/ InstallStep \/
           PlannerWorks \/ (\E list \in Lists : StartBaseline(list)) \/ RestoreCheckout
           \/ RunBaseline \/ RecordBaseline \/ Preflight \/ StageStops \/ CheckBaseline
           \/ NothingRuns \/ Tick \/ NodeLost \/ TickLost \/ Collect \/ TimesOut \/
           Measured \/ Judge \/ UNCHANGED vars
  BY <1>1, <1>9 DEF EditFiles, TaskLost, InstallNoOp, InstallBegins, InstallStep,
     PlannerWorks, StartBaseline, RestoreCheckout, RunBaseline, RecordBaseline,
     Preflight, StageStops, CheckBaseline, NothingRuns, Tick, NodeLost, TickLost,
     Collect, TimesOut, Measured, Judge, JobEnds, Goto, Installed, JobStarts, vars,
     gemVars, repo, node, job, gating, TreesType, NoPort, States
<1> QED
  BY <1>2, <1>3, <1>4, <1>5, <1>6, <1>7, <1>8, <1>9 DEF Next

\* Attempts are of a running integrate.
LEMMA StepJobType == ASSUME HostInv, [Next]_vars PROVE JobType'
<1>1. JobType /\ ControlInv /\ MaxAttempts \in Nat /\ PlanRevisions \in Nat
  BY Gem5Assumption, StageTwoAssumption DEF HostInv
<1>2. CASE TaskLost
  BY <1>1, <1>2 DEF TaskLost, JobEnds, vars, gemVars, repo, node, job, gating,
     JobType, States, planVars
<1>3. ASSUME NEW list \in Lists, StartBaseline(list) PROVE JobType'
  BY <1>1, <1>3 DEF StartBaseline, JobStarts, vars, gemVars, repo, node, job, gating,
     JobType, States, planVars, ControlInv, OfBaseline
<1>4. CASE RecordBaseline
  BY <1>1, <1>4 DEF RecordBaseline, JobEnds, vars, gemVars, repo, node, job, gating,
     JobType, States, planVars
<1>5. ASSUME NEW fresh \in BOOLEAN, StartIntegrate(fresh) PROVE JobType'
  BY <1>1, <1>5 DEF StartIntegrate, JobStarts, vars, gemVars, repo, node, job,
     gating, JobType, States, planVars, ControlInv
<1>6. CASE Preflight
  <2>1. /\ (attempt' = 0 /\ binaries' = {}) \/ UNCHANGED <<attempt, binaries, stage>>
        /\ UNCHANGED <<verdict, revision>>
    BY <1>6 DEF Preflight, JobEnds, Goto, planVars
  <2> QED BY <1>1, <2>1 DEF JobType
<1>7. CASE AgentTurn
  <2>1. revision' \in 0..PlanRevisions
    BY <1>1, <1>7 DEF JobType, AgentTurn, PlanNext, Revise, revisionsLeft, planVars
  <2>2. attempt' > 0 => stage' = "integrate"
    BY <1>1, <1>7 DEF ControlInv, AgentTurn, JobEnds, Goto, OfBaseline, Installing
  <2>3. binaries' \subseteq States /\ verdict' = verdict
    BY <1>1, <1>7 DEF JobType, AgentTurn, JobEnds
  <2> QED BY <1>1, <2>1, <2>2, <2>3 DEF JobType
<1>8. CASE StageStops
  BY <1>1, <1>8 DEF StageStops, JobEnds, vars, gemVars, repo, node, job, gating,
     JobType, States, planVars
<1>9. CASE CheckBaseline
  <2>1. /\ (attempt' = 0 /\ binaries' = {}) \/ UNCHANGED <<attempt, binaries, stage>>
        /\ UNCHANGED <<verdict, revision>>
    BY <1>9 DEF CheckBaseline, JobEnds, Goto, planVars
  <2> QED BY <1>1, <2>1 DEF JobType
<1>10. CASE BuildOff
  BY <1>1, <1>10 DEF BuildOff, Goto, Refused, vars, gemVars, repo, node, job, gating,
     JobType, States, planVars
<1>11. CASE RunCorrectness
  BY <1>1, <1>11 DEF RunCorrectness, Goto, vars, gemVars, repo, node, job, gating,
     JobType, States, planVars
<1>12. CASE Dispatch
  BY <1>1, <1>12 DEF Dispatch, Goto, vars, gemVars, repo, node, job, gating, JobType,
     States, planVars, build_key
<1>13. CASE Judge
  BY <1>1, <1>13 DEF Judge, JobEnds, Goto, Refused, vars, gemVars, repo, node, job,
     gating, JobType, States, planVars
<1>14. CASE EditFiles \/ MoveCheckout \/ InstallNoOp \/ InstallBegins \/ InstallStep \/
           PlannerWorks \/ RestoreCheckout \/ RunBaseline \/ CopyTree \/ NothingRuns \/
           Tick \/ NodeLost \/ TickLost \/ Collect \/ TimesOut \/ Measured \/ UNCHANGED
           vars
  BY <1>1, <1>14 DEF EditFiles, MoveCheckout, InstallNoOp, InstallBegins,
     InstallStep, PlannerWorks, RestoreCheckout, RunBaseline, CopyTree, NothingRuns,
     Tick, NodeLost, TickLost, Collect, TimesOut, Measured, Goto, Installed, vars,
     gemVars, repo, node, job, gating, JobType, States, planVars
<1> QED
  BY <1>2, <1>3, <1>4, <1>5, <1>6, <1>7, <1>8, <1>9, <1>10, <1>11, <1>12, <1>13,
     <1>14 DEF Next

\* Only a debug turn of the agent changes the plan, and as PlanGuard says.
LEMMA PlanStep == ASSUME [Next]_vars PROVE [PlanNext]_planVars
<1>1. CASE AgentTurn
  BY <1>1 DEF AgentTurn
<1>2. CASE UNCHANGED planVars
  BY <1>2
<1> QED
  BY <1>1, <1>2
  DEF Next, vars, EditFiles, MoveCheckout, TaskLost, InstallNoOp, InstallBegins, InstallStep,
      PlannerWorks, StartBaseline, RestoreCheckout, RunBaseline, RecordBaseline, StartIntegrate,
      CopyTree, Preflight, StageStops, CheckBaseline, BuildOff, RunCorrectness, Dispatch,
      NothingRuns, Tick, NodeLost, TickLost, Collect, TimesOut, Measured, Judge

-----------------------------------------------------------------------------
(* The whole invariant *)

\* A recording nobody disturbed is sound, and so is none.
LEMMA InitSound == ASSUME Init PROVE SoundInv
<1>1. Sound(NoBaseline)
  BY DEF Sound, NoBaseline
<1>2. Sound(Recording1)
  <2>1. files.scripts = 1 /\ \A w \in Workloads : files.loads[w] = 1
    BY DEF Init
  <2>2. <<1, 1>> \in Prints
    BY DEF Prints
  <2> QED BY <2>1, <2>2 DEF Sound, Recording1, Covers
<1> QED BY <1>1, <1>2 DEF Init, SoundInv

LEMMA InitHost == ASSUME Init PROVE HostInv
<1>1. /\ stage = "none" /\ pc = "idle" /\ commit = 1 /\ attempt = 0 /\ jobs = 0
      /\ edits = 1 /\ files = [scripts |-> 1, loads |-> [w \in Workloads |-> 1]]
      /\ rundir = [has |-> NoContents, added |-> FALSE, marker |-> NoContents]
      /\ payload = NoContents /\ port = NoPort /\ results = NoResults
      /\ fan = NoFan /\ answering = TRUE /\ dirty = FALSE /\ copies = [s \in States |-> 0]
      /\ binaries = {} /\ verdict = "none" /\ revision = 0
  BY DEF Init, PlanInit
<1>2. ControlInv
  BY <1>1, Gem5Assumption DEF ControlInv
<1>3. FileInv /\ FilesType
  <2>1. NoContents \in Versions
    BY DEF NoContents, Versions
  <2>2. files \in Versions /\ rundir \in RunDirs
    BY <1>1, <2>1 DEF Versions, RunDirs
  <2>3. NoContents.scripts = 0 /\ edits \in 1..MaxEdits
    BY <1>1, Gem5Assumption DEF NoContents
  <2>4. FileInv
    BY <1>1, <2>1, <2>2, <2>3 DEF FileInv
  <2>5. FilesType
    <3>1. 1 \in 1..1 /\ [w \in Workloads |-> 1] \in [Workloads -> 1..1]
      OBVIOUS
    <3>2. files \in [scripts : 1..1, loads : [Workloads -> 1..1]]
      BY <1>1, <3>1
    <3> QED BY <1>1, <2>3, <3>2 DEF FilesType
  <2> QED BY <2>4, <2>5
<1>4. InstallInv /\ RecordingInv /\ GateInv
  BY <1>1 DEF InstallInv, RecordingInv, GateInv, Installing, Gating
<1>5. ResultsInv
  BY <1>1 DEF ResultsInv, NoResults, NoPort, ComparedLikeWithLike, FanOutIsOfThisAttempt
<1>6. FanInv
  BY <1>1 DEF FanInv
<1>7. TreesType /\ JobType
  BY <1>1, StageTwoAssumption DEF TreesType, JobType, NoPort, States
<1> QED BY <1>2, <1>3, <1>4, <1>5, <1>6, <1>7, InitSound DEF HostInv

LEMMA StepHost == ASSUME HostInv, [Next]_vars PROVE HostInv'
BY StepControl, StepFile, StepInstall, StepSound, StepRecording, StepGate, StepResults, StepFan,
   StepFilesType, StepTreesType, StepJobType DEF HostInv

\* The type invariant is a part of it.
LEMMA HostTyped == ASSUME HostInv PROVE TypeOK
<1>1. edits \in 1..MaxEdits /\ files \in [scripts : 1..edits, loads : [Workloads -> 1..edits]]
      /\ dirty \in BOOLEAN
  BY DEF HostInv, FilesType
<1>2. commit \in 1..MaxCommits /\ jobs \in 0..MaxJobs /\ attempt \in 0..MaxAttempts
      /\ stage \in {"none", "baseline", "integrate"}
  BY DEF HostInv, ControlInv
<1>3. answering \in BOOLEAN
  BY DEF HostInv, FanInv
<1>4. DOMAIN baseline.per_trace \subseteq DOMAIN baseline.prints
  BY DEF HostInv, SoundInv, Sound
<1> QED BY <1>1, <1>2, <1>3, <1>4 DEF HostInv, TreesType, JobType, TypeOK

-----------------------------------------------------------------------------
(* A passed attempt *)

PassInv ==
  /\ verdict = "passed" => stage = "none"
  /\ PassMeetsStageTwosDemands

\* A complete attempt at the plan in force met what stage 2's plan demands.
LEMMA CompleteMeets ==
  ASSUME IInv, complete
  PROVE  /\ \A i \in DOMAIN first.tests.correctness :
              LET was == first.tests.correctness[i]
                  now == entry(inforce.tests, "correctness", "id", was.id)
              IN was.id \in results.correct /\ now.pass_condition = was.pass_condition
                   /\ now.feature_state = was.feature_state
         /\ \A i \in DOMAIN first.tests.performance :
              LET was == first.tests.performance[i]
                  now == entry(inforce.tests, "performance", "id", was.id)
              IN /\ <<was.id, "on">> \in results.good /\ traces_of(now) = traces_of(was)
                 /\ now.block_threshold = was.block_threshold /\ now.baseline = was.baseline
         /\ <<"smoke", "on">> \in results.good
         /\ first.tests.smoke.traces \subseteq traces_of(inforce.tests.smoke)
<1>1. /\ DOMAIN first.tests.correctness \subseteq Nat /\ Distinct(first.tests.correctness, "id")
      /\ DOMAIN first.tests.performance \subseteq Nat /\ Distinct(first.tests.performance, "id")
      /\ DOMAIN inforce.tests.performance \subseteq Nat
      /\ Distinct(inforce.tests.performance, "id")
  BY IdsDistinct DEF IInv, PairInv
<1>2. TestsKept(first.tests, inforce.tests) /\ smoke_kept(first.tests, inforce.tests)
  BY DEF IInv, DemandsInv
<1>3. ASSUME NEW i \in DOMAIN first.tests.correctness
      PROVE  LET was == first.tests.correctness[i]
                 now == entry(inforce.tests, "correctness", "id", was.id)
             IN was.id \in results.correct /\ now.pass_condition = was.pass_condition
                  /\ now.feature_state = was.feature_state
  <2> DEFINE was == first.tests.correctness[i]
  <2>1. was.id \in Values(first.tests.correctness, "id")
    BY DEF Values
  <2>2. entry(first.tests, "correctness", "id", was.id) = was
    BY <1>1, EntryAt
  <2>3. /\ was.id \in Values(inforce.tests.correctness, "id")
        /\ \A f \in {"kind", "feature_state", "pass_condition"} :
             entry(inforce.tests, "correctness", "id", was.id)[f] = was[f]
    BY <1>2, <2>1, <2>2, EntryKept
  <2> QED BY <2>3 DEF complete
<1>4. ASSUME NEW i \in DOMAIN first.tests.performance
      PROVE  LET was == first.tests.performance[i]
                 now == entry(inforce.tests, "performance", "id", was.id)
             IN /\ <<was.id, "on">> \in results.good /\ traces_of(now) = traces_of(was)
                /\ now.block_threshold = was.block_threshold /\ now.baseline = was.baseline
  <2> DEFINE was == first.tests.performance[i]
             now == entry(inforce.tests, "performance", "id", was.id)
  <2>1. was.id \in Values(first.tests.performance, "id")
    BY DEF Values
  <2>2. entry(first.tests, "performance", "id", was.id) = was
    BY <1>1, EntryAt
  <2>3. /\ was.id \in Values(inforce.tests.performance, "id")
        /\ \A f \in {"metric", "direction", "block_threshold", "baseline", "trace_list", "traces"} :
             now[f] = was[f]
    BY <1>2, <2>1, <2>2, EntryKept
  <2>4. PICK j \in DOMAIN inforce.tests.performance :
          inforce.tests.performance[j].id = was.id
    BY <2>3 DEF Values
  <2>5. 1 \in DOMAIN sides(inforce.tests.performance[j])
        /\ sides(inforce.tests.performance[j])[1] = "on"
    BY DEF sides
  <2>6. <<was.id, "on">> \in results.good
    BY <2>4, <2>5 DEF complete
  <2>7. now.trace_list = was.trace_list /\ now.traces = was.traces
    BY <2>3
  <2> QED BY <2>3, <2>6, <2>7 DEF traces_of
<1>5. first.tests.smoke.traces \subseteq traces_of(inforce.tests.smoke)
  BY <1>2 DEF smoke_kept, traces_of
<1> QED BY <1>3, <1>4, <1>5 DEF complete

\* A verdict stands until the next job, and no plan is revised between jobs.
LEMMA StepPass == ASSUME IInv, HostInv, PassInv, [Next]_vars PROVE PassInv'
<1>1. ControlInv /\ PassInv
  BY DEF HostInv
<1>2. CASE TaskLost
  BY <1>1, <1>2 DEF TaskLost, JobEnds, vars, gemVars, repo, node, job, gating,
     PassInv, PassMeetsStageTwosDemands, planVars, Installing, OfBaseline, OfIntegrate,
     Gating
<1>3. ASSUME NEW list \in Lists, StartBaseline(list) PROVE PassInv'
  BY <1>1, <1>3 DEF StartBaseline, JobStarts, vars, gemVars, repo, node, job, gating,
     PassInv, PassMeetsStageTwosDemands, planVars, Installing, OfBaseline, OfIntegrate,
     Gating
<1>4. CASE RecordBaseline
  BY <1>1, <1>4 DEF RecordBaseline, JobEnds, vars, gemVars, repo, node, job, gating,
     PassInv, PassMeetsStageTwosDemands, planVars, Installing, OfBaseline, OfIntegrate,
     Gating
<1>5. ASSUME NEW fresh \in BOOLEAN, StartIntegrate(fresh) PROVE PassInv'
  BY <1>1, <1>5 DEF StartIntegrate, JobStarts, vars, gemVars, repo, node, job,
     gating, PassInv, PassMeetsStageTwosDemands, planVars, Installing, OfBaseline,
     OfIntegrate, Gating
<1>6. CASE Preflight
  BY <1>1, <1>6 DEF Preflight, JobEnds, Goto, vars, gemVars, repo, node, job, gating,
     PassInv, PassMeetsStageTwosDemands, planVars, Installing, OfBaseline, OfIntegrate,
     Gating
<1>7. CASE AgentTurn
  <2>1. pc = "turn" /\ stage = "integrate" /\ verdict' = verdict
    BY <1>1, <1>7 DEF AgentTurn, ControlInv, OfBaseline, Installing
  <2> QED BY <1>1, <2>1 DEF PassInv, PassMeetsStageTwosDemands
<1>8. CASE StageStops
  BY <1>1, <1>8 DEF StageStops, JobEnds, vars, gemVars, repo, node, job, gating,
     PassInv, PassMeetsStageTwosDemands, planVars, Installing, OfBaseline, OfIntegrate,
     Gating
<1>9. CASE CheckBaseline
  BY <1>1, <1>9 DEF CheckBaseline, JobEnds, Goto, vars, gemVars, repo, node, job,
     gating, PassInv, PassMeetsStageTwosDemands, planVars, Installing, OfBaseline,
     OfIntegrate, Gating
<1>10. CASE BuildOff
  BY <1>1, <1>10 DEF BuildOff, Goto, Refused, vars, gemVars, repo, node, job, gating,
     PassInv, PassMeetsStageTwosDemands, planVars, Installing, OfBaseline, OfIntegrate,
     Gating
<1>11. CASE RunCorrectness
  <2>1. pc = "correctness" /\ stage = "integrate" /\ verdict' = verdict
    BY <1>1, <1>11 DEF RunCorrectness, ControlInv, OfBaseline, Installing
  <2> QED BY <1>1, <2>1 DEF PassInv, PassMeetsStageTwosDemands
<1>12. CASE Dispatch
  BY <1>1, <1>12 DEF Dispatch, Goto, vars, gemVars, repo, node, job, gating, PassInv,
     PassMeetsStageTwosDemands, planVars, Installing, OfBaseline, OfIntegrate, Gating
<1>13. CASE Measured
  BY <1>1, <1>13 DEF Measured, vars, gemVars, repo, node, job, gating, PassInv,
     PassMeetsStageTwosDemands, planVars, Installing, OfBaseline, OfIntegrate, Gating
<1>14. CASE Judge
  <2>1. CASE verdict' = "refused"
    BY <2>1 DEF PassInv, PassMeetsStageTwosDemands
  <2>2. CASE complete /\ verdict' = "passed" /\ stage' = "none"
             /\ results' = [results EXCEPT !.compared = @ \cup compare(recorded_entries)]
    <3>1. results'.correct = results.correct /\ results'.good = results.good
      BY <2>2 DEF HostInv, ResultsInv
    <3>2. UNCHANGED <<first, inforce>>
      BY <1>14 DEF Judge, planVars
    <3>3. PassMeetsStageTwosDemands'
      BY <2>2, <3>1, <3>2, CompleteMeets DEF PassMeetsStageTwosDemands
    <3> QED BY <2>2, <3>3 DEF PassInv
  <2> QED BY <1>14, <2>1, <2>2 DEF Judge, JobEnds, Refused
<1>15. CASE EditFiles \/ MoveCheckout \/ InstallNoOp \/ InstallBegins \/ InstallStep \/
           PlannerWorks \/ RestoreCheckout \/ RunBaseline \/ CopyTree \/ NothingRuns \/
           Tick \/ NodeLost \/ TickLost \/ Collect \/ TimesOut \/ UNCHANGED vars
  BY <1>1, <1>15 DEF EditFiles, MoveCheckout, InstallNoOp, InstallBegins,
     InstallStep, PlannerWorks, RestoreCheckout, RunBaseline, CopyTree, NothingRuns,
     Tick, NodeLost, TickLost, Collect, TimesOut, Goto, Installed, vars, gemVars, repo,
     node, job, gating, PassInv, PassMeetsStageTwosDemands, planVars, Installing,
     OfBaseline, OfIntegrate, Gating
<1> QED
  BY <1>2, <1>3, <1>4, <1>5, <1>6, <1>7, <1>8, <1>9, <1>10, <1>11, <1>12, <1>13,
     <1>14, <1>15 DEF Next

-----------------------------------------------------------------------------
(* Theorems *)

LEMMA Invariant == Gem5Spec => [](IInv /\ HostInv /\ PassInv)
<1>1. Init => IInv /\ HostInv /\ PassInv
  BY InitInv, InitHost DEF Init, PassInv, PassMeetsStageTwosDemands
<1>2. IInv /\ HostInv /\ PassInv /\ [Next]_vars => (IInv /\ HostInv /\ PassInv)'
  BY PlanStep, StepInv, StepHost, StepPass
<1> QED BY <1>1, <1>2, PTL DEF Gem5Spec

\* What the runs check of the waits is a part of the invariant.
LEMMA FanStalls == ASSUME HostInv PROVE OnlyALostNodeStalls
<1>1. CASE pc = "await"
  BY <1>1, Gem5Assumption DEF HostInv, FanInv, OnlyALostNodeStalls
<1>2. CASE pc # "await"
  BY <1>2, Gem5Assumption DEF HostInv, FanInv, NoFan, OnlyALostNodeStalls
<1> QED BY <1>1, <1>2

\* Types, for every value of the constants (Gem5Host).
THEOREM Typed == Gem5Spec => []TypeOK
<1>1. IInv /\ HostInv /\ PassInv => TypeOK
  BY HostTyped
<1> QED BY <1>1, Invariant, PTL

\* On this host, with jobs that record, plan and integrate around it, what stage 2
\* asked for is asked still (guard, review).
THEOREM PlanDemandsKept == Gem5Spec => []StageTwoDemandsKept
<1>1. IInv /\ HostInv /\ PassInv => StageTwoDemandsKept
  BY InvDemands
<1> QED BY <1>1, Invariant, PTL

\* ... and what was lost is on record (_check_fidelity).
THEOREM PlanLossOnRecord == Gem5Spec => []LossIsOnRecord
<1>1. IInv /\ HostInv /\ PassInv => LossIsOnRecord
  BY DEF IInv, RecordInv
<1> QED BY <1>1, Invariant, PTL

\* The recorded numbers are of the files the fingerprints name, whatever is edited
\* and whatever is carried forward (record_baseline, install_run_dir).
THEOREM BaselineOfItsFiles == Gem5Spec => []BaselineIsOfItsFiles
<1>1. IInv /\ HostInv /\ PassInv => BaselineIsOfItsFiles
  BY DEF HostInv, SoundInv, Sound, BaselineIsOfItsFiles
<1> QED BY <1>1, Invariant, PTL

\* A gate compares numbers of the same files and commit (check_baseline_current).
THEOREM LikeWithLike == Gem5Spec => []ComparedLikeWithLike
<1>1. IInv /\ HostInv /\ PassInv => ComparedLikeWithLike
  BY DEF HostInv, ResultsInv
<1> QED BY <1>1, Invariant, PTL

\* A fan-out runs what this attempt built (run_gate, _binary_for).
THEOREM FanOutOfThisAttempt == Gem5Spec => []FanOutIsOfThisAttempt
<1>1. IInv /\ HostInv /\ PassInv => FanOutIsOfThisAttempt
  BY DEF HostInv, ResultsInv
<1> QED BY <1>1, Invariant, PTL

\* A pass is a pass of what stage 2 asked for (check_gate, guard).
THEOREM PassMeetsDemands == Gem5Spec => []PassMeetsStageTwosDemands
<1>1. IInv /\ HostInv /\ PassInv => PassMeetsStageTwosDemands
  BY DEF PassInv
<1> QED BY <1>1, Invariant, PTL

\* Only a node that does not answer times a fan-out out, and at the price of one
\* limit, for every number of slots and every limit (run_workloads).
THEOREM LostNodeStalls == Gem5Spec => []OnlyALostNodeStalls
<1>1. IInv /\ HostInv /\ PassInv => OnlyALostNodeStalls
  BY FanStalls
<1> QED BY <1>1, Invariant, PTL

=============================================================================
