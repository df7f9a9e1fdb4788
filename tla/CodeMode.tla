------------------------------ MODULE CodeMode ------------------------------
(***************************************************************************)
(* _execute_code of findata.api.mcp_app: one snippet runs in a child       *)
(* interpreter that leads a session of its own, while the event loop waits *)
(* for its output and for its exit, up to a timeout.  The snippet may      *)
(* start processes, which may keep its standard output open after it.      *)
(***************************************************************************)
EXTENDS Integers

CONSTANTS
  Kids,      \* processes the snippet may start
  Root       \* the child interpreter, proc

ASSUME RootAssumption == Root \notin Kids

Procs == Kids \cup {Root}

VARIABLES
  progress,     \* where _execute_code is
  outcome,   \* how it ended
  state,     \* state[p]: of the process, as the kernel knows it
  inGroup,   \* inGroup[p]: p is in the group that Root leads
  writes,    \* writes[p]: p holds the write end of the output pipe
  killed     \* SIGKILL was sent to the group

runVars == <<progress, outcome, state, inGroup, writes, killed>>

RunInit ==
  /\ progress = "start"
  /\ outcome = "none"
  /\ state = [p \in Procs |-> "none"]
  /\ inGroup = [p \in Procs |-> FALSE]
  /\ writes = [p \in Procs |-> FALSE]
  /\ killed = FALSE

\* create_subprocess_exec with start_new_session=True.
Start ==
  /\ progress = "start"
  /\ progress' = "waiting"
  /\ state' = [state EXCEPT ![Root] = "running"]
  /\ inGroup' = [inGroup EXCEPT ![Root] = TRUE]
  /\ writes' = [writes EXCEPT ![Root] = TRUE]
  /\ UNCHANGED <<outcome, killed>>
-----------------------------------------------------------------------------
(* What the snippet and its processes do, at any time.                     *)

\* p starts q in its own group, with or without its standard output.
Spawn(p, q, inherits) ==
  /\ state[p] = "running"
  /\ state[q] = "none"
  /\ state' = [state EXCEPT ![q] = "running"]
  /\ inGroup' = [inGroup EXCEPT ![q] = inGroup[p]]
  /\ writes' = [writes EXCEPT ![q] = inherits /\ writes[p]]
  /\ UNCHANGED <<progress, outcome, killed>>

\* A process leaves the group for a session of its own; Root, which leads its
\* session, cannot.
Detach(p) ==
  /\ p # Root
  /\ state[p] = "running"
  /\ inGroup[p]
  /\ inGroup' = [inGroup EXCEPT ![p] = FALSE]
  /\ UNCHANGED <<progress, outcome, state, writes, killed>>

\* A process ends.  Root stays a zombie until the event loop reaps it.
Exit(p) ==
  /\ state[p] = "running"
  /\ state' = [state EXCEPT ![p] = IF p = Root THEN "zombie" ELSE "gone"]
  /\ writes' = [writes EXCEPT ![p] = FALSE]
  /\ UNCHANGED <<progress, outcome, inGroup, killed>>
-----------------------------------------------------------------------------
(* What the event loop does.                                               *)

\* The child watcher waits for Root's pid, whatever _execute_code awaits.
Reap ==
  /\ state[Root] = "zombie"
  /\ state' = [state EXCEPT ![Root] = "gone"]
  /\ UNCHANGED <<progress, outcome, inGroup, writes, killed>>

\* communicate returns: the output is at its end and Root's exit code is known.
Collect ==
  /\ progress = "waiting"
  /\ state[Root] = "gone"
  /\ \A p \in Procs : ~writes[p]
  /\ progress' = "done"
  /\ outcome' = "collected"
  /\ UNCHANGED <<state, inGroup, writes, killed>>

\* MUTANT of Doomed: proc.kill() in the place of killpg.
Doomed_RootOnly == IF state[Root] = "running" THEN {Root} ELSE {}

\* Whom killpg(getpgid(pid)) kills: the group, as long as Root has not been
\* reaped; after that the pid is unknown, and the ProcessLookupError suppressed.
Doomed ==
  IF state[Root] = "gone" THEN {} ELSE {p \in Procs : inGroup[p] /\ state[p] = "running"}

\* The timeout strikes before communicate returns.
Timeout ==
  /\ progress = "waiting"
  /\ progress' = "killing"
  /\ killed' = (state[Root] # "gone")
  /\ state' = [p \in Procs |-> IF p \notin Doomed THEN state[p]
                               ELSE IF p = Root THEN "zombie" ELSE "gone"]
  /\ writes' = [p \in Procs |-> writes[p] /\ p \notin Doomed]
  /\ UNCHANGED <<outcome, inGroup>>

\* MUTANT of AnswerTimeout: the output is awaited once more, and not only Root's exit.
AnswerTimeout_Communicate ==
  /\ progress = "killing"
  /\ state[Root] = "gone"
  /\ \A p \in Procs : ~writes[p]
  /\ progress' = "done"
  /\ outcome' = "timed_out"
  /\ UNCHANGED <<state, inGroup, writes, killed>>

\* MUTANT of AnswerTimeout: the handler of the timeout does not wait for Root.
AnswerTimeout_NoWait ==
  /\ progress = "killing"
  /\ progress' = "done"
  /\ outcome' = "timed_out"
  /\ UNCHANGED <<state, inGroup, writes, killed>>

\* MUTANT of AnswerTimeout: the handler falls through to the use of the unset output.
AnswerTimeout_NoReturn ==
  /\ progress = "killing"
  /\ state[Root] = "gone"
  /\ progress' = "done"
  /\ UNCHANGED <<outcome, state, inGroup, writes, killed>>

\* proc.wait returns, and the caller is told of the timeout.
AnswerTimeout ==
  /\ progress = "killing"
  /\ state[Root] = "gone"
  /\ progress' = "done"
  /\ outcome' = "timed_out"
  /\ UNCHANGED <<state, inGroup, writes, killed>>

\* The caller's task is cancelled at one of its awaits: no handler kills anything.
Cancel ==
  /\ progress \in {"waiting", "killing"}
  /\ progress' = "done"
  /\ outcome' = "cancelled"
  /\ UNCHANGED <<state, inGroup, writes, killed>>

RunNext ==
  \/ Start
  \/ \E p \in Procs, q \in Kids, inherits \in BOOLEAN : Spawn(p, q, inherits)
  \/ \E p \in Procs : Detach(p) \/ Exit(p)
  \/ Reap
  \/ Collect
  \/ Timeout
  \/ AnswerTimeout
  \/ Cancel

RunSpec == RunInit /\ [][RunNext]_runVars

\* The event loop's own steps happen: the timer fires if nothing comes first, the
\* child watcher reaps, and a resumed task goes on.  No process need ever end.
RunFairSpec ==
  RunSpec /\ WF_runVars(Reap) /\ WF_runVars(Timeout) /\ WF_runVars(Collect) /\ WF_runVars(AnswerTimeout)
-----------------------------------------------------------------------------
(* Properties.                                                             *)

\* The types of the variables; and of the result: a run that is over has an
\* outcome, and no other has.
RunTypeOK ==
  /\ progress \in {"start", "waiting", "killing", "done"}
  /\ outcome \in {"none", "collected", "timed_out", "cancelled"}
  /\ state \in [Procs -> {"none", "running", "zombie", "gone"}]
  /\ inGroup \in [Procs -> BOOLEAN]
  /\ writes \in [Procs -> BOOLEAN]
  /\ killed \in BOOLEAN
  /\ progress = "done" <=> outcome # "none"

\* Once the group was killed no process of it runs, nor ever starts again, however
\* deep the tree was and whoever was starting whom at that moment.
KilledGroupStaysDead ==
  killed => \A p \in Procs : inGroup[p] => state[p] # "running"

\* A run that was answered leaves no zombie, timed out or not.
AnsweredRunIsReaped ==
  outcome \in {"collected", "timed_out"} => state[Root] = "gone"

\* Every run ends, whatever the snippet's processes do and although some may hold
\* its output open for ever.
EveryRunEnds == progress = "waiting" ~> progress = "done"

\* "a snippet that spawned its own subprocesses must not outlive the timeout as an
\* orphan": when a timeout is answered, no process of the group runs.
TimeoutKillsTree ==
  outcome = "timed_out" => \A p \in Procs : inGroup[p] => state[p] # "running"
-----------------------------------------------------------------------------
(* The inductive invariant behind them.                                    *)

\* Only running processes write; a process that was never started is in no group;
\* Root runs only while it is in its group.
ProcessesAreSound ==
  /\ \A p \in Procs : writes[p] => state[p] = "running"
  /\ \A p \in Procs : state[p] = "none" => ~inGroup[p]
  /\ state[Root] # "none" => inGroup[Root]
  /\ killed => state[Root] \in {"zombie", "gone"} /\ progress \in {"killing", "done"}
  /\ progress = "start" <=> state[Root] = "none"
=============================================================================
