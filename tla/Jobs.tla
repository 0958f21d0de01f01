-------------------------------- MODULE Jobs --------------------------------
(***************************************************************************)
(* The job runner (dpdkx/jobs.cpp): every lcore runs its own list of jobs  *)
(* in rounds, re-reading the global flag "running" only every              *)
(* CycleThreshold rounds or when it has been idle, until stop_jobs() is    *)
(* called, every job is done, or a job throws.  job::run_exclusive is the  *)
(* case of a list of one job.                                              *)
(***************************************************************************)
EXTENDS Integers, Sequences, SequencesExt, FiniteSets

CONSTANTS
  Cores,           \* lcores with jobs
  JobsOf,          \* the list of jobs each is launched with
  CycleThreshold,  \* cycle_threshold (33)
  IdleThreshold,   \* idle_threshold (2)
  IdleWrap         \* number of values of the idle counter (2^8)

AllJobs == UNION {Range(JobsOf[c]) : c \in Cores}

ASSUME JobsAssumption ==
  /\ JobsOf \in [Cores -> Seq(AllJobs)] /\ \A c \in Cores : JobsOf[c] # <<>> /\ IsInjective(JobsOf[c])
  /\ \A c, d \in Cores : c # d => Range(JobsOf[c]) \cap Range(JobsOf[d]) = {}
  /\ CycleThreshold \in Nat \ {0} /\ IdleThreshold \in Nat /\ IdleWrap \in Nat \ {0}

VARIABLES
  running,  \* the flag every runner polls
  main,     \* "running", then in ~job_sentry "waiting", then "joined"
  pc,       \* each lcore: "check", "cycle", "job" or "returned"
  jobs,     \* its remaining jobs
  pos,      \* the job of the round it is about to run
  res,      \* the result of the round so far
  cycle,    \* rounds since the flag was read
  idling,   \* consecutive idle rounds
  ran,      \* jobs run in this round, in order
  done,     \* jobs that returned job_state::done
  late      \* rounds begun since running became false

core == <<pc, jobs, pos, res, cycle, idling, ran, done, late>>
vars == <<running, main, core>>

Init ==
  /\ running = TRUE /\ main = "running"
  /\ pc = [c \in Cores |-> "check"]
  /\ jobs = JobsOf
  /\ pos = [c \in Cores |-> 1]
  /\ res = [c \in Cores |-> "idling"]
  /\ cycle = [c \in Cores |-> 0]
  /\ idling = [c \in Cores |-> 0]
  /\ ran = [c \in Cores |-> <<>>]
  /\ done = {}
  /\ late = [c \in Cores |-> 0]

Goto(c, l) == pc' = [pc EXCEPT ![c] = l]

\* Mutant: the runner stays in its loop.
StaysInLoop == "check"
AfterStop == "returned"

\* while (running.load(...))
CheckRunning(c) ==
  /\ pc[c] = "check"
  /\ Goto(c, IF running THEN "cycle" ELSE AfterStop)
  /\ cycle' = [cycle EXCEPT ![c] = 0]
  /\ UNCHANGED <<running, main, jobs, pos, res, idling, ran, done, late>>

\* Mutant: one round too many.
MoreCyclesInclusive(c) == cycle[c] <= CycleThreshold
MoreCycles(c) == cycle[c] < CycleThreshold

\* for (cycle = 0; cycle < cycle_threshold; ...) and the start of a round.
StartRound(c) ==
  /\ pc[c] = "cycle"
  /\ IF MoreCycles(c)
     THEN /\ Goto(c, "job")
          /\ pos' = [pos EXCEPT ![c] = 1]
          /\ res' = [res EXCEPT ![c] = "idling"]
          /\ ran' = [ran EXCEPT ![c] = <<>>]
          /\ late' = [late EXCEPT ![c] = IF running THEN @ ELSE @ + 1]
     ELSE Goto(c, "check") /\ UNCHANGED <<pos, res, ran, late>>
  /\ UNCHANGED <<running, main, jobs, cycle, idling, done>>

\* run_jobs_once: process() of the next job returned idling or busy ...
Process(c, state) ==
  /\ pc[c] = "job" /\ pos[c] <= Len(jobs[c])
  /\ ran' = [ran EXCEPT ![c] = Append(@, jobs[c][pos[c]])]
  /\ res' = [res EXCEPT ![c] = IF state = "busy" THEN "busy" ELSE @]
  /\ pos' = [pos EXCEPT ![c] = @ + 1]
  /\ UNCHANGED <<running, main, pc, jobs, cycle, idling, done, late>>

\* job = jobs.erase(job); if (jobs.empty()) return done; continue;
\* Mutant: the iterator moves on as well.
Erased(s, p) == RemoveAt(s, p)
SkipsOne(p) == p + 1
AfterErase(p) == p
ReturnsIfEmpty(c) == IF Len(jobs[c]) = 1 THEN "returned" ELSE "job"

\* ... or done: the job is erased, and the runner returns after the last one.
ProcessDone(c) ==
  /\ pc[c] = "job" /\ pos[c] <= Len(jobs[c])
  /\ done' = done \cup {jobs[c][pos[c]]}
  /\ jobs' = [jobs EXCEPT ![c] = Erased(@, pos[c])]
  /\ Goto(c, ReturnsIfEmpty(c))
  /\ pos' = [pos EXCEPT ![c] = AfterErase(@)]
  /\ UNCHANGED <<running, main, res, cycle, idling, ran, late>>

\* An exception ends the runner; its other jobs are not run again.
ProcessThrows(c) ==
  /\ pc[c] = "job" /\ pos[c] <= Len(jobs[c])
  /\ Goto(c, "returned")
  /\ UNCHANGED <<running, main, jobs, pos, res, cycle, idling, ran, done, late>>

\* ++idling
\* Mutant: without the wrap of the counter's type.
IdleUnbounded(n) == n + 1
Idle(n) == (n + 1) % IdleWrap

\* The end of a round; ++cycle follows the assignment of the idle case.
EndRound(c) ==
  /\ pc[c] = "job" /\ pos[c] > Len(jobs[c])
  /\ IF res[c] = "busy"
     THEN /\ idling' = [idling EXCEPT ![c] = 0]
          /\ cycle' = [cycle EXCEPT ![c] = @ + 1]
     ELSE /\ idling' = [idling EXCEPT ![c] = Idle(@)]
          /\ cycle' = [cycle EXCEPT ![c] = IF idling'[c] > IdleThreshold
                                           THEN CycleThreshold + 1 ELSE @ + 1]
  /\ Goto(c, "cycle")
  /\ UNCHANGED <<running, main, jobs, pos, res, ran, done, late>>

\* stop_jobs(), called by a signal handler, a channel or the main thread.
StopJobs ==
  /\ running /\ running' = FALSE
  /\ UNCHANGED <<main, core>>

\* ~job_sentry: stop_jobs(), then rte_eal_mp_wait_lcore().
SentryStop ==
  /\ main = "running" /\ main' = "waiting"
  /\ running' = FALSE
  /\ UNCHANGED core

SentryJoin ==
  /\ main = "waiting" /\ \A c \in Cores : pc[c] = "returned"
  /\ main' = "joined"
  /\ UNCHANGED <<running, core>>

Runner(c) ==
  \/ CheckRunning(c) \/ StartRound(c) \/ EndRound(c)
  \/ \E state \in {"idling", "busy"} : Process(c, state)
  \/ ProcessDone(c) \/ ProcessThrows(c)

Terminated == main = "joined" /\ UNCHANGED vars

Next == StopJobs \/ SentryStop \/ SentryJoin \/ (\E c \in Cores : Runner(c)) \/ Terminated

\* Every process() call returns and every lcore keeps running; nobody is
\* obliged to stop the jobs.
Spec == Init /\ [][Next]_vars /\ WF_vars(SentryJoin) /\ \A c \in Cores : WF_vars(Runner(c))

-----------------------------------------------------------------------------
TypeOK ==
  /\ running \in BOOLEAN /\ main \in {"running", "waiting", "joined"}
  /\ pc \in [Cores -> {"check", "cycle", "job", "returned"}]
  /\ jobs \in [Cores -> Seq(AllJobs)] /\ ran \in [Cores -> Seq(AllJobs)]
  /\ pos \in [Cores -> Nat \ {0}] /\ res \in [Cores -> {"idling", "busy"}]
  /\ cycle \in [Cores -> 0..(CycleThreshold + 1)] /\ idling \in [Cores -> 0..(IdleWrap - 1)]
  /\ done \subseteq AllJobs /\ late \in [Cores -> Nat]

\* A round always has a job to run: assert(!jobs.empty()) in run_jobs holds in
\* every round although run_jobs_once erases jobs while it iterates.
RoundHasJobs == \A c \in Cores : pc[c] \in {"check", "cycle", "job"} => jobs[c] # <<>>

\* Erasing done jobs in the middle of a round neither skips a job nor runs one
\* twice: the jobs in front of the iterator are exactly the ones that ran in
\* this round and stay, in their order.
RoundRunsEachJobOnce ==
  \A c \in Cores : pc[c] = "job" => SubSeq(jobs[c], 1, pos[c] - 1) = ran[c]

\* A job that returned done is never run again.
DoneStaysDone == \A c \in Cores : Range(jobs[c]) \cap done = {}

\* A round over a list of jobs that shrinks while it is iterated over: there is
\* always a job, none is skipped or run twice, and done jobs are gone.
RoundsAreSound == RoundHasJobs /\ RoundRunsEachJobOnce /\ DoneStaysDone

\* After stop_jobs() a runner begins at most cycle_threshold more rounds,
\* because the flag is not read within a batch of rounds.
StopIsBounded == \A c \in Cores : late[c] <= CycleThreshold

\* ~job_sentry returns: once the flag is cleared every lcore returns, whatever
\* its jobs report, provided each process() call does.
SentryReturns == (main = "waiting") ~> (main = "joined")
=============================================================================
