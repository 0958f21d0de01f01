----------------------------- MODULE JobsProofs -----------------------------
(***************************************************************************)
(* Proofs about Jobs, for every number of lcores, lists of jobs and        *)
(* thresholds.                                                             *)
(***************************************************************************)
EXTENDS Jobs, SequenceTheorems, TLAPS

\* The jobs before the iterator ran in this round; the iterator is in the list
\* or just behind it.
RoundOf(c) ==
  pc[c] = "job" => /\ pos[c] <= Len(jobs[c]) + 1
                   /\ Len(ran[c]) = pos[c] - 1
                   /\ \A k \in 1..Len(ran[c]) : ran[c][k] = jobs[c][k]

\* No job is in a list twice, in two lists, or in one after it was done.
OneList ==
  /\ \A c \in Cores : \A k, l \in 1..Len(jobs[c]) : jobs[c][k] = jobs[c][l] => k = l
  /\ \A c, d \in Cores : \A k \in 1..Len(jobs[c]), l \in 1..Len(jobs[d]) : jobs[c][k] = jobs[d][l] => c = d
  /\ \A c \in Cores : \A k \in 1..Len(jobs[c]) : jobs[c][k] \notin done

\* Rounds begun since stop_jobs() are counted by the loop that does not read
\* the flag.
LateOf(c) ==
  /\ running => late[c] = 0
  /\ late[c] <= CycleThreshold
  /\ pc[c] = "cycle" => late[c] <= cycle[c]
  /\ pc[c] = "job" => cycle[c] < CycleThreshold /\ late[c] <= cycle[c] + 1

IInv == TypeOK /\ RoundHasJobs /\ OneList /\ \A c \in Cores : RoundOf(c) /\ LateOf(c)

-----------------------------------------------------------------------------
\* erase() keeps the other elements in their order.
LEMMA ErasedList ==
  ASSUME NEW S, NEW s \in Seq(S), NEW p \in 1..Len(s)
  PROVE  /\ Erased(s, p) \in Seq(S)
         /\ Len(Erased(s, p)) = Len(s) - 1
         /\ \A k \in 1..(Len(s) - 1) : Erased(s, p)[k] = IF k < p THEN s[k] ELSE s[k + 1]
<1>. DEFINE a == SubSeq(s, 1, p - 1)
             b == SubSeq(s, p + 1, Len(s))
<1>1. a \in Seq(S) /\ Len(a) = p - 1 /\ \A k \in 1..(p - 1) : a[k] = s[k]
  OBVIOUS
<1>2. b \in Seq(S) /\ Len(b) = Len(s) - p /\ \A k \in 1..(Len(s) - p) : b[k] = s[k + p]
  OBVIOUS
<1>3. Erased(s, p) = a \o b BY DEF Erased, RemoveAt
<1>. HIDE DEF a, b
<1>4. /\ a \o b \in Seq(S) /\ Len(a \o b) = Len(s) - 1
      /\ \A k \in 1..(Len(s) - 1) : (a \o b)[k] = IF k <= p - 1 THEN a[k] ELSE b[k - (p - 1)]
  BY <1>1, <1>2, ConcatProperties
<1>5. \A k \in 1..(Len(s) - 1) : k >= p => k - (p - 1) \in 1..(Len(s) - p) /\ (k - (p - 1)) + p = k + 1
  OBVIOUS
<1>6. \A k \in 1..(Len(s) - 1) : (a \o b)[k] = IF k < p THEN s[k] ELSE s[k + 1]
  BY <1>1, <1>2, <1>4, <1>5
<1>. QED BY <1>3, <1>4, <1>6

\* idling stays in the range of its type.
LEMMA IdleRange == \A n \in Nat : Idle(n) \in 0..(IdleWrap - 1)
BY JobsAssumption DEF Idle

\* The invariant holds when the lcores are launched.
LEMMA InitStep == Init => IInv
<1>. SUFFICES ASSUME Init PROVE IInv OBVIOUS
<1>1. \A c \in Cores : JobsOf[c] \in Seq(AllJobs) /\ JobsOf[c] # <<>>
  BY JobsAssumption
<1>2. TypeOK BY <1>1, JobsAssumption DEF Init, TypeOK
<1>3. RoundHasJobs BY <1>1 DEF Init, RoundHasJobs
<1>4. OneList
  <2>1. \A c \in Cores : DOMAIN JobsOf[c] = 1..Len(JobsOf[c]) BY <1>1
  <2>2. \A c \in Cores : \A k, l \in 1..Len(JobsOf[c]) : JobsOf[c][k] = JobsOf[c][l] => k = l
    BY <2>1, JobsAssumption DEF IsInjective
  <2>3. \A c, d \in Cores : \A k \in 1..Len(JobsOf[c]), l \in 1..Len(JobsOf[d]) :
          JobsOf[c][k] = JobsOf[d][l] => c = d
    BY <2>1, JobsAssumption DEF Range
  <2>. QED BY <2>2, <2>3 DEF Init, OneList
<1>5. ASSUME NEW c \in Cores PROVE RoundOf(c) /\ LateOf(c)
  BY <1>1, JobsAssumption DEF Init, RoundOf, LateOf
<1>. QED BY <1>2, <1>3, <1>4, <1>5 DEF IInv

\* Every step keeps the invariant.
LEMMA NextStep == IInv /\ [Next]_vars => IInv'
<1>. SUFFICES ASSUME IInv, [Next]_vars PROVE IInv' OBVIOUS
<1>9. CycleThreshold \in Nat \ {0} /\ IdleThreshold \in Nat /\ IdleWrap \in Nat \ {0} BY JobsAssumption
<1>. USE <1>9 DEF Goto
<1>0. TypeOK /\ RoundHasJobs /\ OneList /\ \A c \in Cores : RoundOf(c) /\ LateOf(c) BY DEF IInv
<1>1. CASE StopJobs \/ SentryStop
  <2>1. TypeOK' BY <1>0, <1>1 DEF TypeOK, StopJobs, SentryStop, core
  <2>2. RoundHasJobs' /\ OneList' BY <1>0, <1>1 DEF RoundHasJobs, OneList, StopJobs, SentryStop, core
  <2>3. ASSUME NEW c \in Cores PROVE (RoundOf(c) /\ LateOf(c))'
    BY <1>0, <1>1 DEF RoundOf, LateOf, StopJobs, SentryStop, core
  <2>. QED BY <2>1, <2>2, <2>3 DEF IInv
<1>2. CASE SentryJoin \/ Terminated \/ UNCHANGED vars
  <2>1. UNCHANGED <<running, core>> BY <1>2 DEF SentryJoin, Terminated, vars
  <2>2. TypeOK' BY <1>0, <1>2, <2>1 DEF TypeOK, SentryJoin, Terminated, vars, core
  <2>3. RoundHasJobs' /\ OneList' BY <1>0, <2>1 DEF RoundHasJobs, OneList, core
  <2>4. ASSUME NEW c \in Cores PROVE (RoundOf(c) /\ LateOf(c))'
    BY <1>0, <2>1 DEF RoundOf, LateOf, core
  <2>. QED BY <2>2, <2>3, <2>4 DEF IInv
<1>3. ASSUME NEW c \in Cores, CheckRunning(c) PROVE IInv'
  <2>1. TypeOK' BY <1>0, <1>3 DEF TypeOK, CheckRunning, AfterStop
  <2>2. RoundHasJobs' /\ OneList'
    BY <1>0, <1>3 DEF RoundHasJobs, OneList, CheckRunning, AfterStop, TypeOK
  <2>3. ASSUME NEW d \in Cores PROVE (RoundOf(d) /\ LateOf(d))'
    BY <1>0, <1>3 DEF RoundOf, LateOf, CheckRunning, AfterStop, TypeOK
  <2>. QED BY <2>1, <2>2, <2>3 DEF IInv
<1>4. ASSUME NEW c \in Cores, StartRound(c) PROVE IInv'
  <2>0. /\ UNCHANGED <<running, main, jobs, cycle, idling, done>> /\ pc[c] = "cycle"
        /\ cycle[c] \in Nat /\ late[c] <= cycle[c]
    BY <1>0, <1>4 DEF StartRound, LateOf, TypeOK
  <2>1. CASE MoreCycles(c)
    <3>0. /\ pc' = [pc EXCEPT ![c] = "job"] /\ pos' = [pos EXCEPT ![c] = 1]
          /\ res' = [res EXCEPT ![c] = "idling"] /\ ran' = [ran EXCEPT ![c] = <<>>]
          /\ late' = [late EXCEPT ![c] = IF running THEN late[c] ELSE late[c] + 1]
          /\ cycle[c] < CycleThreshold
      BY <1>4, <2>1 DEF StartRound, MoreCycles
    <3>4. late' \in [Cores -> Nat] BY <1>0, <3>0 DEF TypeOK
    <3>5. ran' \in [Cores -> Seq(AllJobs)] BY <1>0, <3>0 DEF TypeOK
    <3>6. /\ pos' \in [Cores -> Nat \ {0}] /\ res' \in [Cores -> {"idling", "busy"}]
          /\ pc' \in [Cores -> {"check", "cycle", "job", "returned"}]
      BY <1>0, <3>0 DEF TypeOK
    <3>1. TypeOK' BY <1>0, <2>0, <3>4, <3>5, <3>6 DEF TypeOK
    <3>2. RoundHasJobs' /\ OneList' BY <1>0, <2>0, <3>0 DEF RoundHasJobs, OneList, TypeOK
    <3>3. ASSUME NEW d \in Cores PROVE (RoundOf(d) /\ LateOf(d))'
      <4>1. CASE d # c BY <1>0, <2>0, <3>0, <4>1 DEF RoundOf, LateOf, TypeOK
      <4>2. CASE d = c BY <1>0, <2>0, <3>0, <4>2 DEF RoundOf, LateOf, TypeOK
      <4>. QED BY <4>1, <4>2
    <3>. QED BY <3>1, <3>2, <3>3 DEF IInv
  <2>2. CASE ~MoreCycles(c)
    <3>0. pc' = [pc EXCEPT ![c] = "check"] /\ UNCHANGED <<pos, res, ran, late>>
      BY <1>4, <2>2 DEF StartRound
    <3>1. TypeOK' BY <1>0, <2>0, <3>0 DEF TypeOK
    <3>2. RoundHasJobs' /\ OneList' BY <1>0, <2>0, <3>0 DEF RoundHasJobs, OneList, TypeOK
    <3>3. ASSUME NEW d \in Cores PROVE (RoundOf(d) /\ LateOf(d))'
      BY <1>0, <2>0, <3>0 DEF RoundOf, LateOf, TypeOK
    <3>. QED BY <3>1, <3>2, <3>3 DEF IInv
  <2>. QED BY <2>1, <2>2
<1>5. ASSUME NEW c \in Cores, NEW state \in {"idling", "busy"}, Process(c, state) PROVE IInv'
  <2>0. /\ pos[c] \in 1..Len(jobs[c]) /\ jobs[c][pos[c]] \in AllJobs
        /\ ran'[c] = Append(ran[c], jobs[c][pos[c]]) /\ ran[c] \in Seq(AllJobs)
        /\ \A d \in Cores : d # c => ran'[d] = ran[d]
    BY <1>0, <1>5 DEF TypeOK, Process
  <2>1. TypeOK'
    <3>1. ran'[c] \in Seq(AllJobs) BY <2>0
    <3>2. ran' \in [Cores -> Seq(AllJobs)] BY <1>0, <1>5, <2>0, <3>1 DEF TypeOK, Process
    <3>3. pos' \in [Cores -> Nat \ {0}] /\ res' \in [Cores -> {"idling", "busy"}]
      BY <1>0, <1>5 DEF TypeOK, Process
    <3>. QED BY <1>0, <1>5, <3>2, <3>3 DEF TypeOK, Process
  <2>2. RoundHasJobs' /\ OneList' BY <1>0, <1>5 DEF RoundHasJobs, OneList, Process
  <2>3. ASSUME NEW d \in Cores PROVE RoundOf(d)'
    <3>1. CASE d # c BY <1>0, <1>5, <2>0, <3>1 DEF RoundOf, Process, TypeOK
    <3>2. CASE d = c
      <4>1. Len(ran[c]) = pos[c] - 1 /\ \A k \in 1..Len(ran[c]) : ran[c][k] = jobs[c][k]
        BY <1>0, <1>5 DEF RoundOf, Process
      <4>2. Len(ran'[c]) = pos[c] /\ \A k \in 1..pos[c] : ran'[c][k] = jobs[c][k]
        BY <2>0, <4>1
      <4>3. pos'[c] = pos[c] + 1 /\ jobs' = jobs BY <1>0, <1>5 DEF Process, TypeOK
      <4>4. pos'[c] <= Len(jobs'[c]) + 1 /\ Len(ran'[c]) = pos'[c] - 1 BY <2>0, <4>2, <4>3
      <4>5. \A k \in 1..Len(ran'[c]) : ran'[c][k] = jobs'[c][k] BY <4>2, <4>3
      <4>. QED BY <3>2, <4>4, <4>5 DEF RoundOf
    <3>. QED BY <3>1, <3>2
  <2>4. ASSUME NEW d \in Cores PROVE LateOf(d)'
    BY <1>0, <1>5 DEF LateOf, Process
  <2>. QED BY <2>1, <2>2, <2>3, <2>4 DEF IInv
<1>6. ASSUME NEW c \in Cores, ProcessDone(c) PROVE IInv'
  <2>. DEFINE s == jobs[c]
             p == pos[c]
             e == Erased(s, p)
  <2>0. /\ s \in Seq(AllJobs) /\ p \in 1..Len(s) /\ s[p] \in AllJobs /\ done' = done \cup {s[p]}
        /\ jobs' = [jobs EXCEPT ![c] = e]
        /\ pc' = [pc EXCEPT ![c] = IF Len(s) = 1 THEN "returned" ELSE "job"]
    BY <1>0, <1>6 DEF TypeOK, ProcessDone, ReturnsIfEmpty
  <2>1. /\ e \in Seq(AllJobs) /\ Len(e) = Len(s) - 1
        /\ \A k \in 1..(Len(s) - 1) : e[k] = IF k < p THEN s[k] ELSE s[k + 1]
    BY <2>0, ErasedList
  <2>2. jobs'[c] = e /\ \A d \in Cores : d # c => jobs'[d] = jobs[d]
    BY <1>0, <2>0 DEF TypeOK
  <2>3. UNCHANGED <<running, main, res, cycle, idling, ran, late, pos>>
    BY <1>0, <1>6 DEF ProcessDone, AfterErase, TypeOK
  <2>. HIDE DEF e
  <2>4. TypeOK' BY <1>0, <2>0, <2>1, <2>3 DEF TypeOK
  <2>5. RoundHasJobs'
    <3>1. Len(s) # 1 => Len(e) # 0 BY <2>0, <2>1
    <3>3. Len(s) # 1 => e # <<>> BY <3>1
    <3>2. pc'[c] = (IF Len(s) = 1 THEN "returned" ELSE "job") /\ \A d \in Cores : d # c => pc'[d] = pc[d]
      BY <1>0, <2>0 DEF TypeOK
    <3>. QED BY <1>0, <2>2, <3>2, <3>3 DEF RoundHasJobs
  <2>6. \A k \in 1..Len(e) : \E l \in 1..Len(s) : e[k] = s[l] /\ l # p /\ l = IF k < p THEN k ELSE k + 1
    BY <2>0, <2>1
  <2>7. OneList'
    <3>1. ASSUME NEW d \in Cores PROVE
            (\A k, l \in 1..Len(jobs[d]) : jobs[d][k] = jobs[d][l] => k = l)'
      <4>1. CASE d # c BY <1>0, <2>2, <4>1 DEF OneList
      <4>2. CASE d = c
        <5>. SUFFICES ASSUME NEW k \in 1..Len(e), NEW l \in 1..Len(e), e[k] = e[l] PROVE k = l
          BY <2>2, <4>2
        <5>1. PICK m \in 1..Len(s) : e[k] = s[m] /\ m # p /\ m = IF k < p THEN k ELSE k + 1 BY <2>6
        <5>2. PICK n \in 1..Len(s) : e[l] = s[n] /\ n # p /\ n = IF l < p THEN l ELSE l + 1 BY <2>6
        <5>3. m = n BY <1>0, <5>1, <5>2 DEF OneList
        <5>. QED BY <2>0, <2>1, <5>1, <5>2, <5>3
      <4>. QED BY <4>1, <4>2
    <3>2. ASSUME NEW d \in Cores PROVE
            \A k \in 1..Len(jobs'[d]) : \E l \in 1..Len(jobs[d]) :
               jobs'[d][k] = jobs[d][l] /\ (d = c => l # p)
      <4>1. CASE d # c BY <2>2, <4>1
      <4>2. CASE d = c BY <2>2, <2>6, <4>2
      <4>. QED BY <4>1, <4>2
    <3>3. (\A a, b \in Cores : \A k \in 1..Len(jobs[a]), l \in 1..Len(jobs[b]) :
             jobs[a][k] = jobs[b][l] => a = b)'
      <4>. SUFFICES ASSUME NEW a \in Cores, NEW b \in Cores, NEW k \in 1..Len(jobs'[a]),
                           NEW l \in 1..Len(jobs'[b]), jobs'[a][k] = jobs'[b][l]
                    PROVE  a = b
        OBVIOUS
      <4>1. PICK m \in 1..Len(jobs[a]) : jobs'[a][k] = jobs[a][m] BY <3>2
      <4>2. PICK n \in 1..Len(jobs[b]) : jobs'[b][l] = jobs[b][n] BY <3>2
      <4>3. \A i \in 1..Len(jobs[a]), j \in 1..Len(jobs[b]) : jobs[a][i] = jobs[b][j] => a = b
        BY <1>0 DEF OneList
      <4>. QED BY <4>1, <4>2, <4>3
    <3>4. (\A d \in Cores : \A k \in 1..Len(jobs[d]) : jobs[d][k] \notin done)'
      <4>. SUFFICES ASSUME NEW d \in Cores, NEW k \in 1..Len(jobs'[d]) PROVE jobs'[d][k] \notin done'
        OBVIOUS
      <4>1. PICK l \in 1..Len(jobs[d]) : jobs'[d][k] = jobs[d][l] /\ (d = c => l # p) BY <3>2
      <4>2. jobs[d][l] \notin done BY <1>0 DEF OneList
      <4>3. jobs[d][l] # s[p] BY <1>0, <2>0, <4>1 DEF OneList
      <4>. QED BY <2>0, <4>1, <4>2, <4>3
    <3>. QED BY <3>1, <3>3, <3>4 DEF OneList
  <2>8. ASSUME NEW d \in Cores PROVE RoundOf(d)'
    <3>1. CASE d # c BY <1>0, <2>0, <2>2, <2>3, <3>1 DEF RoundOf, TypeOK
    <3>2. CASE d = c
      <4>1. Len(ran[c]) = p - 1 /\ \A k \in 1..Len(ran[c]) : ran[c][k] = s[k]
        BY <1>0, <1>6 DEF RoundOf, ProcessDone
      <4>3. \A k \in 1..(p - 1) : k \in 1..(Len(s) - 1) /\ k < p BY <2>0
      <4>2. \A k \in 1..(p - 1) : e[k] = s[k] BY <2>1, <4>3
      <4>. QED BY <2>0, <2>1, <2>2, <2>3, <3>2, <4>1, <4>2 DEF RoundOf
    <3>. QED BY <3>1, <3>2
  <2>9. ASSUME NEW d \in Cores PROVE LateOf(d)'
    <3>1. pc[c] = "job" /\ (pc'[d] = pc[d] \/ pc'[d] = "returned")
      BY <1>0, <1>6, <2>0 DEF ProcessDone, TypeOK
    <3>. QED BY <1>0, <2>3, <3>1 DEF LateOf
  <2>. QED BY <2>4, <2>5, <2>7, <2>8, <2>9 DEF IInv
<1>7. ASSUME NEW c \in Cores, ProcessThrows(c) PROVE IInv'
  <2>1. TypeOK' BY <1>0, <1>7 DEF TypeOK, ProcessThrows
  <2>2. RoundHasJobs' /\ OneList' BY <1>0, <1>7 DEF RoundHasJobs, OneList, ProcessThrows, TypeOK
  <2>3. ASSUME NEW d \in Cores PROVE (RoundOf(d) /\ LateOf(d))'
    BY <1>0, <1>7 DEF RoundOf, LateOf, ProcessThrows, TypeOK
  <2>. QED BY <2>1, <2>2, <2>3 DEF IInv
<1>8. ASSUME NEW c \in Cores, EndRound(c) PROVE IInv'
  <2>0. cycle[c] < CycleThreshold /\ late[c] <= cycle[c] + 1 BY <1>0, <1>8 DEF LateOf, EndRound
  <2>4. /\ idling' \in [Cores -> 0..(IdleWrap - 1)] /\ cycle' \in [Cores -> 0..(CycleThreshold + 1)]
        /\ cycle'[c] > cycle[c] /\ \A d \in Cores : d # c => cycle'[d] = cycle[d]
    <3>0. /\ idling[c] \in Nat /\ cycle[c] \in Nat /\ 0 \in 0..(IdleWrap - 1)
          /\ cycle[c] + 1 \in 0..(CycleThreshold + 1) /\ CycleThreshold + 1 \in 0..(CycleThreshold + 1)
      BY <1>0, <2>0 DEF TypeOK
    <3>1. CASE res[c] = "busy"
      <4>1. idling' = [idling EXCEPT ![c] = 0] /\ cycle' = [cycle EXCEPT ![c] = cycle[c] + 1]
        BY <1>8, <3>1 DEF EndRound
      <4>. QED BY <1>0, <3>0, <4>1 DEF TypeOK
    <3>2. CASE res[c] # "busy"
      <4>. DEFINE n == IF idling'[c] > IdleThreshold THEN CycleThreshold + 1 ELSE cycle[c] + 1
      <4>1. idling' = [idling EXCEPT ![c] = Idle(idling[c])] /\ cycle' = [cycle EXCEPT ![c] = n]
        BY <1>8, <3>2 DEF EndRound
      <4>2. Idle(idling[c]) \in 0..(IdleWrap - 1) BY <3>0, IdleRange
      <4>3. n \in 0..(CycleThreshold + 1) /\ n > cycle[c] BY <2>0, <3>0
      <4>. HIDE DEF n
      <4>. QED BY <1>0, <4>1, <4>2, <4>3 DEF TypeOK
    <3>. QED BY <3>1, <3>2
  <2>5. pc[c] = "job" /\ pc' = [pc EXCEPT ![c] = "cycle"] /\ UNCHANGED <<running, main, jobs, pos, res, ran, done, late>>
    BY <1>8 DEF EndRound
  <2>1. TypeOK' BY <1>0, <2>4, <2>5 DEF TypeOK
  <2>2. RoundHasJobs' /\ OneList' BY <1>0, <1>8 DEF RoundHasJobs, OneList, EndRound, TypeOK
  <2>3. ASSUME NEW d \in Cores PROVE (RoundOf(d) /\ LateOf(d))'
    <3>1. CASE d # c BY <1>0, <2>4, <2>5, <3>1 DEF RoundOf, LateOf, TypeOK
    <3>2. CASE d = c
      <4>1. pc'[c] = "cycle" /\ late'[c] <= cycle'[c] /\ (running' => late'[c] = 0) /\ late'[c] <= CycleThreshold
        <5>1. late[c] \in Nat /\ cycle[c] \in Nat /\ cycle'[c] \in Nat BY <1>0, <2>4 DEF TypeOK
        <5>2. pc'[c] = "cycle" /\ late'[c] = late[c] /\ running' = running BY <1>0, <2>5 DEF TypeOK
        <5>3. (running => late[c] = 0) /\ late[c] <= CycleThreshold BY <1>0 DEF LateOf
        <5>4. late[c] <= cycle'[c] BY <2>0, <2>4, <5>1
        <5>. QED BY <5>2, <5>3, <5>4
      <4>. QED BY <3>2, <4>1 DEF RoundOf, LateOf
    <3>. QED BY <3>1, <3>2
  <2>. QED BY <2>1, <2>2, <2>3 DEF IInv
<1>. QED BY <1>1, <1>2, <1>3, <1>4, <1>5, <1>6, <1>7, <1>8 DEF Next, Runner

-----------------------------------------------------------------------------
\* run_jobs_once erases jobs from the list it iterates over, and still every
\* round has a job, runs each remaining job exactly once and none that is done.
THEOREM RoundsSound == Spec => []RoundsAreSound
<1>1. IInv => RoundsAreSound
  <2>. SUFFICES ASSUME IInv PROVE RoundsAreSound OBVIOUS
  <2>1. RoundRunsEachJobOnce
    <3>. SUFFICES ASSUME NEW c \in Cores, pc[c] = "job" PROVE SubSeq(jobs[c], 1, pos[c] - 1) = ran[c]
      BY DEF RoundRunsEachJobOnce
    <3>. DEFINE a == SubSeq(jobs[c], 1, pos[c] - 1)
    <3>1. /\ jobs[c] \in Seq(AllJobs) /\ ran[c] \in Seq(AllJobs) /\ pos[c] \in 1..(Len(jobs[c]) + 1)
          /\ Len(ran[c]) = pos[c] - 1 /\ \A k \in 1..Len(ran[c]) : ran[c][k] = jobs[c][k]
      BY DEF IInv, TypeOK, RoundOf
    <3>2. a \in Seq(AllJobs) /\ Len(a) = pos[c] - 1 /\ \A k \in 1..(pos[c] - 1) : a[k] = jobs[c][k]
      BY <3>1
    <3>. HIDE DEF a
    <3>3. a = ran[c] BY <3>1, <3>2, SeqEqual
    <3>. QED BY <3>3 DEF a
  <2>2. DoneStaysDone
    <3>1. \A c \in Cores : DOMAIN jobs[c] = 1..Len(jobs[c]) BY DEF IInv, TypeOK
    <3>. QED BY <3>1 DEF IInv, OneList, DoneStaysDone, Range
  <2>. QED BY <2>1, <2>2 DEF IInv, RoundsAreSound
<1>. QED BY <1>1, InitStep, NextStep, PTL DEF Spec

\* A runner that does not read the flag within a batch of rounds begins at most
\* cycle_threshold rounds after stop_jobs(), whatever its jobs report.
THEOREM StopBounded == Spec => []StopIsBounded
<1>1. IInv => StopIsBounded BY DEF IInv, LateOf, StopIsBounded
<1>. QED BY <1>1, InitStep, NextStep, PTL DEF Spec
=============================================================================
