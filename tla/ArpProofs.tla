----------------------------- MODULE ArpProofs -----------------------------
(***************************************************************************)
(* Proofs about Arp, for any number of resolvers, hosts and addresses.     *)
(***************************************************************************)
EXTENDS Arp, FiniteSetTheorems, TLAPS

\* The resolvers of an address that have asked, or need not any more.
Settled(a) == {r \in Resolvers : /\ Target[r] = a /\ pc[r] # "ask"
                                 /\ pc[r] = "emplace" \/ Has(a)}

\* A record has no address or the one its host announced; a call has a result
\* when it has returned, and only an address of a host is asked for.
TableInv == \A a \in DOMAIN table : table[a] \in {Unset, Mac[a]}
ResultInv ==
  \A r \in Resolvers : /\ result[r] = "none" <=> pc[r] # "returned"
                       /\ pc[r] \in {"ask", "emplace"} => Target[r] \in Ips
AskedInv == \A a \in Ips : asked[a] <= Cardinality(Settled(a))

IInv == TypeOK /\ TableInv /\ ResultInv /\ ResolvedIsAnnounced

-----------------------------------------------------------------------------
\* The invariant holds before the first call.
LEMMA InitStep == Init => IInv
<1>. SUFFICES ASSUME Init PROVE IInv OBVIOUS
<1>1. DOMAIN table = {} BY DEF Init
<1>2. TypeOK BY <1>1 DEF Init, TypeOK
<1>3. TableInv BY <1>1 DEF TableInv
<1>4. ResultInv /\ ResolvedIsAnnounced BY DEF Init, ResultInv, ResolvedIsAnnounced
<1>. QED BY <1>2, <1>3, <1>4 DEF IInv

\* Every step keeps the invariant.
LEMMA NextStep == IInv /\ [Next]_vars => IInv'
<1>. SUFFICES ASSUME IInv, [Next]_vars PROVE IInv' OBVIOUS
<1>. USE ArpAssumption DEF Goto, Return, Trouble
<1>0. TypeOK /\ TableInv /\ ResultInv /\ ResolvedIsAnnounced BY DEF IInv
<1>1. ASSUME NEW r \in Resolvers, Visit(r) PROVE IInv'
  <2>1. TypeOK' BY <1>0, <1>1 DEF TypeOK, Visit, Known, Has, TableInv
  <2>2. TableInv' BY <1>0, <1>1 DEF TableInv, Visit
  <2>3. ResultInv' BY <1>0, <1>1 DEF ResultInv, Visit, TypeOK
  <2>4. ResolvedIsAnnounced'
    BY <1>0, <1>1 DEF ResolvedIsAnnounced, ResultInv, TableInv, Visit, Known, Has, TypeOK
  <2>. QED BY <2>1, <2>2, <2>3, <2>4 DEF IInv
<1>2. ASSUME NEW r \in Resolvers, Ask(r) PROVE IInv'
  <2>2. Target[r] \in Ips BY <1>0, <1>2 DEF Ask, ResultInv
  <2>3. ring' \in [Ips -> Nat] /\ asked' \in [Ips -> Nat] BY <1>0, <1>2, <2>2 DEF TypeOK, Ask
  <2>1. TypeOK' BY <1>0, <1>2, <2>3 DEF TypeOK, Ask
  <2>. QED BY <1>0, <1>2, <2>1 DEF IInv, TypeOK, Ask, TableInv, ResultInv, ResolvedIsAnnounced
<1>3. ASSUME NEW r \in Resolvers, Emplace(r) PROVE IInv'
  <2>1. Target[r] \in Ips BY <1>0, <1>3 DEF Emplace, ResultInv
  <2>2. TypeOK' BY <1>0, <1>3, <2>1 DEF TypeOK, Emplace, Pending, TryEmplace, Assign, Has
  <2>3. TableInv' BY <1>0, <1>3, <2>1 DEF TableInv, Emplace, Pending, TryEmplace, Assign, Has
  <2>4. ResultInv' /\ ResolvedIsAnnounced'
    BY <1>0, <1>3 DEF TypeOK, Emplace, ResultInv, ResolvedIsAnnounced
  <2>. QED BY <2>2, <2>3, <2>4 DEF IInv
<1>4. ASSUME NEW r \in Resolvers, RunJobs(r) PROVE IInv'
  <2>2. wire' \subseteq {"question", "answer"} \X Ips BY <1>0, <1>4 DEF TypeOK, RunJobs
  <2>3. pc' \in [Resolvers -> {"visit", "ask", "emplace", "jobs", "check", "returned"}]
    BY <1>0, <1>4 DEF TypeOK, RunJobs
  <2>1. TypeOK' BY <1>0, <1>4, <2>2, <2>3 DEF TypeOK, RunJobs, Drained
  <2>. QED BY <1>0, <1>4, <2>1 DEF IInv, TypeOK, RunJobs, TableInv, ResultInv, ResolvedIsAnnounced
<1>5. ASSUME NEW r \in Resolvers, Check(r) PROVE IInv'
  <2>1. TypeOK' BY <1>0, <1>5 DEF TypeOK, Check
  <2>. QED BY <1>0, <1>5, <2>1 DEF IInv, TypeOK, Check, TableInv, ResultInv, ResolvedIsAnnounced
<1>6. ASSUME NEW a \in Ips, RxAnswer(a) \/ RxQuestion(a) PROVE IInv'
  <2>1. UNCHANGED <<arpTable, pc, result, mac, ring, asked, running, troubled>> /\ Learn(a)
        /\ wire' \subseteq wire
    BY <1>6 DEF RxAnswer, RxQuestion
  <2>2. TypeOK' BY <1>0, <2>1 DEF TypeOK, Learn, Recorded, Assign
  <2>3. TableInv' BY <1>0, <2>1 DEF TableInv, Learn, Recorded, Assign
  <2>4. ResultInv' /\ ResolvedIsAnnounced' BY <1>0, <2>1 DEF ResultInv, ResolvedIsAnnounced
  <2>. QED BY <2>2, <2>3, <2>4 DEF IInv
<1>7. ASSUME NEW a \in Ips, HostAnswers(a) \/ Lose(a) PROVE IInv'
  <2>1. UNCHANGED <<arpTable, pc, result, mac, table, ring, asked, running>> /\ troubled' \in BOOLEAN
    BY <1>0, <1>7 DEF TypeOK, HostAnswers, Lose
  <2>2. wire' \subseteq {"question", "answer"} \X Ips BY <1>0, <1>7 DEF TypeOK, HostAnswers, Lose
  <2>. QED BY <1>0, <2>1, <2>2 DEF IInv, TypeOK, TableInv, ResultInv, ResolvedIsAnnounced
<1>8. CASE StopJobs \/ UNCHANGED vars
  <2>1. UNCHANGED <<arpTable, pc, result, mac, table, ring, asked, wire>>
        /\ running' \in BOOLEAN /\ troubled' \in BOOLEAN
    BY <1>0, <1>8 DEF TypeOK, StopJobs, vars
  <2>. QED BY <1>0, <2>1 DEF IInv, TypeOK, TableInv, ResultInv, ResolvedIsAnnounced
<1>. QED BY <1>1, <1>2, <1>3, <1>4, <1>5, <1>6, <1>7, <1>8 DEF Next, Resolve

-----------------------------------------------------------------------------
\* Records stay: no step removes an address from the table, and one with an
\* address keeps having one.
LEMMA TableGrows ==
  ASSUME IInv, [Next]_vars
  PROVE  \A a \in Ips : (Has(a) => Has(a)') /\ (Known(a) => Known(a)')
<1>. USE ArpAssumption
<1>1. CASE UNCHANGED table BY <1>1 DEF Has, Known
<1>2. ASSUME NEW r \in Resolvers, Emplace(r)
      PROVE  \A a \in Ips : (Has(a) => Has(a)') /\ (Known(a) => Known(a)')
  BY <1>2 DEF Emplace, Pending, TryEmplace, Assign, Has, Known
<1>3. ASSUME NEW b \in Ips, Learn(b)
      PROVE  \A a \in Ips : (Has(a) => Has(a)') /\ (Known(a) => Known(a)')
  BY <1>3 DEF Learn, Recorded, Assign, Has, Known
<1>. QED BY <1>1, <1>2, <1>3
       DEF Next, Resolve, Visit, Ask, RunJobs, Check, RxAnswer, RxQuestion, HostAnswers, Lose, StopJobs, vars

\* Only Ask counts, and nobody stops being settled.
LEMMA SettledGrows ==
  ASSUME IInv, [Next]_vars, NEW a \in Ips
  PROVE  /\ Settled(a) \subseteq Settled(a)'
         /\ \/ asked'[a] = asked[a]
            \/ /\ asked'[a] = asked[a] + 1
               /\ \E r \in Resolvers : r \in Settled(a)' /\ r \notin Settled(a)
<1>. USE ArpAssumption DEF Goto, Return
<1>0. TypeOK /\ ResultInv /\ (Has(a) => Has(a)') BY TableGrows DEF IInv
<1>1. ASSUME NEW r \in Resolvers, Visit(r)
      PROVE  Settled(a) \subseteq Settled(a)' /\ asked' = asked
  BY <1>0, <1>1 DEF Visit, Settled, TypeOK, Has, Known
<1>2. ASSUME NEW r \in Resolvers, Ask(r)
      PROVE  /\ Settled(a) \subseteq Settled(a)'
             /\ \/ asked'[a] = asked[a]
                \/ /\ asked'[a] = asked[a] + 1
                   /\ r \in Settled(a)' /\ r \notin Settled(a)
  <2>1. Settled(a) \subseteq Settled(a)' BY <1>0, <1>2 DEF Ask, Settled, TypeOK, Has
  <2>2. Target[r] = a => r \notin Settled(a) BY <1>2 DEF Ask, Settled
  <2>3. CASE pc' = [pc EXCEPT ![r] = "emplace"] /\ asked' = [asked EXCEPT ![Target[r]] = @ + 1]
    <3>1. Target[r] = a => r \in Settled(a)' BY <1>0, <2>3 DEF Settled, TypeOK
    <3>2. IF Target[r] = a THEN asked'[a] = asked[a] + 1 ELSE asked'[a] = asked[a]
      BY <1>0, <2>3 DEF TypeOK
    <3>. QED BY <2>1, <2>2, <3>1, <3>2
  <2>. QED BY <1>2, <2>1, <2>3 DEF Ask
<1>3. ASSUME NEW r \in Resolvers, Emplace(r)
      PROVE  Settled(a) \subseteq Settled(a)' /\ asked' = asked
  BY <1>0, <1>3 DEF Emplace, Settled, TypeOK, Has, Pending, TryEmplace, Assign
<1>4. ASSUME NEW r \in Resolvers, RunJobs(r) \/ Check(r)
      PROVE  Settled(a) \subseteq Settled(a)' /\ asked' = asked
  BY <1>0, <1>4 DEF RunJobs, Check, Settled, TypeOK
<1>5. CASE UNCHANGED <<pc, asked>> BY <1>0, <1>5 DEF Settled
<1>. QED BY <1>1, <1>2, <1>3, <1>4, <1>5
       DEF Next, Resolve, RxAnswer, RxQuestion, HostAnswers, Lose, StopJobs, vars

\* Questions are counted by the resolvers that are settled.
LEMMA AskedStep == IInv /\ AskedInv /\ [Next]_vars => AskedInv'
<1>. SUFFICES ASSUME IInv, AskedInv, [Next]_vars, NEW a \in Ips
              PROVE  asked'[a] <= Cardinality(Settled(a)')
  BY DEF AskedInv
<1>0. asked[a] \in Nat /\ asked[a] <= Cardinality(Settled(a)) BY DEF IInv, TypeOK, AskedInv
<1>1. IsFiniteSet(Settled(a)') /\ IsFiniteSet(Settled(a))
  BY ArpAssumption, FS_Subset DEF Settled
<1>2. Cardinality(Settled(a)) \in Nat /\ Cardinality(Settled(a)') \in Nat /\ Cardinality(Settled(a)) <= Cardinality(Settled(a)')
  BY <1>1, SettledGrows, FS_CardinalityType, FS_Subset
<1>3. CASE asked'[a] = asked[a] BY <1>0, <1>2, <1>3
<1>4. CASE asked'[a] # asked[a]
  <2>1. asked'[a] = asked[a] + 1 BY <1>4, SettledGrows
  <2>2. PICK r \in Resolvers : r \in Settled(a)' /\ r \notin Settled(a) BY <1>4, SettledGrows
  <2>3. Cardinality(Settled(a) \cup {r}) = Cardinality(Settled(a)) + 1 BY <1>1, <2>2, FS_AddElement
  <2>4. Settled(a) \cup {r} \subseteq Settled(a)' BY <2>2, SettledGrows
  <2>5. Cardinality(Settled(a) \cup {r}) <= Cardinality(Settled(a)') BY <1>1, <2>4, FS_Subset
  <2>. QED BY <1>0, <1>2, <2>1, <2>3, <2>5
<1>. QED BY <1>3, <1>4

-----------------------------------------------------------------------------
\* A call of ether_address that succeeds returns what the host announced, and
\* each resolver asks for its address at most once, however many of them
\* resolve the same address at the same time.
THEOREM ResolutionIsSound == Spec => []ResolutionSound
<1>1. Init => AskedInv
  <2>. SUFFICES ASSUME Init, NEW a \in Ips PROVE asked[a] <= Cardinality(Settled(a)) BY DEF AskedInv
  <2>1. IsFiniteSet(Settled(a)) BY ArpAssumption, FS_Subset DEF Settled
  <2>2. Cardinality(Settled(a)) \in Nat BY <2>1, FS_CardinalityType
  <2>. QED BY <2>2 DEF Init
<1>2. IInv /\ AskedInv => ResolutionSound
  <2>. SUFFICES ASSUME IInv, AskedInv, NEW a \in Ips
                PROVE  asked[a] <= Cardinality({r \in Resolvers : Target[r] = a})
    BY DEF IInv, ResolutionSound, AskedOncePerResolver
  <2>. DEFINE T == {r \in Resolvers : Target[r] = a}
  <2>1. IsFiniteSet(T) BY ArpAssumption, FS_Subset
  <2>2. Settled(a) \subseteq T BY DEF Settled
  <2>. HIDE DEF T
  <2>3. Cardinality(Settled(a)) <= Cardinality(T) /\ IsFiniteSet(Settled(a)) BY <2>1, <2>2, FS_Subset
  <2>4. Cardinality(Settled(a)) \in Nat /\ Cardinality(T) \in Nat BY <2>1, <2>3, FS_CardinalityType
  <2>5. asked[a] \in Nat /\ asked[a] <= Cardinality(Settled(a)) BY DEF IInv, TypeOK, AskedInv
  <2>6. asked[a] <= Cardinality(T) BY <2>3, <2>4, <2>5
  <2>. QED BY <2>6 DEF T
<1>. QED BY <1>1, <1>2, InitStep, NextStep, AskedStep, PTL DEF Spec

-----------------------------------------------------------------------------
\* The refinement mapping of the addresses.
KnownIps == {a \in Ips : Known(a)}

\* A step that changes neither table nor results is no step of the promise.
LEMMA QuietStep ==
  ASSUME KnownIps' = KnownIps, UNCHANGED <<result, mac>>
  PROVE  UNCHANGED Promise!vars
BY DEF KnownIps, Promise!vars

\* A resolver that returns gives its caller an answer it may give.
LEMMA ReturnStep ==
  ASSUME IInv, NEW r \in Resolvers, NEW code, NEW m, result[r] = "none",
         result' = [result EXCEPT ![r] = code], mac' = [mac EXCEPT ![r] = m],
         KnownIps' = KnownIps
  PROVE  Promise!Answer(r, code, m)
<1>1. mac[r] = Unset BY DEF IInv, ResolvedIsAnnounced
<1>2. result \in [Resolvers -> {"none", "ok", "not_supported", "connection_aborted",
                                "operation_canceled", "timed_out"}]
      /\ mac \in [Resolvers -> Macs \cup {OwnMac, Unset}]
  BY DEF IInv, TypeOK
<1>. QED BY <1>1, <1>2 DEF Promise!Answer, Promise!Pending, KnownIps

\* device::ether_address, the table, the rx job and the network, with questions
\* and answers lost, late or never asked for, implement the promise.
THEOREM ArpImplementsResolution == Spec => ImplementsResolution
<1>. USE ArpAssumption
<1>1. Init => Promise!Init
  <2>. SUFFICES ASSUME Init PROVE Promise!Init OBVIOUS
  <2>1. DOMAIN table = {} BY DEF Init
  <2>. QED BY <2>1 DEF Init, Promise!Init, Promise!Pending, Known, Has
<1>2. IInv /\ [Next]_vars => [Promise!Next]_(Promise!vars)
  <2>. SUFFICES ASSUME IInv, [Next]_vars PROVE Promise!Next \/ UNCHANGED Promise!vars OBVIOUS
  <2>0. ASSUME UNCHANGED table PROVE KnownIps' = KnownIps BY <2>0 DEF KnownIps, Known, Has
  <2>1. ASSUME NEW r \in Resolvers, Visit(r) PROVE Promise!Next \/ UNCHANGED Promise!vars
    <3>0. KnownIps' = KnownIps /\ result[r] = "none" BY <2>0, <2>1 DEF Visit, IInv, ResultInv
    <3>1. CASE UNCHANGED <<result, mac>> BY <3>0, <3>1, QuietStep
    <3>2. CASE Target[r] \in LocalIps /\ mac' = [mac EXCEPT ![r] = OwnMac] /\ Return(r, "ok")
      <4>1. Promise!Answer(r, "ok", OwnMac) BY <3>0, <3>2, ReturnStep DEF Return
      <4>. QED BY <3>2, <4>1 DEF Promise!Next, Promise!Succeed
    <3>3. CASE Target[r] \notin LocalIps /\ Known(Target[r]) /\ mac' = [mac EXCEPT ![r] = table[Target[r]]] /\ Return(r, "ok")
      <4>1. Target[r] \in Ips /\ table[Target[r]] = Mac[Target[r]]
        BY <3>3 DEF IInv, TableInv, Known, Has
      <4>2. Promise!Answer(r, "ok", Mac[Target[r]]) BY <3>0, <3>3, <4>1, ReturnStep DEF Return
      <4>. QED BY <3>3, <4>1, <4>2 DEF Promise!Next, Promise!Succeed
    <3>4. CASE Return(r, "not_supported") /\ UNCHANGED mac
      <4>1. mac' = [mac EXCEPT ![r] = Unset] BY <3>0, <3>4 DEF IInv, TypeOK, ResolvedIsAnnounced
      <4>2. Promise!Answer(r, "not_supported", Unset) BY <3>0, <3>4, <4>1, ReturnStep DEF Return
      <4>. QED BY <4>2 DEF Promise!Next, Promise!Fail, Promise!Failures
    <3>. QED BY <2>1, <3>1, <3>2, <3>3, <3>4 DEF Visit
  <2>2. ASSUME NEW r \in Resolvers, RunJobs(r) \/ Check(r) PROVE Promise!Next \/ UNCHANGED Promise!vars
    <3>0. KnownIps' = KnownIps /\ result[r] = "none" /\ mac' = mac
      BY <2>0, <2>2 DEF RunJobs, Check, IInv, ResultInv
    <3>1. CASE UNCHANGED result BY <3>0, <3>1, QuietStep
    <3>2. ASSUME NEW code \in Promise!Failures, Return(r, code) PROVE Promise!Next
      <4>1. mac' = [mac EXCEPT ![r] = Unset] BY <3>0 DEF IInv, TypeOK, ResolvedIsAnnounced
      <4>2. Promise!Answer(r, code, Unset) BY <3>0, <3>2, <4>1, ReturnStep DEF Return
      <4>. QED BY <4>2 DEF Promise!Next, Promise!Fail
    <3>. QED BY <2>2, <3>1, <3>2 DEF RunJobs, Check, Promise!Failures
  <2>3. ASSUME NEW r \in Resolvers, Ask(r) PROVE UNCHANGED Promise!vars
    BY <2>0, <2>3, QuietStep DEF Ask
  <2>4. ASSUME NEW r \in Resolvers, Emplace(r) PROVE UNCHANGED Promise!vars
    <3>1. KnownIps' = KnownIps BY <2>4 DEF Emplace, KnownIps, Known, Has, Pending, TryEmplace, Assign
    <3>. QED BY <2>4, <3>1, QuietStep DEF Emplace
  <2>5. ASSUME NEW a \in Ips, RxAnswer(a) \/ RxQuestion(a) PROVE Promise!Next \/ UNCHANGED Promise!vars
    <3>0. UNCHANGED <<result, mac>> /\ Learn(a) BY <2>5 DEF RxAnswer, RxQuestion
    <3>1. CASE ~arpTable BY <2>0, <3>0, <3>1, QuietStep DEF Learn
    <3>2. CASE arpTable
      <4>1. KnownIps' = KnownIps \cup {a} BY <3>0, <3>2 DEF Learn, Recorded, Assign, KnownIps, Known, Has
      <4>. QED BY <3>0, <4>1 DEF Promise!Next, Promise!Announce, KnownIps
    <3>. QED BY <3>1, <3>2 DEF IInv, TypeOK
  <2>6. ASSUME NEW a \in Ips, HostAnswers(a) \/ Lose(a) PROVE UNCHANGED Promise!vars
    BY <2>0, <2>6, QuietStep DEF HostAnswers, Lose
  <2>7. CASE StopJobs \/ UNCHANGED vars BY <2>0, <2>7, QuietStep DEF StopJobs, vars
  <2>. QED BY <2>1, <2>2, <2>3, <2>4, <2>5, <2>6, <2>7 DEF Next, Resolve
<1>. QED BY <1>1, <1>2, InitStep, NextStep, PTL DEF Spec, ImplementsResolution, Promise!Spec
=============================================================================
