---------------------------- MODULE SinksProofs ----------------------------
(***************************************************************************)
(* Two results about Sinks for every number of callers, ports and groups.  *)
(* UseCount rests on CountInv: the counts with the types they need.        *)
(* Outcomes rests on VectorInv: where the entry of each caller may occur   *)
(* among the vectors published and the copies that may still be published, *)
(* and the order of the entries, which all of them share until something   *)
(* is detached.  The order is what makes find_sink, which stops at the     *)
(* first entry of a port, find the caller's own channel again in a retry.  *)
(***************************************************************************)
EXTENDS Sinks, FiniteSetTheorems, SequenceTheorems, WellFoundedInduction, TLAPS

\* A set of numbers has a smallest one.
LEMMA Smallest ==
  ASSUME NEW T \in SUBSET Nat, T # {}
  PROVE  \E x \in T : \A y \in T : x <= y
<1>. DEFINE R == {p \in Nat \X Nat : p[1] < p[2]}
<1>1. IsWellFoundedOn(R, Nat)
  <2>1. OpToRel(<, Nat) = R BY DEF OpToRel
  <2>. QED BY <2>1, NatLessThanWellFounded
<1>2. PICK x \in T : \A y \in T : <<y, x>> \notin R BY <1>1, WFMin
<1>3. ASSUME NEW y \in T PROVE x <= y
  <2>1. x \in Nat /\ y \in Nat /\ <<y, x>> \notin R BY <1>2
  <2>2. ~(y < x) BY <2>1
  <2>. QED BY <2>1, <2>2
<1>. QED BY <1>3

\* find_sink returns the first entry of the port, or none has the port.
LEMMA FindsFirst ==
  ASSUME NEW v \in Seq(Sink), NEW port
  PROVE  \/ /\ FindSink(v, port) \in 1..Len(v) /\ v[FindSink(v, port)].port = port
            /\ \A j \in 1..(FindSink(v, port) - 1) : v[j].port # port
         \/ FindSink(v, port) = 0 /\ \A j \in 1..Len(v) : v[j].port # port
<1>. DEFINE I == {i \in 1..Len(v) : v[i].port = port}
<1>0. Len(v) \in Nat OBVIOUS
<1>1. FindSink(v, port) = IF I # {} THEN Min(I) ELSE 0 BY DEF FindSink, SelectInSeq
<1>2. CASE I = {} BY <1>1, <1>2
<1>3. CASE I # {}
  <2>1. I \subseteq Nat BY <1>0
  <2>2. \E x \in I : \A y \in I : x <= y BY <1>3, <2>1, Smallest
  <2>3. Min(I) \in I /\ \A y \in I : Min(I) <= y BY <2>2 DEF Min
  <2>4. \A j \in 1..(Min(I) - 1) : j \notin I BY <2>1, <2>3
  <2>5. \A j \in 1..(Min(I) - 1) : j \in 1..Len(v) BY <1>0, <2>3
  <2>. QED BY <1>1, <1>3, <2>3, <2>4, <2>5
<1>. QED BY <1>2, <1>3

-----------------------------------------------------------------------------
\* What the proofs use of the assumptions on the constants.
Constants ==
  /\ IsFiniteSet(Threads) /\ CountWrap \in Nat /\ Cardinality(Threads) < CountWrap
  /\ Null \notin Threads /\ PortOf \in [Threads -> Nat \ {0}]

LEMMA ConstantsHold == Constants
BY SinksAssumption DEF Constants

\* The use counts, with what the steps of a caller need to know of its group.
Grouped == {"join", "joinReport", "leave", "leaveReport"}
CountInv ==
  /\ pc \in [Threads -> Locations] /\ joined \in [Groups -> Int]
  /\ \A t \in Threads : pc[t] \in Grouped => GroupOf[t] # NoGroup
  /\ UseCountExact

\* A group has no more users than there are callers.
LEMMA UsersFinite ==
  ASSUME NEW g
  PROVE  IsFiniteSet(Users(g)) /\ Cardinality(Users(g)) \in Nat /\ Cardinality(Users(g)) < CountWrap
<1>. USE ConstantsHold DEF Constants
<1>1. Users(g) \in SUBSET Threads BY DEF Users
<1>2. IsFiniteSet(Users(g)) /\ Cardinality(Users(g)) <= Cardinality(Threads) BY <1>1, FS_Subset
<1>3. Cardinality(Users(g)) \in Nat /\ Cardinality(Threads) \in Nat BY <1>2, FS_CardinalityType
<1>. QED BY <1>2, <1>3

\* A step of a caller that neither joins nor leaves keeps the counts.
LEMMA CountKept ==
  ASSUME CountInv, NEW t \in Threads, NEW l \in Locations, pc' = [pc EXCEPT ![t] = l],
         UNCHANGED joined, l \in Joined <=> pc[t] \in Joined, l # "bad_address",
         l \in Grouped => GroupOf[t] # NoGroup
  PROVE  CountInv'
<1>1. pc \in [Threads -> Locations] BY DEF CountInv
<1>2. \A g : Users(g)' = Users(g) BY <1>1 DEF Users
<1>3. UseCountExact' BY <1>1, <1>2 DEF CountInv, UseCountExact
<1>. QED BY <1>1, <1>3 DEF CountInv

\* join_mcast adds the caller to the users of its group and counts it.
LEMMA CountJoined ==
  ASSUME CountInv, NEW t \in Threads, JoinMcast(t)
  PROVE  CountInv'
<1>. USE ConstantsHold DEF Constants
<1>. DEFINE G == GroupOf[t]
<1>1. /\ pc \in [Threads -> Locations] /\ joined \in [Groups -> Int] /\ pc[t] = "join" /\ G \in Groups
      /\ UseCountExact
  BY DEF CountInv, JoinMcast, Grouped, Groups
<1>2. PICK l \in {"joinReport", "attachedWithError"} : pc' = [pc EXCEPT ![t] = l] BY DEF JoinMcast, Goto
<1>3. \A g \in Groups \ {G} : Users(g)' = Users(g) BY <1>1, <1>2 DEF Users
<1>4. t \notin Users(G) /\ Users(G)' = Users(G) \cup {t} BY <1>1, <1>2 DEF Users, Joined
<1>5. Cardinality(Users(G)') = Cardinality(Users(G)) + 1 BY <1>4, UsersFinite, FS_AddElement
<1>6. Cardinality(Users(G)') < CountWrap
  <2>1. Users(G)' \in SUBSET Threads BY DEF Users
  <2>2. Cardinality(Users(G)') <= Cardinality(Threads) BY <2>1, FS_Subset
  <2>3. Cardinality(Threads) \in Nat BY FS_CardinalityType
  <2>. QED BY <1>5, <2>2, <2>3, UsersFinite
<1>7. joined' = [joined EXCEPT ![G] = Cardinality(Users(G)) + 1]
  <2>1. CASE joined[G] = Absent
    <3>1. Users(G) = {} BY <1>1, <2>1, UsersFinite DEF UseCountExact, Absent
    <3>2. Cardinality(Users(G)) = 0 BY <3>1, FS_EmptySet
    <3>. QED BY <2>1, <3>2 DEF JoinMcast
  <2>2. CASE joined[G] # Absent
    <3>1. joined[G] = Cardinality(Users(G)) BY <1>1, <2>2 DEF UseCountExact
    <3>2. Counted(joined[G]) = joined[G] + 1 BY <1>5, <1>6, <3>1, UsersFinite DEF Counted
    <3>. QED BY <2>2, <3>1, <3>2 DEF JoinMcast
  <2>. QED BY <2>1, <2>2
<1>8. UseCountExact'
  <2>1. \A g \in Groups : joined'[g] = IF Users(g)' = {} THEN Absent ELSE Cardinality(Users(g)')
    BY <1>1, <1>3, <1>4, <1>5, <1>7 DEF UseCountExact
  <2>2. \A u \in Threads : pc'[u] # "bad_address" BY <1>1, <1>2 DEF UseCountExact
  <2>. QED BY <2>1, <2>2 DEF UseCountExact
<1>9. joined' \in [Groups -> Int] BY <1>1, <1>7, UsersFinite
<1>10. pc' \in [Threads -> Locations] BY <1>1, <1>2 DEF Locations
<1>11. \A u \in Threads : pc'[u] \in Grouped => GroupOf[u] # NoGroup
  BY <1>1, <1>2 DEF CountInv, Grouped, Groups
<1>. QED BY <1>8, <1>9, <1>10, <1>11 DEF CountInv

\* leave_mcast finds the group and takes the caller from its users.
LEMMA CountLeft ==
  ASSUME CountInv, NEW t \in Threads, LeaveMcast(t)
  PROVE  CountInv'
<1>. USE ConstantsHold DEF Constants
<1>. DEFINE G == GroupOf[t]
<1>1. /\ pc \in [Threads -> Locations] /\ joined \in [Groups -> Int] /\ pc[t] = "leave" /\ G \in Groups
      /\ UseCountExact
  BY DEF CountInv, LeaveMcast, Grouped, Groups
<1>2. t \in Users(G) BY <1>1 DEF Users, Joined
<1>3. joined[G] = Cardinality(Users(G)) /\ joined[G] # Absent
  BY <1>1, <1>2, UsersFinite DEF UseCountExact, Absent
<1>4. /\ pc' = [pc EXCEPT ![t] = "leaveReport"]
      /\ joined' = [joined EXCEPT ![G] = IF @ = 1 THEN Absent ELSE (@ - 1) % CountWrap]
  BY <1>3 DEF LeaveMcast, Goto
<1>5. \A g \in Groups \ {G} : Users(g)' = Users(g) BY <1>1, <1>4 DEF Users
<1>6. Users(G)' = Users(G) \ {t} BY <1>1, <1>4 DEF Users, Joined
<1>7. IsFiniteSet(Users(G)') /\ Cardinality(Users(G)') = Cardinality(Users(G)) - 1
  BY <1>2, <1>6, UsersFinite, FS_RemoveElement
<1>8. Cardinality(Users(G)') \in Nat /\ (Cardinality(Users(G)') = 0 <=> Users(G)' = {})
  BY <1>7, FS_EmptySet, FS_CardinalityType
<1>9. joined' = [joined EXCEPT ![G] = IF Users(G)' = {} THEN Absent ELSE Cardinality(Users(G)')]
  <2>1. CASE joined[G] = 1
    <3>1. Users(G)' = {} BY <1>3, <1>7, <1>8, <2>1, UsersFinite
    <3>. QED BY <1>4, <2>1, <3>1
  <2>2. CASE joined[G] # 1
    <3>1. Users(G)' # {} BY <1>3, <1>7, <1>8, <2>2, UsersFinite
    <3>2. (joined[G] - 1) % CountWrap = Cardinality(Users(G)') BY <1>3, <1>7, <1>8, UsersFinite
    <3>. QED BY <1>4, <2>2, <3>1, <3>2
  <2>. QED BY <2>1, <2>2
<1>10. UseCountExact'
  <2>1. \A g \in Groups : joined'[g] = IF Users(g)' = {} THEN Absent ELSE Cardinality(Users(g)')
    BY <1>1, <1>5, <1>9 DEF UseCountExact
  <2>2. \A u \in Threads : pc'[u] # "bad_address" BY <1>1, <1>4 DEF UseCountExact
  <2>. QED BY <2>1, <2>2 DEF UseCountExact
<1>11. joined' \in [Groups -> Int] BY <1>1, <1>8, <1>9 DEF Absent
<1>12. pc' \in [Threads -> Locations] BY <1>1, <1>4 DEF Locations
<1>13. \A u \in Threads : pc'[u] \in Grouped => GroupOf[u] # NoGroup BY <1>1, <1>4 DEF CountInv, Groups
<1>. QED BY <1>10, <1>11, <1>12, <1>13 DEF CountInv

\* Every step keeps the counts.
LEMMA CountStep ==
  ASSUME CountInv, [Next]_vars
  PROVE  CountInv'
<1>1. pc \in [Threads -> Locations] BY DEF CountInv
<1>2. CASE UNCHANGED <<pc, joined>>
  <2>1. \A g : Users(g)' = Users(g) BY <1>2 DEF Users
  <2>2. UseCountExact' BY <1>2, <2>1 DEF CountInv, UseCountExact
  <2>. QED BY <1>2, <2>2 DEF CountInv
<1>3. ASSUME NEW t \in Threads, Attach(t) \/ Detach(t) PROVE CountInv'
  <2>1. CASE AttachLoad(t)
    <3>1. pc[t] = "idle" /\ pc' = [pc EXCEPT ![t] = "cas"] /\ UNCHANGED joined BY <2>1 DEF AttachLoad, Goto
    <3>. QED BY <3>1, CountKept DEF Locations, Joined, Grouped
  <2>2. CASE AttachCas(t)
    <3>1. PICK l \in {"attached", "join", "address_in_use"} :
            /\ pc' = [pc EXCEPT ![t] = l]
            /\ l = "attached" => GroupOf[t] = NoGroup
            /\ l = "join" => GroupOf[t] # NoGroup
      BY <2>2 DEF AttachCas, Goto
    <3>2. pc[t] = "cas" /\ UNCHANGED joined BY <2>2 DEF AttachCas
    <3>3. CASE l # "attached" BY <3>1, <3>2, <3>3, CountKept DEF Locations, Joined, Grouped
    <3>4. CASE l = "attached"
      <4>1. \A g \in Groups : Users(g)' = Users(g) BY <1>1, <3>1, <3>2, <3>4 DEF Users, Groups
      <4>2. UseCountExact' BY <1>1, <3>1, <3>2, <3>4, <4>1 DEF CountInv, UseCountExact
      <4>. QED BY <1>1, <3>1, <3>2, <3>4, <4>2 DEF CountInv, Locations, Grouped
    <3>. QED BY <3>3, <3>4
  <2>3. CASE AttachAgain(t)
    <3>1. pc[t] = "address_in_use" /\ pc' = [pc EXCEPT ![t] = "idle"] /\ UNCHANGED joined
      BY <2>3 DEF AttachAgain, Goto
    <3>. QED BY <3>1, CountKept DEF Locations, Joined, Grouped
  <2>4. CASE JoinMcast(t) BY <2>4, CountJoined
  <2>5. CASE JoinReport(t)
    <3>1. PICK l \in {"attached", "attachedWithError"} : pc' = [pc EXCEPT ![t] = l]
      BY <2>5 DEF JoinReport, Report, Goto
    <3>2. pc[t] = "joinReport" /\ UNCHANGED joined BY <2>5 DEF JoinReport, Report
    <3>. QED BY <3>1, <3>2, CountKept DEF Locations, Joined, Grouped
  <2>6. CASE DetachLoad(t)
    <3>1. pc[t] = "attached" /\ pc' = [pc EXCEPT ![t] = "erase"] /\ UNCHANGED joined BY <2>6 DEF DetachLoad, Goto
    <3>. QED BY <3>1, CountKept DEF Locations, Joined, Grouped
  <2>7. CASE DetachErase(t)
    <3>1. PICK l \in {"exchange", "detachedNoLeave", "invalid_argument"} : pc' = [pc EXCEPT ![t] = l]
      BY <2>7 DEF DetachErase, Goto
    <3>2. pc[t] = "erase" /\ UNCHANGED joined BY <2>7 DEF DetachErase
    <3>. QED BY <3>1, <3>2, CountKept DEF Locations, Joined, Grouped
  <2>8. CASE DetachCas(t)
    <3>1. PICK l \in {"detached", "leave", "erase"} :
            /\ pc' = [pc EXCEPT ![t] = l]
            /\ l = "detached" => GroupOf[t] = NoGroup
            /\ l = "leave" => GroupOf[t] # NoGroup
      BY <2>8 DEF DetachCas, Goto
    <3>2. pc[t] = "exchange" /\ UNCHANGED joined BY <2>8 DEF DetachCas
    <3>3. CASE l # "detached" BY <3>1, <3>2, <3>3, CountKept DEF Locations, Joined, Grouped
    <3>4. CASE l = "detached"
      <4>1. \A g \in Groups : Users(g)' = Users(g) BY <1>1, <3>1, <3>2, <3>4 DEF Users, Groups
      <4>2. UseCountExact' BY <1>1, <3>1, <3>2, <3>4, <4>1 DEF CountInv, UseCountExact
      <4>. QED BY <1>1, <3>1, <3>2, <3>4, <4>2 DEF CountInv, Locations, Grouped
    <3>. QED BY <3>3, <3>4
  <2>9. CASE LeaveMcast(t) BY <2>9, CountLeft
  <2>10. CASE LeaveReport(t)
    <3>1. pc' = [pc EXCEPT ![t] = "detached"] /\ pc[t] = "leaveReport" /\ UNCHANGED joined
      BY <2>10 DEF LeaveReport, Report, Goto
    <3>. QED BY <3>1, CountKept DEF Locations, Joined, Grouped
  <2>. QED BY <1>3, <2>1, <2>2, <2>3, <2>4, <2>5, <2>6, <2>7, <2>8, <2>9, <2>10 DEF Attach, Detach
<1>4. Rx => UNCHANGED <<pc, joined>> BY DEF Rx, RxIdle, RxBurst, RxLookup, RxOther, callers
<1>. QED BY <1>2, <1>3, <1>4 DEF Next, vars, callers

-----------------------------------------------------------------------------
\* Every vector of sinks: the published ones and the copies not yet published.
Vectors ==
  {published[h] : h \in 1..Current} \cup {copy[u] : u \in {x \in Threads : pc[x] = "cas"}}

Occurs(t, v) == Contains(v, Entry(t))
Before(x, t, v) == \E j, k \in 1..Len(v) : j < k /\ v[j] = Entry(x) /\ v[k] = Entry(t)
Unique(v) == \A j, k \in 1..Len(v) : v[j] = v[k] /\ v[j] # Sentinel => j = k
FirstOfPort(t, v) == \A k \in 1..Len(v) : v[k] = Entry(t) => \A j \in 1..(k - 1) : v[j].port # PortOf[t]

\* The vector in use, and the copies whose exchange may still succeed, have the
\* entry of t; none of them has it; the copies have it only if the vector has.
Copies == {u \in Threads : pc[u] = "cas" /\ seen[u] = Current}
Everywhere(t) == Occurs(t, published[Current]) /\ \A u \in Copies : Occurs(t, copy[u])
Nowhere(t) == ~Occurs(t, published[Current]) /\ \A u \in Copies : ~Occurs(t, copy[u])
Covered(t) == \A u \in Copies : Occurs(t, copy[u]) => Occurs(t, published[Current])

\* No vector but its own copy has the entry of t.
NoTrace(t) ==
  /\ \A h \in 1..Current : ~Occurs(t, published[h])
  /\ \A u \in Threads \ {t} : pc[u] = "cas" => ~Occurs(t, copy[u])

\* No other channel of the port of t was detached.
Alone(t) == \A u \in Threads \ {t} : PortOf[u] = PortOf[t] => ~attempt[u]

VectorTypes ==
  /\ published \in Seq(Seq(Sink)) /\ Current >= 1 /\ copy \in [Threads -> Seq(Sink)]
  /\ pc \in [Threads -> Locations] /\ seen \in [Threads -> 0..Current]
  /\ \A t \in Threads : pc[t] \in {"cas", "erase", "exchange"} => seen[t] >= 1
  /\ attempt \in [Threads -> BOOLEAN] /\ stale \in [Threads -> BOOLEAN]

\* No vector has an entry twice.  As long as x is not detached, all vectors
\* agree whether it comes before t.  Hence, if t was found in one vector and no
\* other channel of its port was detached, it is found wherever it is.
Ordered ==
  /\ \A v \in Vectors : Unique(v)
  /\ \A x, t \in Threads : ~attempt[x] =>
       \A v, w \in Vectors : Before(x, t, v) /\ Occurs(t, w) => Before(x, t, w)
  /\ \A t \in Threads : attempt[t] /\ Alone(t) => \A v \in Vectors : FirstOfPort(t, v)

Detaching == {"erase", "exchange", "leave", "leaveReport", "detached", "detachedNoLeave", "bad_address"}

\* What a caller may rely on, by where it is.
Located(t) ==
  /\ pc[t] \in {"idle", "cas", "address_in_use"} => NoTrace(t)
  /\ pc[t] = "cas" => Occurs(t, copy[t])
  /\ pc[t] \in {"join", "joinReport", "attached", "attachedWithError"} => Everywhere(t)
  /\ attempt[t] => pc[t] \in Detaching
  /\ pc[t] = "exchange" => attempt[t]
  /\ ~stale[t] =>
       /\ pc[t] \in {"leave", "leaveReport", "detached"} => Nowhere(t)
       /\ pc[t] = "exchange" /\ seen[t] = Current => Nowhere(t)
       /\ pc[t] \in {"erase", "exchange"} /\ attempt[t] => Covered(t)
       /\ pc[t] = "erase" /\ attempt[t] => Occurs(t, published[seen[t]]) \/ Nowhere(t)
       /\ pc[t] = "detachedNoLeave" /\ Alone(t) => Nowhere(t)

VectorInv == VectorTypes /\ Ordered /\ \A t \in Threads : Located(t)

\* Entries of different callers differ, and none is the sentinel.
LEMMA EntriesDiffer ==
  ASSUME NEW t \in Threads, NEW u \in Threads
  PROVE  /\ Entry(t) = Entry(u) => t = u
         /\ Entry(t) # Sentinel /\ Entry(t) \in Sink /\ Entry(t).port = PortOf[t] /\ Entry(t).ch = t
BY ConstantsHold DEF Constants, Entry, Sentinel, Sink

\* What an entry at the end changes.
LEMMA Appended ==
  ASSUME NEW v \in Seq(Sink), NEW t \in Threads, NEW w, w = Append(v, Entry(t))
  PROVE  /\ w \in Seq(Sink) /\ Occurs(t, w)
         /\ \A u \in Threads \ {t} : Occurs(u, w) <=> Occurs(u, v)
         /\ \A x \in Threads, u \in Threads \ {t} : Before(x, u, w) <=> Before(x, u, v)
         /\ \A u \in Threads \ {t} : FirstOfPort(u, v) => FirstOfPort(u, w)
         /\ Unique(v) /\ ~Occurs(t, v) => Unique(w)
<1>1. /\ Len(v) \in Nat /\ w \in Seq(Sink) /\ Len(w) = Len(v) + 1 /\ w[Len(v) + 1] = Entry(t)
      /\ \A k \in 1..Len(v) : w[k] = v[k]
  BY EntriesDiffer
<1>2. 1..Len(w) = (1..Len(v)) \cup {Len(v) + 1} BY <1>1
<1>3. Occurs(t, w) BY <1>1, <1>2 DEF Occurs, Contains
<1>4. ASSUME NEW u \in Threads \ {t} PROVE Occurs(u, w) <=> Occurs(u, v)
  BY <1>1, <1>2, EntriesDiffer DEF Occurs, Contains
<1>5. ASSUME NEW x \in Threads, NEW u \in Threads \ {t} PROVE Before(x, u, w) <=> Before(x, u, v)
  <2>1. Entry(u) # Entry(t) BY EntriesDiffer
  <2>2. Before(x, u, v) => Before(x, u, w) BY <1>1, <1>2 DEF Before
  <2>3. ASSUME Before(x, u, w) PROVE Before(x, u, v)
    <3>1. PICK j, k \in 1..Len(w) : j < k /\ w[j] = Entry(x) /\ w[k] = Entry(u) BY <2>3 DEF Before
    <3>2. k \in 1..Len(v) BY <1>1, <1>2, <2>1, <3>1
    <3>3. j \in 1..Len(v) BY <1>1, <3>1, <3>2
    <3>. QED BY <1>1, <3>1, <3>2, <3>3 DEF Before
  <2>. QED BY <2>2, <2>3
<1>6. ASSUME NEW u \in Threads \ {t}, FirstOfPort(u, v) PROVE FirstOfPort(u, w)
  <2>1. SUFFICES ASSUME NEW k \in 1..Len(w), w[k] = Entry(u), NEW j \in 1..(k - 1)
                 PROVE  w[j].port # PortOf[u]
    BY DEF FirstOfPort
  <2>2. k \in 1..Len(v) BY <1>1, <1>2, <2>1, EntriesDiffer
  <2>3. j \in 1..Len(v) BY <1>1, <2>2
  <2>. QED BY <1>1, <1>6, <2>1, <2>2, <2>3 DEF FirstOfPort
<1>7. ASSUME Unique(v), ~Occurs(t, v) PROVE Unique(w)
  <2>1. SUFFICES ASSUME NEW j \in 1..Len(w), NEW k \in 1..Len(w), w[j] = w[k], w[j] # Sentinel
                 PROVE  j = k
    BY DEF Unique
  <2>2. \A i \in 1..Len(v) : w[i] # Entry(t) BY <1>1, <1>7 DEF Occurs, Contains
  <2>. QED BY <1>1, <1>2, <1>7, <2>1, <2>2 DEF Unique
<1>. QED BY <1>1, <1>3, <1>4, <1>5, <1>6, <1>7

\* What erasing the entry of a caller changes.
LEMMA Removed ==
  ASSUME NEW v \in Seq(Sink), NEW t \in Threads, Unique(v), NEW at \in 1..Len(v), v[at] = Entry(t),
         NEW w, w = RemoveAt(v, at)
  PROVE  /\ w \in Seq(Sink) /\ ~Occurs(t, w) /\ Unique(w)
         /\ \A u \in Threads \ {t} : Occurs(u, w) <=> Occurs(u, v)
         /\ \A x, u \in Threads : Before(x, u, w) => Before(x, u, v)
         /\ \A x, u \in Threads \ {t} : Before(x, u, v) => Before(x, u, w)
         /\ \A u \in Threads : FirstOfPort(u, v) => FirstOfPort(u, w)
<1>. DEFINE Old(k) == IF k < at THEN k ELSE k + 1
<1>1. /\ Len(v) \in Nat /\ w \in Seq(Sink) /\ Len(w) = Len(v) - 1
      /\ \A k \in 1..Len(w) : w[k] = v[Old(k)]
  <2>. DEFINE L == SubSeq(v, 1, at - 1)
              R == SubSeq(v, at + 1, Len(v))
  <2>1. w = L \o R BY DEF RemoveAt
  <2>2. L \in Seq(Sink) /\ Len(L) = at - 1 /\ \A k \in 1..(at - 1) : L[k] = v[k] OBVIOUS
  <2>3. R \in Seq(Sink) /\ Len(R) = Len(v) - at /\ \A k \in 1..(Len(v) - at) : R[k] = v[at + k] OBVIOUS
  <2>. HIDE DEF L, R
  <2>4. w \in Seq(Sink) /\ Len(w) = Len(v) - 1
    <3>1. w \in Seq(Sink) /\ Len(w) = Len(L) + Len(R) BY <2>1, <2>2, <2>3, ConcatProperties
    <3>. QED BY <2>2, <2>3, <3>1
  <2>5. ASSUME NEW k \in 1..Len(w) PROVE w[k] = v[Old(k)]
    <3>1. CASE k < at BY <2>1, <2>2, <2>3, <2>4, <3>1
    <3>2. CASE ~(k < at)
      <4>1. w[k] = R[k - (at - 1)] BY <2>1, <2>2, <2>3, <2>4, <3>2
      <4>2. k - (at - 1) \in 1..(Len(v) - at) BY <2>4, <3>2
      <4>3. w[k] = v[at + (k - (at - 1))] BY <2>3, <4>1, <4>2
      <4>4. at + (k - (at - 1)) = k + 1 BY <2>4
      <4>. QED BY <3>2, <4>3, <4>4
    <3>. QED BY <3>1, <3>2
  <2>. QED BY <2>4, <2>5
<1>2. \A k \in 1..Len(w) : Old(k) \in (1..Len(v)) \ {at} BY <1>1
<1>3. \A j, k \in 1..Len(w) : (j < k <=> Old(j) < Old(k)) /\ (j = k <=> Old(j) = Old(k)) BY <1>1
<1>4. \A m \in (1..Len(v)) \ {at} : \E k \in 1..Len(w) : Old(k) = m
  <2>1. SUFFICES ASSUME NEW m \in (1..Len(v)) \ {at} PROVE \E k \in 1..Len(w) : Old(k) = m OBVIOUS
  <2>2. CASE m < at
    <3>1. m \in 1..Len(w) /\ Old(m) = m BY <1>1, <2>2
    <3>. QED BY <3>1
  <2>3. CASE m > at
    <3>1. m - 1 \in 1..Len(w) /\ Old(m - 1) = m BY <1>1, <2>3
    <3>. QED BY <3>1
  <2>. QED BY <2>2, <2>3
<1>. HIDE DEF Old
<1>5. ~Occurs(t, w)
  <2>1. ASSUME NEW k \in 1..Len(w), w[k] = Entry(t) PROVE FALSE
    <3>1. v[Old(k)] = v[at] /\ Old(k) \in (1..Len(v)) \ {at} BY <1>1, <1>2, <2>1
    <3>. QED BY <3>1, EntriesDiffer DEF Unique
  <2>. QED BY <2>1 DEF Occurs, Contains
<1>6. Unique(w) BY <1>1, <1>2, <1>3 DEF Unique
<1>7. ASSUME NEW u \in Threads \ {t} PROVE Occurs(u, w) <=> Occurs(u, v)
  <2>1. Occurs(u, w) => Occurs(u, v) BY <1>1, <1>2 DEF Occurs, Contains
  <2>2. \A m \in 1..Len(v) : v[m] = Entry(u) => m # at BY EntriesDiffer
  <2>3. ASSUME NEW m \in 1..Len(v), v[m] = Entry(u) PROVE Occurs(u, w)
    <3>1. PICK k \in 1..Len(w) : Old(k) = m BY <1>4, <2>2, <2>3
    <3>. QED BY <1>1, <2>3, <3>1 DEF Occurs, Contains
  <2>. QED BY <2>1, <2>3 DEF Occurs, Contains
<1>8. ASSUME NEW x \in Threads, NEW u \in Threads, Before(x, u, w) PROVE Before(x, u, v)
  <2>1. PICK j, k \in 1..Len(w) : j < k /\ w[j] = Entry(x) /\ w[k] = Entry(u) BY <1>8 DEF Before
  <2>2. Old(j) < Old(k) /\ v[Old(j)] = Entry(x) /\ v[Old(k)] = Entry(u) BY <1>1, <1>3, <2>1
  <2>. QED BY <1>2, <2>2 DEF Before
<1>9. ASSUME NEW x \in Threads \ {t}, NEW u \in Threads \ {t}, Before(x, u, v) PROVE Before(x, u, w)
  <2>1. PICK m, n \in 1..Len(v) : m < n /\ v[m] = Entry(x) /\ v[n] = Entry(u) BY <1>9 DEF Before
  <2>2. m # at /\ n # at BY <2>1, EntriesDiffer
  <2>3. PICK j \in 1..Len(w) : Old(j) = m BY <1>4, <2>2
  <2>4. PICK k \in 1..Len(w) : Old(k) = n BY <1>4, <2>2
  <2>5. w[j] = Entry(x) /\ w[k] = Entry(u) BY <1>1, <2>1, <2>3, <2>4
  <2>6. j < k BY <1>3, <2>1, <2>3, <2>4
  <2>. QED BY <2>5, <2>6 DEF Before
<1>10. ASSUME NEW u \in Threads, FirstOfPort(u, v) PROVE FirstOfPort(u, w)
  <2>1. SUFFICES ASSUME NEW k \in 1..Len(w), w[k] = Entry(u), NEW j \in 1..(k - 1)
                 PROVE  w[j].port # PortOf[u]
    BY DEF FirstOfPort
  <2>2. j \in 1..Len(w) /\ j < k BY <1>1
  <2>3. Old(j) < Old(k) /\ v[Old(k)] = Entry(u) /\ w[j] = v[Old(j)] BY <1>1, <1>3, <2>1, <2>2
  <2>4. Old(j) \in 1..(Old(k) - 1) /\ Old(k) \in 1..Len(v) BY <1>1, <1>2, <2>2, <2>3
  <2>. QED BY <1>10, <2>3, <2>4 DEF FirstOfPort
<1>. QED BY <1>1, <1>5, <1>6, <1>7, <1>8, <1>9, <1>10

-----------------------------------------------------------------------------
\* The vector in use, and the one a detach loaded, are vectors of sinks.
LEMMA TypesKnown ==
  ASSUME VectorTypes
  PROVE  /\ Current \in Nat /\ Current = Len(published) /\ Current \in 1..Current
         /\ \A h \in 1..Current : published[h] \in Seq(Sink) /\ published[h] \in Vectors
         /\ \A t \in Threads : pc[t] \in {"cas", "erase", "exchange"} => seen[t] \in 1..Current
<1>1. Current = Len(published) /\ published \in Seq(Seq(Sink)) /\ Current >= 1 BY DEF Current, VectorTypes
<1>2. Current \in Nat BY <1>1
<1>3. \A h \in 1..Current : published[h] \in Seq(Sink) BY <1>1, <1>2
<1>4. \A h \in 1..Current : published[h] \in Vectors BY DEF Vectors
<1>5. \A t \in Threads : pc[t] \in {"cas", "erase", "exchange"} => seen[t] \in 1..Current
  BY <1>2 DEF VectorTypes
<1>. QED BY <1>1, <1>2, <1>3, <1>4, <1>5

\* A step of u that changes no vector keeps the invariant if it keeps it for u.
LEMMA QuietStep ==
  ASSUME VectorInv, NEW u \in Threads, NEW l \in Locations \ {"cas"}, pc[u] # "cas",
         pc' = [pc EXCEPT ![u] = l],
         UNCHANGED <<published, copy, attempt, stale>>,
         \/ seen' = seen /\ l \notin {"erase", "exchange"}
         \/ seen' = [seen EXCEPT ![u] = Current]
  PROVE  /\ Current' = Current /\ pc'[u] = l
         /\ \A t \in Threads : Everywhere(t)' = Everywhere(t) /\ Nowhere(t)' = Nowhere(t)
                               /\ Covered(t)' = Covered(t) /\ Alone(t)' = Alone(t) /\ NoTrace(t)' = NoTrace(t)
         /\ Located(u)' => VectorInv'
<1>1. /\ pc \in [Threads -> Locations] /\ pc' \in [Threads -> Locations] /\ pc'[u] = l
      /\ seen \in [Threads -> 0..Current]
      /\ \A t \in Threads \ {u} : pc'[t] = pc[t] /\ seen'[t] = seen[t]
      /\ seen' \in [Threads -> 0..Current] /\ Current \in Nat /\ Current >= 1 /\ Current' = Current
  <2>1. pc \in [Threads -> Locations] /\ seen \in [Threads -> 0..Current] /\ Current \in Nat /\ Current >= 1
    BY DEF VectorInv, VectorTypes, Current
  <2>2. Current' = Current BY DEF Current
  <2>3. pc' \in [Threads -> Locations] /\ pc'[u] = l /\ \A t \in Threads \ {u} : pc'[t] = pc[t]
    BY <2>1
  <2>4. seen' \in [Threads -> 0..Current] /\ \A t \in Threads \ {u} : seen'[t] = seen[t]
    BY <2>1
  <2>. QED BY <2>1, <2>2, <2>3, <2>4
<1>2. VectorTypes'
  <2>1. \A t \in Threads : pc'[t] \in {"cas", "erase", "exchange"} => seen'[t] >= 1
    BY <1>1 DEF VectorInv, VectorTypes
  <2>. QED BY <1>1, <2>1 DEF VectorInv, VectorTypes, Current
<1>3. \A x \in Threads : pc'[x] = "cas" <=> pc[x] = "cas" BY <1>1
<1>4. Vectors' = Vectors /\ Copies' = Copies BY <1>1, <1>3 DEF Vectors, Copies
<1>5. ASSUME NEW t \in Threads
      PROVE  /\ Everywhere(t)' = Everywhere(t) /\ Nowhere(t)' = Nowhere(t)
             /\ Covered(t)' = Covered(t) /\ Alone(t)' = Alone(t) /\ NoTrace(t)' = NoTrace(t)
  BY <1>1, <1>3, <1>4 DEF Everywhere, Nowhere, Covered, Alone, NoTrace
<1>6. Ordered' BY <1>4, <1>5 DEF VectorInv, Ordered
<1>7. ASSUME NEW t \in Threads \ {u} PROVE Located(t)'
  <2>1. Located(t) BY DEF VectorInv
  <2>2. pc'[t] = pc[t] /\ seen'[t] = seen[t] BY <1>1
  <2>. QED BY <1>1, <1>5, <2>1, <2>2 DEF Located
<1>. QED BY <1>1, <1>2, <1>5, <1>6, <1>7 DEF VectorInv

\* attach_rx copies the vector in use and appends an entry no vector has.
LEMMA AttachLoadStep ==
  ASSUME VectorInv, NEW u \in Threads, AttachLoad(u)
  PROVE  VectorInv'
<1>. DEFINE P == published[Current]
            W == Append(P, Entry(u))
<1>1. /\ published \in Seq(Seq(Sink)) /\ Current \in Nat /\ Current >= 1 /\ Current' = Current
      /\ UNCHANGED <<published, attempt, stale>>
      /\ copy \in [Threads -> Seq(Sink)] /\ copy' = [copy EXCEPT ![u] = W]
      /\ pc \in [Threads -> Locations] /\ pc[u] = "idle" /\ pc' = [pc EXCEPT ![u] = "cas"]
      /\ seen \in [Threads -> 0..Current] /\ seen' = [seen EXCEPT ![u] = Current]
  BY DEF VectorInv, VectorTypes, AttachLoad, Goto, Current
<1>2. P \in Seq(Sink) /\ P \in Vectors BY TypesKnown DEF VectorInv
<1>3. NoTrace(u) /\ ~attempt[u] BY <1>1 DEF VectorInv, Located, Detaching
<1>4. ~Occurs(u, P) /\ \A v \in Vectors : ~Occurs(u, v)
  <2>1. \A x \in {y \in Threads : pc[y] = "cas"} : ~Occurs(u, copy[x]) BY <1>1, <1>3 DEF NoTrace
  <2>2. \A v \in Vectors : ~Occurs(u, v) BY <1>3, <2>1 DEF NoTrace, Vectors
  <2>. QED BY <1>2, <2>2
<1>5. /\ W \in Seq(Sink) /\ Occurs(u, W)
      /\ \A t \in Threads \ {u} : Occurs(t, W) <=> Occurs(t, P)
      /\ \A x \in Threads, t \in Threads \ {u} : Before(x, t, W) <=> Before(x, t, P)
      /\ \A t \in Threads \ {u} : FirstOfPort(t, P) => FirstOfPort(t, W)
      /\ Unique(P) => Unique(W)
  <2>. HIDE DEF P
  <2>. QED BY <1>2, <1>4, Appended
<1>. HIDE DEF P, W
<1>6. VectorTypes'
  <2>1. copy' \in [Threads -> Seq(Sink)] /\ pc' \in [Threads -> Locations] /\ seen' \in [Threads -> 0..Current]
    BY <1>1, <1>5 DEF Locations
  <2>2. \A t \in Threads : pc'[t] \in {"cas", "erase", "exchange"} => seen'[t] >= 1
    BY <1>1 DEF VectorInv, VectorTypes
  <2>. QED BY <1>1, <2>1, <2>2 DEF VectorInv, VectorTypes, Current
<1>7. Vectors' \subseteq Vectors \cup {W}
  <2>1. \A t \in Threads : pc'[t] = "cas" /\ t # u => pc[t] = "cas" /\ copy'[t] = copy[t] BY <1>1
  <2>2. copy'[u] = W BY <1>1
  <2>. QED BY <1>1, <2>1, <2>2 DEF Vectors
<1>8. Ordered'
  <2>1. \A v \in Vectors' : Unique(v) BY <1>2, <1>5, <1>7 DEF VectorInv, Ordered
  <2>2. ASSUME NEW x \in Threads, NEW t \in Threads, ~attempt'[x], NEW v \in Vectors', NEW w \in Vectors',
               Before(x, t, v), Occurs(t, w)
        PROVE  Before(x, t, w)
    <3>1. Occurs(t, v) BY <2>2 DEF Before, Occurs, Contains
    <3>2. CASE t = u BY <1>4, <1>7, <2>2, <3>1, <3>2
    <3>3. CASE t # u
      <4>1. PICK a \in Vectors : (Before(x, t, a) <=> Before(x, t, v)) BY <1>2, <1>5, <1>7, <3>3
      <4>2. PICK b \in Vectors : (Before(x, t, b) <=> Before(x, t, w)) /\ (Occurs(t, b) <=> Occurs(t, w))
        BY <1>2, <1>5, <1>7, <3>3
      <4>. QED BY <1>1, <2>2, <4>1, <4>2 DEF VectorInv, Ordered
    <3>. QED BY <3>2, <3>3
  <2>3. ASSUME NEW t \in Threads, attempt'[t], Alone(t)', NEW v \in Vectors' PROVE FirstOfPort(t, v)
    <3>1. t # u /\ attempt[t] /\ Alone(t) BY <1>1, <1>3, <2>3 DEF Alone
    <3>. QED BY <1>2, <1>5, <1>7, <3>1 DEF VectorInv, Ordered
  <2>. QED BY <2>1, <2>2, <2>3 DEF Ordered
<1>9. Copies' = Copies \cup {u} /\ copy'[u] = W /\ \A x \in Threads \ {u} : copy'[x] = copy[x] /\ pc'[x] = pc[x]
  BY <1>1 DEF Copies
<1>10. ASSUME NEW t \in Threads \ {u} PROVE Located(t)'
  <2>1. Located(t) BY DEF VectorInv
  <2>2. pc'[t] = pc[t] /\ seen'[t] = seen[t] /\ (Occurs(t, W) <=> Occurs(t, published[Current]))
    BY <1>1, <1>5 DEF P
  <2>3. \A x \in Copies : x # u BY <1>1 DEF Copies
  <2>4. /\ Everywhere(t) => Everywhere(t)'
        /\ Nowhere(t) => Nowhere(t)'
        /\ Covered(t) => Covered(t)'
        /\ Alone(t)' <=> Alone(t)
    <3>1. published' = published /\ attempt' = attempt /\ Current' = Current BY <1>1
    <3>2. \A x \in Copies' : x = u \/ (x \in Copies /\ copy'[x] = copy[x]) BY <1>9, <2>3 DEF Copies
    <3>3. Everywhere(t) => Everywhere(t)' BY <1>9, <2>2, <3>1, <3>2 DEF Everywhere
    <3>4. Nowhere(t) => Nowhere(t)' BY <1>9, <2>2, <3>1, <3>2 DEF Nowhere
    <3>5. Covered(t) => Covered(t)' BY <1>9, <2>2, <3>1, <3>2 DEF Covered
    <3>. QED BY <3>1, <3>3, <3>4, <3>5 DEF Alone
  <2>5. NoTrace(t) => NoTrace(t)' BY <1>1, <1>9, <2>2 DEF NoTrace
  <2>6. copy'[t] = copy[t] BY <1>1
  <2>. QED BY <1>1, <2>1, <2>2, <2>4, <2>5, <2>6 DEF Located
<1>11. Located(u)'
  <2>1. NoTrace(u)' BY <1>1, <1>3, <1>9 DEF NoTrace
  <2>2. pc'[u] = "cas" /\ Occurs(u, copy'[u]) BY <1>1, <1>5
  <2>. QED BY <1>1, <1>3, <2>1, <2>2 DEF Located
<1>. QED BY <1>6, <1>8, <1>10, <1>11 DEF VectorInv

\* Publishing a copy that is up to date, or dropping one that is not.
LEMMA AttachCasStep ==
  ASSUME VectorInv, NEW u \in Threads, AttachCas(u)
  PROVE  VectorInv'
<1>1. /\ published \in Seq(Seq(Sink)) /\ Current \in Nat /\ Current >= 1 /\ Current = Len(published)
      /\ copy \in [Threads -> Seq(Sink)] /\ copy' = [copy EXCEPT ![u] = <<>>]
      /\ pc \in [Threads -> Locations] /\ pc[u] = "cas"
      /\ seen \in [Threads -> 0..Current] /\ UNCHANGED <<seen, attempt, stale>>
  BY DEF VectorInv, VectorTypes, AttachCas, Current
<1>2. NoTrace(u) /\ Occurs(u, copy[u]) /\ ~attempt[u] BY <1>1 DEF VectorInv, Located, Detaching
<1>3. PICK l \in {"attached", "join", "address_in_use"} :
        /\ pc' = [pc EXCEPT ![u] = l]
        /\ \/ l # "address_in_use" /\ seen[u] = Current /\ published' = Append(published, copy[u])
           \/ l = "address_in_use" /\ published' = published
  BY DEF AttachCas, Goto, Exchanges
<1>4. /\ pc' \in [Threads -> Locations] /\ pc'[u] = l /\ copy' \in [Threads -> Seq(Sink)]
      /\ \A x \in Threads \ {u} : pc'[x] = pc[x] /\ copy'[x] = copy[x]
  <2>1. <<>> \in Seq(Sink) OBVIOUS
  <2>. QED BY <1>1, <1>3, <2>1 DEF Locations
<1>5. \A x \in Threads : pc'[x] = "cas" => x # u /\ pc[x] = "cas" BY <1>4
<1>6. ASSUME NEW t \in Threads PROVE Alone(t)' <=> Alone(t) BY <1>1 DEF Alone
<1>7. CASE l = "address_in_use"
  <2>1. UNCHANGED published /\ Current' = Current BY <1>3, <1>7 DEF Current
  <2>2. VectorTypes' BY <1>1, <1>4, <1>5, <1>7, <2>1 DEF VectorInv, VectorTypes, Current
  <2>3. Vectors' \subseteq Vectors BY <1>4, <1>5, <2>1 DEF Vectors
  <2>4. Ordered' BY <1>1, <1>6, <2>3 DEF VectorInv, Ordered
  <2>5. Copies' \subseteq Copies \ {u} /\ \A x \in Copies' : copy'[x] = copy[x]
    BY <1>1, <1>4, <1>5, <2>1 DEF Copies
  <2>6. ASSUME NEW t \in Threads \ {u} PROVE Located(t)'
    <3>1. Located(t) BY DEF VectorInv
    <3>2. /\ Everywhere(t) => Everywhere(t)'
          /\ Nowhere(t) => Nowhere(t)'
          /\ Covered(t) => Covered(t)'
      BY <2>1, <2>5 DEF Everywhere, Nowhere, Covered
    <3>3. NoTrace(t) => NoTrace(t)' BY <1>4, <1>5, <2>1 DEF NoTrace
    <3>. QED BY <1>1, <1>4, <1>6, <2>1, <3>1, <3>2, <3>3 DEF Located
  <2>7. Located(u)'
    <3>1. NoTrace(u)' BY <1>2, <1>4, <2>1 DEF NoTrace
    <3>. QED BY <1>1, <1>2, <1>4, <1>7, <3>1 DEF Located
  <2>. QED BY <2>2, <2>4, <2>6, <2>7 DEF VectorInv
<1>8. CASE l # "address_in_use"
  <2>1. published' = Append(published, copy[u]) /\ u \in Copies BY <1>1, <1>3, <1>8 DEF Copies
  <2>2. copy[u] \in Seq(Sink) BY <1>1
  <2>3. /\ published' \in Seq(Seq(Sink)) /\ Current' = Current + 1 /\ published'[Current'] = copy[u]
        /\ \A h \in 1..Current : published'[h] = published[h]
    BY <1>1, <2>1, <2>2 DEF Current
  <2>4. VectorTypes'
    <3>1. seen' \in [Threads -> 0..Current'] BY <1>1, <2>3
    <3>2. \A t \in Threads : pc'[t] \in {"cas", "erase", "exchange"} => seen'[t] >= 1
      BY <1>1, <1>4, <1>8 DEF VectorInv, VectorTypes
    <3>. QED BY <1>1, <1>4, <2>3, <3>1, <3>2 DEF VectorInv, VectorTypes
  <2>5. Vectors' \subseteq Vectors
    <3>1. copy[u] \in Vectors BY <1>1 DEF Vectors
    <3>2. \A h \in 1..Current' : h \in 1..Current \/ h = Current' BY <1>1, <2>3
    <3>3. \A h \in 1..Current' : published'[h] \in Vectors BY <2>3, <3>1, <3>2 DEF Vectors
    <3>4. \A x \in Threads : pc'[x] = "cas" => copy'[x] \in Vectors BY <1>4, <1>5 DEF Vectors
    <3>. QED BY <3>3, <3>4 DEF Vectors
  <2>6. Ordered' BY <1>1, <1>6, <2>5 DEF VectorInv, Ordered
  <2>7. Copies' = {} BY <1>1, <2>3 DEF Copies
  <2>8. ASSUME NEW t \in Threads \ {u} PROVE Located(t)'
    <3>1. Located(t) BY DEF VectorInv
    <3>2. /\ Everywhere(t) => Everywhere(t)'
          /\ Nowhere(t) => Nowhere(t)'
          /\ Covered(t)'
      BY <2>1, <2>3, <2>7 DEF Everywhere, Nowhere, Covered
    <3>3. NoTrace(t) => NoTrace(t)'
      <4>1. \A h \in 1..Current' : h \in 1..Current \/ h = Current' BY <1>1, <2>3
      <4>2. NoTrace(t) => ~Occurs(t, copy[u]) BY <1>1 DEF NoTrace
      <4>. QED BY <1>4, <1>5, <2>3, <4>1, <4>2 DEF NoTrace
    <3>4. pc'[t] = pc[t] /\ seen'[t] = seen[t] /\ seen[t] # Current' /\ copy'[t] = copy[t]
      BY <1>1, <1>4, <2>3
    <3>5. pc[t] = "erase" => published'[seen[t]] = published[seen[t]]
      <4>1. pc[t] = "erase" => seen[t] \in 1..Current BY <1>1 DEF VectorInv, VectorTypes
      <4>. QED BY <2>3, <4>1
    <3>. QED BY <1>1, <1>6, <3>1, <3>2, <3>3, <3>4, <3>5 DEF Located
  <2>9. Located(u)'
    <3>1. Everywhere(u)' BY <1>2, <2>3, <2>7 DEF Everywhere
    <3>. QED BY <1>1, <1>2, <1>4, <1>8, <3>1 DEF Located
  <2>. QED BY <2>4, <2>6, <2>8, <2>9 DEF VectorInv
<1>. QED BY <1>7, <1>8

\* Erasing the caller's entry from the vector it loaded.
LEMMA EraseStep ==
  ASSUME VectorInv, NEW t \in Threads, DetachErase(t),
         FindSink(published[seen[t]], PortOf[t]) # 0,
         published[seen[t]][FindSink(published[seen[t]], PortOf[t])].ch = t
  PROVE  VectorInv'
<1>. DEFINE V == published[seen[t]]
            at == FindSink(V, PortOf[t])
            W == RemoveAt(V, at)
<1>0. VectorTypes BY DEF VectorInv
<1>1. /\ published \in Seq(Seq(Sink)) /\ Current \in Nat /\ Current = Len(published)
      /\ copy \in [Threads -> Seq(Sink)] /\ seen \in [Threads -> 0..Current] /\ UNCHANGED <<copy, seen>>
      /\ pc \in [Threads -> Locations] /\ pc[t] = "erase" /\ seen[t] \in 1..Current
      /\ attempt \in [Threads -> BOOLEAN] /\ stale \in [Threads -> BOOLEAN]
  <2>1. pc[t] = "erase" /\ UNCHANGED <<copy, seen>> BY DEF DetachErase
  <2>. QED BY <1>0, <2>1, TypesKnown DEF VectorTypes
<1>2. /\ published' = [published EXCEPT ![seen[t]] = W]
      /\ attempt' = [attempt EXCEPT ![t] = TRUE]
      /\ stale' = [stale EXCEPT ![t] = \E u \in Threads : pc[u] = "cas" /\ Occurs(t, copy[u])]
      /\ pc' = [pc EXCEPT ![t] = "exchange"]
  BY DEF DetachErase, Goto, Occurs
<1>3. V \in Seq(Sink) /\ V \in Vectors BY <1>0, <1>1, TypesKnown
<1>4. Unique(V) BY <1>3 DEF VectorInv, Ordered
<1>5. at \in 1..Len(V) /\ V[at] = Entry(t) /\ \A j \in 1..(at - 1) : V[j].port # PortOf[t]
  <2>1. at \in 1..Len(V) /\ \A j \in 1..(at - 1) : V[j].port # PortOf[t]
    <3>. HIDE DEF V
    <3>. QED BY <1>3, FindsFirst DEF V
  <2>2. V[at] \in Sink /\ V[at].ch = t BY <1>3, <2>1
  <2>3. Sentinel.ch # t BY ConstantsHold DEF Sentinel, Constants
  <2>4. PICK x \in Threads : V[at] = Entry(x) BY <2>2, <2>3 DEF Sink
  <2>5. x = t BY <2>2, <2>4, EntriesDiffer
  <2>. QED BY <2>1, <2>4, <2>5
<1>. HIDE DEF at, V
<1>6. /\ W \in Seq(Sink) /\ ~Occurs(t, W) /\ Unique(W)
      /\ \A u \in Threads \ {t} : Occurs(u, W) <=> Occurs(u, V)
      /\ \A x, u \in Threads : Before(x, u, W) => Before(x, u, V)
      /\ \A x, u \in Threads \ {t} : Before(x, u, V) => Before(x, u, W)
      /\ \A u \in Threads : FirstOfPort(u, V) => FirstOfPort(u, W)
  BY <1>3, <1>4, <1>5, Removed
<1>. HIDE DEF W
<1>7. /\ published' \in Seq(Seq(Sink)) /\ Current' = Current /\ published'[seen[t]] = W
      /\ \A h \in 1..Current \ {seen[t]} : published'[h] = published[h]
  <2>1. /\ published' \in Seq(Seq(Sink)) /\ Len(published') = Current
        /\ \A h \in 1..Current : published'[h] = IF h = seen[t] THEN W ELSE published[h]
    BY <1>1, <1>2, <1>6, ExceptSeq
  <2>. QED BY <1>1, <2>1 DEF Current
<1>8. /\ pc' \in [Threads -> Locations] /\ pc'[t] = "exchange" /\ \A u \in Threads \ {t} : pc'[u] = pc[u]
      /\ attempt' \in [Threads -> BOOLEAN] /\ attempt'[t] /\ \A u \in Threads \ {t} : attempt'[u] = attempt[u]
  BY <1>1, <1>2 DEF Locations
<1>9. /\ stale' \in [Threads -> BOOLEAN] /\ \A u \in Threads \ {t} : stale'[u] = stale[u]
      /\ stale'[t] <=> \E u \in Threads : pc[u] = "cas" /\ Occurs(t, copy[u])
  BY <1>1, <1>2, Zenon
<1>10. VectorTypes'
  <2>1. \A u \in Threads : pc'[u] \in {"cas", "erase", "exchange"} => seen'[u] >= 1
    BY <1>1, <1>8 DEF VectorInv, VectorTypes
  <2>. QED BY <1>1, <1>7, <1>8, <1>9, <2>1 DEF VectorInv, VectorTypes
<1>11. \A u \in Threads : pc'[u] = "cas" <=> pc[u] = "cas" BY <1>1, <1>8
<1>12. Vectors' \subseteq Vectors \cup {W} /\ Copies' = Copies
  BY <1>1, <1>7, <1>11 DEF Vectors, Copies
<1>13. ASSUME NEW u \in Threads, Alone(u)' PROVE Alone(u)
  BY <1>8, <1>13 DEF Alone
<1>14. ASSUME NEW v \in Vectors, Alone(t), ~attempt[t] PROVE FirstOfPort(t, v)
  <2>1. SUFFICES ASSUME NEW k \in 1..Len(v), v[k] = Entry(t), NEW j \in 1..(k - 1), v[j].port = PortOf[t]
                 PROVE  FALSE
    BY DEF FirstOfPort
  <2>2. v \in Seq(Sink) BY <1>1 DEF Vectors
  <2>3. j \in 1..Len(v) /\ j < k /\ j # k BY <2>2
  <2>4. v[j] \in Sink /\ v[j] # Sentinel BY <2>1, <2>2, <2>3, ConstantsHold DEF Constants, Sentinel
  <2>5. PICK x \in Threads : v[j] = Entry(x) BY <2>4 DEF Sink
  <2>6. Unique(v) BY DEF VectorInv, Ordered
  <2>7. x # t BY <2>1, <2>3, <2>4, <2>5, <2>6 DEF Unique
  <2>8. PortOf[x] = PortOf[t] BY <2>1, <2>5, EntriesDiffer
  <2>9. ~attempt[x] BY <1>14, <2>7, <2>8 DEF Alone
  <2>10. Before(x, t, v) BY <2>1, <2>3, <2>5 DEF Before
  <2>11. Occurs(t, V) BY <1>5 DEF Occurs, Contains
  <2>12. Before(x, t, V) BY <1>3, <2>9, <2>10, <2>11 DEF VectorInv, Ordered
  <2>13. PICK m, n \in 1..Len(V) : m < n /\ V[m] = Entry(x) /\ V[n] = Entry(t) BY <2>12 DEF Before
  <2>14. n = at BY <1>4, <1>5, <2>13, EntriesDiffer DEF Unique
  <2>15. m \in 1..(at - 1)
    <3>1. Len(V) \in Nat BY <1>3
    <3>. QED BY <2>13, <2>14, <3>1
  <2>. QED BY <1>5, <2>8, <2>13, <2>15, EntriesDiffer
<1>15. Ordered'
  <2>1. \A v \in Vectors' : Unique(v) BY <1>6, <1>12 DEF VectorInv, Ordered
  <2>2. ASSUME NEW x \in Threads, NEW u \in Threads, ~attempt'[x], NEW v \in Vectors', NEW w \in Vectors',
               Before(x, u, v), Occurs(u, w)
        PROVE  Before(x, u, w)
    <3>1. x # t /\ ~attempt[x] BY <1>8, <2>2
    <3>2. PICK a \in Vectors : Before(x, u, a) BY <1>3, <1>6, <1>12, <2>2
    <3>3. CASE w = W
      <4>1. u # t /\ Occurs(u, V) BY <1>6, <2>2, <3>3
      <4>2. Before(x, u, V) BY <1>3, <3>1, <3>2, <4>1 DEF VectorInv, Ordered
      <4>. QED BY <1>6, <3>1, <3>3, <4>1, <4>2
    <3>4. CASE w \in Vectors BY <2>2, <3>1, <3>2, <3>4 DEF VectorInv, Ordered
    <3>. QED BY <1>12, <3>3, <3>4
  <2>3. ASSUME NEW u \in Threads, attempt'[u], Alone(u)', NEW v \in Vectors' PROVE FirstOfPort(u, v)
    <3>1. Alone(u) BY <1>13, <2>3
    <3>2. \A a \in Vectors : FirstOfPort(u, a)
      <4>1. CASE attempt[u] BY <3>1, <4>1 DEF VectorInv, Ordered
      <4>2. CASE ~attempt[u]
        <5>1. u = t BY <1>8, <2>3, <4>2
        <5>. QED BY <1>14, <3>1, <4>2, <5>1
      <4>. QED BY <4>1, <4>2
    <3>. QED BY <1>3, <1>6, <1>12, <3>2
  <2>. QED BY <2>1, <2>2, <2>3 DEF Ordered
<1>16. ASSUME NEW u \in Threads \ {t} PROVE Located(u)'
  <2>1. Located(u) BY DEF VectorInv
  <2>2. \A h \in 1..Current : Occurs(u, published'[h]) <=> Occurs(u, published[h])
    BY <1>6, <1>7 DEF V
  <2>3. Current \in 1..Current BY <1>0, TypesKnown
  <2>4. /\ Everywhere(u) => Everywhere(u)'
        /\ Nowhere(u) => Nowhere(u)'
        /\ Covered(u) => Covered(u)'
    BY <1>1, <1>7, <1>12, <2>2, <2>3 DEF Everywhere, Nowhere, Covered
  <2>5. NoTrace(u) => NoTrace(u)' BY <1>1, <1>7, <1>11, <2>2 DEF NoTrace
  <2>6. pc[u] = "erase" => seen[u] \in 1..Current BY <1>1 DEF VectorInv, VectorTypes
  <2>7. pc'[u] = pc[u] /\ attempt'[u] = attempt[u] /\ stale'[u] = stale[u] /\ copy'[u] = copy[u]
        /\ seen'[u] = seen[u]
    BY <1>1, <1>8, <1>9
  <2>8. pc[u] = "erase" => (Occurs(u, published'[seen'[u]]) <=> Occurs(u, published[seen[u]]))
    BY <2>2, <2>6, <2>7
  <2>. QED BY <1>7, <1>13, <2>1, <2>4, <2>5, <2>7, <2>8 DEF Located
<1>17. Located(t)'
  <2>1. ASSUME ~stale'[t] PROVE Covered(t)' /\ (seen[t] = Current => Nowhere(t)')
    <3>1. \A u \in Copies' : ~Occurs(t, copy'[u]) BY <1>1, <1>9, <1>12, <2>1 DEF Copies
    <3>2. seen[t] = Current => ~Occurs(t, published'[Current']) BY <1>6, <1>7
    <3>. QED BY <3>1, <3>2 DEF Covered, Nowhere
  <2>. QED BY <1>1, <1>7, <1>8, <2>1 DEF Located, Detaching
<1>. QED BY <1>10, <1>15, <1>16, <1>17 DEF VectorInv

\* A detach that does not find its channel has no entry left, if no other
\* channel of the port was detached.
LEMMA EraseFailsStep ==
  ASSUME VectorInv, NEW t \in Threads, DetachErase(t),
         LET v == published[seen[t]]
         IN  ~(FindSink(v, PortOf[t]) # 0 /\ v[FindSink(v, PortOf[t])].ch = t)
  PROVE  VectorInv'
<1>. DEFINE V == published[seen[t]]
            at == FindSink(V, PortOf[t])
<1>1. pc[t] = "erase" /\ UNCHANGED <<published, copy, attempt, stale, seen>> BY DEF DetachErase
<1>2. PICK l \in {"detachedNoLeave", "invalid_argument"} :
        pc' = [pc EXCEPT ![t] = l] /\ (attempt[t] <=> l = "detachedNoLeave")
  BY DEF DetachErase, Goto
<1>3. V \in Seq(Sink) /\ V \in Vectors BY <1>1, TypesKnown DEF VectorInv
<1>4. ASSUME attempt[t], ~stale[t], Alone(t) PROVE Nowhere(t)
  <2>1. Occurs(t, V) \/ Nowhere(t) BY <1>1, <1>4 DEF VectorInv, Located
  <2>2. FirstOfPort(t, V) BY <1>3, <1>4 DEF VectorInv, Ordered
  <2>3. ASSUME Occurs(t, V) PROVE FALSE
    <3>1. PICK k \in 1..Len(V) : V[k] = Entry(t) BY <2>3 DEF Occurs, Contains
    <3>2. at \in 1..Len(V) /\ V[at].port = PortOf[t] /\ \A j \in 1..(at - 1) : V[j].port # PortOf[t]
      <4>. HIDE DEF V
      <4>1. V[k].port = PortOf[t] BY <3>1, EntriesDiffer
      <4>. QED BY <1>3, <3>1, <4>1, FindsFirst DEF V
    <3>3. \A j \in 1..(k - 1) : V[j].port # PortOf[t] BY <2>2, <3>1 DEF FirstOfPort
    <3>4. V[k].port = PortOf[t] /\ V[k].ch = t BY <3>1, EntriesDiffer
    <3>5. V[at].ch # t BY <3>2
    <3>6. Len(V) \in Nat BY <1>3
    <3>. HIDE DEF at, V
    <3>7. at \in Nat /\ k \in Nat /\ at >= 1 /\ k >= 1 BY <3>1, <3>2, <3>6
    <3>8. k \notin 1..(at - 1) /\ at \notin 1..(k - 1) BY <3>2, <3>3, <3>4
    <3>9. at = k BY <3>7, <3>8
    <3>. QED BY <3>4, <3>5, <3>9
  <2>. QED BY <2>1, <2>3
<1>5. /\ pc'[t] = l /\ Nowhere(t)' = Nowhere(t) /\ Alone(t)' = Alone(t)
      /\ Located(t)' => VectorInv'
  BY <1>1, <1>2, QuietStep DEF Locations
<1>6. Located(t)' BY <1>1, <1>2, <1>4, <1>5 DEF Located, Detaching
<1>. QED BY <1>5, <1>6

\* Every step keeps the invariant.
LEMMA VectorStep == VectorInv /\ [Next]_vars => VectorInv'
<1>1. SUFFICES ASSUME VectorInv, [Next]_vars PROVE VectorInv' OBVIOUS
<1>2. ASSUME UNCHANGED <<published, callers>> PROVE VectorInv'
  <2>1. UNCHANGED <<published, pc, seen, copy, attempt, stale>> BY <1>2 DEF callers
  <2>2. Current' = Current BY <2>1 DEF Current
  <2>3. Vectors' = Vectors /\ Copies' = Copies BY <2>1, <2>2 DEF Vectors, Copies
  <2>4. VectorTypes' BY <1>1, <2>1, <2>2 DEF VectorInv, VectorTypes
  <2>5. \A t \in Threads : /\ Everywhere(t)' = Everywhere(t) /\ Nowhere(t)' = Nowhere(t)
                           /\ Covered(t)' = Covered(t) /\ Alone(t)' = Alone(t) /\ NoTrace(t)' = NoTrace(t)
    BY <2>1, <2>2, <2>3 DEF Everywhere, Nowhere, Covered, Alone, NoTrace
  <2>6. Ordered' BY <1>1, <2>1, <2>3, <2>5 DEF VectorInv, Ordered
  <2>7. \A t \in Threads : Located(t)' BY <1>1, <2>1, <2>2, <2>5 DEF VectorInv, Located
  <2>. QED BY <2>4, <2>6, <2>7 DEF VectorInv
<1>3. ASSUME NEW t \in Threads, Attach(t) \/ Detach(t) PROVE VectorInv'
  <2>0. Located(t) BY <1>1 DEF VectorInv
  <2>1. CASE AttachLoad(t) BY <1>1, <2>1, AttachLoadStep
  <2>2. CASE AttachCas(t) BY <1>1, <2>2, AttachCasStep
  <2>3. CASE DetachErase(t) BY <1>1, <2>3, EraseStep, EraseFailsStep
  <2>4. ASSUME NEW l \in {"idle", "joinReport", "attached", "attachedWithError", "leaveReport", "detached", "bad_address"},
               pc[t] \in {"address_in_use", "join", "joinReport", "leave", "leaveReport"},
               l = "idle" <=> pc[t] = "address_in_use",
               l \in {"leaveReport", "bad_address"} <=> pc[t] = "leave",
               l = "detached" <=> pc[t] = "leaveReport",
               pc' = [pc EXCEPT ![t] = l], UNCHANGED <<published, seen, copy, attempt, stale>>
        PROVE  VectorInv'
    <3>1. /\ pc'[t] = l /\ Nowhere(t)' = Nowhere(t) /\ Everywhere(t)' = Everywhere(t) /\ NoTrace(t)' = NoTrace(t)
          /\ Located(t)' => VectorInv'
      BY <1>1, <2>4, QuietStep DEF Locations
    <3>. QED BY <2>0, <2>4, <3>1 DEF Located, Detaching
  <2>5. CASE AttachAgain(t) BY <2>4, <2>5 DEF AttachAgain, Goto
  <2>6. CASE JoinMcast(t) BY <2>4, <2>6 DEF JoinMcast, Goto
  <2>7. CASE JoinReport(t) BY <2>4, <2>7 DEF JoinReport, Report, Goto
  <2>8. CASE LeaveMcast(t) BY <2>4, <2>8 DEF LeaveMcast, Goto
  <2>9. CASE LeaveReport(t) BY <2>4, <2>9 DEF LeaveReport, Report, Goto
  <2>10. CASE DetachLoad(t)
    <3>1. /\ pc[t] = "attached" /\ pc' = [pc EXCEPT ![t] = "erase"] /\ seen' = [seen EXCEPT ![t] = Current]
          /\ UNCHANGED <<published, copy, attempt, stale>>
      BY <2>10 DEF DetachLoad, Goto
    <3>2. pc'[t] = "erase" /\ (Located(t)' => VectorInv') BY <1>1, <3>1, QuietStep DEF Locations
    <3>3. ~attempt[t] BY <2>0, <3>1 DEF Located, Detaching
    <3>. QED BY <3>1, <3>2, <3>3 DEF Located
  <2>11. CASE DetachCas(t)
    <3>1. pc[t] = "exchange" /\ attempt[t] /\ UNCHANGED <<published, copy, attempt, stale>>
      BY <2>0, <2>11 DEF DetachCas, Located
    <3>2. CASE seen[t] = Current
      <4>1. PICK l \in {"detached", "leave"} : pc' = [pc EXCEPT ![t] = l] /\ UNCHANGED seen
        BY <2>11, <3>2 DEF DetachCas, Goto, Exchanges
      <4>2. pc'[t] = l /\ Nowhere(t)' = Nowhere(t) /\ (Located(t)' => VectorInv')
        BY <1>1, <3>1, <4>1, QuietStep DEF Locations
      <4>. QED BY <2>0, <3>1, <3>2, <4>1, <4>2 DEF Located, Detaching
    <3>3. CASE seen[t] # Current
      <4>1. pc' = [pc EXCEPT ![t] = "erase"] /\ seen' = [seen EXCEPT ![t] = Current]
        BY <2>11, <3>3 DEF DetachCas, Goto, Exchanges
      <4>2. /\ pc'[t] = "erase" /\ Nowhere(t)' = Nowhere(t) /\ Covered(t)' = Covered(t)
            /\ Located(t)' => VectorInv'
        BY <1>1, <3>1, <4>1, QuietStep DEF Locations
      <4>3. seen'[t] = Current BY <1>1, <4>1 DEF VectorInv, VectorTypes
      <4>4. Covered(t) => Occurs(t, published[Current]) \/ Nowhere(t) BY DEF Covered, Nowhere
      <4>. QED BY <2>0, <3>1, <4>2, <4>3, <4>4 DEF Located, Detaching
    <3>. QED BY <3>2, <3>3
  <2>. QED BY <1>3, <2>1, <2>2, <2>3, <2>5, <2>6, <2>7, <2>8, <2>9, <2>10, <2>11 DEF Attach, Detach
<1>4. Rx => UNCHANGED <<published, callers>> BY DEF Rx, RxIdle, RxBurst, RxLookup, RxOther
<1>. QED BY <1>1, <1>2, <1>3, <1>4 DEF Next, vars

LEMMA VectorInit == Init => VectorInv
<1>1. SUFFICES ASSUME Init PROVE VectorInv OBVIOUS
<1>2. /\ published = << <<Sentinel>> >> /\ Current = 1 /\ pc = [t \in Threads |-> "idle"]
      /\ seen = [t \in Threads |-> 0] /\ copy = [t \in Threads |-> <<>>]
      /\ attempt = [t \in Threads |-> FALSE] /\ stale = [t \in Threads |-> FALSE]
  BY <1>1 DEF Init, Current
<1>3. VectorTypes BY <1>2 DEF VectorTypes, Locations, Sink
<1>4. \A t \in Threads : ~Occurs(t, <<Sentinel>>)
  <2>1. Len(<<Sentinel>>) = 1 /\ <<Sentinel>>[1] = Sentinel OBVIOUS
  <2>2. \A i \in 1..1 : i = 1 OBVIOUS
  <2>. QED BY <2>1, <2>2, EntriesDiffer, Zenon DEF Occurs, Contains
<1>5. Vectors = {<<Sentinel>>} BY <1>2 DEF Vectors
<1>6. Unique(<<Sentinel>>) BY DEF Unique
<1>7. \A x, t \in Threads : ~Before(x, t, <<Sentinel>>) BY DEF Before
<1>8. Ordered BY <1>2, <1>5, <1>6, <1>7 DEF Ordered
<1>9. \A t \in Threads : NoTrace(t) BY <1>2, <1>4 DEF NoTrace
<1>10. \A t \in Threads : Located(t) BY <1>2, <1>9 DEF Located
<1>. QED BY <1>3, <1>8, <1>10 DEF VectorInv

\* What callers of attach_rx and detach_rx were told agrees with the published
\* vector, for any number of callers, channels and ports.
THEOREM Outcomes == Spec => []OutcomesHold
<1>1. VectorInv => OutcomesHold
  BY DEF VectorInv, VectorTypes, Located, OutcomesHold, AttachedIsPublished, LostAttachLeavesNoTrace, DetachedStaysOut,
     Everywhere, Nowhere, NoTrace, Alone, Visible, Occurs
<1>. QED BY <1>1, VectorInit, VectorStep, PTL DEF Spec

LEMMA CountInit == Init => CountInv
<1>1. SUFFICES ASSUME Init PROVE CountInv OBVIOUS
<1>2. pc = [t \in Threads |-> "idle"] /\ joined = [g \in Groups |-> Absent] BY <1>1 DEF Init
<1>3. \A g \in Groups : Users(g) = {} BY <1>2 DEF Users, Joined
<1>4. joined \in [Groups -> Int] BY <1>2 DEF Absent
<1>. QED BY <1>2, <1>3, <1>4 DEF CountInv, UseCountExact, Locations, Grouped

\* joined_mcasts_ counts the channels that joined each group and have not left
\* it, for any number of callers and groups.
THEOREM UseCount == Spec => []UseCountExact
<1>1. CountInv => UseCountExact BY DEF CountInv
<1>. QED BY <1>1, CountInit, CountStep, PTL DEF Spec
=============================================================================
