------------------------------- MODULE Sinks -------------------------------
(***************************************************************************)
(* Attaching channels to and detaching them from the receive path while    *)
(* it runs: device::attach_rx (the rss path), detach_rx, join_mcast and    *)
(* leave_mcast with mcast_group, and the reader, rx_job::process with      *)
(* try_reload_sinks and the cached index last_ of find_rx_channel.         *)
(*                                                                         *)
(* Every successful attach publishes a new vector; published[h] is the     *)
(* h-th vector, the last one is what device::sinks() returns.  A detach    *)
(* erases from the vector it loaded IN PLACE: its compare_exchange puts    *)
(* the same pointer back.  The copy an attach makes and the erase are      *)
(* steps of their own; a copy torn by a concurrent erase is not modelled.  *)
(***************************************************************************)
EXTENDS Integers, Sequences, SequencesExt, FiniteSets

CONSTANTS
  Threads,    \* callers of attach_rx and detach_rx, one channel each
  Detachers,  \* those that detach the channel again
  PortOf,     \* the port each attaches its channel to
  GroupOf,    \* the multicast group of its endpoint, or NoGroup
  NoGroup,
  Null,       \* the null rx_channel pointer
  Burst,      \* burst_size_
  Hint,       \* reload_checkpoint_
  Wrap,       \* number of values of checkpoint_ (2^16)
  CountWrap   \* number of values of a group's use count (2^8)

Groups == {GroupOf[t] : t \in Threads} \ {NoGroup}
Ports == {PortOf[t] : t \in Threads}

ASSUME SinksAssumption ==
  /\ Detachers \subseteq Threads /\ Null \notin Threads
  /\ PortOf \in [Threads -> Nat \ {0}] /\ DOMAIN GroupOf = Threads
  /\ Burst \in Nat \ {0}
  /\ IsFiniteSet(Threads) /\ CountWrap \in Nat /\ Cardinality(Threads) < CountWrap
ASSUME HintAssumption == Hint \in Nat \ {0} /\ Wrap \in Nat \ {0}

VARIABLES
  published,   \* the vectors sinks_ has pointed to, oldest first
  pc, seen,    \* each caller: where it is, and the vector it loaded
  copy,        \* each attach: its private copy with the new entry
  attempt,     \* each detach: whether it has erased the entry before
  stale,       \* each detach: its last erase met a copy that still has the entry
  joined,      \* joined_mcasts_: the use count of each group or Absent
  member,      \* the last membership report sent for each group
  snap, last,  \* rx_job: the vector it uses, and last_
  checkpoint,  \* rx_job: checkpoint_
  left,        \* packets of the burst not looked at yet
  routed       \* some packet of the burst found a channel

callers == <<pc, seen, copy, attempt, stale>>
reader == <<snap, last, checkpoint, left, routed>>
vars == <<published, callers, joined, member, reader>>

Entry(t) == [port |-> PortOf[t], ch |-> t]
Sentinel == [port |-> 0, ch |-> Null]
Current == Len(published)
Absent == -1

Init ==
  /\ published = << <<Sentinel>> >>
  /\ pc = [t \in Threads |-> "idle"]
  /\ seen = [t \in Threads |-> 0]
  /\ copy = [t \in Threads |-> <<>>]
  /\ attempt = [t \in Threads |-> FALSE]
  /\ stale = [t \in Threads |-> FALSE]
  /\ joined = [g \in Groups |-> Absent]
  /\ member = [g \in Groups |-> FALSE]
  /\ snap = 1 /\ last = 1 /\ checkpoint = Hint /\ left = 0 /\ routed = FALSE

Goto(t, l) == pc' = [pc EXCEPT ![t] = l]

-----------------------------------------------------------------------------
\* compare_exchange_strong succeeds if sinks_ is still the loaded vector.
\* Mutant: an unconditional store.
AlwaysExchanges(t) == TRUE
Exchanges(t) == seen[t] = Current

\* attach_rx: load sinks_, copy the vector and append the entry.
AttachLoad(t) ==
  /\ pc[t] = "idle"
  /\ Goto(t, "cas")
  /\ seen' = [seen EXCEPT ![t] = Current]
  /\ copy' = [copy EXCEPT ![t] = Append(published[Current], Entry(t))]
  /\ UNCHANGED <<published, attempt, stale, joined, member, reader>>

\* If the exchange fails, the second round finds the channel moved out of ch: address_in_use.
AttachCas(t) ==
  /\ pc[t] = "cas"
  /\ copy' = [copy EXCEPT ![t] = <<>>]
  /\ IF Exchanges(t)
     THEN /\ published' = Append(published, copy[t])
          /\ Goto(t, IF GroupOf[t] = NoGroup THEN "attached" ELSE "join")
     ELSE /\ UNCHANGED published
          /\ Goto(t, "address_in_use")
  /\ UNCHANGED <<seen, attempt, stale, joined, member, reader>>

\* The caller of an attach that lost the race calls it again.
AttachAgain(t) ==
  /\ pc[t] = "address_in_use"
  /\ Goto(t, "idle")
  /\ UNCHANGED <<published, seen, copy, attempt, stale, joined, member, reader>>

\* ++i->second
\* Mutant: not counted.
NotCounted(n) == n
Counted(n) == (n + 1) % CountWrap

\* join_mcast: a group in use is counted and reported as an error.
JoinMcast(t) ==
  /\ pc[t] = "join"
  /\ IF joined[GroupOf[t]] = Absent
     THEN /\ joined' = [joined EXCEPT ![GroupOf[t]] = 1]
          /\ Goto(t, "joinReport")
     ELSE /\ joined' = [joined EXCEPT ![GroupOf[t]] = Counted(@)]
          /\ Goto(t, "attachedWithError")
  /\ UNCHANGED <<published, seen, copy, attempt, stale, member, reader>>

\* mcast_group: the report is sent, or there is no buffer or ring space.
Report(t, from, ok, failed, isMember) ==
  /\ pc[t] = from
  /\ \/ Goto(t, ok) /\ member' = [member EXCEPT ![GroupOf[t]] = isMember]
     \/ Goto(t, failed) /\ UNCHANGED member
  /\ UNCHANGED <<published, seen, copy, attempt, stale, joined, reader>>

JoinReport(t) == Report(t, "joinReport", "attached", "attachedWithError", TRUE)

-----------------------------------------------------------------------------
\* detach_rx: load sinks_ ...
DetachLoad(t) ==
  /\ pc[t] = "attached" /\ t \in Detachers
  /\ seen' = [seen EXCEPT ![t] = Current]
  /\ Goto(t, "erase")
  /\ UNCHANGED <<published, copy, attempt, stale, joined, member, reader>>

\* ... find_sink by port and, if it is the caller's channel, erase it in place;
\* if not, a retry returns success and a first attempt invalid_argument.
FindSink(v, port) == SelectInSeq(v, LAMBDA e : e.port = port)

DetachErase(t) ==
  /\ pc[t] = "erase"
  /\ LET v == published[seen[t]]
         at == FindSink(v, PortOf[t])
     IN IF at # 0 /\ v[at].ch = t
        THEN /\ published' = [published EXCEPT ![seen[t]] = RemoveAt(v, at)]
             /\ attempt' = [attempt EXCEPT ![t] = TRUE]
             /\ stale' = [stale EXCEPT ![t] = \E u \in Threads :
                            pc[u] = "cas" /\ Contains(copy[u], Entry(t))]
             /\ Goto(t, "exchange")
        ELSE /\ Goto(t, IF attempt[t] THEN "detachedNoLeave" ELSE "invalid_argument")
             /\ UNCHANGED <<published, attempt, stale>>
  /\ UNCHANGED <<seen, copy, joined, member, reader>>

DetachCas(t) ==
  /\ pc[t] = "exchange"
  /\ IF Exchanges(t)
     THEN /\ Goto(t, IF GroupOf[t] = NoGroup THEN "detached" ELSE "leave")
          /\ UNCHANGED seen
     ELSE /\ Goto(t, "erase")
          /\ seen' = [seen EXCEPT ![t] = Current]
  /\ UNCHANGED <<published, copy, attempt, stale, joined, member, reader>>

\* leave_mcast: the leave report is sent whether or not the count reached 0.
LeaveMcast(t) ==
  /\ pc[t] = "leave"
  /\ IF joined[GroupOf[t]] = Absent
     THEN Goto(t, "bad_address") /\ UNCHANGED joined
     ELSE /\ joined' = [joined EXCEPT ![GroupOf[t]] = IF @ = 1 THEN Absent ELSE (@ - 1) % CountWrap]
          /\ Goto(t, "leaveReport")
  /\ UNCHANGED <<published, seen, copy, attempt, stale, member, reader>>

LeaveReport(t) == Report(t, "leaveReport", "detached", "detached", FALSE)

Attach(t) == AttachLoad(t) \/ AttachCas(t) \/ AttachAgain(t) \/ JoinMcast(t) \/ JoinReport(t)
Detach(t) == DetachLoad(t) \/ DetachErase(t) \/ DetachCas(t) \/ LeaveMcast(t) \/ LeaveReport(t)

-----------------------------------------------------------------------------
\* try_reload_sinks.
Reloaded == checkpoint >= Hint
\* Mutant: the pointer is never loaded again.
SnapNever == snap
Snap == IF Reloaded THEN Current ELSE snap
Checkpoint == IF Reloaded THEN 0 ELSE checkpoint

\* rx_job::process without packets.
RxIdle ==
  /\ left = 0
  /\ snap' = Snap
  /\ checkpoint' = (Checkpoint + 2 * Burst + 1) % Wrap
  /\ UNCHANGED <<published, callers, joined, member, last, left, routed>>

RxBurst ==
  /\ left = 0
  /\ snap' = Snap /\ checkpoint' = Checkpoint
  /\ left' \in 1..Burst /\ routed' = FALSE
  /\ UNCHANGED <<published, callers, joined, member, last>>

\* The end of process(): a burst that was not full and of which no packet
\* found a channel brings the next reload closer.
Advance(l, r) ==
  IF l > 0 THEN checkpoint' = checkpoint
  ELSE \E unroutedAndNotFull \in IF r THEN {FALSE} ELSE BOOLEAN :
         checkpoint' = (checkpoint + 1 + IF unroutedAndNotFull THEN 2 * Burst ELSE 0) % Wrap

\* find_rx_channel: keep last_ if its entry has the port (an entry without
\* channel would ask for a reload, which Hint > 0 rules out within a burst);
\* beyond the end of the vector the read is undefined and may do either.
\* Mutant: nothing found is not mapped to the first entry.
FirstMatchOrEnd(v, port) == FindSink(v, port)
FirstMatch(v, port) == LET at == FindSink(v, port) IN IF at = 0 THEN 1 ELSE at
\* Mutant: the port is not compared again.
FoundCached(v, port) == {last}
Found(v, port) ==
  IF last > Len(v) THEN {last, FirstMatch(v, port)}
  ELSE {IF v[last].port = port THEN last ELSE FirstMatch(v, port)}

RxLookup ==
  /\ left > 0
  /\ \E port \in Ports : last' \in Found(published[snap], port)
  /\ routed' = (routed \/ (last' > 1))
  /\ left' = left - 1
  /\ Advance(left - 1, routed')
  /\ UNCHANGED <<published, callers, joined, member, snap>>

\* A packet that is not UDP, or is broken.
RxOther ==
  /\ left > 0
  /\ left' = left - 1
  /\ Advance(left - 1, routed)
  /\ UNCHANGED <<published, callers, joined, member, snap, last, routed>>

Rx == RxIdle \/ RxBurst \/ RxLookup \/ RxOther

Next == Rx \/ \E t \in Threads : Attach(t) \/ Detach(t)

\* The lcore of the rx job never stops polling while the jobs run.
Spec == Init /\ [][Next]_vars /\ WF_vars(Rx)

-----------------------------------------------------------------------------
Locations == {"idle", "cas", "address_in_use", "join", "joinReport", "attached",
              "attachedWithError", "erase", "exchange", "leave", "leaveReport",
              "detached", "detachedNoLeave", "invalid_argument", "bad_address"}
Sink == {Sentinel} \cup {Entry(t) : t \in Threads}

TypeOK ==
  /\ published \in Seq(Seq(Sink)) /\ published # <<>>
  /\ pc \in [Threads -> Locations] /\ seen \in [Threads -> 0..Current]
  /\ copy \in [Threads -> Seq(Sink)]
  /\ attempt \in [Threads -> BOOLEAN] /\ stale \in [Threads -> BOOLEAN]
  /\ joined \in [Groups -> {Absent} \cup 0..(CountWrap - 1)]
  /\ member \in [Groups -> BOOLEAN]
  /\ snap \in 1..Current /\ last \in Nat \ {0}
  /\ checkpoint \in 0..(Wrap - 1) /\ left \in 0..Burst /\ routed \in BOOLEAN

Visible(t, h) == Contains(published[h], Entry(t))

\* From the exchange of a successful attach_rx on, its channel is in the vector
\* device::sinks() returns, whatever other callers attach or detach: no
\* concurrent update is lost.
AttachedIsPublished ==
  \A t \in Threads :
    pc[t] \in {"join", "joinReport", "attached", "attachedWithError"} => Visible(t, Current)

\* attach_rx that lost the race to another caller and returned address_in_use
\* has published its channel nowhere.
LostAttachLeavesNoTrace ==
  \A t \in Threads :
    pc[t] \in {"idle", "cas", "address_in_use"} => \A h \in 1..Current : ~Visible(t, h)

\* After a detach_rx that reported success the channel is out of the published
\* vector for good, unless an attach_rx had copied the vector before the erase
\* and published the copy after it.  A detach that succeeds because it no longer
\* finds its channel needs more: where another channel of the port was detached
\* and came back, find_sink stops at that one.
DetachedStaysOut ==
  \A t \in Threads : ~stale[t] =>
    /\ pc[t] \in {"leave", "leaveReport", "detached"} => ~Visible(t, Current)
    /\ pc[t] = "detachedNoLeave" /\ (\A u \in Threads \ {t} : PortOf[u] = PortOf[t] => ~attempt[u])
         => ~Visible(t, Current)

\* The published vector agrees with what each caller was told, however calls
\* of attach_rx and detach_rx overlap.
OutcomesHold == AttachedIsPublished /\ LostAttachLeavesNoTrace /\ DetachedStaysOut

\* The callers that joined group g and have not left it.
Joined == {"joinReport", "attached", "attachedWithError", "erase", "exchange", "leave",
           "detachedNoLeave", "invalid_argument"}
Users(g) == {t \in Threads : GroupOf[t] = g /\ pc[t] \in Joined}

\* The use count of a multicast group is the number of channels that joined it
\* and have not left it, and the group is in joined_mcasts_ only while that
\* number is not 0; leave_mcast of an attached channel never finds it missing.
UseCountExact ==
  /\ \A g \in Groups : joined[g] = IF Users(g) = {} THEN Absent ELSE Cardinality(Users(g))
  /\ \A t \in Threads : pc[t] # "bad_address"

\* Until something is detached, the cached index last_ of find_rx_channel is
\* within the vector in use and gives every port the channel a search from the
\* start would give, although last_ is not reset when the vector is reloaded.
CachedLookupIsFresh ==
  (\A t \in Threads : ~attempt[t]) =>
    /\ last <= Len(published[snap])
    /\ \A port \in Ports : Found(published[snap], port) = {FirstMatch(published[snap], port)}

\* The largest step of checkpoint_ does not jump over the reload point and the
\* end of its range at once.  The code does not check this; the default hint, 256,
\* and the largest in the repository, 65000, leave the room for bursts of 32.
RoomForHint == Hint + 2 * Burst + 1 <= Wrap

\* A channel that was attached while the rx job runs is eventually in the
\* vector the rx job uses: the checkpoint arithmetic forces a reload, unless the
\* hint is so close to the end of its range that the counter may pass over it.
AttachedIsSeen ==
  RoomForHint => \A t \in Threads \ Detachers : pc[t] = "attached" ~> Visible(t, snap)
=============================================================================
