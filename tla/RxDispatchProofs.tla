-------------------------- MODULE RxDispatchProofs --------------------------
(***************************************************************************)
(* Proofs about RxDispatch, for every pool, set of ports and channels,     *)
(* burst size and reload hint.                                             *)
(***************************************************************************)
EXTENDS RxDispatch, TLAPS

\* What each part of process() may assume about the others' variables.
Phase ==
  /\ pc = "poll" => rx = <<>> /\ i = 0 /\ ready = 0 /\ post = <<>> /\ k = 0 /\ kept = <<>>
  /\ pc = "loop" => k = 0 /\ kept = <<>>
  /\ pc = "post" => i = Len(rx) /\ ready = 0

\* A burst holds no buffer twice.
Distinct == \A a, b \in 1..Len(rx) : rx[a] = rx[b] => a = b

\* The pending run is for its channel.
RunRouted == \A j \in (i - ready + 1)..i : Route(frames[j]) = channel /\ channel # Null

\* Only packets without a channel are postponed, each at most once.
PostUnrouted ==
  /\ Len(post) <= i
  /\ \A a \in 1..Len(post) : post[a] <= i /\ Route(frames[post[a]]) = Null

\* A buffer of the job is in one of the places it will still look at.
Accounted ==
  \A m \in Mbufs : owner[m] = "job" =>
    \/ \E j \in (i - ready + 1)..Len(rx) : rx[j] = m
    \/ \E b \in (k + 1)..Len(post) : rx[post[b]] = m
    \/ \E a \in 1..Len(kept) : rx[kept[a]] = m

IInv ==
  /\ TypeOK /\ Phase /\ Distinct /\ RunRouted /\ PostUnrouted
  /\ RecycledOnce /\ HeldBuffersOwned /\ Accounted /\ DeliveredOnceInOrder

-----------------------------------------------------------------------------
\* The pending run as a set of positions.
Pending == (i - ready + 1)..i

\* Handing the pending run over (channel->enqueue) changes the owner of the
\* buffers of the run and of no other buffer of the burst.
LEMMA HandOver ==
  ASSUME IInv, NEW r \in Answers, NEW to \in Owners \ {"job"}
  PROVE  /\ HandedOver(r, to) \in [Mbufs -> Owners]
         /\ \A j \in 1..Len(rx) : j \notin Pending => HandedOver(r, to)[rx[j]] = owner[rx[j]]
         /\ \A m \in Mbufs : HandedOver(r, to)[m] = "job" =>
              owner[m] = "job" /\ \A j \in Pending : rx[j] # m
<1>1. r \in 0..ready BY DEF Answers, IInv, TypeOK
<1>2. i \in 0..Len(rx) /\ ready \in 0..i /\ rx \in Seq(Mbufs) /\ owner \in [Mbufs -> Owners]
  BY DEF IInv, TypeOK
<1>3. \A j \in Pending : j \in 1..Len(rx) /\ rx[j] \in Taken(r) \cup Refused(r)
  BY <1>1, <1>2 DEF Taken, Refused, Pending
<1>4. ASSUME NEW j \in 1..Len(rx), j \notin Pending
      PROVE  rx[j] \notin Taken(r) /\ rx[j] \notin Refused(r)
  <2>1. \A l \in Pending : l \in 1..Len(rx) /\ l # j BY <1>2, <1>4 DEF Pending
  <2>2. \A l \in Pending : rx[l] # rx[j] BY <2>1 DEF IInv, Distinct
  <2>3. /\ (i - ready + r + 1)..i \subseteq Pending
        /\ (i - ready + 1)..(i - ready + r) \subseteq Pending
    BY <1>1, <1>2 DEF Pending
  <2>. QED BY <2>2, <2>3 DEF Taken, Refused
<1>5. \A m \in Mbufs : HandedOver(r, to)[m] =
        IF m \in Refused(r) THEN to ELSE IF m \in Taken(r) THEN "channel" ELSE owner[m]
  BY DEF HandedOver, Give
<1>6. "channel" \in Owners /\ "channel" # "job" BY DEF Owners
<1>7. HandedOver(r, to) \in [Mbufs -> Owners]
  BY <1>2, <1>6 DEF HandedOver, Give
<1>8. \A j \in 1..Len(rx) : rx[j] \in Mbufs BY <1>2
<1>9. \A j \in 1..Len(rx) : j \notin Pending => HandedOver(r, to)[rx[j]] = owner[rx[j]]
  BY <1>4, <1>5, <1>8
<1>10. \A m \in Mbufs : HandedOver(r, to)[m] = "job" =>
         owner[m] = "job" /\ \A j \in Pending : rx[j] # m
  BY <1>3, <1>5, <1>6
<1>. QED BY <1>7, <1>9, <1>10

\* After the pending run was handed over every packet looked at so far has
\* been delivered as DeliveredOnceInOrder requires.
LEMMA Delivery ==
  ASSUME IInv, pc = "loop"
  PROVE  /\ Delivered \in [1..Burst -> Seq(Channels)]
         /\ \A j \in 1..Len(rx) :
              Delivered[j] = IF j <= i /\ Route(frames[j]) # Null
                             THEN <<Route(frames[j])>> ELSE <<>>
<1>1. /\ i \in 0..Len(rx) /\ ready \in 0..i /\ Len(rx) \in Nat /\ Len(rx) <= Burst
      /\ channel \in Channels \cup {Null} /\ dlv \in [1..Burst -> Seq(Channels)]
  BY DEF IInv, TypeOK
<1>2. \A j \in Pending : Route(frames[j]) = channel /\ channel # Null
  BY DEF IInv, RunRouted, Pending
<1>3. \A j \in 1..Burst : Delivered[j] = IF j \in Pending THEN Append(dlv[j], channel) ELSE dlv[j]
  BY DEF Delivered, Pending
<1>4. \A j \in Pending : channel \in Channels BY <1>1, <1>2
<1>5. ASSUME NEW j \in 1..Burst PROVE Delivered[j] \in Seq(Channels)
  <2>1. dlv[j] \in Seq(Channels) BY <1>1
  <2>2. j \in Pending => Append(dlv[j], channel) \in Seq(Channels) BY <1>4, <2>1
  <2>. QED BY <1>3, <2>1, <2>2
<1>6. Delivered \in [1..Burst -> Seq(Channels)]
  BY <1>5 DEF Delivered
<1>7. ASSUME NEW j \in 1..Len(rx)
      PROVE  Delivered[j] = IF j <= i /\ Route(frames[j]) # Null
                            THEN <<Route(frames[j])>> ELSE <<>>
  <2>1. j \in 1..Burst BY BurstAssumption, <1>1
  <2>2. dlv[j] = IF j <= i - ready /\ Route(frames[j]) # Null THEN <<Route(frames[j])>> ELSE <<>>
    BY DEF IInv, DeliveredOnceInOrder
  <2>3. CASE j \in Pending
    <3>1. j <= i /\ ~(j <= i - ready) BY <1>1, <2>3 DEF Pending
    <3>2. dlv[j] = <<>> BY <2>2, <3>1
    <3>3. Append(dlv[j], channel) = <<channel>> BY <3>2
    <3>. QED BY <1>2, <1>3, <2>1, <2>3, <3>1, <3>3
  <2>4. CASE j \notin Pending
    <3>1. (j <= i) <=> (j <= i - ready) BY <1>1, <2>4 DEF Pending
    <3>. QED BY <1>3, <2>1, <2>2, <2>4, <3>1
  <2>. QED BY <2>3, <2>4
<1>. QED BY <1>6, <1>7

\* checkpoint_ stays in the range of its type.
LEMMA ModRange == \A n \in Nat : n % Wrap \in 0..(Wrap - 1)
BY CheckpointAssumption

\* The invariant holds before the first call of process().
LEMMA InitStep == Init => IInv
<1>. SUFFICES ASSUME Init PROVE IInv OBVIOUS
<1>1. TypeOK
  BY CheckpointAssumption, BurstAssumption DEF Init, TypeOK, Owners
<1>2. Phase /\ Distinct /\ RunRouted /\ PostUnrouted
  BY DEF Init, Phase, Distinct, RunRouted, PostUnrouted
<1>3. RecycledOnce /\ HeldBuffersOwned /\ DeliveredOnceInOrder
  BY DEF Init, RecycledOnce, HeldBuffersOwned, DeliveredOnceInOrder
<1>4. Accounted BY DEF Init, Accounted
<1>. QED BY <1>1, <1>2, <1>3, <1>4 DEF IInv

\* try_reload_sinks leaves a snapshot and a checkpoint of the right types.
LEMMA Reload ==
  ASSUME IInv, TryReloadSinks
  PROVE  sinks' \in [Ports -> Channels \cup {Null}] /\ CheckpointNow \in 0..(Wrap - 1)
BY CheckpointAssumption DEF IInv, TypeOK, TryReloadSinks, CheckpointNow

\* A poll that returns no packet preserves the invariant.
LEMMA IdleStep == ASSUME IInv, Idle PROVE IInv'
<1>. USE DEF Idle
<1>1. checkpoint' \in 0..(Wrap - 1)
  <2>1. CheckpointNow + 2 * Burst + 1 \in Nat BY Reload, BurstAssumption, CheckpointAssumption
  <2>. QED BY <2>1, ModRange
<1>2. rx = <<>> /\ i = 0 /\ ready = 0 /\ post = <<>> /\ k = 0 /\ kept = <<>>
  BY DEF IInv, Phase
<1>3. TypeOK' BY <1>1, Reload DEF IInv, TypeOK
<1>4. Phase' /\ Distinct' /\ RunRouted' /\ PostUnrouted'
  BY <1>2 DEF IInv, Phase, Distinct, RunRouted, PostUnrouted
<1>5. RecycledOnce' /\ HeldBuffersOwned' /\ DeliveredOnceInOrder'
  BY <1>2 DEF IInv, RecycledOnce, HeldBuffersOwned, DeliveredOnceInOrder
<1>6. Accounted' BY DEF IInv, Accounted
<1>. QED BY <1>3, <1>4, <1>5, <1>6 DEF IInv

\* A burst of buffers that were all in the pool establishes the invariant for
\* the first loop: every buffer of the burst is now the job's, and no other.
LEMMA PollStep == ASSUME IInv, Poll PROVE IInv'
<1>. USE DEF Poll
<1>1. PICK n \in 1..Burst :
        /\ rx' \in {s \in [1..n -> Owned("pool")] : \A a, b \in 1..n : s[a] = s[b] => a = b}
        /\ frames' \in [1..n -> Frames]
  OBVIOUS
<1>2. rx' \in [1..n -> Mbufs] /\ n \in Nat BY <1>1, BurstAssumption DEF Owned
<1>3. rx' \in Seq(Mbufs) /\ Len(rx') = n BY <1>2
<1>4. frames' \in Seq(Frames) /\ Len(frames') = n BY <1>1, <1>2
<1>5. owner' \in [Mbufs -> Owners] BY DEF Give, Owners, IInv, TypeOK
<1>6. TypeOK'
  <2>1. dlv' \in [1..Burst -> Seq(Channels)] OBVIOUS
  <2>2. post' \in Seq(1..Len(rx')) /\ kept' \in Seq(1..Len(rx')) OBVIOUS
  <2>. QED BY <1>1, <1>2, <1>3, <1>4, <1>5, <2>1, <2>2, Reload DEF TypeOK
<1>7. Distinct' BY <1>1, <1>2, <1>3 DEF Distinct
<1>8. Phase' /\ RunRouted' /\ PostUnrouted' /\ RecycledOnce'
  BY DEF Phase, RunRouted, PostUnrouted, RecycledOnce
<1>9. HeldBuffersOwned'
  <2>1. \A j \in 1..Len(rx') : owner'[rx'[j]] = "job" BY <1>2, <1>3 DEF Give
  <2>. QED BY <2>1, <1>2, <1>3 DEF HeldBuffersOwned
<1>10. Accounted'
  <2>1. \A m \in Mbufs : owner[m] # "job" BY DEF IInv, Accounted, Phase
  <2>2. \A m \in Mbufs : owner'[m] = "job" => m \in {rx'[j] : j \in DOMAIN rx'}
    BY <2>1 DEF Give
  <2>3. DOMAIN rx' = 1..Len(rx') BY <1>2, <1>3
  <2>. QED BY <1>2, <1>3, <2>2, <2>3 DEF Accounted
<1>11. DeliveredOnceInOrder'
  <2>1. ASSUME NEW j \in 1..Len(rx')
        PROVE  dlv'[j] = <<>> /\ ~(j <= i' - ready')
    BY <1>2, <1>3, BurstAssumption
  <2>. QED BY <2>1 DEF DeliveredOnceInOrder
<1>. QED BY <1>6, <1>7, <1>8, <1>9, <1>10, <1>11 DEF IInv

\* The two ways a packet leaves the loop without joining a run: freed or
\* postponed.  Both hand the pending run over.
LEMMA DiscardStep == ASSUME IInv, Discard PROVE IInv'
<1>1. PICK r \in Answers : owner' = Give(HandedOver(r, "lost"), {rx[i + 1]}, "pool") BY DEF Discard
<1>2. /\ pc = "loop" /\ pc' = "loop" /\ i < Len(rx) /\ i' = i + 1 /\ ready' = 0
      /\ sinks' = sinks /\ checkpoint' = checkpoint /\ rx' = rx /\ frames' = frames
      /\ channel' = Null /\ post' = post /\ k' = k /\ kept' = kept /\ dlv' = Delivered
  BY DEF Discard
<1>3. /\ i \in Nat /\ ready \in 0..i /\ rx \in Seq(Mbufs) /\ Len(rx) \in Nat
      /\ k = 0 /\ kept = <<>> /\ i + 1 \in 1..Len(rx) /\ post \in Seq(1..Len(rx)) /\ Len(post) \in Nat
  BY <1>2 DEF IInv, TypeOK, Phase
<1>4. "lost" \in Owners \ {"job"} /\ "pool" \in Owners BY DEF Owners
<1>5. /\ owner' \in [Mbufs -> Owners]
      /\ \A j \in 1..Len(rx) : j \notin Pending /\ j # i + 1 => owner'[rx[j]] = owner[rx[j]]
      /\ \A m \in Mbufs : owner'[m] = "job" =>
           owner[m] = "job" /\ m # rx[i + 1] /\ \A j \in Pending : rx[j] # m
  <2>1. \A m \in Mbufs : owner'[m] = IF m = rx[i + 1] THEN "pool" ELSE HandedOver(r, "lost")[m]
    BY <1>1 DEF Give
  <2>2. owner' \in [Mbufs -> Owners] BY <1>1, <1>4, HandOver DEF Give
  <2>3. \A j \in 1..Len(rx) : rx[j] \in Mbufs /\ (j # i + 1 => rx[j] # rx[i + 1])
    BY <1>3 DEF IInv, Distinct
  <2>4. \A j \in 1..Len(rx) : j \notin Pending => HandedOver(r, "lost")[rx[j]] = owner[rx[j]]
    BY <1>4, HandOver
  <2>5. \A m \in Mbufs : HandedOver(r, "lost")[m] = "job" =>
          owner[m] = "job" /\ \A j \in Pending : rx[j] # m
    BY <1>4, HandOver
  <2>. QED BY <2>1, <2>2, <2>3, <2>4, <2>5
<1>6. Route(frames[i + 1]) = Null BY PortAssumption DEF Route, Discard
<1>7. TypeOK'
  <2>1. i' \in 0..Len(rx') /\ ready' \in 0..i' BY <1>2, <1>3
  <2>2. dlv' \in [1..Burst -> Seq(Channels)] BY <1>2, Delivery
  <2>. QED BY <1>2, <1>5, <2>1, <2>2 DEF IInv, TypeOK
<1>8. Phase' /\ Distinct' /\ RunRouted' /\ RecycledOnce'
  BY <1>2, <1>3 DEF IInv, Phase, Distinct, RunRouted, RecycledOnce
<1>9. PostUnrouted'
  <2>1. \A a \in 1..Len(post) :
          post[a] \in 1..Len(rx) /\ post[a] <= i /\ Route(frames[post[a]]) = Null
    BY <1>3 DEF IInv, PostUnrouted
  <2>2. \A a \in 1..Len(post) : Route(frames[post[a]])' = Null BY <1>2, <2>1 DEF Route
  <2>3. Len(post) <= i BY DEF IInv, PostUnrouted
  <2>. QED BY <1>2, <1>3, <2>1, <2>2, <2>3 DEF PostUnrouted
<1>10. \A b \in 1..Len(post) : post[b] \in 1..Len(rx) /\ post[b] \notin Pending /\ post[b] # i + 1
  <2>1. \A b \in 1..Len(post) : post[b] \in 1..Len(rx) BY <1>3
  <2>2. \A b \in 1..Len(post) : post[b] <= i /\ Route(frames[post[b]]) = Null
    BY DEF IInv, PostUnrouted
  <2>3. \A j \in Pending : Route(frames[j]) # Null BY DEF IInv, RunRouted, Pending
  <2>4. \A b \in 1..Len(post) : post[b] \notin Pending BY <2>2, <2>3
  <2>5. \A b \in 1..Len(post) : post[b] # i + 1 BY <1>3, <2>1, <2>2
  <2>. QED BY <2>1, <2>4, <2>5
<1>11. HeldBuffersOwned'
  <2>1. \A j \in (i + 2)..Len(rx) :
          j \in 1..Len(rx) /\ j \notin Pending /\ j # i + 1 /\ owner[rx[j]] = "job"
    BY <1>3 DEF IInv, HeldBuffersOwned, Pending
  <2>2. \A b \in 1..Len(post) : owner[rx[post[b]]] = "job"
    BY <1>3 DEF IInv, HeldBuffersOwned
  <2>3. \A j \in (i + 2)..Len(rx) : owner'[rx[j]] = "job" BY <1>5, <2>1
  <2>4. \A b \in 1..Len(post) : owner'[rx[post[b]]] = "job" BY <1>5, <1>10, <2>2
  <2>. QED BY <1>2, <1>3, <2>3, <2>4 DEF HeldBuffersOwned
<1>12. Accounted'
  <2>1. SUFFICES ASSUME NEW m \in Mbufs, owner'[m] = "job"
                 PROVE  \/ \E j \in (i + 2)..Len(rx) : rx[j] = m
                        \/ \E b \in 1..Len(post) : rx[post[b]] = m
    BY <1>2, <1>3 DEF Accounted
  <2>2. owner[m] = "job" /\ m # rx[i + 1] /\ \A j \in Pending : rx[j] # m BY <1>5, <2>1
  <2>3. \/ \E j \in (i - ready + 1)..Len(rx) : rx[j] = m
        \/ \E b \in 1..Len(post) : rx[post[b]] = m
    BY <1>3, <2>2 DEF IInv, Accounted
  <2>4. \A j \in (i - ready + 1)..Len(rx) : j \in Pending \/ j = i + 1 \/ j \in (i + 2)..Len(rx)
    BY <1>3 DEF Pending
  <2>. QED BY <2>2, <2>3, <2>4
<1>13. DeliveredOnceInOrder'
  <2>1. SUFFICES ASSUME NEW j \in 1..Len(rx)
                 PROVE  Delivered[j] = IF j <= i + 1 /\ Route(frames[j]) # Null
                                       THEN <<Route(frames[j])>> ELSE <<>>
    BY <1>2, <1>3 DEF DeliveredOnceInOrder, Route
  <2>2. Delivered[j] = IF j <= i /\ Route(frames[j]) # Null THEN <<Route(frames[j])>> ELSE <<>>
    BY <1>2, Delivery
  <2>3. j <= i + 1 <=> j <= i \/ j = i + 1 BY <1>3
  <2>. QED BY <1>6, <2>2, <2>3
<1>. QED BY <1>7, <1>8, <1>9, <1>11, <1>12, <1>13 DEF IInv

\* A packet without a channel goes behind the burst: the pending run is
\* handed over and the packet is the last of the postponed ones.
LEMMA PostponeStep == ASSUME IInv, Postpone PROVE IInv'
<1>1. PICK r \in Answers : owner' = HandedOver(r, "lost") BY DEF Postpone
<1>2. /\ pc = "loop" /\ pc' = "loop" /\ i < Len(rx) /\ i' = i + 1 /\ ready' = 0
      /\ sinks' = sinks /\ checkpoint' = checkpoint /\ rx' = rx /\ frames' = frames
      /\ channel' = Null /\ k' = k /\ kept' = kept /\ dlv' = Delivered
      /\ post' = Append(post, i + 1) /\ Route(frames[i + 1]) = Null
  BY DEF Postpone, Behind, Ch
<1>3. /\ i \in Nat /\ ready \in 0..i /\ rx \in Seq(Mbufs) /\ Len(rx) \in Nat
      /\ k = 0 /\ kept = <<>> /\ i + 1 \in 1..Len(rx) /\ post \in Seq(1..Len(rx)) /\ Len(post) \in Nat
  BY <1>2 DEF IInv, TypeOK, Phase
<1>4. "lost" \in Owners \ {"job"} BY DEF Owners
<1>5. /\ owner' \in [Mbufs -> Owners]
      /\ \A j \in 1..Len(rx) : j \notin Pending => owner'[rx[j]] = owner[rx[j]]
      /\ \A m \in Mbufs : owner'[m] = "job" => owner[m] = "job" /\ \A j \in Pending : rx[j] # m
  BY <1>1, <1>4, HandOver
<1>6. /\ post' \in Seq(1..Len(rx)) /\ Len(post') = Len(post) + 1 /\ post'[Len(post) + 1] = i + 1
      /\ \A a \in 1..Len(post) : post'[a] = post[a]
  BY <1>2, <1>3
<1>7. TypeOK'
  <2>1. i' \in 0..Len(rx') /\ ready' \in 0..i' BY <1>2, <1>3
  <2>2. dlv' \in [1..Burst -> Seq(Channels)] BY <1>2, Delivery
  <2>3. k' \in 0..Len(post') /\ post' \in Seq(1..Len(rx')) BY <1>2, <1>3, <1>6
  <2>. QED BY <1>2, <1>5, <2>1, <2>2, <2>3 DEF IInv, TypeOK
<1>8. Phase' /\ Distinct' /\ RunRouted'
  BY <1>2, <1>3 DEF IInv, Phase, Distinct, RunRouted
<1>9. \A a \in 1..Len(post) :
        post[a] \in 1..Len(rx) /\ post[a] <= i /\ Route(frames[post[a]]) = Null
  BY <1>3 DEF IInv, PostUnrouted
<1>10. PostUnrouted'
  <2>1. \A a \in 1..Len(post') : post'[a] <= i + 1 /\ Route(frames[post'[a]]) = Null
    BY <1>2, <1>3, <1>6, <1>9
  <2>2. \A a \in 1..Len(post') : Route(frames[post[a]])' = Null BY <1>2, <2>1 DEF Route
  <2>3. Len(post) <= i BY DEF IInv, PostUnrouted
  <2>. QED BY <1>2, <1>3, <1>6, <2>1, <2>2, <2>3 DEF PostUnrouted
<1>11. RecycledOnce'
  <2>1. \A a, b \in 1..Len(post) : a < b => post[a] < post[b] BY DEF IInv, RecycledOnce
  <2>2. ASSUME NEW a \in 1..Len(post'), NEW b \in 1..Len(post'), a < b
        PROVE  post'[a] < post'[b]
    <3>1. a \in 1..Len(post) /\ (b \in 1..Len(post) \/ b = Len(post) + 1)
      <4>1. a \in 1..(Len(post) + 1) /\ b \in 1..(Len(post) + 1) BY <1>6
      <4>2. Len(post) \in Nat BY <1>3
      <4>. QED BY <2>2, <4>1, <4>2
    <3>2. CASE b = Len(post) + 1
      <4>1. post'[a] = post[a] /\ post'[b] = i + 1 BY <1>6, <3>1, <3>2
      <4>2. post[a] <= i /\ post[a] \in 1..Len(rx) BY <1>9, <3>1
      <4>. QED BY <1>3, <4>1, <4>2
    <3>3. CASE b \in 1..Len(post)
      <4>1. post'[a] = post[a] /\ post'[b] = post[b] BY <1>6, <3>1, <3>3
      <4>. QED BY <2>1, <2>2, <3>1, <3>3, <4>1
    <3>. QED BY <3>1, <3>2, <3>3
  <2>3. kept' = <<>> /\ Len(kept') = 0 BY <1>2, <1>3
  <2>. QED BY <2>2, <2>3 DEF RecycledOnce
<1>12. \A b \in 1..Len(post') : post'[b] \in 1..Len(rx) /\ post'[b] \notin Pending
  <2>1. \A b \in 1..Len(post) : post[b] \notin Pending BY <1>9 DEF IInv, RunRouted, Pending
  <2>2. i + 1 \notin Pending BY <1>3 DEF Pending
  <2>3. \A b \in 1..Len(post') : b \in 1..Len(post) \/ b = Len(post) + 1 BY <1>3, <1>6
  <2>4. i + 1 \in 1..Len(rx) BY <1>3
  <2>. QED BY <1>6, <1>9, <2>1, <2>2, <2>3, <2>4
<1>13. HeldBuffersOwned'
  <2>1. \A j \in (i + 1)..Len(rx) : j \in 1..Len(rx) /\ j \notin Pending /\ owner[rx[j]] = "job"
    BY <1>3 DEF IInv, HeldBuffersOwned, Pending
  <2>2. \A b \in 1..Len(post) : owner[rx[post[b]]] = "job"
    BY <1>3 DEF IInv, HeldBuffersOwned
  <2>3. \A j \in (i + 2)..Len(rx) : owner'[rx[j]] = "job" BY <1>3, <1>5, <2>1
  <2>4. \A b \in 1..Len(post') : owner[rx[post'[b]]] = "job"
    <3>1. \A b \in 1..Len(post') : b \in 1..Len(post) \/ b = Len(post) + 1 BY <1>3, <1>6
    <3>2. owner[rx[i + 1]] = "job" BY <1>3, <2>1
    <3>. QED BY <1>6, <2>2, <3>1, <3>2
  <2>5. \A b \in 1..Len(post') : owner'[rx[post'[b]]] = "job" BY <1>5, <1>12, <2>4
  <2>. QED BY <1>2, <1>3, <2>3, <2>5 DEF HeldBuffersOwned
<1>14. Accounted'
  <2>1. SUFFICES ASSUME NEW m \in Mbufs, owner'[m] = "job"
                 PROVE  \/ \E j \in (i + 2)..Len(rx) : rx[j] = m
                        \/ \E b \in 1..Len(post') : rx[post'[b]] = m
    BY <1>2, <1>3 DEF Accounted
  <2>2. owner[m] = "job" /\ \A j \in Pending : rx[j] # m BY <1>5, <2>1
  <2>3. \/ \E j \in (i - ready + 1)..Len(rx) : rx[j] = m
        \/ \E b \in 1..Len(post) : rx[post[b]] = m
    BY <1>3, <2>2 DEF IInv, Accounted
  <2>4. \A j \in (i - ready + 1)..Len(rx) : j \in Pending \/ j = i + 1 \/ j \in (i + 2)..Len(rx)
    BY <1>3 DEF Pending
  <2>5. (\E b \in 1..Len(post) : rx[post[b]] = m) \/ rx[i + 1] = m
          => \E b \in 1..Len(post') : rx[post'[b]] = m
    BY <1>3, <1>6
  <2>. QED BY <2>2, <2>3, <2>4, <2>5
<1>15. DeliveredOnceInOrder'
  <2>1. SUFFICES ASSUME NEW j \in 1..Len(rx)
                 PROVE  Delivered[j] = IF j <= i + 1 /\ Route(frames[j]) # Null
                                       THEN <<Route(frames[j])>> ELSE <<>>
    BY <1>2, <1>3 DEF DeliveredOnceInOrder, Route
  <2>2. Delivered[j] = IF j <= i /\ Route(frames[j]) # Null THEN <<Route(frames[j])>> ELSE <<>>
    BY <1>2, Delivery
  <2>3. j <= i + 1 <=> j <= i \/ j = i + 1 BY <1>3
  <2>. QED BY <1>2, <2>2, <2>3
<1>. QED BY <1>7, <1>8, <1>10, <1>11, <1>13, <1>14, <1>15 DEF IInv

\* A packet for the channel of the pending run makes the run longer.
LEMMA ExtendStep == ASSUME IInv, Extend PROVE IInv'
<1>1. /\ pc = "loop" /\ pc' = "loop" /\ i < Len(rx) /\ i' = i + 1 /\ ready' = ready + 1
      /\ sinks' = sinks /\ checkpoint' = checkpoint /\ rx' = rx /\ frames' = frames
      /\ channel' = channel /\ post' = post /\ k' = k /\ kept' = kept /\ dlv' = dlv
      /\ owner' = owner /\ Route(frames[i + 1]) = channel /\ channel # Null
  BY DEF Extend, Ch
<1>2. i \in Nat /\ ready \in 0..i /\ Len(rx) \in Nat /\ i' - ready' = i - ready /\ Len(post) \in Nat
  BY <1>1 DEF IInv, TypeOK
<1>3. TypeOK'
  <2>1. i' \in 0..Len(rx') /\ ready' \in 0..i' BY <1>1, <1>2
  <2>. QED BY <1>1, <2>1 DEF IInv, TypeOK
<1>4. Phase' /\ Distinct' /\ RecycledOnce' BY <1>1 DEF IInv, Phase, Distinct, RecycledOnce
<1>5. HeldBuffersOwned' /\ Accounted' BY <1>1, <1>2 DEF IInv, HeldBuffersOwned, Accounted
<1>6. RunRouted'
  <2>1. \A j \in (i' - ready' + 1)..i' : j \in (i - ready + 1)..i \/ j = i + 1 BY <1>1, <1>2
  <2>2. \A j \in (i' - ready' + 1)..i' : Route(frames[j]) = channel BY <1>1, <2>1 DEF IInv, RunRouted
  <2>. QED BY <1>1, <2>2 DEF RunRouted, Route
<1>7. PostUnrouted'
  <2>1. \A a \in 1..Len(post) :
          post[a] \in 1..Len(rx) /\ post[a] <= i /\ Route(frames[post[a]]) = Null
    BY DEF IInv, PostUnrouted, TypeOK
  <2>2. \A a \in 1..Len(post) : Route(frames[post[a]])' = Null BY <1>1, <2>1 DEF Route
  <2>3. Len(post) <= i BY DEF IInv, PostUnrouted
  <2>. QED BY <1>1, <1>2, <2>1, <2>2, <2>3 DEF PostUnrouted
<1>8. DeliveredOnceInOrder' BY <1>1, <1>2 DEF IInv, DeliveredOnceInOrder, Route
<1>. QED BY <1>3, <1>4, <1>5, <1>6, <1>7, <1>8 DEF IInv

\* A packet for another channel: the old run is handed over and the packet is
\* the new one.
LEMMA SwitchStep == ASSUME IInv, Switch PROVE IInv'
<1>1. PICK r \in Answers : owner' = HandedOver(r, "pool") BY DEF Switch
<1>2. /\ pc = "loop" /\ pc' = "loop" /\ i < Len(rx) /\ i' = i + 1 /\ ready' = 1
      /\ sinks' = sinks /\ checkpoint' = checkpoint /\ rx' = rx /\ frames' = frames
      /\ post' = post /\ k' = k /\ kept' = kept /\ dlv' = Delivered
      /\ channel' = Route(frames[i + 1]) /\ Route(frames[i + 1]) # Null
  BY DEF Switch, Ch
<1>3. /\ i \in Nat /\ ready \in 0..i /\ rx \in Seq(Mbufs) /\ Len(rx) \in Nat
      /\ k = 0 /\ kept = <<>> /\ i + 1 \in 1..Len(rx) /\ post \in Seq(1..Len(rx)) /\ Len(post) \in Nat
      /\ sinks \in [Ports -> Channels \cup {Null}] /\ i' - ready' = i
  BY <1>2 DEF IInv, TypeOK, Phase
<1>4. "pool" \in Owners \ {"job"} BY DEF Owners
<1>5. /\ owner' \in [Mbufs -> Owners]
      /\ \A j \in 1..Len(rx) : j \notin Pending => owner'[rx[j]] = owner[rx[j]]
      /\ \A m \in Mbufs : owner'[m] = "job" => owner[m] = "job" /\ \A j \in Pending : rx[j] # m
  BY <1>1, <1>4, HandOver
<1>6. TypeOK'
  <2>1. i' \in 0..Len(rx') /\ ready' \in 0..i' BY <1>2, <1>3
  <2>2. dlv' \in [1..Burst -> Seq(Channels)] BY <1>2, Delivery
  <2>3. channel' \in Channels \cup {Null} BY <1>2, <1>3 DEF Route
  <2>. QED BY <1>2, <1>5, <2>1, <2>2, <2>3 DEF IInv, TypeOK
<1>7. Phase' /\ Distinct' /\ RecycledOnce' BY <1>2 DEF IInv, Phase, Distinct, RecycledOnce
<1>8. RunRouted'
  <2>1. \A j \in (i' - ready' + 1)..i' : j = i + 1 BY <1>2, <1>3
  <2>. QED BY <1>2, <2>1 DEF RunRouted, Route
<1>9. \A a \in 1..Len(post) :
        post[a] \in 1..Len(rx) /\ post[a] <= i /\ Route(frames[post[a]]) = Null
  BY <1>3 DEF IInv, PostUnrouted
<1>10. PostUnrouted'
  <2>1. \A a \in 1..Len(post) : Route(frames[post[a]])' = Null BY <1>2, <1>9 DEF Route
  <2>2. Len(post) <= i BY DEF IInv, PostUnrouted
  <2>. QED BY <1>2, <1>3, <1>9, <2>1, <2>2 DEF PostUnrouted
<1>11. HeldBuffersOwned'
  <2>1. \A j \in (i + 1)..Len(rx) : j \in 1..Len(rx) /\ j \notin Pending /\ owner[rx[j]] = "job"
    BY <1>3 DEF IInv, HeldBuffersOwned, Pending
  <2>2. \A b \in 1..Len(post) : owner[rx[post[b]]] = "job"
    BY <1>3 DEF IInv, HeldBuffersOwned
  <2>5. \A b \in 1..Len(post) : post[b] \notin Pending BY <1>9 DEF IInv, RunRouted, Pending
  <2>3. \A j \in (i + 1)..Len(rx) : owner'[rx[j]] = "job" BY <1>5, <2>1
  <2>4. \A b \in 1..Len(post) : owner'[rx[post[b]]] = "job" BY <1>5, <1>9, <2>2, <2>5
  <2>. QED BY <1>2, <1>3, <2>3, <2>4 DEF HeldBuffersOwned
<1>12. Accounted'
  <2>1. SUFFICES ASSUME NEW m \in Mbufs, owner'[m] = "job"
                 PROVE  \/ \E j \in (i + 1)..Len(rx) : rx[j] = m
                        \/ \E b \in 1..Len(post) : rx[post[b]] = m
    BY <1>2, <1>3 DEF Accounted
  <2>2. owner[m] = "job" /\ \A j \in Pending : rx[j] # m BY <1>5, <2>1
  <2>3. \/ \E j \in (i - ready + 1)..Len(rx) : rx[j] = m
        \/ \E b \in 1..Len(post) : rx[post[b]] = m
    BY <1>3, <2>2 DEF IInv, Accounted
  <2>4. \A j \in (i - ready + 1)..Len(rx) : j \in Pending \/ j \in (i + 1)..Len(rx)
    BY <1>3 DEF Pending
  <2>. QED BY <2>2, <2>3, <2>4
<1>13. DeliveredOnceInOrder'
  <2>1. \A j \in 1..Len(rx) :
          Delivered[j] = IF j <= i /\ Route(frames[j]) # Null THEN <<Route(frames[j])>> ELSE <<>>
    BY <1>2, Delivery
  <2>. QED BY <1>2, <1>3, <2>1 DEF DeliveredOnceInOrder, Route
<1>. QED BY <1>6, <1>7, <1>8, <1>10, <1>11, <1>12, <1>13 DEF IInv

\* The end of the loop: the last run is handed over and only the postponed
\* packets are left to the job.
LEMMA FinishStep == ASSUME IInv, Finish PROVE IInv'
<1>1. PICK r \in Answers : owner' = HandedOver(r, "lost") BY DEF Finish
<1>2. /\ pc = "loop" /\ pc' = "post" /\ i = Len(rx) /\ i' = i /\ ready' = 0
      /\ sinks' = sinks /\ checkpoint' = checkpoint /\ rx' = rx /\ frames' = frames
      /\ post' = post /\ k' = k /\ kept' = kept /\ dlv' = Delivered /\ channel' = channel
  BY DEF Finish
<1>3. /\ i \in Nat /\ ready \in 0..i /\ rx \in Seq(Mbufs) /\ Len(rx) \in Nat
      /\ k = 0 /\ kept = <<>> /\ post \in Seq(1..Len(rx)) /\ Len(post) \in Nat
  BY <1>2 DEF IInv, TypeOK, Phase
<1>4. "lost" \in Owners \ {"job"} BY DEF Owners
<1>5. /\ owner' \in [Mbufs -> Owners]
      /\ \A j \in 1..Len(rx) : j \notin Pending => owner'[rx[j]] = owner[rx[j]]
      /\ \A m \in Mbufs : owner'[m] = "job" => owner[m] = "job" /\ \A j \in Pending : rx[j] # m
  BY <1>1, <1>4, HandOver
<1>6. TypeOK'
  <2>1. i' \in 0..Len(rx') /\ ready' \in 0..i' BY <1>2, <1>3
  <2>2. dlv' \in [1..Burst -> Seq(Channels)] BY <1>2, Delivery
  <2>. QED BY <1>2, <1>5, <2>1, <2>2 DEF IInv, TypeOK
<1>7. Phase' /\ Distinct' /\ RecycledOnce' /\ RunRouted'
  BY <1>2, <1>3 DEF IInv, Phase, Distinct, RecycledOnce, RunRouted
<1>8. PostUnrouted' BY <1>2 DEF IInv, PostUnrouted, Route
<1>9. HeldBuffersOwned'
  <2>1. \A b \in 1..Len(post) : post[b] \in 1..Len(rx) /\ Route(frames[post[b]]) = Null
    BY <1>3 DEF IInv, PostUnrouted
  <2>3. \A b \in 1..Len(post) : post[b] \notin Pending BY <2>1 DEF IInv, RunRouted, Pending
  <2>4. \A b \in 1..Len(post) : owner[rx[post[b]]] = "job" BY <1>3 DEF IInv, HeldBuffersOwned
  <2>2. \A b \in 1..Len(post) : owner'[rx[post[b]]] = "job" BY <1>5, <2>1, <2>3, <2>4
  <2>. QED BY <1>2, <1>3, <2>2 DEF HeldBuffersOwned
<1>10. Accounted'
  <2>1. SUFFICES ASSUME NEW m \in Mbufs, owner'[m] = "job"
                 PROVE  \E b \in 1..Len(post) : rx[post[b]] = m
    BY <1>2, <1>3 DEF Accounted
  <2>2. owner[m] = "job" /\ \A j \in Pending : rx[j] # m BY <1>5, <2>1
  <2>3. \/ \E j \in (i - ready + 1)..Len(rx) : rx[j] = m
        \/ \E b \in 1..Len(post) : rx[post[b]] = m
    BY <1>3, <2>2 DEF IInv, Accounted
  <2>. QED BY <1>2, <2>2, <2>3 DEF Pending
<1>11. DeliveredOnceInOrder'
  <2>1. \A j \in 1..Len(rx) :
          Delivered[j] = IF j <= i /\ Route(frames[j]) # Null THEN <<Route(frames[j])>> ELSE <<>>
    BY <1>2, Delivery
  <2>. QED BY <1>2, <1>3, <2>1 DEF DeliveredOnceInOrder, Route
<1>. QED BY <1>6, <1>7, <1>8, <1>9, <1>10, <1>11 DEF IInv

-----------------------------------------------------------------------------
\* process_rx_packets: k + 1 is the next postponed packet.
LEMMA NextPostponed ==
  ASSUME IInv, pc = "post", k < Len(post)
  PROVE  /\ k \in Nat /\ Len(post) \in Nat /\ Len(kept) \in Nat /\ k + 1 \in 1..Len(post)
         /\ post[k + 1] \in 1..Len(rx) /\ rx[post[k + 1]] \in Mbufs
         /\ owner[rx[post[k + 1]]] = "job"
         /\ \A b \in (k + 2)..Len(post) : b \in 1..Len(post) /\ post[k + 1] < post[b]
         /\ \A a \in 1..Len(kept) : kept[a] < post[k + 1]
         /\ i = Len(rx) /\ ready = 0 /\ i - ready + 1 > Len(rx)
<1>1. /\ k \in Nat /\ Len(post) \in Nat /\ Len(kept) \in Nat /\ k + 1 \in 1..Len(post)
      /\ i = Len(rx) /\ ready = 0 /\ Len(rx) \in Nat
  BY DEF IInv, TypeOK, Phase
<1>2. post[k + 1] \in 1..Len(rx) BY <1>1 DEF IInv, TypeOK
<1>3. rx[post[k + 1]] \in Mbufs BY <1>2 DEF IInv, TypeOK
<1>4. owner[rx[post[k + 1]]] = "job" BY <1>1 DEF IInv, HeldBuffersOwned
<1>5. \A b \in (k + 2)..Len(post) : b \in 1..Len(post) /\ k + 1 < b BY <1>1
<1>6. \A b \in (k + 2)..Len(post) : post[k + 1] < post[b]
  BY <1>1, <1>5 DEF IInv, RecycledOnce
<1>7. \A a \in 1..Len(kept) : kept[a] < post[k + 1]
  BY <1>1 DEF IInv, RecycledOnce
<1>. QED BY <1>1, <1>2, <1>3, <1>4, <1>5, <1>6, <1>7

\* process_rx_packets gives an answered packet to the service ring; it is none
\* of the packets still to be handled and none of those kept.
LEMMA AnswerStep == ASSUME IInv, Answer PROVE IInv'
<1>1. /\ pc = "post" /\ pc' = pc /\ k < Len(post) /\ k' = k + 1 /\ i' = i /\ ready' = ready
      /\ sinks' = sinks /\ checkpoint' = checkpoint /\ rx' = rx /\ frames' = frames
      /\ post' = post /\ kept' = kept /\ dlv' = dlv /\ channel' = channel
      /\ owner' = Give(owner, {rx[post[k + 1]]}, "service")
  BY DEF Answer
<1>2. /\ \A m \in Mbufs : owner'[m] = IF m = rx[post[k + 1]] THEN "service" ELSE owner[m]
      /\ owner' \in [Mbufs -> Owners]
  BY <1>1 DEF Give, Owners, IInv, TypeOK
<1>3. \A p \in 1..Len(rx) : p # post[k + 1] => rx[p] \in Mbufs /\ rx[p] # rx[post[k + 1]]
  <2>1. post[k + 1] \in 1..Len(rx) BY <1>1, NextPostponed
  <2>2. \A p \in 1..Len(rx) : rx[p] \in Mbufs BY DEF IInv, TypeOK
  <2>. QED BY <2>1, <2>2 DEF IInv, Distinct
<1>4. TypeOK'
  <2>1. k' \in 0..Len(post') BY <1>1, NextPostponed
  <2>. QED BY <1>1, <1>2, <2>1 DEF IInv, TypeOK
<1>5. Phase' /\ Distinct' /\ RunRouted' /\ PostUnrouted'
  BY <1>1 DEF IInv, Phase, Distinct, RunRouted, PostUnrouted, Route
<1>6. DeliveredOnceInOrder' BY <1>1 DEF IInv, DeliveredOnceInOrder, Route
<1>7. \A b \in (k' + 1)..Len(post) : b \in (k + 1)..Len(post) /\ b \in (k + 2)..Len(post)
  BY <1>1, NextPostponed
<1>8. RecycledOnce' BY <1>1, <1>7 DEF IInv, RecycledOnce
<1>9. HeldBuffersOwned'
  <2>1. \A b \in (k + 2)..Len(post) : post[b] \in 1..Len(rx) /\ post[b] # post[k + 1]
    <3>1. \A b \in 1..Len(post) : post[b] \in 1..Len(rx) BY DEF IInv, TypeOK
    <3>2. \A b \in (k + 2)..Len(post) : b \in 1..Len(post) /\ post[k + 1] < post[b]
      BY <1>1, NextPostponed
    <3>3. post[k + 1] \in 1..Len(rx) BY <1>1, NextPostponed
    <3>. QED BY <3>1, <3>2, <3>3
  <2>2. \A b \in (k' + 1)..Len(post) : owner'[rx[post[b]]] = "job"
    BY <1>2, <1>3, <1>7, <2>1 DEF IInv, HeldBuffersOwned
  <2>3. \A a \in 1..Len(kept) : kept[a] \in 1..Len(rx) /\ kept[a] # post[k + 1]
    <3>1. \A a \in 1..Len(kept) : kept[a] \in 1..Len(rx) BY DEF IInv, TypeOK
    <3>2. \A a \in 1..Len(kept) : kept[a] < post[k + 1] BY <1>1, NextPostponed
    <3>3. post[k + 1] \in 1..Len(rx) BY <1>1, NextPostponed
    <3>. QED BY <3>1, <3>2, <3>3
  <2>4. \A a \in 1..Len(kept) : owner'[rx[kept[a]]] = "job"
    BY <1>2, <1>3, <2>3 DEF IInv, HeldBuffersOwned
  <2>5. \A j \in (i - ready + 1)..Len(rx) : FALSE BY <1>1, NextPostponed DEF IInv, TypeOK
  <2>. QED BY <1>1, <2>2, <2>4, <2>5 DEF HeldBuffersOwned
<1>10. Accounted'
  <2>1. SUFFICES ASSUME NEW m \in Mbufs, owner'[m] = "job"
                 PROVE  \/ \E b \in (k' + 1)..Len(post) : rx[post[b]] = m
                        \/ \E a \in 1..Len(kept) : rx[kept[a]] = m
    BY <1>1 DEF Accounted
  <2>2. owner[m] = "job" /\ m # rx[post[k + 1]] BY <1>2, <2>1
  <2>3. \A j \in (i - ready + 1)..Len(rx) : FALSE BY <1>1, NextPostponed DEF IInv, TypeOK
  <2>4. \/ \E b \in (k + 1)..Len(post) : rx[post[b]] = m
        \/ \E a \in 1..Len(kept) : rx[kept[a]] = m
    BY <2>2, <2>3 DEF IInv, Accounted
  <2>5. \A b \in (k + 1)..Len(post) : b = k + 1 \/ b \in (k' + 1)..Len(post)
    BY <1>1, NextPostponed
  <2>. QED BY <2>2, <2>4, <2>5
<1>. QED BY <1>4, <1>5, <1>6, <1>8, <1>9, <1>10 DEF IInv

\* process_rx_packets keeps a packet: it moves from the packets still to be
\* handled to the kept ones, behind all of them.
LEMMA KeepStep == ASSUME IInv, Keep PROVE IInv'
<1>1. /\ pc = "post" /\ pc' = pc /\ k < Len(post) /\ k' = k + 1 /\ i' = i /\ ready' = ready
      /\ sinks' = sinks /\ checkpoint' = checkpoint /\ rx' = rx /\ frames' = frames
      /\ post' = post /\ owner' = owner /\ dlv' = dlv /\ channel' = channel
      /\ kept' = Append(kept, post[k + 1])
  BY DEF Keep, Compact
<1>2. /\ k \in Nat /\ Len(post) \in Nat /\ Len(kept) \in Nat /\ post[k + 1] \in 1..Len(rx)
      /\ kept \in Seq(1..Len(rx)) /\ k + 1 \in 1..Len(post)
  BY <1>1, NextPostponed DEF IInv, TypeOK
<1>3. /\ kept' \in Seq(1..Len(rx)) /\ Len(kept') = Len(kept) + 1
      /\ kept'[Len(kept) + 1] = post[k + 1] /\ \A a \in 1..Len(kept) : kept'[a] = kept[a]
  BY <1>1, <1>2
<1>4. /\ \A a \in 1..Len(kept') : a \in 1..Len(kept) \/ a = Len(kept) + 1
      /\ \A a \in 1..Len(kept) : a \in 1..Len(kept') /\ Len(kept) + 1 \in 1..Len(kept')
      /\ Len(kept) + 1 \in 1..Len(kept')
  BY <1>2, <1>3
<1>5. TypeOK'
  <2>1. k' \in 0..Len(post') BY <1>1, <1>2
  <2>. QED BY <1>1, <1>3, <2>1 DEF IInv, TypeOK
<1>6. Phase' /\ Distinct' /\ RunRouted' /\ PostUnrouted'
  BY <1>1 DEF IInv, Phase, Distinct, RunRouted, PostUnrouted, Route
<1>7. DeliveredOnceInOrder' BY <1>1 DEF IInv, DeliveredOnceInOrder, Route
<1>8. \A b \in (k' + 1)..Len(post) :
        b \in (k + 1)..Len(post) /\ b \in (k + 2)..Len(post) /\ post[k + 1] < post[b]
  BY <1>1, <1>2, NextPostponed
<1>9. RecycledOnce'
  <2>1. \A a \in 1..Len(kept) : kept[a] < post[k + 1] BY <1>1, NextPostponed
  <2>2. ASSUME NEW a \in 1..Len(kept'), NEW b \in 1..Len(kept'), a < b
        PROVE  kept'[a] < kept'[b]
    <3>1. a \in 1..Len(kept)
      <4>1. a \in 1..(Len(kept) + 1) /\ b \in 1..(Len(kept) + 1) BY <1>3
      <4>. QED BY <1>2, <2>2, <4>1
    <3>2. CASE b = Len(kept) + 1 BY <1>3, <2>1, <3>1, <3>2
    <3>3. CASE b \in 1..Len(kept)
      <4>1. kept'[a] = kept[a] /\ kept'[b] = kept[b] BY <1>3, <3>1, <3>3
      <4>. QED BY <2>2, <3>1, <3>3, <4>1 DEF IInv, RecycledOnce
    <3>. QED BY <1>4, <3>2, <3>3
  <2>3. ASSUME NEW a \in 1..Len(kept'), NEW b \in (k' + 1)..Len(post)
        PROVE  kept'[a] < post[b]
    <3>1. CASE a = Len(kept) + 1 BY <1>3, <1>8, <3>1
    <3>2. CASE a \in 1..Len(kept) BY <1>3, <1>8, <3>2 DEF IInv, RecycledOnce
    <3>. QED BY <1>4, <3>1, <3>2
  <2>. QED BY <1>1, <2>2, <2>3 DEF IInv, RecycledOnce
<1>10. HeldBuffersOwned'
  <2>1. \A a \in 1..Len(kept') : owner[rx[kept'[a]]] = "job"
    <3>1. owner[rx[post[k + 1]]] = "job" BY <1>1, NextPostponed
    <3>2. \A a \in 1..Len(kept) : owner[rx[kept[a]]] = "job" BY DEF IInv, HeldBuffersOwned
    <3>. QED BY <1>3, <1>4, <3>1, <3>2
  <2>2. \A b \in (k' + 1)..Len(post) : owner[rx[post[b]]] = "job"
    BY <1>8 DEF IInv, HeldBuffersOwned
  <2>. QED BY <1>1, <2>1, <2>2 DEF IInv, HeldBuffersOwned
<1>11. Accounted'
  <2>1. SUFFICES ASSUME NEW m \in Mbufs, owner[m] = "job",
                        ~\E j \in (i - ready + 1)..Len(rx) : rx[j] = m
                 PROVE  \/ \E b \in (k' + 1)..Len(post) : rx[post[b]] = m
                        \/ \E a \in 1..Len(kept') : rx[kept'[a]] = m
    BY <1>1 DEF Accounted
  <2>2. \/ \E b \in (k + 1)..Len(post) : rx[post[b]] = m
        \/ \E a \in 1..Len(kept) : rx[kept[a]] = m
    BY <2>1 DEF IInv, Accounted
  <2>3. \A b \in (k + 1)..Len(post) : b = k + 1 \/ b \in (k' + 1)..Len(post) BY <1>1, <1>2
  <2>. QED BY <1>3, <1>4, <2>2, <2>3
<1>. QED BY <1>5, <1>6, <1>7, <1>9, <1>10, <1>11 DEF IInv

\* The kept packets are freed: no buffer of the job is left when process()
\* returns.
LEMMA RecycleStep == ASSUME IInv, Recycle PROVE IInv'
<1>1. /\ pc = "post" /\ pc' = "poll" /\ k = Len(post) /\ sinks' = sinks
      /\ rx' = <<>> /\ frames' = <<>> /\ i' = 0 /\ ready' = 0 /\ channel' = Null
      /\ post' = <<>> /\ k' = 0 /\ kept' = <<>> /\ dlv' = [j \in 1..Burst |-> <<>>]
      /\ owner' = Give(owner, {rx[kept[j]] : j \in 1..Len(kept)}, "pool")
  BY DEF Recycle
<1>2. checkpoint' \in 0..(Wrap - 1)
  <2>1. checkpoint \in Nat BY CheckpointAssumption DEF IInv, TypeOK
  <2>2. checkpoint + 1 + (IF Len(rx) = Len(post) /\ Len(post) # Burst THEN 2 * Burst ELSE 0) \in Nat
    BY <2>1, BurstAssumption
  <2>. QED BY <2>2, ModRange DEF Recycle
<1>3. owner' \in [Mbufs -> Owners] BY <1>1 DEF Give, Owners, IInv, TypeOK
<1>4. \A m \in Mbufs : owner'[m] # "job"
  <2>1. \A m \in Mbufs : owner[m] = "job" => \E a \in 1..Len(kept) : rx[kept[a]] = m
    <3>1. i = Len(rx) /\ ready = 0 /\ Len(rx) \in Nat /\ k \in Nat
      BY <1>1 DEF IInv, Phase, TypeOK
    <3>2. \A j \in (i - ready + 1)..Len(rx) : FALSE BY <3>1
    <3>3. \A b \in (k + 1)..Len(post) : FALSE BY <1>1, <3>1
    <3>. QED BY <3>2, <3>3 DEF IInv, Accounted
  <2>. QED BY <1>1, <2>1 DEF Give
<1>5. TypeOK'
  <2>1. /\ rx' \in Seq(Mbufs) /\ frames' \in Seq(Frames)
        /\ post' \in Seq(1..Len(rx')) /\ kept' \in Seq(1..Len(rx'))
    BY <1>1
  <2>2. Len(rx') = 0 /\ Len(frames') = 0 /\ Len(post') = 0 BY <1>1
  <2>3. dlv' \in [1..Burst -> Seq(Channels)] BY <1>1
  <2>4. /\ Len(frames') = Len(rx') /\ Len(rx') <= Burst
        /\ i' \in 0..Len(rx') /\ ready' \in 0..i' /\ k' \in 0..Len(post')
    BY <1>1, <2>2, BurstAssumption
  <2>5. sinks' \in [Ports -> Channels \cup {Null}] BY <1>1 DEF IInv, TypeOK
  <2>. QED BY <1>1, <1>2, <1>3, <2>1, <2>3, <2>4, <2>5 DEF TypeOK
<1>6. Phase' /\ Distinct' /\ RunRouted' /\ PostUnrouted'
  BY <1>1 DEF Phase, Distinct, RunRouted, PostUnrouted
<1>7. RecycledOnce' /\ HeldBuffersOwned' /\ DeliveredOnceInOrder'
  BY <1>1 DEF RecycledOnce, HeldBuffersOwned, DeliveredOnceInOrder
<1>8. Accounted' BY <1>4 DEF Accounted
<1>. QED BY <1>5, <1>6, <1>7, <1>8 DEF IInv

\* A buffer that is not the job's goes back to the pool (a channel frees a
\* packet, or the driver frees an answer): nothing the job relies on changes.
LEMMA FreeStep ==
  ASSUME IInv, NEW m \in Mbufs, owner[m] # "job", owner' = [owner EXCEPT ![m] = "pool"],
         UNCHANGED <<pc, sinks, checkpoint, rx, frames, i, ready, channel, post, k, kept, dlv>>
  PROVE  IInv'
<1>1. owner' \in [Mbufs -> Owners] BY DEF IInv, TypeOK, Owners
<1>2. \A n \in Mbufs : owner[n] = "job" <=> owner'[n] = "job" BY DEF IInv, TypeOK
<1>3. TypeOK' BY <1>1 DEF IInv, TypeOK
<1>4. Phase' /\ Distinct' /\ RunRouted' /\ PostUnrouted' /\ RecycledOnce' /\ DeliveredOnceInOrder'
  BY DEF IInv, Phase, Distinct, RunRouted, PostUnrouted, RecycledOnce, DeliveredOnceInOrder, Route
<1>5. Accounted' BY <1>2 DEF IInv, Accounted
<1>6. HeldBuffersOwned'
  <2>1. \A j \in 1..Len(rx) : rx[j] \in Mbufs
    <3>1. rx \in Seq(Mbufs) BY DEF IInv, TypeOK
    <3>. QED BY <3>1
  <2>2. \A j \in 1..Len(post) : post[j] \in 1..Len(rx)
    <3>1. post \in Seq(1..Len(rx)) BY DEF IInv, TypeOK
    <3>. QED BY <3>1
  <2>3. \A j \in 1..Len(kept) : kept[j] \in 1..Len(rx)
    <3>1. kept \in Seq(1..Len(rx)) BY DEF IInv, TypeOK
    <3>. QED BY <3>1
  <2>4. Len(rx) \in Nat /\ i \in 0..Len(rx) /\ ready \in 0..i BY DEF IInv, TypeOK
  <2>5. Len(post) \in Nat /\ k \in 0..Len(post) BY DEF IInv, TypeOK
  <2>6. \A j \in (i - ready + 1)..Len(rx) : j \in 1..Len(rx) BY <2>4
  <2>7. \A j \in (k + 1)..Len(post) : j \in 1..Len(post) BY <2>5
  <2>. QED BY <1>2, <2>1, <2>2, <2>3, <2>6, <2>7 DEF IInv, HeldBuffersOwned
<1>. QED BY <1>3, <1>4, <1>5, <1>6 DEF IInv

\* The invariant is inductive: every step of process(), of a channel or of the
\* driver preserves it.
LEMMA NextStep == IInv /\ [Next]_vars => IInv'
<1>. SUFFICES ASSUME IInv, [Next]_vars PROVE IInv' OBVIOUS
<1>1. CASE Idle BY <1>1, IdleStep
<1>2. CASE Poll BY <1>2, PollStep
<1>3. CASE Discard BY <1>3, DiscardStep
<1>4. CASE Postpone BY <1>4, PostponeStep
<1>5. CASE Extend BY <1>5, ExtendStep
<1>6. CASE Switch BY <1>6, SwitchStep
<1>7. CASE Finish BY <1>7, FinishStep
<1>8. CASE Answer BY <1>8, AnswerStep
<1>9. CASE Keep BY <1>9, KeepStep
<1>10. CASE Recycle BY <1>10, RecycleStep
<1>11. ASSUME NEW m \in Mbufs, ChannelFree(m) PROVE IInv'
  BY <1>11, FreeStep DEF ChannelFree
<1>12. ASSUME NEW m \in Mbufs, ServiceSent(m) PROVE IInv'
  BY <1>12, FreeStep DEF ServiceSent
<1>13. CASE UNCHANGED vars
  <2>1. /\ pc' = pc /\ sinks' = sinks /\ checkpoint' = checkpoint /\ rx' = rx /\ frames' = frames
        /\ i' = i /\ ready' = ready /\ channel' = channel /\ post' = post /\ k' = k
        /\ kept' = kept /\ owner' = owner /\ dlv' = dlv
    BY <1>13 DEF vars
  <2>2. TypeOK' /\ Phase' /\ Distinct' BY <2>1 DEF IInv, TypeOK, Phase, Distinct
  <2>3. RunRouted' /\ PostUnrouted' BY <2>1 DEF IInv, RunRouted, PostUnrouted, Route
  <2>4. RecycledOnce' /\ HeldBuffersOwned' BY <2>1 DEF IInv, RecycledOnce, HeldBuffersOwned
  <2>5. Accounted' BY <2>1 DEF IInv, Accounted
  <2>6. DeliveredOnceInOrder' BY <2>1 DEF IInv, DeliveredOnceInOrder, Route
  <2>. QED BY <2>2, <2>3, <2>4, <2>5, <2>6 DEF IInv
<1>. QED BY <1>1, <1>2, <1>3, <1>4, <1>5, <1>6, <1>7, <1>8, <1>9, <1>10, <1>11, <1>12, <1>13
         DEF Next, Step

-----------------------------------------------------------------------------
\* The inductive invariant holds in every state of process().
THEOREM Invariance == Spec => []IInv
BY InitStep, NextStep, PTL DEF Spec

\* The variables of process() keep their types: in particular the pending run
\* and the postponed packets stay inside the burst.
THEOREM TypeCorrect == Spec => []TypeOK
<1>1. IInv => TypeOK BY DEF IInv
<1>. QED BY <1>1, Invariance, PTL

\* Every packet of a burst reaches the channel of its port, once and in order,
\* however the burst mixes channels, strangers and broken frames.
THEOREM DeliveryCorrect == Spec => []DeliveredOnceInOrder
<1>1. IInv => DeliveredOnceInOrder BY DEF IInv
<1>. QED BY <1>1, Invariance, PTL

\* process() never frees or hands over a buffer that is no longer its own, the
\* bulk free of the kept packets frees none twice, and the postponed packets fit
\* behind the burst whenever buffers_ has room for twice burst_size_.
THEOREM BuffersCorrect == Spec => []BuffersSafe
<1>1. IInv => HeldBuffersOwned /\ RecycledOnce BY DEF IInv
<1>2. IInv => PostponedFits
  <2>. SUFFICES ASSUME IInv PROVE PostponedFits OBVIOUS
  <2>1. Len(rx) \in Nat /\ Len(post) \in Nat /\ i \in 0..Len(rx) /\ Len(rx) <= Burst
    BY DEF IInv, TypeOK
  <2>2. Len(post) <= i BY DEF IInv, PostUnrouted
  <2>. QED BY <2>1, <2>2, BurstAssumption DEF PostponedFits, Region
<1>3. IInv => BuffersSafe BY <1>1, <1>2 DEF BuffersSafe
<1>. QED BY <1>3, Invariance, PTL

\* No path through the two loops of process() forgets a buffer of the burst.
THEOREM NothingForgotten == Spec => []NoLeak
<1>1. IInv => NoLeak
  <2>. SUFFICES ASSUME IInv, pc = "poll", NEW m \in Mbufs, owner[m] = "job" PROVE FALSE
    BY DEF NoLeak, Owned
  <2>1. Len(rx) = 0 /\ Len(post) = 0 /\ Len(kept) = 0 /\ i = 0 /\ ready = 0 /\ k = 0
    BY DEF IInv, Phase
  <2>. QED BY <2>1 DEF IInv, Accounted
<1>. QED BY <1>1, Invariance, PTL

\* When every channel takes all it is given, as sockperf_channel::enqueue
\* does, no buffer is ever lost: the results of enqueue that process() does not
\* look at are all 0.
THEOREM NoneLostWhenNoneRefused == ASSUME Refusing = {} PROVE Spec => []RefusedIsRecycled
<1>1. Init => RefusedIsRecycled BY DEF Init, RefusedIsRecycled, Owned
<1>2. ASSUME IInv, RefusedIsRecycled, [Next]_vars PROVE RefusedIsRecycled'
  <2>1. \A m \in Mbufs : owner[m] # "lost" BY <1>2 DEF RefusedIsRecycled, Owned
  <2>2. SUFFICES \A m \in Mbufs : owner'[m] # "lost" BY DEF RefusedIsRecycled, Owned
  <2>3. ASSUME NEW r \in Answers, NEW to PROVE \A m \in Mbufs : HandedOver(r, to)[m] # "lost"
    <3>1. r = 0 /\ i \in Nat /\ ready \in Nat BY <1>2 DEF Answers, IInv, TypeOK
    <3>2. Refused(r) = {} BY <3>1 DEF Refused
    <3>. QED BY <2>1, <3>2 DEF HandedOver, Give
  <2>4. CASE Idle BY <2>1, <2>4 DEF Idle
  <2>5. CASE Poll BY <2>1, <2>5 DEF Poll, Give
  <2>6. CASE Discard
    <3>1. PICK r \in Answers : owner' = Give(HandedOver(r, "lost"), {rx[i + 1]}, "pool")
      BY <2>6 DEF Discard
    <3>2. \A m \in Mbufs : owner'[m] \in {"pool", HandedOver(r, "lost")[m]} BY <3>1 DEF Give
    <3>. QED BY <2>3, <3>2
  <2>7. CASE Postpone BY <2>3, <2>7 DEF Postpone
  <2>8. CASE Extend BY <2>1, <2>8 DEF Extend
  <2>9. CASE Switch BY <2>3, <2>9 DEF Switch
  <2>10. CASE Finish BY <2>3, <2>10 DEF Finish
  <2>11. CASE Answer BY <2>1, <2>11 DEF Answer, Give
  <2>12. CASE Keep BY <2>1, <2>12 DEF Keep
  <2>13. CASE Recycle BY <2>1, <2>13 DEF Recycle, Give
  <2>14. ASSUME NEW m \in Mbufs, ChannelFree(m) \/ ServiceSent(m)
         PROVE  \A n \in Mbufs : owner'[n] # "lost"
    BY <1>2, <2>1, <2>14 DEF ChannelFree, ServiceSent, IInv, TypeOK
  <2>15. CASE UNCHANGED vars BY <2>1, <2>15 DEF vars
  <2>. QED BY <1>2, <2>4, <2>5, <2>6, <2>7, <2>8, <2>9, <2>10, <2>11, <2>12, <2>13, <2>14, <2>15
           DEF Next, Step
<1>. QED BY <1>1, <1>2, Invariance, PTL DEF Spec
=============================================================================
