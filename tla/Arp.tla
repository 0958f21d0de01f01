-------------------------------- MODULE Arp --------------------------------
\* Resolving an IPv4 address to a MAC address: device::ether_address and the
\* arp4_ table (dpdkx/device.cpp), the polling loop around it (dpdkx/jobs.cpp)
\* and the ARP branch of process_rx_packets, which runs on another lcore.
\* The resolver polls the table, asks once, and runs the tx jobs that put the
\* question on the wire; answers, and questions of others, fill the table.
EXTENDS Integers, FiniteSets

CONSTANTS
  Resolvers,   \* threads inside ether_address
  Ips,         \* addresses of hosts
  LocalIps,    \* addresses with the loopback bits set, which are never asked for
  Target,      \* [Resolvers -> Ips \cup LocalIps]
  Mac,         \* [Ips -> Macs], who answers for an address
  Macs,
  OwnMac,      \* the device's own address
  Unset        \* arp4rec{}: the zero mac_addr of a record with timestamp 0

ASSUME ArpAssumption ==
  /\ Ips \cap LocalIps = {} /\ Target \in [Resolvers -> Ips \cup LocalIps]
  /\ Mac \in [Ips -> Macs] /\ Unset \notin Macs /\ OwnMac # Unset /\ IsFiniteSet(Resolvers)

VARIABLES
  arpTable, \* config_.features[arp_table]
  pc,       \* of each resolver: "visit", "ask", "emplace", "jobs", "check", "returned"
  result,   \* the error code returned
  mac,      \* mac_addr, the output parameter
  table,    \* arp4_: the mac_addr of each address that has a record
  ring,     \* questions on the service tx ring, as a number per address
  asked,    \* questions ever enqueued, per address
  wire,     \* questions and answers on the network
  running,
  troubled  \* something was lost, failed, timed out or was stopped

vars == <<arpTable, pc, result, mac, table, ring, asked, wire, running, troubled>>

Init ==
  /\ arpTable \in BOOLEAN
  /\ pc = [r \in Resolvers |-> "visit"]
  /\ result = [r \in Resolvers |-> "none"]
  /\ mac = [r \in Resolvers |-> Unset]
  /\ table = << >>
  /\ ring = [a \in Ips |-> 0] /\ asked = [a \in Ips |-> 0]
  /\ wire = {} /\ running = TRUE /\ troubled = FALSE

Trouble == troubled' = TRUE

Goto(r, l) == pc' = [pc EXCEPT ![r] = l]

Return(r, code) == Goto(r, "returned") /\ result' = [result EXCEPT ![r] = code]

Has(a) == a \in DOMAIN table

\* insert_or_assign and try_emplace on the table.
Assign(a, m) == [b \in DOMAIN table \cup {a} |-> IF b = a THEN m ELSE table[b]]
TryEmplace(a, m) == IF Has(a) THEN table ELSE Assign(a, m)

\* A record counts once its timestamp is set, which comes with the address.
\* Mutant: any record counts.
AnyRecord(a) == Has(a)
Known(a) == Has(a) /\ table[a] # Unset

\* arp4_.visit, and what is returned from it.
Visit(r) ==
  LET a == Target[r]
  IN /\ pc[r] = "visit"
     /\ \/ /\ a \in LocalIps
           /\ mac' = [mac EXCEPT ![r] = OwnMac] /\ Return(r, "ok")
        \/ /\ a \notin LocalIps /\ Known(a)
           /\ mac' = [mac EXCEPT ![r] = table[a]] /\ Return(r, "ok")
        \/ /\ a \notin LocalIps /\ Has(a) /\ ~Known(a)
           /\ Goto(r, "jobs") /\ UNCHANGED <<result, mac>>
        \/ /\ a \notin LocalIps /\ ~Has(a) /\ arpTable
           /\ Goto(r, "ask") /\ UNCHANGED <<result, mac>>
        \/ /\ a \notin LocalIps /\ ~Has(a) /\ ~arpTable
           /\ Return(r, "not_supported") /\ UNCHANGED mac
     /\ UNCHANGED <<arpTable, table, ring, asked, wire, running, troubled>>

\* Build the question and enqueue it.  Without a buffer, or with a full ring,
\* the loop goes on and the next round asks again.
Ask(r) ==
  LET a == Target[r]
  IN /\ pc[r] = "ask"
     /\ \/ /\ ring' = [ring EXCEPT ![a] = @ + 1] /\ asked' = [asked EXCEPT ![a] = @ + 1]
           /\ Goto(r, "emplace") /\ UNCHANGED troubled
        \/ Goto(r, "jobs") /\ Trouble /\ UNCHANGED <<ring, asked>>
     /\ UNCHANGED <<arpTable, result, mac, table, wire, running>>

\* The answer may already be in the table when the record is made.
\* Mutant: the record replaces what is there.
PendingAssign(a) == Assign(a, Unset)
Pending(a) == TryEmplace(a, Unset)

Emplace(r) ==
  /\ pc[r] = "emplace"
  /\ table' = Pending(Target[r])
  /\ Goto(r, "jobs")
  /\ UNCHANGED <<arpTable, result, mac, ring, asked, wire, running, troubled>>

\* Mutant: an empty ring is drained as well.
DrainedBelow == [a \in Ips |-> ring[a] - 1]
Drained == [a \in Ips |-> 0]

\* run_jobs_once with the tx jobs: what is on the rings goes to the network.
RunJobs(r) ==
  /\ pc[r] = "jobs"
  /\ wire' = wire \cup {<<"question", a>> : a \in {b \in Ips : ring[b] > 0}}
  /\ ring' = Drained
  /\ \/ Goto(r, "check") /\ UNCHANGED <<result, troubled>>
     \/ Return(r, "connection_aborted") /\ Trouble
  /\ UNCHANGED <<arpTable, mac, table, asked, running>>

\* The two exits of the loop.
Check(r) ==
  /\ pc[r] = "check"
  /\ \/ ~running /\ Return(r, "operation_canceled") /\ UNCHANGED troubled
     \/ running /\ Goto(r, "visit") /\ UNCHANGED <<result, troubled>>
     \/ running /\ Return(r, "timed_out") /\ Trouble
  /\ UNCHANGED <<arpTable, mac, table, ring, asked, wire, running>>

Resolve(r) == Visit(r) \/ Ask(r) \/ Emplace(r) \/ RunJobs(r) \/ Check(r)

\* process_rx_packets records the sender of an answer, and of a question.
\* Mutant: the answer does not replace a record that waits for it.
RecordedOnce(a) == TryEmplace(a, Mac[a])
Recorded(a) == Assign(a, Mac[a])

Learn(a) == table' = IF arpTable THEN Recorded(a) ELSE table

RxAnswer(a) ==
  /\ <<"answer", a>> \in wire /\ wire' = wire \ {<<"answer", a>>}
  /\ Learn(a)
  /\ UNCHANGED <<arpTable, pc, result, mac, ring, asked, running, troubled>>

RxQuestion(a) ==
  /\ Learn(a)
  /\ UNCHANGED <<arpTable, pc, result, mac, ring, asked, wire, running, troubled>>

\* The network and the hosts on it.
HostAnswers(a) ==
  /\ <<"question", a>> \in wire
  /\ wire' = (wire \ {<<"question", a>>}) \cup {<<"answer", a>>}
  /\ UNCHANGED <<arpTable, pc, result, mac, table, ring, asked, running, troubled>>

Lose(a) ==
  /\ Trouble
  /\ \E kind \in {"question", "answer"} :
       <<kind, a>> \in wire /\ wire' = wire \ {<<kind, a>>}
  /\ UNCHANGED <<arpTable, pc, result, mac, table, ring, asked, running>>

StopJobs ==
  /\ running /\ running' = FALSE /\ Trouble
  /\ UNCHANGED <<arpTable, pc, result, mac, table, ring, asked, wire>>

Next ==
  \/ \E r \in Resolvers : Resolve(r)
  \/ \E a \in Ips : RxAnswer(a) \/ RxQuestion(a) \/ HostAnswers(a) \/ Lose(a)
  \/ StopJobs
  \/ (\A r \in Resolvers : pc[r] = "returned") /\ UNCHANGED vars

\* A resolver keeps polling and the rx job of the other lcore keeps running;
\* a host that got a question answers it.
Spec ==
  /\ Init /\ [][Next]_vars
  /\ \A r \in Resolvers : WF_vars(Resolve(r))
  /\ \A a \in Ips : WF_vars(RxAnswer(a)) /\ WF_vars(HostAnswers(a))

-----------------------------------------------------------------------------
TypeOK ==
  /\ arpTable \in BOOLEAN
  /\ pc \in [Resolvers -> {"visit", "ask", "emplace", "jobs", "check", "returned"}]
  /\ result \in [Resolvers -> {"none", "ok", "not_supported", "connection_aborted",
                               "operation_canceled", "timed_out"}]
  /\ mac \in [Resolvers -> Macs \cup {OwnMac, Unset}]
  /\ DOMAIN table \subseteq Ips /\ \A a \in DOMAIN table : table[a] \in Macs \cup {Unset}
  /\ ring \in [Ips -> Nat] /\ asked \in [Ips -> Nat]
  /\ wire \subseteq {"question", "answer"} \X Ips
  /\ running \in BOOLEAN /\ troubled \in BOOLEAN

\* ether_address succeeds only with the address its host announced, or with the
\* device's own for a loopback address, never with the zero address of a record
\* that waits for the answer; a failure leaves mac_addr alone.
ResolvedIsAnnounced ==
  \A r \in Resolvers :
    mac[r] = IF result[r] # "ok" THEN Unset
             ELSE IF Target[r] \in LocalIps THEN OwnMac ELSE Mac[Target[r]]

\* The threads, the table and the network together keep the promise of
\* ether_address: an address once learned is not forgotten (the record made
\* after sending the question does not overwrite an answer that was faster),
\* each call returns once, with what was known by then.
Promise == INSTANCE Resolution WITH
  known <- {a \in Ips : Known(a)},
  answer <- [r \in Resolvers |-> [code |-> result[r], mac |-> mac[r]]]
ImplementsResolution == Promise!Spec

\* However often the loop polls, an address is asked for at most once by each
\* resolver, because the record made after the question keeps all of them from
\* asking again (there is no retransmission).
AskedOncePerResolver ==
  \A a \in Ips : asked[a] <= Cardinality({r \in Resolvers : Target[r] = a})

\* What the threads inside ether_address may rely on and what they do to the
\* network: results are announced addresses, and no address is asked for again.
ResolutionSound == ResolvedIsAnnounced /\ AskedOncePerResolver

\* Unless something is lost or fails, a timeout is reached or the jobs are
\* stopped, every resolver gets its address (with features[arp_table] on).
ReachableIsResolved == <>(~arpTable \/ troubled \/ \A r \in Resolvers : result[r] = "ok")
=============================================================================
