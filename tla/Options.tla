------------------------------ MODULE Options ------------------------------
(***************************************************************************)
(* How options become the arguments of the EAL and the configuration of a  *)
(* device (dpdkx/config/program_options.cpp), as operators.  An option     *)
(* that was given has a value; Bad stands for a text that does not parse.  *)
(* Sections are functions from the keys given to their values: that of the *)
(* driver, drv, and for each MAC address that of a NIC.  A NIC n, as DPDK  *)
(* describes it, has n.mac, n.driver, n.socket, at most n.maxRx and n.maxTx *)
(* queues, of which the driver prefers n.nbRx and n.nbTx (0 for no          *)
(* preference), and the offloads n.capa; n.system is what the system knows, *)
(* by MAC address.                                                         *)
(***************************************************************************)
EXTENDS Integers, Sequences, SequencesExt, FiniteSets, Functions

CONSTANTS
  Bad,
  DefaultPort,  \* next_src_port unless configured (49152)
  Most          \* the largest 16 bit number

Has(section, key) == key \in DOMAIN section /\ section[key] # Bad

NoSection == << >>
Section(sections, m) == IF m \in DOMAIN sections THEN sections[m] ELSE NoSection

-----------------------------------------------------------------------------
\* get_nic_info: the NICs the system knows, with the addresses of the sections
\* that give an "ip"; the other keys of a section count only beside it.
Addressed(sections) == {m \in DOMAIN sections : Has(sections[m], "ip")}

Unknown == [name |-> "", ip |-> "none", ip6 |-> "none"]

GetNicInfo(system, sections) ==
  [m \in DOMAIN system \cup Addressed(sections) |->
     LET known == IF m \in DOMAIN system THEN system[m] ELSE Unknown
     IN IF m \in Addressed(sections)
        THEN [key \in DOMAIN Unknown |-> IF Has(sections[m], key) THEN sections[m][key] ELSE known[key]]
        ELSE known]

-----------------------------------------------------------------------------
\* config::device{}, whose effective_offload is all ones.
Default(n) ==
  [svc_tx_n |-> Most, rx_flow_queues |-> 0, next_src_port |-> DefaultPort, clock_hz |-> 0, tx_rings |-> Most,
   maxRx |-> n.maxRx, maxTx |-> n.maxTx, nbRx |-> n.nbRx, nbTx |-> n.nbTx,
   offload |-> n.capa \cup {"unsupported"}, capa |-> n.capa, features |-> {"arp_table", "dev_clock"},
   ip |-> "none", driver |-> n.driver, socket_id |-> n.socket]

\* The members that are described, and so can be given.
InfoMembers == {"maxRx", "maxTx", "nbRx", "nbTx", "capa"}
Members ==
  {"svc_tx_n", "rx_flow_queues", "next_src_port", "clock_hz", "tx_rings", "offload", "features"} \cup InfoMembers

\* load_value: the members the section gives; one that does not parse throws.
\* "features" is read once more on its own, to the same effect.
Throws(section) == \E key \in Members \cap DOMAIN section : section[key] = Bad

LoadValue(section, dev) ==
  [key \in DOMAIN dev |-> IF key \in Members \cap DOMAIN section THEN section[key] ELSE dev[key]]

OrAll(given, all) == IF given = 0 THEN all ELSE given
Limited(given, limit) == IF given > limit THEN limit ELSE given

\* The section of the driver first, so that the NIC's own one prevails.
Loaded(n, drv, sections) == LoadValue(Section(sections, n.mac), LoadValue(drv, Default(n)))

\* devices_configuration for one port: what its sections give, then 0 queues
\* are all queues, and offloads are limited to what the NIC can do.
LoadThrows(n, drv, sections) == Throws(drv) \/ Throws(Section(sections, n.mac))

DeviceConfiguration(n, drv, sections) ==
  LET dev == Loaded(n, drv, sections)
      infos == GetNicInfo(n.system, sections)
      nbTx == OrAll(dev.nbTx, dev.maxTx)
  IN [dev EXCEPT !.nbRx = OrAll(@, dev.maxRx), !.nbTx = nbTx,
                 !.svc_tx_n = Limited(@, nbTx), !.offload = @ \cap dev.capa,
                 !.ip = IF n.mac \in DOMAIN infos THEN infos[n.mac].ip ELSE @]

\* adjust_to_socket
AdjustToSocket(dev, socket) ==
  LET cores == Len(socket.cores)
  IN [dev EXCEPT !.nbRx = Limited(@, cores), !.nbTx = Limited(@, cores), !.socket_id = socket.id]

\* apply_workarounds: the capabilities, from which nothing is derived any more.
IgcBroken == {"timestamp"}
ApplyWorkarounds(dev) ==
  IF dev.driver = "net_igc" THEN [dev EXCEPT !.capa = @ \ IgcBroken] ELSE dev

-----------------------------------------------------------------------------
\* eal_option: every option "eal.<name>" becomes the argument "-<name>" if it
\* has one letter and "--<name>" otherwise, followed by its value unless empty;
\* an option with several values is repeated for each.  An option here is
\* [name, letters, values]; argument and value are marked as such.
Argument(o) == [dashes |-> IF o.letters = 1 THEN 1 ELSE 2, text |-> o.name]
Value(v) == [dashes |-> 0, text |-> v]

ArgumentsOf(o) ==
  IF o.letters = 0 THEN <<>>
  ELSE IF o.values = <<>> THEN <<Argument(o)>>
  ELSE FlattenSeq([k \in DOMAIN o.values |-> <<Argument(o), Value(o.values[k])>>])

EalOption(app, options) == <<Value(app)>> \o FlattenSeq([k \in DOMAIN options |-> ArgumentsOf(options[k])])

\* What the EAL reads from its arguments: each option with the value after it.
EalReads(args) ==
  LET ks == SetToSortSeq({k \in 2..Len(args) : args[k].dashes > 0}, <)
      After(k) == IF k < Len(args) /\ args[k + 1].dashes = 0 THEN args[k + 1].text ELSE ""
  IN [x \in DOMAIN ks |-> <<args[ks[x]].text, After(ks[x])>>]

\* The option of every name, with its values in the order given.
Wanted(o) ==
  IF o.values = <<>> THEN << <<o.name, "">> >> ELSE [v \in DOMAIN o.values |-> <<o.name, o.values[v]>>]
=============================================================================
