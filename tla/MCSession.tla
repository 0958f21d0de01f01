----------------------------- MODULE MCSession -----------------------------
(* Session for TLC: the NICs and the options.  The other bounds are in      *)
(* session.cfg.                                                             *)
EXTENDS Session

\* One port on each socket, and one that the system knows and whose driver
\* prefers a number of queues.
Nic(s, known) ==
  [mac |-> "m", driver |-> IF s = 0 THEN "net_igc" ELSE "mlx5_pci", socket |-> s, maxRx |-> MaxRx, maxTx |-> MaxTx,
   nbRx |-> Cardinality(DOMAIN known), nbTx |-> MaxTx * Cardinality(DOMAIN known), capa |-> {"timestamp"}, system |-> known]
MCNics ==
  {Nic(s, NoSection) : s \in SocketIds}
  \cup {Nic(0, "m" :> [name |-> "eth", ip |-> "dhcp", ip6 |-> "none"])}

\* Every value alone in either section or both, one that does not parse
\* included, and rings, flow and service queues together.
Values ==
  [rx_flow_queues |-> {1}, tx_rings |-> {2}, svc_tx_n |-> {1}, next_src_port |-> {0, PortWrap - 1},
   nbTx |-> {2}, maxTx |-> {1}, clock_hz |-> {1, Bad}, capa |-> {{}}, offload |-> {{}},
   features |-> {{"arp_table"}}, ip |-> {"a", Bad}]

MCEalOptions ==
  SeqOf([name : {"l"}, letters : {1}, values : {<<>>, <<"a">>}]
        \cup [name : {"vdev"}, letters : {4}, values : {<<>>, <<"a">>, <<"a", "b", "a">>}]
        \cup [name : {""}, letters : {0}, values : {<<"a">>}], 2)

Sections(key) == {NoSection} \cup {key :> v : v \in Values[key]}

MCOptionMaps ==
  UNION {[drv : Sections(key), nic : Sections(key)] : key \in DOMAIN Values}
  \cup [drv : [rx_flow_queues : {0, 5}, tx_rings : {0, 1, 5}, svc_tx_n : {0, 5}],
        nic : {NoSection}]
  \cup [drv : {"features" :> {}}, nic : {"clock_hz" :> 1}]
=============================================================================
