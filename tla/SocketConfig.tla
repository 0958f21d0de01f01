---------------------------- MODULE SocketConfig ----------------------------
(***************************************************************************)
(* socket_configuration() of dpdkx/config/socket.cpp as operators: sorts   *)
(* the lcores into one vector, grouped by socket, with one insertion per   *)
(* lcore, then cuts the vector into the groups and moves the main lcore to *)
(* the end of its own.  A topology t has the socket of each lcore,         *)
(* t.socketOf, and the main lcore, t.main; r has the groups so far,        *)
(* r.sockets, and the vector, r.cores.  Positions count from 1.            *)
(***************************************************************************)
EXTENDS Integers, Sequences, SequencesExt, FiniteSets, FiniteSetsExt

\* Cores in the first m groups.
Before(sockets, m) == FoldFunction(+, 0, [x \in 1..m |-> sockets[x].n])

NewGroup(id) == [id |-> id, n |-> 1]
Position(sockets, g) == Before(sockets, g) + 1

\* RTE_LCORE_FOREACH: behind the last core of its group, or a new group.
InsertLcore(r, lcore, id) ==
  LET g == SelectInSeq(r.sockets, LAMBDA s : s.id = id)
  IN IF g = 0
     THEN [sockets |-> Append(r.sockets, NewGroup(id)), cores |-> Append(r.cores, lcore)]
     ELSE [sockets |-> [r.sockets EXCEPT ![g].n = @ + 1],
           cores |-> InsertAt(r.cores, Position(r.sockets, g), lcore)]

\* std::find in all but the last core of the group, and std::swap.
MoveMainLast(c, main) ==
  LET at == {x \in 1..(Len(c) - 1) : c[x] = main}
  IN IF at = {} THEN c ELSE [c EXCEPT ![Min(at)] = c[Len(c)], ![Len(c)] = c[Min(at)]]

\* The loop over all lcores.
Sorted(t) ==
  FoldLeft(LAMBDA r, lcore : InsertLcore(r, lcore, t.socketOf[lcore]),
           [sockets |-> <<>>, cores |-> <<>>], [l \in DOMAIN t.socketOf |-> l])

\* The groups in the order in which the loop found their sockets: nothing sorts
\* them by size, which the last assertion of the function expects
\* (LargestFirst below; assertions are off in a release build).
SocketConfiguration(t) ==
  LET r == Sorted(t)
      Cut(g) == SubSeq(r.cores, Before(r.sockets, g - 1) + 1, Before(r.sockets, g))
  IN [g \in DOMAIN r.sockets |->
        [id |-> r.sockets[g].id,
         cores |-> IF r.sockets[g].id = t.socketOf[t.main] THEN MoveMainLast(Cut(g), t.main)
                                                           ELSE Cut(g)]]

\* run()'s choice: the socket of the device, or the first one if that has no
\* lcores.
SelectSocket(t, id) ==
  LET all == SocketConfiguration(t)
      g == SelectInSeq(all, LAMBDA s : s.id = id)
  IN all[Max({g, 1})]

-----------------------------------------------------------------------------
\* socket_configuration lists every socket with lcores once and with exactly
\* its lcores, each of them once; the main lcore is the last of its group
\* (assert(*end_socket == main_core)), which is how run() recognises it; and the
\* sockets come in the order of their lowest lcores, so that run() falls back on
\* the socket of the first lcore.
GroupsLcores(t) ==
  LET res == SocketConfiguration(t)
      Lcores == DOMAIN t.socketOf
  IN /\ {res[g].id : g \in DOMAIN res} = Range(t.socketOf)
     /\ Len(res) = Cardinality(Range(t.socketOf))
     /\ \A g \in DOMAIN res :
          /\ Range(res[g].cores) = {c \in Lcores : t.socketOf[c] = res[g].id}
          /\ IsInjective(res[g].cores)
          /\ t.main \in Range(res[g].cores) => Last(res[g].cores) = t.main
     /\ \A g, h \in DOMAIN res : g < h => Min(Range(res[g].cores)) < Min(Range(res[h].cores))

\* assert(std::ranges::is_sorted(res.sockets, greater, cores.size())): the
\* sockets with the most lcores come first.
LargestFirst(t) ==
  LET res == SocketConfiguration(t)
  IN \A g, h \in DOMAIN res : g < h => Len(res[g].cores) >= Len(res[h].cores)
=============================================================================
