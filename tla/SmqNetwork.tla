------------------------------- MODULE SmqNetwork -------------------------------
(***************************************************************************)
(* The sockets of smqueue (SMnet): listen_on_port opens one for each       *)
(* family of addresses, get_next_dgram waits for all of them with poll,    *)
(* which is made of select (poll.c), and reads from the first that is      *)
(* ready; deliver_msg_datagram sends to the addresses of a host until one  *)
(* of them works.  The sockets do not block.                               *)
(***************************************************************************)
EXTENDS Naturals, Sequences, FiniteSets

CONSTANTS
    Passive,      \* the families getaddrinfo gives for the port to listen on, in its order
    Hosts,        \* the families of the addresses of a host, in the order they are tried
    Datagrams,    \* what may come in: see AllDatagrams
    MaxPending    \* bound: datagrams the system keeps for a socket; others are lost

\* A message; one longer than the buffer; one without content; an error to be told.
AllDatagrams == {"message", "long", "empty", "error"}

\* The families of addresses that getaddrinfo knows.
AllFamilies == {"inet", "inet6"}

Families == {Passive[i] : i \in DOMAIN Passive}

ASSUME NetworkAssumption ==
    /\ Passive \in Seq(AllFamilies)
    /\ \A i, j \in DOMAIN Passive : Passive[i] = Passive[j] => i = j
    /\ Hosts \subseteq Seq(AllFamilies)
    /\ Datagrams \subseteq AllDatagrams
    /\ MaxPending \in Nat

VARIABLES
    sockets,   \* the sockets, in the order they were added: [family, revents]
    pending,   \* what has arrived at the socket of a family
    polling,   \* "out", or "ready" when poll has returned that there is input
    heard,     \* history: the family whose socket was read last, since the last poll
    sent       \* history: what deliver_msg_datagram returned, and how often it sent

netVars == <<sockets, pending, polling, heard, sent>>

NetInit ==
    /\ sockets = << >>
    /\ pending = [f \in Families |-> << >>]
    /\ polling = "out"
    /\ heard = "none"
    /\ sent = [told |-> FALSE, copies |-> 0]

--------------------------------------------------------------------------------
(* listen_on_port *)

\* add_socket
Added(f) == [family |-> f, revents |-> {}]

\* socket or bind may fail: "It's okay as long as one port is opened".
ListenOnPort ==
    /\ sockets = << >>
    /\ \E n \in 0..Len(Passive) : \E opened \in [1..n -> DOMAIN Passive] :
          /\ \A i, j \in 1..n : i < j => opened[i] < opened[j]
          /\ sockets' = [i \in 1..n |-> Added(Passive[opened[i]])]
    /\ UNCHANGED <<pending, polling, heard, sent>>

--------------------------------------------------------------------------------
(* get_next_dgram *)

Readable(s) == pending[s.family] # << >>

\* A faulty map_select_results, that leaves what poll found before.
MapOnto(s) == [s EXCEPT !.revents = @ \cup (IF Readable(s) THEN {"POLLIN"} ELSE {})]

\* map_select_results
MapSelectResults(s) == [s EXCEPT !.revents = IF Readable(s) THEN {"POLLIN"} ELSE {}]

\* poll_sockets: it waits, and returns for a socket or at the timeout.
PollSockets ==
    /\ sockets # << >>
    /\ polling = "out"
    /\ sockets' = [i \in DOMAIN sockets |-> MapSelectResults(sockets[i])]
    /\ polling' = IF \E i \in DOMAIN sockets : Readable(sockets[i]) THEN "ready" ELSE "out"
    /\ heard' = "none"
    /\ UNCHANGED <<pending, sent>>

Ready == {i \in DOMAIN sockets : sockets[i].revents # {}}
FirstReady == CHOOSE i \in Ready : \A j \in Ready : i <= j

\* The first socket that is ready is read: the call returns the length of the message, 0 for
\* an empty one, and -1 for one that is too long or an error, each of which is gone then;
\* and -1 if nothing is there.
ReadFirst ==
    /\ polling = "ready"
    /\ polling' = "out"
    /\ LET f == sockets[FirstReady].family
       IN  IF pending[f] = << >>
           THEN UNCHANGED <<pending, heard>>
           ELSE /\ pending' = [pending EXCEPT ![f] = Tail(@)]
                /\ heard' = f
    /\ UNCHANGED <<sockets, sent>>

Open == {sockets[i].family : i \in DOMAIN sockets}

Arrives ==
    /\ \E f \in Open, d \in Datagrams :
          /\ Len(pending[f]) < MaxPending
          /\ pending' = [pending EXCEPT ![f] = Append(@, d)]
    /\ UNCHANGED <<sockets, polling, heard, sent>>

\* A datagram that select has announced turns out to be damaged.
Discarded ==
    /\ \E f \in Open :
          /\ pending[f] # << >>
          /\ pending' = [pending EXCEPT ![f] = Tail(@)]
    /\ UNCHANGED <<sockets, polling, heard, sent>>

--------------------------------------------------------------------------------
(* deliver_msg_datagram *)

\* The sockets that fit address a of a host, and those of them where sendto fails.
Fitting(host, a) == {j \in DOMAIN sockets : sockets[j].family = host[a]}
Failing(host, fails, a) == {j \in Fitting(host, a) : <<a, j>> \in fails}

\* The sockets over which the message goes to address a: those before the first that fails.
Over(host, fails, a) ==
    {j \in Fitting(host, a) : \A k \in Failing(host, fails, a) : j < k}

\* A faulty loop, that takes an address no socket fits for one that works.
WorksUnlessItFails(host, fails, a) == Failing(host, fails, a) = {}

Works(host, fails, a) == Fitting(host, a) # {} /\ Failing(host, fails, a) = {}

\* Any calls of sendto may fail; false is returned, too, if there is no socket, or no address.
DeliverMsgDatagram ==
    /\ polling = "out"
    /\ \E host \in Hosts :
       \E fails \in SUBSET ((DOMAIN host) \X (DOMAIN sockets)) :
          LET working == {a \in DOMAIN host : Works(host, fails, a)}
              tried == {a \in DOMAIN host : \A w \in working : a <= w}
          IN  sent' = [told   |-> working # {},
                       copies |-> Cardinality({way \in tried \X (DOMAIN sockets) :
                                                  way[2] \in Over(host, fails, way[1])})]
    /\ UNCHANGED <<sockets, pending, polling, heard>>

NetNext ==
    \/ ListenOnPort \/ PollSockets \/ ReadFirst \/ Arrives \/ Discarded \/ DeliverMsgDatagram

\* The main loop calls get_next_dgram again and again.
NetFairness == WF_netVars(PollSockets) /\ WF_netVars(ReadFirst)

NetSpec == NetInit /\ [][NetNext]_netVars /\ NetFairness

--------------------------------------------------------------------------------
(* Properties *)

\* "Result is false if failed; true if we think we sent it": a delivery that returns true
\* has sent one copy, whatever addresses were tried before, and one that returns false none.
SentOnceOrTold == sent.copies = (IF sent.told THEN 1 ELSE 0)

\* "Get the next datagram from any socket of interest": what waits at a socket is read,
\* unless the sockets before it never fall silent, which are looked at first.
Before(f) == {g \in Open : \E i, j \in DOMAIN Passive : i < j /\ Passive[i] = g /\ Passive[j] = f}
Silent(f) == \A g \in Before(f) : pending[g] = << >>
EverySocketHeard ==
    \A f \in Families :
        <>[]Silent(f) => (pending[f] # << >> ~> heard = f \/ pending[f] = << >>)

================================================================================
