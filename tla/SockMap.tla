------------------------------- MODULE SockMap -------------------------------
(***************************************************************************)
(* The TCP acceleration of tcpaccd (tcpaccd.bpf.c): a sockops program puts *)
(* each established IPv4 socket of the cgroup into the SOCKHASH            *)
(* sock_ops_map under its addresses and ports, and an sk_msg program       *)
(* redirects what such a socket sends into the receive queue of the socket *)
(* found under the swapped addresses and ports; without one the message    *)
(* takes the way through TCP.                                              *)
(*                                                                         *)
(* The environment is the kernel: connections on one host, possibly in     *)
(* different network namespaces that use the same addresses and ports; a   *)
(* socket has a psock, with the sk_msg program the map had then, from its  *)
(* insertion until it is closed, and a receiver reads the messages         *)
(* redirected to its psock before those that came through TCP.             *)
(***************************************************************************)
EXTENDS Naturals, Sequences, FiniteSetsExt

CONSTANTS Conns,          \* connections
          Tuples,         \* pairs of addresses and ports
          MaxSent         \* bound: messages sent

ASSUME SockMapAssumption == MaxSent \in Nat

VARIABLES smTuple,        \* the addresses and ports of each connection
          smEnd,          \* the two sockets of each connection
          smMap,          \* map sock_ops_map: key -> socket
          smLoaded,       \* how much of the programs is attached
          smSent,         \* messages each socket has sent
          smWire,         \* messages to a socket through TCP
          smPsock,        \* messages redirected to a socket
          smRead          \* messages a socket has read

smVars == <<smTuple, smEnd, smMap, smLoaded, smSent, smWire, smPsock, smRead>>

Sides   == {"client", "server"}
Other   == [client |-> "server", server |-> "client"]
Ends    == Conns \X Sides
Peer(e) == <<e[1], Other[e[2]]>>
None    == <<"none", "none">>

\* struct sock_key of a socket: its own address and port first.
Key(e)   == <<smTuple[e[1]], e[2]>>
SockKeys     == Tuples \X Sides

\* Mutants: local and remote address the other way round.
extract_key4_from_ops_swapped(e) == Key(Peer(e))
extract_key4_from_msg_unswapped(e) == Key(e)

\* extract_key4_from_ops takes the local address for the source,
\* extract_key4_from_msg the remote one.
extract_key4_from_ops(e) == Key(e)
extract_key4_from_msg(e) == Key(Peer(e))

SockMapInit ==
    /\ smTuple \in [Conns -> Tuples]
    /\ smEnd = [e \in Ends |-> [st |-> "none", verdict |-> FALSE, early |-> FALSE]]
    /\ smMap = [k \in SockKeys |-> None]
    /\ smLoaded = "nothing"
    /\ smSent = [e \in Ends |-> 0]
    /\ smWire = [e \in Ends |-> <<>>]
    /\ smPsock = [e \in Ends |-> <<>>]
    /\ smRead = [e \in Ends |-> <<>>]

\* TcpAccdBpf::attach attaches the sockops program, then the sk_msg program.
SmAttach ==
    /\ smLoaded # "sk_msg"
    /\ smLoaded' = IF smLoaded = "nothing" THEN "sockops" ELSE "sk_msg"
    /\ UNCHANGED <<smTuple, smEnd, smMap, smSent, smWire, smPsock, smRead>>

\* bpf_sockmap: BPF_NOEXIST leaves an existing entry alone.
bpf_sockmap(e) ==
    smMap' = IF smLoaded # "nothing" /\ smMap[extract_key4_from_ops(e)] = None
             THEN [smMap EXCEPT ![extract_key4_from_ops(e)] = e] ELSE smMap

\* The SYN-ACK opens the client's socket, the acknowledgement the server's.
SmEstablished(e) ==
    /\ smEnd[e].st = "none"
    /\ e[2] = "server" => smEnd[Peer(e)].st # "none"
    /\ bpf_sockmap(e)
    /\ smEnd' = [smEnd EXCEPT ![e] =
                    [st |-> "open", early |-> FALSE,
                     verdict |-> /\ smMap'[extract_key4_from_ops(e)] = e
                                 /\ smLoaded = "sk_msg"]]
    /\ UNCHANGED <<smTuple, smLoaded, smSent, smWire, smPsock, smRead>>

\* bpf_redir: the socket a message of e is redirected to, if any.
bpf_redir(e) == IF smEnd[e].verdict THEN smMap[extract_key4_from_msg(e)] ELSE None

SumSent == MapThenSumSet(LAMBDA e : smSent[e], Ends)

\* early is known to the model only: something was sent before the peer was
\* in the map.
SmSend(e) ==
    LET message == [of |-> e, nr |-> smSent[e] + 1]
        to      == bpf_redir(e)
    IN  /\ smEnd[e].st = "open"
        /\ SumSent < MaxSent
        /\ smSent' = [smSent EXCEPT ![e] = @ + 1]
        /\ smEnd' = [smEnd EXCEPT ![e].early = @ \/ to = None]
        /\ IF to = None
           THEN /\ smWire' = [smWire EXCEPT ![Peer(e)] = Append(@, message)]
                /\ UNCHANGED smPsock
           ELSE /\ smPsock' = [smPsock EXCEPT ![to] = Append(@, message)]
                /\ UNCHANGED smWire
        /\ UNCHANGED <<smTuple, smMap, smLoaded, smRead>>

SmReadPsock(e) ==
    /\ smEnd[e].st = "open"
    /\ smPsock[e] # <<>>
    /\ smRead' = [smRead EXCEPT ![e] = Append(@, Head(smPsock[e]))]
    /\ smPsock' = [smPsock EXCEPT ![e] = Tail(@)]
    /\ UNCHANGED <<smTuple, smEnd, smMap, smLoaded, smSent, smWire>>

\* A message that took the way through TCP has come and nothing redirected
\* waits before it.
SmReadWire(e) ==
    /\ smEnd[e].st = "open"
    /\ smPsock[e] = <<>> /\ smWire[e] # <<>>
    /\ smRead' = [smRead EXCEPT ![e] = Append(@, Head(smWire[e]))]
    /\ smWire' = [smWire EXCEPT ![e] = Tail(@)]
    /\ UNCHANGED <<smTuple, smEnd, smMap, smLoaded, smSent, smPsock>>

\* A closed socket leaves the map.
SmClose(e) ==
    /\ smEnd[e].st = "open"
    /\ smEnd' = [smEnd EXCEPT ![e] = [@ EXCEPT !.st = "closed", !.verdict = FALSE]]
    /\ smMap' = [k \in SockKeys |-> IF smMap[k] = e THEN None ELSE smMap[k]]
    /\ smPsock' = [smPsock EXCEPT ![e] = <<>>]
    /\ UNCHANGED <<smTuple, smLoaded, smSent, smWire, smRead>>

SockMapNext ==
    \/ SmAttach
    \/ \E e \in Ends : SmEstablished(e) \/ SmSend(e) \/ SmReadPsock(e) \/ SmReadWire(e)
                       \/ SmClose(e)

SockMapSpec == SockMapInit /\ [][SockMapNext]_smVars

-----------------------------------------------------------------------------
\* No two connections of the host use the same addresses and ports.
Distinct(c) == \A d \in Conns : smTuple[d] = smTuple[c] => d = c

\* The acceleration is transparent: a socket reads what its peer sent, each
\* message once and in order - as long as no other connection has the same
\* addresses and ports in another network namespace, and its peer sent
\* nothing before this socket was in the map (bpf_sockmap, bpf_redir).
SmTransparent ==
    \A e \in Ends : Distinct(e[1]) =>
        /\ \A i \in DOMAIN smRead[e] : smRead[e][i].of = Peer(e)
        /\ ~smEnd[Peer(e)].early => \A i \in DOMAIN smRead[e] : smRead[e][i].nr = i

\* Whatever addresses and ports are in use, a message is redirected to an open
\* socket on the other side of a connection with the sender's addresses and
\* ports, never back to its sender's side (extract_key4_from_msg).
SmRedirectsAcross ==
    \A e \in Ends : bpf_redir(e) # None =>
        /\ smEnd[bpf_redir(e)].st = "open"
        /\ Key(bpf_redir(e)) = Key(Peer(e))
=============================================================================
