----------------------------- MODULE NetbootProofs -----------------------------
(* Theorems about a boot over the network.  Of Dhcp: the address in use is    *)
(* leased, a connection is left for the downloads, and only the answer to a   *)
(* request ends it, for any servers, addresses, number of connections,        *)
(* refusals and channels.  Of Netboot, which runs Dhcp to its end: where the  *)
(* ramdisk lies and what the command line holds, for any size of memory, page *)
(* and line, any args files and any number of calls.                          *)
EXTENDS Dhcp, Netboot, TLAPS, SequenceTheorems, WellFoundedInduction

(* Dhcp.                                                                      *)
TypeInv ==
  /\ pc \in {"start", "discover", "request", "bound", "released"}
  /\ xid \in Nat
  /\ udp_conns \in 0 .. UdpConns
  /\ offered = [s \in Servers |-> offered[s]]
  /\ answered = [s \in Servers |-> answered[s]]
  /\ leases = [s \in Servers |-> leases[s]]

ClientInv ==
  /\ pc \in {"start", "discover"} => dhcp_state = "init"
  /\ pc = "request" => dhcp_state = "requesting"
  /\ pc \in {"discover", "request"} => udp_conns > 0
  /\ ConnFree

\* Servers answer requests, and those have a number the client has drawn.
ServerInv ==
  \A s \in Servers :
    /\ offered[s] # None => offered[s].kind = "offer" /\ offered[s].addr \in Addresses
    /\ answered[s] # None =>
         /\ answered[s].kind \in {"ack", "nak"} /\ answered[s].server = s
         /\ answered[s].xid \in Nat /\ answered[s].xid <= xid

\* The last number drawn stands for one request: it names one server and one
\* address.  An address is given back after the downloads only.
RequestInv ==
  \A m \in to_server :
    /\ m.kind = "request" =>
         /\ m.xid \in Nat /\ m.xid <= xid
         /\ m.xid = xid => m.server = server_id /\ m.addr = asked
    /\ m.kind = "release" => pc = "released"

\* An answer under way is its server's last one or older than that.
AnswerInv ==
  \A m \in to_client :
    m.kind \in {"ack", "nak"} =>
      /\ m.server \in Servers /\ answered[m.server] # None
      /\ m.xid \in Nat /\ m.xid <= answered[m.server].xid
      /\ m.xid = answered[m.server].xid => m = answered[m.server]

\* A request granted under the last number is the client's, and its lease is kept.
LeaseInv ==
  \A s \in Servers :
    answered[s] # None /\ answered[s].kind = "ack" /\ answered[s].xid = xid =>
      s = server_id /\ (pc # "released" => leases[s] = answered[s].addr)

\* The packet that dhcp_request goes on with is the answer to its request.
Answered(s) == s \in Servers /\ answered[s] # None /\ answered[s].xid = xid
ReplyInv ==
  /\ pc = "request" /\ dhcp_in_ready =>
       /\ dhcp_in.kind \in {"ack", "nak"}
       /\ Answered(dhcp_in.server) /\ answered[dhcp_in.server] = dhcp_in
  /\ pc = "bound" =>
       /\ Answered(server_id) /\ answered[server_id].kind = "ack"
       /\ hostaddr = answered[server_id].addr

IInv == /\ TypeInv /\ ClientInv /\ ServerInv /\ RequestInv
        /\ AnswerInv /\ LeaseInv /\ ReplyInv

LEMMA Constants == UdpConns \in Nat \ {0}
BY DhcpAssumption DEF DhcpAssumption

(* What a channel holds has been sent.                                        *)
LEMMA Channels ==
  ASSUME NEW chan, NEW m
  PROVE  /\ \A c \in Sent(chan, m) : c \subseteq chan \cup {m}
         /\ \A c \in Received(chan, m) : c \subseteq chan
BY DEF Sent, Received

LEMMA IInvInit == Init => IInv
<1> SUFFICES ASSUME Init PROVE IInv
  OBVIOUS
<1>1. TypeInv
  BY Constants DEF Init, TypeInv
<1>2. ClientInv /\ ServerInv /\ RequestInv
  BY DEF Init, ClientInv, ServerInv, RequestInv, ConnFree
<1>3. AnswerInv /\ LeaseInv /\ ReplyInv
  BY DEF Init, AnswerInv, LeaseInv, ReplyInv
<1>4. QED
  BY <1>1, <1>2, <1>3 DEF IInv

--------------------------------------------------------------------------------
(* A packet that passes the callback in "request" answers the request.        *)
LEMMA PollKeeps ==
  ASSUME IInv, NEW m \in to_client, Poll(m)
  PROVE  IInv'
<1> USE DEF IInv
<1>1. /\ pc \in {"discover", "request"} /\ ~dhcp_in_ready
      /\ dhcp_in' = m /\ (dhcp_in_ready' => Reply(m)) /\ to_client' \subseteq to_client
      /\ UNCHANGED <<pc, dhcp_state, xid, asked, server_id, hostaddr, udp_conns,
                     offered, answered, leases, to_server>>
  BY Channels DEF Poll, Polling, server
<1>2. TypeInv' /\ ClientInv' /\ ServerInv'
  BY <1>1 DEF TypeInv, ClientInv, ServerInv, ConnFree
<1>3. RequestInv' /\ AnswerInv' /\ LeaseInv'
  BY <1>1 DEF RequestInv, AnswerInv, LeaseInv
<1>4. ReplyInv'
  <2> SUFFICES ASSUME pc = "request", Reply(m)
               PROVE  /\ m.kind \in {"ack", "nak"}
                      /\ Answered(m.server) /\ answered[m.server] = m
    BY <1>1 DEF ReplyInv, Answered
  <2>1. m.kind \in {"ack", "nak"} /\ m.xid = xid
    BY DEF Reply, ClientInv
  <2>2. /\ m.server \in Servers /\ answered[m.server] # None
        /\ m.xid <= answered[m.server].xid
        /\ m.xid = answered[m.server].xid => m = answered[m.server]
    BY <2>1 DEF AnswerInv
  <2>3. answered[m.server].xid \in Nat /\ answered[m.server].xid <= xid /\ xid \in Nat
    BY <2>2 DEF ServerInv, TypeInv
  <2>4. QED
    BY <2>1, <2>2, <2>3 DEF Answered
<1>5. QED
  BY <1>2, <1>3, <1>4

(* Before a new request nothing stands under its number.                      *)
LEMMA DrawsKeep ==
  ASSUME IInv, Start \/ TakeOffer
  PROVE  IInv'
<1> USE DEF IInv
<1>1. PICK m : /\ to_server' \subseteq to_server \cup {m} /\ m.kind # "release"
               /\ m.kind = "request" => /\ m.xid = xid + 1
                                        /\ m.server = server_id' /\ m.addr = asked'
  <2>1. CASE Start
    <3>1. to_server' \subseteq to_server \cup {Discover(xid')}
      BY <2>1, Channels DEF Start
    <3>2. Discover(xid').kind = "discover"
      BY DEF Discover
    <3>3. QED
      BY <3>1, <3>2
  <2>2. CASE TakeOffer
    <3>1. to_server' \subseteq to_server \cup {Request(xid', server_id', asked')} /\ xid' = xid + 1
      BY <2>2, Channels DEF TakeOffer
    <3>2. /\ Request(xid', server_id', asked').kind = "request"
          /\ Request(xid', server_id', asked').xid = xid'
          /\ Request(xid', server_id', asked').server = server_id'
          /\ Request(xid', server_id', asked').addr = asked'
      BY DEF Request
    <3>3. QED
      BY <3>1, <3>2
  <2>3. QED
    BY <2>1, <2>2
<1>2. /\ xid' = xid + 1 /\ xid \in Nat /\ ~dhcp_in_ready'
      /\ pc \in {"start", "discover"} /\ pc' \in {"discover", "request"}
      /\ UNCHANGED <<offered, answered, leases, to_client>>
  BY DEF Start, TakeOffer, server, TypeInv
<1>3. udp_conns' \in 0 .. UdpConns /\ udp_conns' > 0
  BY Constants DEF Start, TakeOffer, UdpNew, TypeInv, ClientInv
<1>4. /\ pc' = "discover" => dhcp_state' = "init"
      /\ pc' = "request" => dhcp_state' = "requesting"
  BY DEF Start, TakeOffer, ClientInv
<1>5. TypeInv' /\ ClientInv'
  BY <1>2, <1>3, <1>4 DEF TypeInv, ClientInv, ConnFree
<1>6. ServerInv' /\ AnswerInv'
  BY <1>2 DEF ServerInv, AnswerInv
<1>7. RequestInv'
  BY <1>1, <1>2 DEF RequestInv
<1>8. LeaseInv' /\ ReplyInv'
  BY <1>2 DEF ServerInv, LeaseInv, ReplyInv
<1>9. QED
  BY <1>5, <1>6, <1>7, <1>8

LEMMA ResendKeeps ==
  ASSUME IInv, Resend
  PROVE  IInv'
<1> USE DEF IInv
<1>1. UNCHANGED <<client, server, to_client>>
      /\ to_server' \subseteq to_server \cup {DhcpOut}
  BY Channels DEF Resend
<1>2. /\ DhcpOut.kind # "release"
      /\ DhcpOut.kind = "request" =>
           DhcpOut.xid = xid /\ DhcpOut.server = server_id /\ DhcpOut.addr = asked
  BY DEF DhcpOut, Discover, Request
<1>3. TypeInv' /\ ClientInv' /\ ServerInv' /\ AnswerInv'
  BY <1>1 DEF TypeInv, ClientInv, ServerInv, AnswerInv, ConnFree, client, server
<1>4. LeaseInv' /\ ReplyInv'
  BY <1>1 DEF LeaseInv, ReplyInv, Answered, client, server
<1>5. RequestInv'
  BY <1>1, <1>2 DEF RequestInv, client, TypeInv
<1>6. QED
  BY <1>3, <1>4, <1>5

LEMMA GivesUpKeeps ==
  ASSUME IInv, BadOffer \/ TakeNak \/ BadAck
  PROVE  IInv'
<1> USE DEF IInv
<1>1. /\ pc \in {"discover", "request"} /\ pc' = "start" /\ dhcp_state' = "init"
      /\ UNCHANGED <<xid, server_id, asked, offered, answered, leases, to_client, to_server>>
  BY DEF BadOffer, TakeNak, BadAck, server, ClientInv
<1>2. udp_conns' \in 0 .. UdpConns
  <2>1. udp_conns \in 1 .. UdpConns /\ UdpConns \in Nat
    BY <1>1, Constants DEF TypeInv, ClientInv
  <2>2. udp_conns' \in {udp_conns, udp_conns - 1}
    BY DEF BadOffer, TakeNak, BadAck, UdpRemove
  <2>3. QED
    BY <2>1, <2>2
<1>3. TypeInv' /\ ClientInv'
  BY <1>1, <1>2 DEF TypeInv, ClientInv, ConnFree
<1>4. ServerInv' /\ RequestInv' /\ AnswerInv' /\ LeaseInv' /\ ReplyInv'
  BY <1>1 DEF ServerInv, RequestInv, AnswerInv, LeaseInv, ReplyInv
<1>5. QED
  BY <1>3, <1>4

(* The address taken is the one that the server asked keeps.                  *)
LEMMA TakeAckKeeps ==
  ASSUME IInv, TakeAck
  PROVE  IInv'
<1> USE DEF IInv
<1>1. /\ pc = "request" /\ dhcp_in_ready /\ dhcp_in.kind # "nak"
      /\ pc' = "bound" /\ hostaddr' = dhcp_in.addr /\ udp_conns' = udp_conns - 1
      /\ UNCHANGED <<xid, server_id, asked, offered, answered, leases, to_client, to_server>>
  BY DEF TakeAck, UdpRemove, server
<1>2. /\ dhcp_in.kind = "ack" /\ Answered(dhcp_in.server)
      /\ answered[dhcp_in.server] = dhcp_in
  BY <1>1 DEF ReplyInv
<1>3. dhcp_in.server = server_id
  BY <1>2 DEF LeaseInv, Answered
<1>4. TypeInv' /\ ClientInv'
  BY <1>1, Constants DEF TypeInv, ClientInv, ConnFree
<1>5. ServerInv' /\ RequestInv' /\ AnswerInv' /\ LeaseInv'
  BY <1>1 DEF ServerInv, RequestInv, AnswerInv, LeaseInv
<1>6. ReplyInv'
  BY <1>1, <1>2, <1>3 DEF ReplyInv, Answered
<1>7. QED
  BY <1>4, <1>5, <1>6

LEMMA ReleaseKeeps ==
  ASSUME IInv, ReleaseLease
  PROVE  IInv'
<1> USE DEF IInv
<1>1. /\ pc' = "released"
      /\ to_server' \subseteq to_server \cup {Release(server_id, hostaddr)}
      /\ UNCHANGED <<xid, udp_conns, server_id, asked, offered, answered, leases, to_client>>
  BY Channels DEF ReleaseLease, server
<1>2. Release(server_id, hostaddr).kind = "release"
  BY DEF Release
<1>3. TypeInv' /\ ClientInv' /\ ServerInv' /\ AnswerInv'
  BY <1>1 DEF TypeInv, ClientInv, ServerInv, AnswerInv, ConnFree
<1>4. RequestInv' /\ LeaseInv' /\ ReplyInv'
  BY <1>1, <1>2 DEF RequestInv, LeaseInv, ReplyInv
<1>5. QED
  BY <1>3, <1>4

--------------------------------------------------------------------------------
LEMMA OfferKeeps ==
  ASSUME IInv, NEW s \in Servers, ServerOffer(s)
  PROVE  IInv'
<1> USE DEF IInv
<1>1. PICK m \in to_server, a \in Addresses, id \in OfferIds :
        /\ offered' = [offered EXCEPT ![s] = Offer(m.xid, s, a, id)]
        /\ to_client' \in Sent(to_client, offered'[s])
        /\ to_server' \in Received(to_server, m)
        /\ UNCHANGED <<client, answered, leases>>
  BY DEF ServerOffer
<1>2. to_client' \subseteq to_client \cup {offered'[s]} /\ to_server' \subseteq to_server
  BY <1>1, Channels
<1>3. \A t \in Servers :
        t = s => offered'[t].kind = "offer" /\ offered'[t].addr = a
  BY <1>1 DEF TypeInv, Offer
<1>4. \A t \in Servers : t # s => offered'[t] = offered[t]
  BY <1>1 DEF TypeInv
<1>5. TypeInv'
  BY <1>1 DEF TypeInv, client
<1>6. ServerInv'
  BY <1>1, <1>3, <1>4 DEF ServerInv, client
<1>7. AnswerInv'
  BY <1>1, <1>2, <1>3 DEF AnswerInv
<1>8. ClientInv' /\ RequestInv' /\ LeaseInv'
  BY <1>1, <1>2 DEF ClientInv, RequestInv, LeaseInv, ConnFree, client
<1>9. ReplyInv'
  BY <1>1 DEF ReplyInv, Answered, client
<1>10. QED
  BY <1>5, <1>6, <1>7, <1>8, <1>9

(* A server answers a request, once for each number.                          *)
LEMMA AnswerKeeps ==
  ASSUME IInv, NEW s \in Servers, NEW m \in to_server, NEW r,
         m.kind = "request", m.server = s, Older(answered[s], m.xid),
         r # None, r.kind \in {"ack", "nak"}, r.xid = m.xid, r.server = s,
         r.kind = "ack" => r.addr = m.addr /\ leases'[s] = m.addr,
         answered' = [answered EXCEPT ![s] = r],
         leases' = [leases EXCEPT ![s] = leases'[s]],
         to_client' \subseteq to_client \cup {r}, to_server' \subseteq to_server,
         UNCHANGED <<client, offered>>
  PROVE  IInv'
<1> USE DEF IInv
<1>1. /\ m.xid \in Nat /\ m.xid <= xid
      /\ m.xid = xid => m.server = server_id /\ m.addr = asked
  BY DEF RequestInv
<1>2. /\ \A t \in Servers : answered'[t] = IF t = s THEN r ELSE answered[t]
      /\ \A t \in Servers : t # s => leases'[t] = leases[t]
  BY DEF TypeInv
<1>3. answered[s] # None => answered[s].xid \in Nat /\ answered[s].xid < m.xid
  BY <1>1 DEF Older, ServerInv
<1>4. UNCHANGED <<pc, xid, server_id, asked, hostaddr, dhcp_in, dhcp_in_ready, dhcp_state,
                  udp_conns, offered>>
  BY DEF client
<1>5. TypeInv' /\ ClientInv'
  BY <1>4 DEF TypeInv, ClientInv, ConnFree
<1>6. ServerInv'
  BY <1>1, <1>2, <1>4 DEF ServerInv
<1>7. RequestInv'
  BY <1>4 DEF RequestInv
<1>8. AnswerInv'
  <2> SUFFICES ASSUME NEW n \in to_client', n.kind \in {"ack", "nak"}
               PROVE  /\ n.server \in Servers /\ answered'[n.server] # None
                      /\ n.xid \in Nat /\ n.xid <= answered'[n.server].xid
                      /\ n.xid = answered'[n.server].xid => n = answered'[n.server]
    BY DEF AnswerInv
  <2>1. CASE n = r
    BY <1>1, <1>2, <2>1
  <2>2. CASE n \in to_client
    <3>1. /\ n.server \in Servers /\ answered[n.server] # None
          /\ n.xid \in Nat /\ n.xid <= answered[n.server].xid
          /\ n.xid = answered[n.server].xid => n = answered[n.server]
      BY <2>2 DEF AnswerInv
    <3>2. QED
      BY <1>1, <1>2, <1>3, <3>1
  <2>3. QED
    BY <2>1, <2>2
<1>9. LeaseInv'
  <2> SUFFICES ASSUME NEW t \in Servers, answered'[t] # None, answered'[t].kind = "ack",
                      answered'[t].xid = xid
               PROVE  t = server_id /\ (pc # "released" => leases'[t] = answered'[t].addr)
    BY <1>4 DEF LeaseInv
  <2>1. CASE t = s
    BY <1>1, <1>2, <2>1
  <2>2. CASE t # s
    BY <1>2, <2>2 DEF LeaseInv
  <2>3. QED
    BY <2>1, <2>2
<1>10. \A t : Answered(t) => Answered(t)' /\ answered'[t] = answered[t]
  BY <1>1, <1>2, <1>3, <1>4 DEF Answered
<1>11. ReplyInv'
  BY <1>4, <1>10 DEF ReplyInv
<1>12. QED
  BY <1>5, <1>6, <1>7, <1>8, <1>9, <1>11

LEMMA AnswersKeep ==
  ASSUME IInv, NEW s \in Servers, ServerAck(s) \/ ServerNak(s)
  PROVE  IInv'
<1>1. CASE ServerAck(s)
  <2>1. PICK m \in to_server, ok \in BOOLEAN :
          /\ m.kind = "request" /\ m.server = s /\ Older(answered[s], m.xid)
          /\ offered[s] # None /\ offered[s].addr = m.addr
          /\ answered' = [answered EXCEPT ![s] = Ack(m.xid, s, m.addr, ok)]
          /\ leases' = [leases EXCEPT ![s] = m.addr]
          /\ to_client' \in Sent(to_client, answered'[s])
          /\ to_server' \in Received(to_server, m) /\ UNCHANGED <<client, offered>>
    BY <1>1 DEF ServerAck
  <2> DEFINE r == Ack(m.xid, s, m.addr, ok)
  <2>2. m.xid \in Nat /\ m.addr \in Addresses
    BY <2>1 DEF IInv, RequestInv, ServerInv
  <2>3. /\ r \in [kind : {"ack"}, xid : Nat, server : Servers, addr : Addresses, ok : BOOLEAN]
        /\ r.kind = "ack" /\ r.xid = m.xid /\ r.server = s /\ r.addr = m.addr
    BY <2>2 DEF Ack
  <2>4. r # None
    BY <2>3, DhcpAssumption DEF DhcpAssumption
  <2> HIDE DEF r
  <2>5. answered'[s] = r /\ leases'[s] = m.addr /\ leases' = [leases EXCEPT ![s] = leases'[s]]
    BY <2>1 DEF r, IInv, TypeInv
  <2>6. /\ answered' = [answered EXCEPT ![s] = r] /\ to_server' \subseteq to_server
        /\ to_client' \subseteq to_client \cup {r}
    BY <2>1, <2>5, Channels DEF r
  <2>7. QED
    <3>1. r.kind \in {"ack", "nak"} /\ UNCHANGED <<client, offered>>
          /\ (r.kind = "ack" => r.addr = m.addr /\ leases'[s] = m.addr)
      BY <2>1, <2>3, <2>5
    <3>2. QED
      BY <2>1, <2>3, <2>4, <2>5, <2>6, <3>1, AnswerKeeps
<1>2. CASE ServerNak(s)
  <2>1. PICK m \in to_server :
          /\ m.kind = "request" /\ m.server = s /\ Older(answered[s], m.xid)
          /\ answered' = [answered EXCEPT ![s] = Nak(m.xid, s)]
          /\ leases' = [leases EXCEPT ![s] = None]
          /\ to_client' \in Sent(to_client, answered'[s])
          /\ to_server' \in Received(to_server, m) /\ UNCHANGED <<client, offered>>
    BY <1>2 DEF ServerNak
  <2> DEFINE r == Nak(m.xid, s)
  <2>2. m.xid \in Nat
    BY <2>1 DEF IInv, RequestInv
  <2>3. /\ r \in [kind : {"nak"}, xid : Nat, server : Servers]
        /\ r.kind = "nak" /\ r.xid = m.xid /\ r.server = s
    BY <2>2 DEF Nak
  <2>4. r # None
    BY <2>3, DhcpAssumption DEF DhcpAssumption
  <2> HIDE DEF r
  <2>5. answered'[s] = r /\ leases' = [leases EXCEPT ![s] = leases'[s]]
    BY <2>1 DEF r, IInv, TypeInv
  <2>6. /\ answered' = [answered EXCEPT ![s] = r] /\ to_server' \subseteq to_server
        /\ to_client' \subseteq to_client \cup {r}
    BY <2>1, <2>5, Channels DEF r
  <2>7. QED
    <3>1. r.kind \in {"ack", "nak"} /\ UNCHANGED <<client, offered>>
          /\ (r.kind = "ack" => r.addr = m.addr /\ leases'[s] = m.addr)
      BY <2>1, <2>3, <2>5
    <3>2. QED
      BY <2>1, <2>3, <2>4, <2>5, <2>6, <3>1, AnswerKeeps
<1>3. QED
  BY <1>1, <1>2

LEMMA RepeatKeeps ==
  ASSUME IInv, NEW s \in Servers, ServerRepeat(s)
  PROVE  IInv'
<1> USE DEF IInv
<1>1. PICK r \in {offered[s], answered[s]} :
        /\ r # None /\ to_client' \subseteq to_client \cup {r}
        /\ to_server' \subseteq to_server /\ UNCHANGED <<client, server>>
  BY Channels DEF ServerRepeat
<1>2. r.kind \in {"ack", "nak"} => /\ r = answered[s] /\ r.server = s /\ r.xid \in Nat
  BY <1>1 DEF ServerInv
<1>3. AnswerInv'
  BY <1>1, <1>2 DEF AnswerInv, server
<1>4. TypeInv' /\ ClientInv' /\ ServerInv' /\ RequestInv'
  BY <1>1 DEF TypeInv, ClientInv, ServerInv, RequestInv, ConnFree, client, server
<1>5. LeaseInv' /\ ReplyInv'
  BY <1>1 DEF LeaseInv, ReplyInv, Answered, client, server
<1>6. QED
  BY <1>3, <1>4, <1>5

LEMMA GivenBackKeeps ==
  ASSUME IInv, NEW s \in Servers, ServerRelease(s)
  PROVE  IInv'
<1> USE DEF IInv
<1>1. /\ pc = "released" /\ to_server' \subseteq to_server
      /\ UNCHANGED <<client, offered, answered, to_client>>
      /\ \E a : leases' = [leases EXCEPT ![s] = a]
  BY Channels DEF ServerRelease, RequestInv
<1>2. TypeInv' /\ ClientInv' /\ ServerInv' /\ RequestInv'
  BY <1>1 DEF TypeInv, ClientInv, ServerInv, RequestInv, ConnFree, client
<1>3. AnswerInv' /\ LeaseInv' /\ ReplyInv'
  BY <1>1 DEF AnswerInv, LeaseInv, ReplyInv, client
<1>4. QED
  BY <1>2, <1>3

LEMMA IInvStep == IInv /\ [Next]_vars => IInv'
<1> SUFFICES ASSUME IInv, [Next]_vars PROVE IInv'
  OBVIOUS
<1>1. CASE UNCHANGED vars
  <2>1. TypeInv' /\ ClientInv' /\ ServerInv' /\ RequestInv' /\ AnswerInv'
    BY <1>1 DEF IInv, TypeInv, ClientInv, ServerInv, RequestInv, AnswerInv, ConnFree,
                vars, client, server
  <2>2. LeaseInv' /\ ReplyInv'
    BY <1>1 DEF IInv, LeaseInv, ReplyInv, Answered, vars, client, server
  <2>3. QED
    BY <2>1, <2>2 DEF IInv
<1>2. CASE Start \/ Resend \/ Takes \/ ReleaseLease
  BY <1>2, DrawsKeep, ResendKeeps, GivesUpKeeps, TakeAckKeeps, ReleaseKeeps DEF Takes
<1>3. CASE \E m \in to_client : Poll(m)
  BY <1>3, PollKeeps
<1>4. CASE \E s \in Servers : Serves(s) \/ ServerRelease(s)
  BY <1>4, OfferKeeps, AnswersKeep, RepeatKeeps, GivenBackKeeps DEF Serves
<1>5. QED
  BY <1>1, <1>2, <1>3, <1>4 DEF Next

LEMMA Invariance == Spec => []IInv
BY IInvInit, IInvStep, PTL DEF Spec

\* The address the client uses is leased to it by the server it will release it to,
\* whichever packets of this or an earlier attempt are late, duplicated or lost.
THEOREM AddressIsLeased == Spec => []LeaseHeld
<1>1. IInv => LeaseHeld
  BY DEF IInv, LeaseInv, ReplyInv, Answered, LeaseHeld
<1>2. QED
  BY <1>1, Invariance, PTL

\* When the client has an address, a uIP connection is left for the downloads and
\* for the release, however many attempts have kept theirs.
THEOREM ConnectionLeft == Spec => []ConnFree
<1>1. IInv => ConnFree
  BY DEF IInv, ClientInv
<1>2. QED
  BY <1>1, Invariance, PTL

\* dhcp_request gives a request up only when that request was refused, or granted
\* with options that cannot be applied: no packet of an earlier one ends it.
THEOREM EndedByItsAnswer == Spec => NoStaleReply
<1>1. IInv /\ [Next]_vars =>
        [pc = "request" /\ pc' = "start" =>
           \E s \in Servers : /\ answered[s] # None /\ answered[s].xid = xid
                              /\ (answered[s].kind = "ack" => ~answered[s].ok)]_vars
  <2> SUFFICES ASSUME IInv, Next, pc = "request", pc' = "start"
               PROVE  \E s \in Servers :
                        /\ answered[s] # None /\ answered[s].xid = xid
                        /\ (answered[s].kind = "ack" => ~answered[s].ok)
    OBVIOUS
  <2>1. TakeNak \/ BadAck
    BY DEF Next, Start, Resend, Takes, BadOffer, TakeOffer, TakeAck, ReleaseLease, Poll,
           Serves, ServerOffer, ServerAck, ServerNak, ServerRepeat, ServerRelease, client
  <2>2. dhcp_in_ready /\ (dhcp_in.kind = "ack" => ~dhcp_in.ok)
    BY <2>1 DEF TakeNak, BadAck
  <2>3. Answered(dhcp_in.server) /\ answered[dhcp_in.server] = dhcp_in
    BY <2>2 DEF IInv, ReplyInv
  <2>4. QED
    BY <2>2, <2>3 DEF Answered
<1>2. QED
  BY <1>1, Invariance, PTL DEF Spec, NoStaleReply

--------------------------------------------------------------------------------
(* Netboot.                                                                   *)
Before == {"dhcp", "bootfile"}          \* the bootfile is not there yet
Parsed == {"release", "boot"}           \* the line is as it will be

NetbootTypeInv ==
  /\ bootsize \in 0 .. KernelSize
  /\ stage \in {"dhcp", "bootfile", "ramdisk", "args", "strip", "release",
             "boot", "booted", "halt", "returned", "undefined"}
  /\ cmd_line \in Seq({"a", "f", "s", "c", "t"})
  /\ argsfile \in {<<>>} \cup {<<f>> : f \in ArgsFiles}

RamdiskInv ==
  /\ stage \in Before => ramdisk = NoAddress
  /\ ramdisk # NoAddress =>
       /\ ramdisk \in Nat /\ ramdisk_size \in Nat
       /\ bootsize <= ramdisk /\ ramdisk + ramdisk_size <= KernelSize

\* The line is the file without the blanks at its end.
IsLine(line, file) ==
  /\ Len(line) <= Len(file)
  /\ Len(line) > 0 => line[Len(line)] # "s"
  /\ \A i \in 1 .. Len(line) : line[i] = Spaced(file[i])
  /\ \A i \in Len(line) + 1 .. Len(file) : file[i] \in Blank

LineInv ==
  /\ stage \in Before \cup {"ramdisk", "args"} => argsfile = <<>>
  /\ stage = "strip" => /\ argsfile # <<>>
                     /\ Len(argsfile[1]) <= Len(cmd_line)
                     /\ \A i \in 1 .. Len(argsfile[1]) : cmd_line[i] = argsfile[1][i]
  /\ stage \in Parsed /\ argsfile # <<>> => IsLine(cmd_line, argsfile[1])
  /\ stage = "booted" => FileIsLine

NetbootInv == NetbootTypeInv /\ RamdiskInv /\ LineInv

LEMMA NetbootConstants ==
  /\ KernelSize \in Nat /\ Page \in Nat \ {0} /\ NoAddress \notin 0 .. KernelSize
  /\ \A f \in ArgsFiles : f \in Seq({"f", "s", "c"}) /\ Len(f) \in Nat
BY NetbootAssumption DEF NetbootAssumption, NoAddress

--------------------------------------------------------------------------------
LEMMA Quotient ==
  ASSUME NEW p \in Nat \ {0}, NEW n \in Nat
  PROVE  /\ (n \div p) * p \in Nat
         /\ (n \div p) * p <= n /\ n < (n \div p) * p + p
OBVIOUS

LEMMA AlignedBehind ==
  ASSUME NetbootTypeInv
  PROVE  Aligned \in Nat /\ bootsize <= Aligned
<1>1. bootsize + Page - 1 \in Nat /\ bootsize \in Nat /\ Page \in Nat \ {0}
  BY NetbootConstants DEF NetbootTypeInv
<1>2. /\ Aligned \in Nat /\ bootsize + Page - 1 < Aligned + Page
  BY <1>1, Quotient DEF Aligned
<1>3. QED
  BY <1>1, <1>2

(* There is a last character that is not blank, or there is none.             *)
LEMMA Stripped ==
  ASSUME NEW file \in Seq({"f", "s", "c"})
  PROVE  /\ StrippedSize(file) \in 0 .. Len(file)
         /\ StrippedSize(file) > 0 => file[StrippedSize(file)] \notin Blank
         /\ \A i \in StrippedSize(file) + 1 .. Len(file) : file[i] \in Blank
<1> DEFINE Rest(n) == \A i \in n + 1 .. Len(file) : file[i] \in Blank
           Sizes == {n \in 0 .. Len(file) : Rest(n)}
           Less == {ss \in Nat \X Nat : ss[1] < ss[2]}
<1>1. Len(file) \in Nat
  OBVIOUS
<1>2. Len(file) \in Sizes /\ Sizes \subseteq Nat
  BY <1>1
<1>3. IsWellFoundedOn(Less, Nat)
  BY NatLessThanWellFounded DEF OpToRel
<1>4. PICK n \in Sizes : \A k \in Sizes : <<k, n>> \notin Less
  BY <1>2, <1>3, WFMin
<1>5. ASSUME n > 0
      PROVE  file[n] \notin Blank
  <2>1. n \in 1 .. Len(file) /\ n - 1 \in 0 .. Len(file) /\ Rest(n)
    BY <1>1, <1>4, <1>5
  <2>2. n - 1 \notin Sizes
    <3>1. <<n - 1, n>> \in Less
      BY <2>1
    <3>2. QED
      BY <1>4, <3>1
  <2>3. ~Rest(n - 1)
    BY <2>1, <2>2
  <2>4. PICK i \in n .. Len(file) : file[i] \notin Blank
    BY <2>1, <2>3
  <2>5. i = n
    BY <2>1, <2>4
  <2>6. QED
    BY <2>4, <2>5
<1>6. n \in 0 .. Len(file) /\ Rest(n)
  BY <1>4
<1>7. QED
  BY <1>1, <1>5, <1>6 DEF StrippedSize

LEMMA OverwrittenLine ==
  ASSUME NetbootTypeInv, NEW file \in ArgsFiles, NEW n \in 0 .. Len(file)
  PROVE  /\ Overwritten(file, n) \in Seq({"a", "f", "s", "c", "t"})
         /\ n <= Len(Overwritten(file, n))
         /\ \A i \in 1 .. n : Overwritten(file, n)[i] = file[i]
<1> DEFINE All == {"a", "f", "s", "c", "t"}
           head == SubSeq(file, 1, n)
           tail == SubSeq(cmd_line, n + 1, Len(cmd_line))
<1>1. file \in Seq({"f", "s", "c"}) /\ Len(file) \in Nat /\ cmd_line \in Seq(All)
  BY NetbootConstants DEF NetbootTypeInv
<1>2. file \in Seq(All)
  BY <1>1
<1>3. head \in Seq(All) /\ Len(head) = n /\ \A i \in 1 .. n : head[i] = file[i]
  BY <1>1, <1>2
<1>4. tail \in Seq(All) /\ Len(tail) \in Nat
  BY <1>1
<1>5. Overwritten(file, n) = head \o tail
  BY DEF Overwritten
<1> HIDE DEF head, tail
<1>6. /\ head \o tail \in Seq(All) /\ Len(head \o tail) = n + Len(tail)
      /\ \A i \in 1 .. n : (head \o tail)[i] = head[i]
  BY <1>3, <1>4
<1>7. QED
  BY <1>3, <1>4, <1>5, <1>6

--------------------------------------------------------------------------------
LEMMA ArgsKeep ==
  ASSUME NetbootInv, NEW file \in ArgsFiles, Argsfile(file) \/ ArgsfileFails(file)
  PROVE  NetbootInv'
<1> USE DEF NetbootInv
<1>0. file \in Seq({"f", "s", "c"}) /\ Len(file) \in Nat
  BY NetbootConstants
<1>1. /\ stage = "args" /\ UNCHANGED <<bootsize, ramdisk, ramdisk_size>>
      /\ \E n \in 0 .. Len(file) : cmd_line' = Overwritten(file, n)
      /\ argsfile' \in {<<>>, <<file>>}
      /\ stage' \in {"strip", "release"}
      /\ stage' = "release" => argsfile' = <<>>
      /\ stage' = "strip" => argsfile' = <<file>> /\ cmd_line' = Overwritten(file, Len(file))
  BY <1>0 DEF Argsfile, ArgsfileFails
<1>2. cmd_line' \in Seq({"a", "f", "s", "c", "t"})
  BY <1>1, OverwrittenLine
<1>3. NetbootTypeInv'
  BY <1>1, <1>2 DEF NetbootTypeInv
<1>4. RamdiskInv'
  BY <1>1 DEF RamdiskInv, Before
<1>5. stage' = "strip" => /\ argsfile' # <<>> /\ argsfile'[1] = file
                       /\ Len(file) <= Len(cmd_line')
                       /\ \A i \in 1 .. Len(file) : cmd_line'[i] = file[i]
  <2>1. Len(file) \in 0 .. Len(file)
    BY <1>0
  <2>2. /\ Len(file) <= Len(Overwritten(file, Len(file)))
        /\ \A i \in 1 .. Len(file) : Overwritten(file, Len(file))[i] = file[i]
    BY <2>1, OverwrittenLine
  <2>3. <<file>> # <<>> /\ <<file>>[1] = file
    OBVIOUS
  <2>4. HAVE stage' = "strip"
  <2>5. argsfile' = <<file>> /\ cmd_line' = Overwritten(file, Len(file))
    BY <1>1, <2>4
  <2>6. QED
    BY <2>2, <2>3, <2>5
<1>6. LineInv'
  BY <1>1, <1>5 DEF LineInv, Before, Parsed
<1>7. QED
  BY <1>3, <1>4, <1>6

LEMMA StripKeeps ==
  ASSUME NetbootInv, Strip \/ StripEmpty
  PROVE  NetbootInv'
<1> USE DEF NetbootInv
<1>1. /\ stage = "strip" /\ UNCHANGED <<bootsize, ramdisk, ramdisk_size, argsfile>>
      /\ stage' \in {"release", "undefined"}
  BY DEF Strip, StripEmpty
<1>2. PICK file \in ArgsFiles : argsfile = <<file>>
  BY <1>1 DEF NetbootTypeInv, LineInv
<1>3. /\ file \in Seq({"f", "s", "c"}) /\ Len(file) \in Nat /\ argsfile[1] = file
      /\ Len(file) <= Len(cmd_line)
      /\ \A i \in 1 .. Len(file) : cmd_line[i] = file[i]
  BY <1>1, <1>2, NetbootConstants DEF LineInv
<1>4. RamdiskInv'
  BY <1>1 DEF RamdiskInv, Before
<1>5. CASE Strip
  <2> DEFINE n == StrippedSize(file)
             line == [i \in 1 .. n |-> Spaced(cmd_line[i])]
  <2>1. /\ n \in 0 .. Len(file)
        /\ n > 0 => file[n] \notin Blank
        /\ \A i \in n + 1 .. Len(file) : file[i] \in Blank
    BY <1>3, Stripped
  <2>2. cmd_line' = line /\ stage' = "release"
    BY <1>3, <1>5 DEF Strip
  <2> HIDE DEF n
  <2>3. /\ line \in Seq({"f", "s"}) /\ Len(line) = n
        /\ \A i \in 1 .. n : line[i] = Spaced(file[i])
    <3>1. n \in Nat /\ \A i \in 1 .. n : i \in 1 .. Len(file)
      BY <1>3, <2>1
    <3>2. \A i \in 1 .. Len(file) : file[i] \in {"f", "s", "c"}
      BY <1>3
    <3>3. \A i \in 1 .. n : Spaced(cmd_line[i]) = Spaced(file[i])
                           /\ Spaced(cmd_line[i]) \in {"f", "s"}
      BY <1>3, <3>1, <3>2 DEF Spaced
    <3>4. line \in [1 .. n -> {"f", "s"}]
      BY <3>3
    <3>5. QED
      BY <3>1, <3>3, <3>4, SeqDef
  <2> HIDE DEF line
  <2>4. n > 0 => line[n] # "s"
    <3>1. n > 0 => n \in 1 .. Len(file) /\ file[n] \notin Blank /\ file[n] \in {"f", "s", "c"}
      BY <1>3, <2>1
    <3>2. QED
      BY <2>1, <2>3, <3>1 DEF Spaced, Blank
  <2>5. IsLine(line, file)
    BY <2>1, <2>3, <2>4 DEF IsLine
  <2>6. line \in Seq({"a", "f", "s", "c", "t"})
    BY <2>3
  <2>7. NetbootTypeInv'
    BY <1>1, <2>2, <2>6 DEF NetbootTypeInv
  <2>8. LineInv'
    BY <1>1, <1>3, <2>2, <2>5 DEF LineInv, Before, Parsed
  <2>9. QED
    BY <1>4, <2>7, <2>8
<1>6. CASE StripEmpty
  <2>1. /\ file = <<>>
        /\ cmd_line' = <<>> \/ (stage' = "undefined" /\ cmd_line' = cmd_line)
    BY <1>3, <1>6 DEF StripEmpty
  <2>2. cmd_line' \in Seq({"a", "f", "s", "c", "t"})
    <3>1. <<>> \in Seq({"a", "f", "s", "c", "t"})
      OBVIOUS
    <3>2. cmd_line \in Seq({"a", "f", "s", "c", "t"})
      BY DEF NetbootTypeInv
    <3>3. QED
      BY <2>1, <3>1, <3>2
  <2>3. NetbootTypeInv'
    BY <1>1, <2>2 DEF NetbootTypeInv
  <2>4. cmd_line' = <<>> => IsLine(cmd_line', file)
    BY <2>1 DEF IsLine
  <2>5. LineInv'
    BY <1>1, <1>3, <2>1, <2>4 DEF LineInv, Before, Parsed
  <2>6. QED
    BY <1>4, <2>3, <2>5
<1>7. QED
  BY <1>5, <1>6

LEMMA BootKeeps ==
  ASSUME NetbootInv, Boot
  PROVE  NetbootInv'
<1> USE DEF NetbootInv
<1> DEFINE All == {"a", "f", "s", "c", "t"}
           line == Append(cmd_line, "t")
<1>1. /\ stage = "boot" /\ UNCHANGED <<bootsize, ramdisk, ramdisk_size, argsfile>>
      /\ stage' \in {"booted", "returned"} /\ cmd_line' = line
  BY DEF Boot
<1>2. /\ cmd_line \in Seq(All) /\ Len(cmd_line) \in Nat
  BY DEF NetbootTypeInv
<1>3. /\ line \in Seq(All) /\ Len(line) = Len(cmd_line) + 1
      /\ line[Len(cmd_line) + 1] = "t"
      /\ \A i \in 1 .. Len(cmd_line) : line[i] = cmd_line[i]
  BY <1>2
<1> HIDE DEF line
<1>4. NetbootTypeInv' /\ RamdiskInv'
  BY <1>1, <1>3 DEF NetbootTypeInv, RamdiskInv, Before
<1>5. ASSUME stage' = "booted", argsfile' # <<>>
      PROVE  FileIsLine'
  <2>1. IsLine(cmd_line, argsfile[1])
    BY <1>1, <1>5 DEF LineInv, Parsed
  <2>2. Len(cmd_line') - 1 = Len(cmd_line)
    BY <1>1, <1>2, <1>3
  <2>3. Len(cmd_line) > 0 => cmd_line'[Len(cmd_line)] = cmd_line[Len(cmd_line)]
    BY <1>1, <1>2, <1>3
  <2>4. QED
    BY <1>1, <1>3, <2>1, <2>2, <2>3 DEF FileIsLine, IsLine
<1>6. LineInv'
  BY <1>1, <1>5 DEF LineInv, Before, Parsed, FileIsLine
<1>7. QED
  BY <1>4, <1>6

LEMMA DownloadsKeep ==
  ASSUME NetbootInv, TryDhcp \/ Bootfile \/ BootfileFails \/ Ramdisk \/ NoRamdisk
  PROVE  NetbootInv'
<1> USE DEF NetbootInv
<1>1. /\ stage \in Before \cup {"ramdisk"} /\ UNCHANGED <<cmd_line, argsfile>>
      /\ stage' \in {"bootfile", "ramdisk", "args", "halt"}
  BY DEF TryDhcp, Bootfile, BootfileFails, Ramdisk, NoRamdisk, Before
<1>2. bootsize' \in 0 .. KernelSize
  BY DEF NetbootTypeInv, TryDhcp, Bootfile, BootfileFails, Ramdisk, NoRamdisk
<1>3. NetbootTypeInv' /\ LineInv'
  BY <1>1, <1>2 DEF NetbootTypeInv, LineInv, Before, Parsed
<1>4. CASE Ramdisk
  <2>1. /\ ramdisk' = Aligned /\ Aligned < KernelSize /\ bootsize' = bootsize
        /\ ramdisk_size' \in 0 .. KernelSize - Aligned /\ stage' = "args"
    BY <1>4 DEF Ramdisk
  <2>2. Aligned \in Nat /\ bootsize <= Aligned /\ KernelSize \in Nat
    BY AlignedBehind, NetbootConstants
  <2>3. ramdisk_size' \in Nat /\ Aligned + ramdisk_size' <= KernelSize
    <3>1. ASSUME NEW a \in Nat, NEW k \in Nat, NEW r \in 0 .. k - a
          PROVE  r \in Nat /\ a + r <= k
      OBVIOUS
    <3>2. QED
      BY <2>1, <2>2, <3>1
  <2>4. RamdiskInv'
    BY <2>1, <2>2, <2>3 DEF RamdiskInv, Before
  <2>5. QED
    BY <1>3, <2>4
<1>5. CASE TryDhcp \/ Bootfile \/ BootfileFails \/ NoRamdisk
  <2>1. ramdisk' = NoAddress
    BY <1>5 DEF TryDhcp, Bootfile, BootfileFails, NoRamdisk, RamdiskInv, Before
  <2>2. QED
    BY <1>3, <2>1 DEF RamdiskInv
<1>6. QED
  BY <1>4, <1>5

LEMMA NetbootInvStep == NetbootInv /\ [NetbootNext]_netboot_vars => NetbootInv'
<1> SUFFICES ASSUME NetbootInv, [NetbootNext]_netboot_vars PROVE NetbootInv'
  OBVIOUS
<1>1. CASE \/ ReleaseAddress \/ ReleaseFails \/ OutOfSpace \/ Again \/ Halt
           \/ UNCHANGED netboot_vars
  <2>1. /\ cmd_line' = cmd_line
        /\ \/ UNCHANGED <<bootsize, ramdisk, ramdisk_size, argsfile>> /\ stage' = stage
           \/ UNCHANGED <<bootsize, ramdisk, ramdisk_size, argsfile>>
                /\ ((stage \in Parsed /\ stage' = "boot") \/ stage' \in {"returned", "halt"})
           \/ ramdisk' = NoAddress /\ bootsize' = 0 /\ argsfile' = <<>> /\ stage' = "dhcp"
    BY <1>1 DEF ReleaseAddress, ReleaseFails, OutOfSpace, Again, Halt, netboot_vars, Parsed
  <2>2. NetbootTypeInv'
    BY <2>1, NetbootConstants DEF NetbootInv, NetbootTypeInv
  <2>3. RamdiskInv'
    BY <2>1 DEF NetbootInv, RamdiskInv, Before
  <2>4. LineInv'
    BY <2>1 DEF NetbootInv, LineInv, Before, Parsed, FileIsLine
  <2>5. QED
    BY <2>2, <2>3, <2>4 DEF NetbootInv
<1>2. QED
  BY <1>1, DownloadsKeep, ArgsKeep, StripKeeps, BootKeeps DEF NetbootNext

LEMMA NetbootInvInit == NetbootInit => NetbootInv
<1> SUFFICES ASSUME NetbootInit PROVE NetbootInv
  OBVIOUS
<1>1. <<"a">> \in Seq({"a", "f", "s", "c", "t"})
  OBVIOUS
<1>2. QED
  BY <1>1, NetbootConstants DEF NetbootInit, Args, NetbootInv, NetbootTypeInv, RamdiskInv,
                                LineInv, Before, Parsed

LEMMA NetbootInvariance == NetbootSpec => []NetbootInv
BY NetbootInvInit, NetbootInvStep, PTL DEF NetbootSpec

\* netboot hands the kernel a ramdisk that lies behind the bootfile and within the
\* kernel's memory, whatever the sizes of the two files, and after a second call
\* too.
THEOREM RamdiskIsApart == NetbootSpec => []RamdiskApart
<1>1. NetbootInv => RamdiskApart
  BY DEF NetbootInv, RamdiskInv, RamdiskApart
<1>2. QED
  BY <1>1, NetbootInvariance, PTL

\* A kernel booted with an args file gets the file, without control characters and
\* blanks at its end, then the server, and nothing of an older line.
THEOREM LineIsFile == NetbootSpec => []FileIsLine
<1>1. NetbootInv => FileIsLine
  BY DEF NetbootInv, LineInv, FileIsLine
<1>2. QED
  BY <1>1, NetbootInvariance, PTL
================================================================================
