-------------------------------- MODULE Dhcp --------------------------------
(* The DHCP client of src/src/netboot/dhcp.c with the retry loop of        *)
(* src/src/netboot/netboot.c around it, against servers that may refuse    *)
(* or answer with broken options and a network that loses, duplicates,     *)
(* delays and reorders packets.                                            *)
(*                                                                         *)
(* The transaction ids drawn with rand() are taken to be different: they   *)
(* are numbered in the order they are drawn.                               *)
EXTENDS Naturals, FiniteSets

CONSTANTS
  Servers,
  Addresses,
  None,
  UdpConns,      \* CONFIG_UIP_UDP_CONNS
  OfferIds,      \* the server identifier option an offer may have: "good",
                 \* "absent" or "truncated"
  MaxRefusals,   \* bound: broken offers and acks, and naks, of the servers
  ChannelSize    \* bound: packets under way in each direction

ASSUME DhcpAssumption ==
  /\ None \notin Addresses \cup Servers
  /\ None \notin [kind : {"ack"}, xid : Nat, server : Servers, addr : Addresses,
                  ok : BOOLEAN] \cup [kind : {"nak"}, xid : Nat, server : Servers]
  /\ UdpConns \in Nat \ {0}
  /\ "good" \in OfferIds /\ OfferIds \subseteq {"good", "absent", "truncated"}
  /\ MaxRefusals \in Nat
  /\ ChannelSize \in Nat \ {0}

VARIABLES
  pc,             \* "start": about to call dhcp_request; "discover" and
                  \* "request": in dhcp_send_packet; "bound"; "released"
  dhcp_state,
  dhcp_in,        \* the last packet the callback saw
  dhcp_in_ready,
  xid,            \* the transaction id in dhcp_out, the last one drawn
  asked,          \* the address in dhcp_out
  server_id,
  hostaddr,       \* the address given to uIP
  udp_conns,      \* how many uIP connections are in use
  offered,        \* for each server, its last offer
  answered,       \* for each server, its last answer to a request
  leases,         \* for each server, the address it keeps for this client
  refusals,       \* how often the servers let the client down
  to_client, to_server    \* packets under way

client == <<pc, dhcp_state, dhcp_in, dhcp_in_ready, xid, asked, server_id,
            hostaddr, udp_conns>>
server == <<offered, answered, leases, refusals>>
vars == <<client, server, to_client, to_server>>

Xids == 0 .. 2 * (MaxRefusals + 1)
Discover(x) == [kind |-> "discover", xid |-> x]
Request(x, s, a) == [kind |-> "request", xid |-> x, server |-> s, addr |-> a]
Release(s, a) == [kind |-> "release", server |-> s, addr |-> a]
Offer(x, s, a, id) ==
  [kind |-> "offer", xid |-> x, server |-> s, addr |-> a, id |-> id]
Ack(x, s, a, ok) ==
  [kind |-> "ack", xid |-> x, server |-> s, addr |-> a, ok |-> ok]
Nak(x, s) == [kind |-> "nak", xid |-> x, server |-> s]

Offers == {Offer(x, s, a, id) : x \in Xids, s \in Servers, a \in Addresses,
                                id \in OfferIds}
Answers == {Ack(x, s, a, ok) : x \in Xids, s \in Servers, a \in Addresses,
                               ok \in BOOLEAN}
           \cup {Nak(x, s) : x \in Xids, s \in Servers}

TypeOK ==
  /\ pc \in {"start", "discover", "request", "bound", "released"}
  /\ dhcp_state \in {"init", "requesting", "bound"}
  /\ dhcp_in \in Offers \cup Answers \cup {None}
  /\ dhcp_in_ready \in BOOLEAN
  /\ xid \in Xids
  /\ asked \in Addresses \cup {None}
  /\ server_id \in Servers \cup {None}
  /\ hostaddr \in Addresses \cup {None}
  /\ udp_conns \in 0 .. UdpConns
  /\ offered \in [Servers -> Offers \cup {None}]
  /\ answered \in [Servers -> Answers \cup {None}]
  /\ leases \in [Servers -> Addresses \cup {None}]
  /\ refusals \in 0 .. MaxRefusals
  /\ to_client \subseteq Offers \cup Answers

Init ==
  /\ pc = "start"
  /\ dhcp_state = "init"
  /\ dhcp_in = None
  /\ dhcp_in_ready = FALSE
  /\ xid = 0
  /\ asked = None
  /\ server_id = None
  /\ hostaddr = None
  /\ udp_conns = 0
  /\ offered = [s \in Servers |-> None]
  /\ answered = [s \in Servers |-> None]
  /\ leases = [s \in Servers |-> None]
  /\ refusals = 0
  /\ to_client = {}
  /\ to_server = {}

(* A packet is lost or gets under way, at the expense of another one when  *)
(* the channel is full; it is delivered once or again.                     *)
Sent(chan, m) ==
  IF Cardinality(chan \cup {m}) <= ChannelSize
    THEN {chan, chan \cup {m}}
    ELSE {chan} \cup {(chan \ {x}) \cup {m} : x \in chan}
Received(chan, m) == {chan, chan \ {m}}

-----------------------------------------------------------------------------
(* dhcp_request.                                                           *)

UdpNew == udp_conns < UdpConns /\ udp_conns' = udp_conns + 1

(* The discover is sent; without a free connection dhcp_request returns    *)
(* and netboot calls it again.                                             *)
Start ==
  /\ pc = "start"
  /\ UdpNew
  /\ xid' = xid + 1
  /\ asked' = None
  /\ to_server' \in Sent(to_server, Discover(xid'))
  /\ dhcp_in_ready' = FALSE
  /\ pc' = "discover"
  /\ UNCHANGED <<dhcp_state, dhcp_in, server_id, hostaddr, server, to_client>>

DhcpOut == IF pc = "discover" THEN Discover(xid)
                              ELSE Request(xid, server_id, asked)

ResendNever ==                                                 \* mutant
  /\ pc = "released"
  /\ UNCHANGED vars

(* dhcp_send_packet: 3 s without a reply.                                  *)
Resend ==
  /\ pc \in {"discover", "request"}
  /\ ~dhcp_in_ready
  /\ to_server' \in Sent(to_server, DhcpOut)
  /\ UNCHANGED <<client, server, to_client>>

(* dhcp_callback: the packet is copied to dhcp_in before it is checked.    *)
ReplyAnyXid(m) ==                                              \* mutant
  CASE dhcp_state = "init" -> m.kind = "offer"
    [] dhcp_state = "requesting" -> m.kind \in {"ack", "nak"}
    [] dhcp_state = "bound" -> TRUE
Reply(m) ==
  /\ m.xid = xid
  /\ CASE dhcp_state = "init" -> m.kind = "offer"
       [] dhcp_state = "requesting" -> m.kind \in {"ack", "nak"}
       [] dhcp_state = "bound" -> TRUE

PollingOn ==                          \* mutant: polls on with the ack at hand
  \/ pc = "discover" /\ ~dhcp_in_ready
  \/ pc = "request"
Polling == pc \in {"discover", "request"} /\ ~dhcp_in_ready

Poll(m) ==
  /\ Polling
  /\ m \in to_client
  /\ to_client' \in Received(to_client, m)
  /\ dhcp_in' = m
  /\ dhcp_in_ready' = (dhcp_in_ready \/ Reply(m))
  /\ UNCHANGED <<pc, dhcp_state, xid, asked, server_id, hostaddr, udp_conns,
                 server, to_server>>

(* The offer's server id cannot be extracted: dhcp_request returns, with   *)
(* its connection still in use.                                            *)
BadOffer ==
  /\ pc = "discover"
  /\ dhcp_in_ready
  /\ dhcp_in.id = "truncated"
  /\ pc' = "start"
  /\ UNCHANGED <<dhcp_state, dhcp_in, dhcp_in_ready, xid, asked, server_id,
                 hostaddr, udp_conns, server, to_client, to_server>>

(* The offer is requested.  If it names no server, server_id is whatever   *)
(* was on the stack.                                                       *)
TakeOffer ==
  /\ pc = "discover"
  /\ dhcp_in_ready
  /\ dhcp_in.id # "truncated"
  /\ server_id' \in IF dhcp_in.id = "good" THEN {dhcp_in.server}
                                           ELSE Servers \cup {None}
  /\ dhcp_state' = "requesting"
  /\ xid' = xid + 1
  /\ asked' = dhcp_in.addr
  /\ to_server' \in Sent(to_server, Request(xid', server_id', asked'))
  /\ dhcp_in_ready' = FALSE
  /\ pc' = "request"
  /\ UNCHANGED <<dhcp_in, hostaddr, udp_conns, server, to_client>>

(* The request was refused: another return with the connection in use.     *)
TakeNak ==
  /\ pc = "request"
  /\ dhcp_in_ready
  /\ dhcp_in.kind = "nak"
  /\ dhcp_state' = "init"
  /\ pc' = "start"
  /\ UNCHANGED <<dhcp_in, dhcp_in_ready, xid, asked, server_id, hostaddr,
                 udp_conns, server, to_client, to_server>>

UdpKeep == UNCHANGED udp_conns                                 \* mutant
UdpRemove == udp_conns' = udp_conns - 1

(* It was granted, with options that cannot be applied, or for good.       *)
BadAck ==
  /\ pc = "request"
  /\ dhcp_in_ready
  /\ dhcp_in.kind = "ack" /\ ~dhcp_in.ok
  /\ UdpRemove
  /\ dhcp_state' = "init"
  /\ pc' = "start"
  /\ UNCHANGED <<dhcp_in, dhcp_in_ready, xid, asked, server_id, hostaddr,
                 server, to_client, to_server>>

TakeAck ==
  /\ pc = "request"
  /\ dhcp_in_ready
  /\ dhcp_in.kind # "nak"
  /\ dhcp_in.kind = "ack" => dhcp_in.ok
  /\ UdpRemove
  /\ dhcp_state' = "bound"
  /\ hostaddr' = dhcp_in.addr
  /\ pc' = "bound"
  /\ UNCHANGED <<dhcp_in, dhcp_in_ready, xid, asked, server_id, server,
                 to_client, to_server>>

(* dhcp_release, when the downloads are over: its connection is given back *)
(* before it returns.                                                      *)
ReleaseLease ==
  /\ pc = "bound"
  /\ udp_conns < UdpConns
  /\ to_server' \in Sent(to_server, Release(server_id, hostaddr))
  /\ dhcp_state' = "init"
  /\ pc' = "released"
  /\ UNCHANGED <<dhcp_in, dhcp_in_ready, xid, asked, server_id, hostaddr,
                 udp_conns, server, to_client>>

-----------------------------------------------------------------------------
(* The servers.  A packet sent again is answered as it was the first time. *)

Older(m, x) == m # None => m.xid < x
Refuse == refusals < MaxRefusals /\ refusals' = refusals + 1

ServerOffer(s) ==
  \E m \in to_server :
    /\ m.kind = "discover"
    /\ Older(offered[s], m.xid)
    /\ \E a \in Addresses, id \in OfferIds :
         /\ IF id = "good" THEN UNCHANGED refusals ELSE Refuse
         /\ offered' = [offered EXCEPT ![s] = Offer(m.xid, s, a, id)]
    /\ to_client' \in Sent(to_client, offered'[s])
    /\ to_server' \in Received(to_server, m)
    /\ UNCHANGED <<client, answered, leases>>

ServerAck(s) ==
  \E m \in to_server :
    /\ m.kind = "request" /\ m.server = s
    /\ Older(answered[s], m.xid)
    /\ offered[s] # None /\ offered[s].addr = m.addr
    /\ \E ok \in BOOLEAN :
         /\ IF ok THEN UNCHANGED refusals ELSE Refuse
         /\ answered' = [answered EXCEPT ![s] = Ack(m.xid, s, m.addr, ok)]
    /\ leases' = [leases EXCEPT ![s] = m.addr]
    /\ to_client' \in Sent(to_client, answered'[s])
    /\ to_server' \in Received(to_server, m)
    /\ UNCHANGED <<client, offered>>

(* Refused, perhaps because the server never offered the address: that is  *)
(* an offer without an identifier, counted already.                        *)
ServerNak(s) ==
  \E m \in to_server :
    /\ m.kind = "request" /\ m.server = s
    /\ Older(answered[s], m.xid)
    /\ IF offered[s] # None /\ offered[s].addr = m.addr
         THEN Refuse ELSE UNCHANGED refusals
    /\ answered' = [answered EXCEPT ![s] = Nak(m.xid, s)]
    /\ leases' = [leases EXCEPT ![s] = None]
    /\ to_client' \in Sent(to_client, answered'[s])
    /\ to_server' \in Received(to_server, m)
    /\ UNCHANGED <<client, offered>>

ServerRepeat(s) ==
  \E m \in to_server, r \in {offered[s], answered[s]} :
    /\ r # None
    /\ m.kind = IF r.kind = "offer" THEN "discover" ELSE "request"
    /\ m.xid = r.xid
    /\ m.kind = "request" => m.server = s
    /\ to_client' \in Sent(to_client, r)
    /\ to_server' \in Received(to_server, m)
    /\ UNCHANGED <<client, server>>

ServerRelease(s) ==
  \E m \in to_server :
    /\ m.kind = "release" /\ m.server = s
    /\ leases' = [leases EXCEPT ![s] = IF @ = m.addr THEN None ELSE @]
    /\ to_server' \in Received(to_server, m)
    /\ UNCHANGED <<client, offered, answered, refusals, to_client>>

-----------------------------------------------------------------------------
Takes == BadOffer \/ TakeOffer \/ TakeNak \/ BadAck \/ TakeAck
Serves(s) == ServerOffer(s) \/ ServerAck(s) \/ ServerNak(s) \/ ServerRepeat(s)

Next ==
  \/ Start \/ Resend \/ Takes \/ ReleaseLease
  \/ \E m \in to_client : Poll(m)
  \/ \E s \in Servers : Serves(s) \/ ServerRelease(s)

Spec == Init /\ [][Next]_vars

(* The client runs; of the packets it sends again and again some reach the *)
(* servers, which answer them again and again, and some answers get back.  *)
FairSpec ==
  /\ Spec
  /\ WF_vars(Start \/ Takes \/ ReleaseLease)
  /\ SF_vars(Resend /\ to_server' # to_server)
  /\ \A s \in Servers : SF_vars(/\ Serves(s)
                             /\ \E m \in to_client' \ to_client : Reply(m))
  /\ SF_vars(\E m \in to_client : Poll(m) /\ Reply(m))

-----------------------------------------------------------------------------
(* The address the client uses is the one that the server it names keeps   *)
(* for it, whatever was duplicated, late or from another transaction.      *)
LeaseHeld == pc = "bound" => hostaddr = leases[server_id]

(* Once the client has its address a connection is free, for the downloads *)
(* and for the release, whatever earlier attempts have left in use.        *)
ConnFree == pc = "bound" => udp_conns < UdpConns

(* A request is given up only because of the answer to that request.       *)
NoStaleReply ==
  [][pc = "request" /\ pc' = "start" =>
       \E s \in Servers : /\ answered[s] # None /\ answered[s].xid = xid
                          /\ (answered[s].kind = "ack" => ~answered[s].ok)]_vars

(* The client gets an address in the end, unless an offer that names no    *)
(* server makes it ask one that does not exist.                            *)
GetsAddress == <>(pc = "bound" \/ (pc = "request" /\ server_id = None))

(* netboot.c: "Dhcp failed, retrying."  It does try again.                 *)
Retries == pc = "start" ~> pc = "discover"
=============================================================================
