--------------------------------- MODULE Dhcp ----------------------------------
(****************************************************************************)
(* mini_dhcpd.py: the sticky-by-MAC pool and the DISCOVER/REQUEST handler,  *)
(* with the clients it serves.                                              *)
(*                                                                          *)
(* Replies and requests are UDP broadcasts: any message ever sent may be    *)
(* delivered late, twice, out of order or never, so the wire is the set of  *)
(* all messages sent so far.  The clients are modelled from the protocol    *)
(* (external): they match replies on their hardware address and xid, take   *)
(* an offer, ask for it, renew without option 50, and may come back asking  *)
(* for an address they remember.  The layout of a packet is not modelled.   *)
(****************************************************************************)
EXTENDS Naturals

CONSTANTS
  Macs,         \* hardware addresses of the clients
  Start, End,   \* the pool, --range Start-End
  Elsewhere,    \* addresses a client may remember from another network
  Returning,    \* clients that come back for more than one transaction
  MaxXid,       \* bound: transactions such a client opens
  MaxRestarts   \* bound: times the server is stopped and run again

None == 0       \* no address; 0.0.0.0 in a NAK

ASSUME RangeAssumption ==
  /\ Start \in Nat \ {0} /\ End \in Nat /\ Start <= End
ASSUME ElsewhereAssumption == Elsewhere \subseteq Nat \ {0}
ASSUME BoundsAssumption == MaxXid \in Nat \ {0} /\ MaxRestarts \in Nat

VARIABLES
  by_mac,    \* server: mac -> leased address, or None
  used,      \* server: addresses leased to anybody
  wire,      \* every message sent so far
  client,    \* mac -> [pc, addr, xid]
  restarts   \* history: restarts so far

server == <<by_mac, used>>
vars == <<server, wire, client, restarts>>

Pool  == Start..End
Addrs == Pool \cup Elsewhere

Message ==
  [type : {"discover", "request", "release", "offer", "ack", "nak"},
   mac : Macs, xid : Nat, addr : Addrs \cup {None}]

Msg(type, m, addr) ==
  [type |-> type, mac |-> m, xid |-> client[m].xid, addr |-> addr]

TypeOK ==
  /\ by_mac \in [Macs -> Pool \cup {None}]
  /\ used \subseteq Pool
  /\ wire \subseteq Message
  /\ client \in [Macs -> [pc : {"init", "selecting", "requesting", "rebooting",
                                "renewing", "bound"},
                          addr : Addrs \cup {None}, xid : Nat]]
  /\ restarts \in Nat

Init ==
  /\ by_mac = [m \in Macs |-> None] /\ used = {}
  /\ wire = {}
  /\ client = [m \in Macs |-> [pc |-> "init", addr |-> None, xid |-> 0]]
  /\ restarts = 0

--------------------------------------------------------------------------------
(* The server *)

\* Mutant: range(start + 1, end + 2), every address one too high.
FreeShifted == {ip \in (Start + 1)..(End + 1) : ip \notin used}

Free == {ip \in Pool : ip \notin used}

\* Mutant: a client that comes back is given a new address.
LeaseAnew(m) ==
  IF Free = {} THEN None ELSE CHOOSE ip \in Free : \A other \in Free : ip <= other

\* Pool.lease(mac): the address the client already has, or else the lowest free
\* one, or None when the pool is exhausted.
Lease(m) ==
  IF by_mac[m] # None THEN by_mac[m]
  ELSE IF Free = {} THEN None
  ELSE CHOOSE ip \in Free : \A other \in Free : ip <= other

\* Mutant: the address is not entered in `used`.
RememberLeaseOnly(m) ==
  /\ by_mac' = [by_mac EXCEPT ![m] = Lease(m)]
  /\ UNCHANGED used

RememberLease(m) ==
  /\ by_mac' = [by_mac EXCEPT ![m] = Lease(m)]
  /\ used' = used \cup ({Lease(m)} \ {None})

Reply(type, msg, addr) ==
  wire' = wire \cup {[type |-> type, mac |-> msg.mac, xid |-> msg.xid, addr |-> addr]}

\* DISCOVER (lines 199-206): offer the lease, say nothing when there is none.
ServeDiscover(msg) ==
  /\ msg.type = "discover"
  /\ Lease(msg.mac) # None
  /\ RememberLease(msg.mac)
  /\ Reply("offer", msg, Lease(msg.mac))
  /\ UNCHANGED <<client, restarts>>

\* Mutant: `!=` has become `==`.
ServeRequestInverted(msg) ==
  /\ msg.type = "request"
  /\ Lease(msg.mac) # None
  /\ RememberLease(msg.mac)
  /\ IF msg.addr # None /\ msg.addr = Lease(msg.mac)
     THEN Reply("nak", msg, None)
     ELSE Reply("ack", msg, Lease(msg.mac))
  /\ UNCHANGED <<client, restarts>>

\* Mutant: the requested address is acknowledged whatever was leased.
ServeRequestTrusting(msg) ==
  /\ msg.type = "request"
  /\ Lease(msg.mac) # None
  /\ RememberLease(msg.mac)
  /\ Reply("ack", msg, IF msg.addr # None THEN msg.addr ELSE Lease(msg.mac))
  /\ UNCHANGED <<client, restarts>>

\* REQUEST (lines 207-223): lease, too, if need be; NAK an address that is not
\* the one leased; ACK when it is, or when the client names none.
ServeRequest(msg) ==
  /\ msg.type = "request"
  /\ Lease(msg.mac) # None
  /\ RememberLease(msg.mac)
  /\ IF msg.addr # None /\ msg.addr # Lease(msg.mac)
     THEN Reply("nak", msg, None)
     ELSE Reply("ack", msg, Lease(msg.mac))
  /\ UNCHANGED <<client, restarts>>

\* Mutant: the lease of a client that lets its address go is deleted.
ServeReleaseForgetting(msg) ==
  /\ msg.type = "release"
  /\ by_mac' = [by_mac EXCEPT ![msg.mac] = None]
  /\ used' = used \ {by_mac[msg.mac]}
  /\ UNCHANGED <<wire, client, restarts>>

\* DECLINE and RELEASE (lines 224-225) are logged and nothing else.
ServeRelease(msg) == msg.type = "release" /\ UNCHANGED vars

\* Ctrl-C and run again (lines 186-188, 54-55): the leases were in memory only.
Restart ==
  /\ restarts < MaxRestarts
  /\ restarts' = restarts + 1
  /\ by_mac' = [m \in Macs |-> None] /\ used' = {}
  /\ UNCHANGED <<wire, client>>

--------------------------------------------------------------------------------
(* The clients *)

\* The bound on transactions.
MayOpen(m) == client[m].xid < IF m \in Returning THEN MaxXid ELSE 1

\* Open a transaction: a fresh xid, and a message that carries it.
Open(m, pc, type, addr) ==
  /\ MayOpen(m)
  /\ client' = [client EXCEPT ![m].pc = pc, ![m].xid = @ + 1]
  /\ wire' = wire \cup {[type |-> type, mac |-> m, xid |-> client[m].xid + 1,
                         addr |-> addr]}
  /\ UNCHANGED <<server, restarts>>

Discover(m) == client[m].pc = "init" /\ Open(m, "selecting", "discover", None)

\* INIT-REBOOT: ask for a remembered address without a DISCOVER.
Reboot(m) ==
  /\ client[m].pc = "init"
  /\ \E a \in Addrs : Open(m, "rebooting", "request", a)

\* RENEWING: the address is in ciaddr, which the server does not read.
Renew(m) == client[m].pc = "bound" /\ Open(m, "renewing", "request", None)

TakeOffer(m) ==
  /\ client[m].pc = "selecting"
  /\ \E msg \in wire :
       /\ msg.type = "offer" /\ msg.mac = m /\ msg.xid = client[m].xid
       /\ client' = [client EXCEPT ![m].pc = "requesting", ![m].addr = msg.addr]
       /\ wire' = wire \cup {Msg("request", m, msg.addr)}
  /\ UNCHANGED <<server, restarts>>

Waiting == {"requesting", "rebooting", "renewing"}

TakeAck(m) ==
  /\ client[m].pc \in Waiting
  /\ \E msg \in wire :
       /\ msg.type = "ack" /\ msg.mac = m /\ msg.xid = client[m].xid
       /\ client' = [client EXCEPT ![m].pc = "bound", ![m].addr = msg.addr]
  /\ UNCHANGED <<server, wire, restarts>>

TakeNak(m) ==
  /\ client[m].pc \in Waiting
  /\ \E msg \in wire : msg.type = "nak" /\ msg.mac = m /\ msg.xid = client[m].xid
  /\ client' = [client EXCEPT ![m].pc = "init", ![m].addr = None]
  /\ UNCHANGED <<server, wire, restarts>>

\* The client finds its address taken or does not want it any more, says so
\* (DECLINE, RELEASE), and is back at the start.
Release(m) ==
  /\ client[m].pc = "bound" /\ MayOpen(m)
  /\ client' = [client EXCEPT ![m].pc = "init", ![m].addr = None]
  /\ wire' = wire \cup {Msg("release", m, None)}
  /\ UNCHANGED <<server, restarts>>

\* No answer in time, or the lease is over: the client starts again if it has a
\* transaction left.
GiveUp(m) ==
  /\ client[m].pc # "init" /\ MayOpen(m)
  /\ client' = [client EXCEPT ![m].pc = "init", ![m].addr = None]
  /\ UNCHANGED <<server, wire, restarts>>

ClientStep(m) == Discover(m) \/ TakeOffer(m) \/ TakeAck(m) \/ TakeNak(m)

Next ==
  \/ \E msg \in wire : ServeDiscover(msg) \/ ServeRequest(msg) \/ ServeRelease(msg)
  \/ \E m \in Macs : ClientStep(m) \/ Reboot(m) \/ Renew(m) \/ Release(m) \/ GiveUp(m)
  \/ Restart

Spec == Init /\ [][Next]_vars

\* A message that keeps being sent is delivered in the end, and a client that has
\* something to do does it.  Nobody has to reboot, renew, or give up.
FairSpec ==
  /\ Spec
  /\ \A m \in Macs : WF_vars(ClientStep(m))
  /\ \A m \in Macs, x \in 1..MaxXid :
       WF_vars(\E msg \in wire : /\ msg.mac = m /\ msg.xid = x
                                 /\ ServeDiscover(msg) \/ ServeRequest(msg)
                                 /\ UNCHANGED <<client, restarts>>)
--------------------------------------------------------------------------------
\* by_mac and used tell the same story: an address is in use exactly when some
\* client has it, so nothing leaks from the pool and nothing is given out twice.
PoolConsistent == used = {by_mac[m] : m \in Macs} \ {None}

\* While the server keeps running, no two clients are ever bound to the same
\* address, in whatever order, how often and how late the messages arrive.  (A
\* restart forgets the leases that clients still use, mini_dhcpd.py:22-24.)
NoDuplicateAddress ==
  restarts = 0 =>
    \A m, n \in Macs :
      client[m].pc = "bound" /\ client[n].pc = "bound"
        /\ client[m].addr = client[n].addr => m = n

Offered(m) ==
  \E msg \in wire : msg.type = "offer" /\ msg.mac = m /\ msg.xid = client[m].xid

Refused(m) ==
  \E msg \in wire : msg.type = "nak" /\ msg.mac = m /\ msg.xid = client[m].xid

\* While the server keeps running, a client that asks for the address it was
\* offered is not refused.
OfferIsHonoured ==
  \A m \in Macs :
    restarts = 0 /\ client[m].pc = "requesting" => ~Refused(m)

\* A lease is for good: the address of a client never changes while the server
\* runs, even when the client stays away or declines it.
Sticky ==
  [][\A m \in Macs : by_mac[m] # None /\ restarts' = restarts
                       => by_mac'[m] = by_mac[m]]_vars

\* The pool is exhausted and the client has no part of it.
TurnedAway(m) == by_mac[m] = None /\ Free = {}

\* A client whose DISCOVER a running server has not answered yet is bound in the
\* end: no offer is lost to another client's lease and its REQUEST is neither
\* ignored nor refused -- unless it starts over by itself, the server is restarted
\* meanwhile, or all addresses are leased to others.
EveryClientServed ==
  \A m \in Macs, r \in 0..MaxRestarts :
    (client[m].pc = "selecting" /\ ~Offered(m) /\ restarts = r) ~>
      (\/ client[m].pc = "bound"
       \/ client[m].pc = "init" /\ ~Refused(m)
       \/ restarts # r
       \/ TurnedAway(m))
================================================================================
