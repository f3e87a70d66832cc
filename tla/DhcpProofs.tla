------------------------------ MODULE DhcpProofs -------------------------------
(****************************************************************************)
(* For every set of clients, every range and every delivery of the          *)
(* messages: the pool of mini_dhcpd.py stays consistent, and as long as the *)
(* server is not restarted no two clients are bound to one address and no   *)
(* client is refused the address it was offered.                            *)
(****************************************************************************)
EXTENDS Dhcp, WellFoundedInduction, TLAPS

\* No address is leased to two clients.
Injective ==
  \A m, n \in Macs : by_mac[m] # None /\ by_mac[m] = by_mac[n] => m = n

\* What the server promised is what it still has on its books, and a client that
\* was promised an address holds just that one.
PromisesKept ==
  /\ \A msg \in wire : msg.type \in {"offer", "ack"} =>
       msg.addr # None /\ msg.addr = by_mac[msg.mac]
  /\ \A m \in Macs : client[m].pc \in {"bound", "requesting"} =>
       client[m].addr # None /\ client[m].addr = by_mac[m]

\* No message is ahead of the client it belongs to.
XidBound == \A msg \in wire : msg.xid <= client[msg.mac].xid

\* In a transaction that began with a DISCOVER every request names the address
\* leased to the client, and nothing is refused.
NothingRefused ==
  \A m \in Macs : client[m].pc \in {"selecting", "requesting"} =>
    \A msg \in wire : msg.mac = m /\ msg.xid = client[m].xid =>
      /\ msg.type # "nak"
      /\ msg.type = "request" => msg.addr # None /\ msg.addr = by_mac[m]

Inv ==
  /\ TypeOK
  /\ PoolConsistent
  /\ Injective
  /\ XidBound
  /\ restarts = 0 => PromisesKept /\ NothingRefused

--------------------------------------------------------------------------------
\* The least-number principle, for the lowest free address.
LEMMA Least ==
  ASSUME NEW S \in SUBSET Nat, S # {}
  PROVE  \E n \in S : \A k \in S : n <= k
<1> DEFINE LessThan == OpToRel(<, Nat)
<1>1. IsWellFoundedOn(LessThan, Nat)
  BY NatLessThanWellFounded, Zenon
<1>2. LessThan = {ss \in Nat \X Nat : ss[1] < ss[2]}
  BY Zenon DEF OpToRel
<1> HIDE DEF LessThan
<1>3. PICK n \in S : \A k \in S : ~(<<k, n>> \in LessThan)
  BY <1>1, WFMin, Zenon
<1>4. \A k \in S : ~(k < n)
  BY <1>2, <1>3
<1> QED
  BY <1>4

LEMMA PoolType == Pool \subseteq Nat /\ None \notin Pool
  BY RangeAssumption DEF Pool, None

\* Pool.lease: the address of a known client, or an unused one of the range, or
\* None.
LEMMA LeaseResult ==
  ASSUME TypeOK, NEW m \in Macs
  PROVE  /\ Lease(m) \in Pool \cup {None}
         /\ by_mac[m] # None => Lease(m) = by_mac[m]
         /\ by_mac[m] = None /\ Lease(m) # None => Lease(m) \in Pool \ used
<1>1. by_mac[m] \in Pool \cup {None}
  BY DEF TypeOK
<1>2. CASE by_mac[m] # None
  BY <1>1, <1>2 DEF Lease
<1>3. CASE by_mac[m] = None /\ Free = {}
  BY <1>3 DEF Lease
<1>4. CASE by_mac[m] = None /\ Free # {}
  <2>1. Free \in SUBSET Nat
    BY PoolType DEF Free
  <2>2. \E ip \in Free : \A other \in Free : ip <= other
    BY <1>4, <2>1, Least
  <2>3. Lease(m) \in Free
    BY <1>4, <2>2 DEF Lease
  <2> QED
    BY <1>4, <2>3 DEF Free
<1> QED
  BY <1>2, <1>3, <1>4

\* Entering a lease keeps the books in order and disturbs no other client.
LEMMA RememberStep ==
  ASSUME TypeOK, PoolConsistent, Injective,
         NEW m \in Macs, Lease(m) # None, RememberLease(m)
  PROVE  /\ by_mac' \in [Macs -> Pool \cup {None}]
         /\ used' \subseteq Pool
         /\ PoolConsistent' /\ Injective'
         /\ by_mac'[m] = Lease(m)
         /\ \A n \in Macs : by_mac[n] # None => by_mac'[n] = by_mac[n]
<1>1. by_mac \in [Macs -> Pool \cup {None}] /\ used \subseteq Pool
  BY DEF TypeOK
<1>2. /\ by_mac' = [by_mac EXCEPT ![m] = Lease(m)]
      /\ used' = used \cup {Lease(m)}
  BY DEF RememberLease
<1>3. Lease(m) \in Pool
  BY LeaseResult
<1>4. \A n \in Macs : by_mac'[n] = IF n = m THEN Lease(m) ELSE by_mac[n]
  BY <1>1, <1>2
<1>5. \A n \in Macs : by_mac[n] # None => by_mac'[n] = by_mac[n]
  BY <1>4, LeaseResult
<1>6. by_mac[m] = None => \A n \in Macs : by_mac[n] # Lease(m)
  BY LeaseResult DEF PoolConsistent
<1>7. Injective'
  <2> SUFFICES ASSUME NEW i \in Macs, NEW j \in Macs,
                      by_mac'[i] # None, by_mac'[i] = by_mac'[j]
               PROVE  i = j
    BY DEF Injective
  <2>1. CASE by_mac[m] = None
    BY <1>4, <1>6, <2>1 DEF Injective
  <2>2. CASE by_mac[m] # None
    BY <1>4, <2>2, LeaseResult DEF Injective
  <2> QED
    BY <2>1, <2>2
<1>8. PoolConsistent'
  <2>1. used' \subseteq {by_mac'[n] : n \in Macs} \ {None}
    BY <1>2, <1>4, <1>5 DEF PoolConsistent
  <2>2. {by_mac'[n] : n \in Macs} \ {None} \subseteq used'
    BY <1>2, <1>4 DEF PoolConsistent
  <2> QED
    BY <2>1, <2>2 DEF PoolConsistent
<1> QED
  BY <1>1, <1>2, <1>3, <1>4, <1>5, <1>7, <1>8

--------------------------------------------------------------------------------
LEMMA InitInv == Init => Inv
<1> SUFFICES ASSUME Init PROVE Inv
  OBVIOUS
<1> USE DEF Init
<1>1. TypeOK
  BY DEF TypeOK
<1>2. PoolConsistent
  BY DEF PoolConsistent
<1>3. Injective
  BY DEF Injective
<1>4. XidBound
  BY DEF XidBound
<1>5. PromisesKept /\ NothingRefused
  BY DEF PromisesKept, NothingRefused
<1> QED
  BY <1>1, <1>2, <1>3, <1>4, <1>5 DEF Inv

\* What the two handlers have in common: a lease is entered and one reply to msg
\* is put on the wire.
LEMMA ReplyStep ==
  ASSUME Inv, NEW msg \in wire, NEW type \in {"offer", "ack", "nak"},
         NEW addr \in {None, Lease(msg.mac)},
         Lease(msg.mac) # None, RememberLease(msg.mac), Reply(type, msg, addr),
         UNCHANGED <<client, restarts>>,
         type \in {"offer", "ack"} => addr = Lease(msg.mac),
         type = "nak" => msg.type = "request" /\ msg.addr # None
                           /\ msg.addr # Lease(msg.mac)
  PROVE  Inv'
<1> DEFINE m == msg.mac
           reply == [type |-> type, mac |-> m, xid |-> msg.xid, addr |-> addr]
<1>1. TypeOK /\ PoolConsistent /\ Injective /\ XidBound
  BY DEF Inv
<1>2. msg \in Message /\ m \in Macs /\ msg.xid \in Nat
  BY <1>1 DEF TypeOK, Message
<1>3. /\ by_mac' \in [Macs -> Pool \cup {None}]
      /\ used' \subseteq Pool
      /\ PoolConsistent' /\ Injective'
      /\ by_mac'[m] = Lease(m)
      /\ \A n \in Macs : by_mac[n] # None => by_mac'[n] = by_mac[n]
  BY <1>1, <1>2, RememberStep
<1>4. wire' = wire \cup {reply} /\ client' = client /\ restarts' = restarts
  BY DEF Reply
<1>5. addr \in Addrs \cup {None}
  BY <1>1, <1>2, LeaseResult DEF Addrs
<1>6. reply \in Message
  BY <1>2, <1>5 DEF Message
<1>7. TypeOK'
  BY <1>1, <1>3, <1>4, <1>6 DEF TypeOK
<1>8. XidBound'
  BY <1>1, <1>2, <1>4 DEF XidBound
<1>9. ASSUME restarts' = 0 PROVE PromisesKept'
  <2>1. PromisesKept
    BY <1>4, <1>9 DEF Inv
  <2>2. \A n \in Macs : client[n].pc \in {"bound", "requesting"} =>
          client'[n].addr # None /\ client'[n].addr = by_mac'[n]
    BY <1>3, <2>1, <1>4 DEF PromisesKept
  <2>3. \A x \in wire : x.mac \in Macs
    BY <1>1 DEF TypeOK, Message
  <2>4. \A x \in wire : x.type \in {"offer", "ack"} =>
          x.addr # None /\ x.addr = by_mac'[x.mac]
    BY <1>3, <2>1, <2>3 DEF PromisesKept
  <2>5. reply.type \in {"offer", "ack"} =>
          reply.addr # None /\ reply.addr = by_mac'[reply.mac]
    BY <1>3
  <2> HIDE DEF reply
  <2> QED
    BY <1>4, <2>2, <2>4, <2>5 DEF PromisesKept
<1>10. ASSUME restarts' = 0 PROVE NothingRefused'
  <2>1. NothingRefused
    BY <1>4, <1>10 DEF Inv
  <2> SUFFICES ASSUME NEW n \in Macs, client[n].pc \in {"selecting", "requesting"},
                      NEW x \in wire', x.mac = n, x.xid = client[n].xid
               PROVE  /\ x.type # "nak"
                      /\ x.type = "request" => x.addr # None /\ x.addr = by_mac'[n]
    BY <1>4 DEF NothingRefused
  <2>2. CASE x \in wire
    BY <2>1, <2>2, <1>3 DEF NothingRefused
  <2>3. CASE x = reply
    <3>1. n = m /\ msg.xid = client[n].xid
      BY <2>3
    <3>2. type = "nak" => msg.addr = by_mac[m] /\ by_mac[m] # None
      BY <2>1, <3>1 DEF NothingRefused
    <3>3. type # "nak"
      BY <1>1, <1>2, <3>2, LeaseResult
    <3> QED
      BY <2>3, <3>3
  <2> QED
    BY <1>4, <2>2, <2>3
<1> QED
  BY <1>3, <1>7, <1>8, <1>9, <1>10 DEF Inv

LEMMA ServeDiscoverInv ==
  ASSUME Inv, NEW msg \in wire, ServeDiscover(msg)
  PROVE  Inv'
<1>1. /\ Lease(msg.mac) # None /\ RememberLease(msg.mac)
      /\ Reply("offer", msg, Lease(msg.mac)) /\ UNCHANGED <<client, restarts>>
  BY DEF ServeDiscover
<1> QED
  BY <1>1, ReplyStep

LEMMA ServeRequestInv ==
  ASSUME Inv, NEW msg \in wire, ServeRequest(msg)
  PROVE  Inv'
<1>1. /\ Lease(msg.mac) # None /\ RememberLease(msg.mac)
      /\ msg.type = "request" /\ UNCHANGED <<client, restarts>>
  BY DEF ServeRequest
<1>2. CASE msg.addr # None /\ msg.addr # Lease(msg.mac)
  <2>1. Reply("nak", msg, None)
    BY <1>2 DEF ServeRequest
  <2> QED
    BY <1>1, <1>2, <2>1, ReplyStep
<1>3. CASE ~(msg.addr # None /\ msg.addr # Lease(msg.mac))
  <2>1. Reply("ack", msg, Lease(msg.mac))
    BY <1>3 DEF ServeRequest
  <2> QED
    BY <1>1, <2>1, ReplyStep
<1> QED
  BY <1>2, <1>3

\* A restart forgets the leases: the books are empty, hence consistent.
LEMMA RestartInv == Inv /\ Restart => Inv'
<1> SUFFICES ASSUME Inv, Restart PROVE Inv'
  OBVIOUS
<1> USE DEF Inv, Restart
<1>1. TypeOK'
  BY DEF TypeOK
<1>2. PoolConsistent'
  BY DEF PoolConsistent
<1>3. Injective'
  BY DEF Injective
<1>4. XidBound'
  BY DEF XidBound
<1>5. restarts' # 0
  BY DEF TypeOK
<1> QED
  BY <1>1, <1>2, <1>3, <1>4, <1>5
--------------------------------------------------------------------------------
\* What opening a transaction has in common: the xid is new, so no message on the
\* wire belongs to it but the one sent now.
LEMMA OpenStep ==
  ASSUME Inv, NEW m \in Macs, NEW pc \in {"selecting", "rebooting", "renewing"},
         NEW type \in {"discover", "request"}, NEW addr \in Addrs \cup {None},
         Open(m, pc, type, addr), pc = "selecting" => type = "discover"
  PROVE  Inv'
<1> DEFINE new == [type |-> type, mac |-> m, xid |-> client[m].xid + 1, addr |-> addr]
<1>1. TypeOK /\ PoolConsistent /\ Injective /\ XidBound
  BY DEF Inv
<1>2. /\ client' = [client EXCEPT ![m].pc = pc, ![m].xid = @ + 1]
      /\ wire' = wire \cup {new}
      /\ UNCHANGED <<by_mac, used, restarts>>
  BY DEF Open, server
<1>3. client[m].xid \in Nat
  BY <1>1 DEF TypeOK
<1>4. /\ client'[m].pc = pc /\ client'[m].xid = client[m].xid + 1
      /\ client'[m].addr = client[m].addr
      /\ \A n \in Macs \ {m} : client'[n] = client[n]
  BY <1>1, <1>2 DEF TypeOK
<1>5. new \in Message
  BY <1>3 DEF Message
<1>6. TypeOK'
  <2>1. client' \in [Macs -> [pc : {"init", "selecting", "requesting", "rebooting",
                                    "renewing", "bound"},
                              addr : Addrs \cup {None}, xid : Nat]]
    BY <1>1, <1>2, <1>3 DEF TypeOK
  <2> QED
    BY <1>1, <1>2, <1>5, <2>1 DEF TypeOK
<1>7. PoolConsistent' /\ Injective'
  BY <1>1, <1>2 DEF PoolConsistent, Injective
<1>8. \A x \in wire : x.mac \in Macs /\ x.xid \in Nat /\ x.xid <= client[x.mac].xid
  BY <1>1 DEF TypeOK, Message, XidBound
<1>9. XidBound'
  <2> SUFFICES ASSUME NEW x \in wire' PROVE x.xid <= client'[x.mac].xid
    BY DEF XidBound
  <2>1. CASE x \in wire
    BY <1>3, <1>4, <1>8, <2>1
  <2>2. CASE x = new
    BY <1>3, <1>4, <2>2
  <2> QED
    BY <1>2, <2>1, <2>2
<1>10. ASSUME restarts' = 0 PROVE PromisesKept'
  <2>1. PromisesKept
    BY <1>2, <1>10 DEF Inv
  <2>2. \A x \in wire' : x.type \in {"offer", "ack"} =>
          x.addr # None /\ x.addr = by_mac'[x.mac]
    BY <1>2, <2>1 DEF PromisesKept
  <2>3. \A n \in Macs : client'[n].pc \in {"bound", "requesting"} =>
          client'[n].addr # None /\ client'[n].addr = by_mac'[n]
    BY <1>2, <1>4, <2>1 DEF PromisesKept
  <2> QED
    BY <2>2, <2>3 DEF PromisesKept
<1>11. ASSUME restarts' = 0 PROVE NothingRefused'
  <2>1. NothingRefused
    BY <1>2, <1>11 DEF Inv
  <2> SUFFICES ASSUME NEW n \in Macs, client'[n].pc \in {"selecting", "requesting"},
                      NEW x \in wire', x.mac = n, x.xid = client'[n].xid
               PROVE  /\ x.type # "nak"
                      /\ x.type = "request" => x.addr # None /\ x.addr = by_mac'[n]
    BY DEF NothingRefused
  <2>2. CASE x = new
    BY <1>4, <2>2
  <2>3. CASE x \in wire
    <3>1. n # m
      BY <1>3, <1>4, <1>8, <2>3
    <3>2. client'[n] = client[n] /\ by_mac'[n] = by_mac[n]
      BY <1>2, <1>4, <3>1
    <3>3. client[n].pc \in {"selecting", "requesting"} /\ x.xid = client[n].xid
      BY <3>2
    <3> HIDE DEF new
    <3> QED
      BY <2>1, <2>3, <3>2, <3>3 DEF NothingRefused
  <2> QED
    BY <1>2, <2>2, <2>3
<1> QED
  BY <1>6, <1>7, <1>9, <1>10, <1>11 DEF Inv

\* What a step that keeps the xid leaves of the type of the clients.
LEMMA SettleType ==
  ASSUME TypeOK, NEW m \in Macs, NEW addr \in Addrs \cup {None},
         NEW pc \in {"init", "requesting", "bound"},
         client' = [client EXCEPT ![m].pc = pc, ![m].addr = addr]
  PROVE  client' \in [Macs ->
                  [pc : {"init", "selecting", "requesting", "rebooting", "renewing", "bound"},
                   addr : Addrs \cup {None}, xid : Nat]]
<1> DEFINE State == [pc : {"init", "selecting", "requesting", "rebooting", "renewing", "bound"},
                   addr : Addrs \cup {None}, xid : Nat]
           moved == [client EXCEPT ![m].pc = pc]
<1>1. client \in [Macs -> State]
  BY DEF TypeOK
<1>2. moved \in [Macs -> State]
  BY <1>1
<1>3. client' = [moved EXCEPT ![m].addr = addr]
  BY Zenon
<1> HIDE DEF moved
<1> QED
  BY <1>2, <1>3

LEMMA TakeOfferInv ==
  ASSUME Inv, NEW m \in Macs, TakeOffer(m)
  PROVE  Inv'
<1>1. TypeOK /\ PoolConsistent /\ Injective /\ XidBound
  BY DEF Inv
<1>2. PICK msg \in wire :
        /\ msg.type = "offer" /\ msg.mac = m /\ msg.xid = client[m].xid
        /\ client' = [client EXCEPT ![m].pc = "requesting", ![m].addr = msg.addr]
        /\ wire' = wire \cup {Msg("request", m, msg.addr)}
  BY DEF TakeOffer
<1>3. client[m].pc = "selecting" /\ UNCHANGED <<by_mac, used, restarts>>
  BY DEF TakeOffer, server
<1> DEFINE new == [type |-> "request", mac |-> m, xid |-> client[m].xid,
                   addr |-> msg.addr]
<1>4. wire' = wire \cup {new} /\ client[m].xid \in Nat
  BY <1>1, <1>2 DEF Msg, TypeOK
<1>5. msg.addr \in Addrs \cup {None} /\ new \in Message
  BY <1>1, <1>4 DEF TypeOK, Message
<1>6. /\ client'[m].pc = "requesting" /\ client'[m].xid = client[m].xid
      /\ client'[m].addr = msg.addr
      /\ \A n \in Macs \ {m} : client'[n] = client[n]
  BY <1>1, <1>2 DEF TypeOK
<1>7. TypeOK'
  <2>1. client' \in [Macs -> [pc : {"init", "selecting", "requesting", "rebooting",
                                    "renewing", "bound"},
                              addr : Addrs \cup {None}, xid : Nat]]
    BY <1>2, <1>5, SettleType, <1>1
  <2> QED
    BY <1>1, <1>3, <1>4, <1>5, <2>1 DEF TypeOK
<1>8. PoolConsistent' /\ Injective'
  BY <1>1, <1>3 DEF PoolConsistent, Injective
<1>9. XidBound'
  BY <1>1, <1>4, <1>6 DEF XidBound, TypeOK, Message
<1>10. ASSUME restarts' = 0 PROVE PromisesKept' /\ NothingRefused'
  <2>1. PromisesKept /\ NothingRefused
    BY <1>3, <1>10 DEF Inv
  <2>2. msg.addr # None /\ msg.addr = by_mac[m]
    BY <1>2, <2>1 DEF PromisesKept
  <2>3. \A x \in wire' : x.type \in {"offer", "ack"} =>
          x.addr # None /\ x.addr = by_mac'[x.mac]
    BY <1>3, <1>4, <2>1 DEF PromisesKept
  <2>4. \A n \in Macs : client'[n].pc \in {"bound", "requesting"} =>
          client'[n].addr # None /\ client'[n].addr = by_mac'[n]
    BY <1>3, <1>6, <2>1, <2>2 DEF PromisesKept
  <2>5. PromisesKept'
    BY <2>3, <2>4 DEF PromisesKept
  <2>6. ASSUME NEW n \in Macs, client'[n].pc \in {"selecting", "requesting"},
               NEW x \in wire', x.mac = n, x.xid = client'[n].xid
        PROVE  /\ x.type # "nak"
               /\ x.type = "request" => x.addr # None /\ x.addr = by_mac'[n]
    <3>1. CASE x = new
      BY <1>3, <2>2, <2>6, <3>1
    <3>2. CASE x \in wire
      <4>1. client[n].pc \in {"selecting", "requesting"} /\ x.xid = client[n].xid
        BY <1>3, <1>6, <2>6
      <4> QED
        BY <1>3, <2>1, <2>6, <3>2, <4>1 DEF NothingRefused
    <3> QED
      BY <1>4, <3>1, <3>2
  <2> QED
    BY <2>5, <2>6 DEF NothingRefused
<1> QED
  BY <1>7, <1>8, <1>9, <1>10 DEF Inv

\* A transaction ends: the client is bound to what it was given, or starts again.
LEMMA SettleStep ==
  ASSUME Inv, NEW m \in Macs, NEW pc \in {"init", "bound"},
         NEW addr \in Addrs \cup {None},
         client' = [client EXCEPT ![m].pc = pc, ![m].addr = addr],
         UNCHANGED <<server, wire, restarts>>,
         restarts = 0 /\ pc = "bound" => addr # None /\ addr = by_mac[m]
  PROVE  Inv'
<1>1. TypeOK /\ PoolConsistent /\ Injective /\ XidBound
  BY DEF Inv
<1>2. UNCHANGED <<by_mac, used, wire, restarts>>
  BY DEF server
<1>3. /\ client'[m].pc = pc /\ client'[m].xid = client[m].xid
      /\ client'[m].addr = addr
      /\ \A n \in Macs \ {m} : client'[n] = client[n]
  BY <1>1 DEF TypeOK
<1>4. TypeOK'
  BY <1>1, <1>2 DEF TypeOK
<1>5. PoolConsistent' /\ Injective'
  BY <1>1, <1>2 DEF PoolConsistent, Injective
<1>6. XidBound'
  <2>1. \A n \in Macs : client'[n].xid = client[n].xid
    BY <1>3
  <2> QED
    BY <1>1, <1>2, <2>1 DEF XidBound, TypeOK, Message
<1>7. ASSUME restarts' = 0 PROVE PromisesKept' /\ NothingRefused'
  <2>1. PromisesKept /\ NothingRefused /\ restarts = 0
    BY <1>2, <1>7 DEF Inv
  <2>2. PromisesKept'
    BY <1>2, <1>3, <2>1 DEF PromisesKept
  <2>3. NothingRefused'
    BY <1>2, <1>3, <2>1 DEF NothingRefused
  <2> QED
    BY <2>2, <2>3
<1> QED
  BY <1>4, <1>5, <1>6, <1>7 DEF Inv

LEMMA TakeAckInv ==
  ASSUME Inv, NEW m \in Macs, TakeAck(m)
  PROVE  Inv'
<1>1. PICK msg \in wire :
        /\ msg.type = "ack" /\ msg.mac = m /\ msg.xid = client[m].xid
        /\ client' = [client EXCEPT ![m].pc = "bound", ![m].addr = msg.addr]
  BY DEF TakeAck
<1>2. UNCHANGED <<server, wire, restarts>>
  BY DEF TakeAck
<1>3. msg.addr \in Addrs \cup {None}
  BY DEF Inv, TypeOK, Message
<1>4. restarts = 0 => msg.addr # None /\ msg.addr = by_mac[m]
  BY <1>1 DEF Inv, PromisesKept
<1> QED
  BY <1>1, <1>2, <1>3, <1>4, SettleStep

LEMMA RestartsOverInv ==
  ASSUME Inv, NEW m \in Macs, TakeNak(m) \/ GiveUp(m)
  PROVE  Inv'
<1>1. /\ client' = [client EXCEPT ![m].pc = "init", ![m].addr = None]
      /\ UNCHANGED <<server, wire, restarts>>
  BY DEF TakeNak, GiveUp
<1> QED
  BY <1>1, SettleStep

\* The release itself is no promise and no refusal.
LEMMA ReleaseInv ==
  ASSUME Inv, NEW m \in Macs, Release(m)
  PROVE  Inv'
<1> DEFINE new == [type |-> "release", mac |-> m, xid |-> client[m].xid, addr |-> None]
<1>1. TypeOK /\ PoolConsistent /\ Injective /\ XidBound
  BY DEF Inv
<1>2. /\ client' = [client EXCEPT ![m].pc = "init", ![m].addr = None]
      /\ wire' = wire \cup {new}
      /\ UNCHANGED <<by_mac, used, restarts>>
  BY DEF Release, Msg, server
<1>3. /\ client'[m].pc = "init" /\ client'[m].xid = client[m].xid
      /\ \A n \in Macs \ {m} : client'[n] = client[n]
      /\ client[m].xid \in Nat
  BY <1>1, <1>2 DEF TypeOK
<1>4. new \in Message
  BY <1>3 DEF Message
<1>5. TypeOK'
  <2>1. client' \in [Macs -> [pc : {"init", "selecting", "requesting", "rebooting",
                                    "renewing", "bound"},
                              addr : Addrs \cup {None}, xid : Nat]]
    BY <1>1, <1>2, SettleType
  <2> QED
    BY <1>1, <1>2, <1>4, <2>1 DEF TypeOK
<1>6. PoolConsistent' /\ Injective'
  BY <1>1, <1>2 DEF PoolConsistent, Injective
<1>7. XidBound'
  <2>1. \A n \in Macs : client'[n].xid = client[n].xid
    BY <1>3
  <2>2. \A x \in wire : x.mac \in Macs /\ x.xid <= client[x.mac].xid
    BY <1>1 DEF TypeOK, Message, XidBound
  <2>3. \A x \in wire : x.xid <= client'[x.mac].xid
    BY <2>1, <2>2
  <2>4. new.mac = m /\ new.xid <= client'[m].xid
    BY <1>3
  <2> HIDE DEF new
  <2> QED
    BY <1>2, <2>3, <2>4 DEF XidBound
<1>8. ASSUME restarts' = 0 PROVE PromisesKept' /\ NothingRefused'
  <2>1. PromisesKept /\ NothingRefused
    BY <1>2, <1>8 DEF Inv
  <2>2. \A x \in wire' : x.type \in {"offer", "ack"} =>
          x.addr # None /\ x.addr = by_mac'[x.mac]
    BY <1>2, <2>1 DEF PromisesKept
  <2>3. \A n \in Macs : client'[n].pc \in {"bound", "requesting"} =>
          client'[n].addr # None /\ client'[n].addr = by_mac'[n]
    BY <1>2, <1>3, <2>1 DEF PromisesKept
  <2>4. NothingRefused'
    <3> SUFFICES ASSUME NEW n \in Macs, client'[n].pc \in {"selecting", "requesting"},
                        NEW x \in wire', x.mac = n, x.xid = client'[n].xid
                 PROVE  /\ x.type # "nak"
                        /\ x.type = "request" => x.addr # None /\ x.addr = by_mac'[n]
      BY DEF NothingRefused
    <3>1. CASE x = new
      BY <1>3, <3>1
    <3>2. CASE x \in wire
      <4>1. client[n].pc \in {"selecting", "requesting"} /\ client'[n] = client[n]
        BY <1>3
      <4> HIDE DEF new
      <4> QED
        BY <1>2, <2>1, <3>2, <4>1 DEF NothingRefused
    <3> QED
      BY <1>2, <3>1, <3>2
  <2> QED
    BY <2>2, <2>3, <2>4 DEF PromisesKept
<1> QED
  BY <1>5, <1>6, <1>7, <1>8 DEF Inv

--------------------------------------------------------------------------------
LEMMA StepInv == Inv /\ [Next]_vars => Inv'
<1> SUFFICES ASSUME Inv, [Next]_vars PROVE Inv'
  OBVIOUS
<1>1. CASE \E msg \in wire : ServeDiscover(msg) \/ ServeRequest(msg)
  BY <1>1, ServeDiscoverInv, ServeRequestInv
<1>9. CASE \E m \in Macs : Release(m)
  BY <1>9, ReleaseInv
<1>2. ASSUME NEW m \in Macs, Discover(m) PROVE Inv'
  BY <1>2, OpenStep DEF Discover
<1>3. ASSUME NEW m \in Macs, Reboot(m) PROVE Inv'
  BY <1>3, OpenStep DEF Reboot
<1>4. ASSUME NEW m \in Macs, Renew(m) PROVE Inv'
  BY <1>4, OpenStep DEF Renew
<1>5. CASE \E m \in Macs : ClientStep(m)
  BY <1>2, <1>5, TakeOfferInv, TakeAckInv, RestartsOverInv DEF ClientStep
<1>6. CASE \E m \in Macs : GiveUp(m)
  BY <1>6, RestartsOverInv
<1>7. CASE Restart
  BY <1>7, RestartInv
<1>8. CASE UNCHANGED vars \/ \E msg \in wire : ServeRelease(msg)
  <2>1. UNCHANGED <<by_mac, used, wire, client, restarts>>
    BY <1>8 DEF ServeRelease, vars, server
  <2> QED
    BY <2>1 DEF Inv, TypeOK, PoolConsistent, Injective, XidBound, PromisesKept,
                NothingRefused
<1> QED
  BY <1>1, <1>3, <1>4, <1>5, <1>6, <1>7, <1>8, <1>9 DEF Next

THEOREM Invariance == Spec => []Inv
  BY InitInv, StepInv, PTL DEF Spec

\* Every variable keeps its type; in particular nothing outside the range is
\* ever leased.
THEOREM TypeCorrect == Spec => []TypeOK
<1>1. Inv => TypeOK
  BY DEF Inv
<1> QED
  BY <1>1, Invariance, PTL

\* Pool.lease never leaks an address and never gives one out twice, restarts or
\* not.
THEOREM PoolStaysConsistent == Spec => []PoolConsistent
<1>1. Inv => PoolConsistent
  BY DEF Inv
<1> QED
  BY <1>1, Invariance, PTL

\* Two clients are never bound to one address while the server keeps running.
THEOREM AddressesAreUnique == Spec => []NoDuplicateAddress
<1>1. Inv => NoDuplicateAddress
  BY DEF Inv, Injective, PromisesKept, NoDuplicateAddress
<1> QED
  BY <1>1, Invariance, PTL

\* A client is never refused the address it was offered while the server keeps
\* running.
THEOREM OffersAreHonoured == Spec => []OfferIsHonoured
<1>1. Inv => OfferIsHonoured
  BY DEF Inv, NothingRefused, OfferIsHonoured, Refused
<1> QED
  BY <1>1, Invariance, PTL

\* The lease of a client outlives everything but a restart.
THEOREM LeasesAreSticky == Spec => Sticky
<1>1. Inv /\ [Next]_vars =>
        [\A m \in Macs : by_mac[m] # None /\ restarts' = restarts
                            => by_mac'[m] = by_mac[m]]_vars
  <2> SUFFICES ASSUME Inv, Next, NEW m \in Macs, by_mac[m] # None,
                      restarts' = restarts
               PROVE  by_mac'[m] = by_mac[m]
    OBVIOUS
  <2>1. ASSUME NEW msg \in wire, RememberLease(msg.mac), Lease(msg.mac) # None
        PROVE  by_mac'[m] = by_mac[m]
    <3>1. msg.mac \in Macs
      BY DEF Inv, TypeOK, Message
    <3> QED
      BY <2>1, <3>1, RememberStep DEF Inv
  <2>2. CASE \E msg \in wire : ServeDiscover(msg) \/ ServeRequest(msg)
    BY <2>1, <2>2 DEF ServeDiscover, ServeRequest
  <2>3. CASE \E n \in Macs : ClientStep(n) \/ Reboot(n) \/ Renew(n) \/ Release(n)
                             \/ GiveUp(n)
    BY <2>3 DEF ClientStep, Discover, Reboot, Renew, Open, TakeOffer, TakeAck,
                TakeNak, Release, GiveUp, server
  <2>5. CASE \E msg \in wire : ServeRelease(msg)
    BY <2>5 DEF ServeRelease, vars, server
  <2>4. CASE Restart
    BY <2>4 DEF Restart, Inv, TypeOK
  <2> QED
    BY <2>2, <2>3, <2>4, <2>5 DEF Next
<1> QED
  BY <1>1, Invariance, PTL DEF Spec, Sticky
================================================================================
