---------------------------- MODULE Startup_proofs ----------------------------
(***************************************************************************)
(* Startup, for every configuration and every set of servers.              *)
(*                                                                         *)
(* The properties speak of the meta database that the pools name, so the   *)
(* invariant follows it through array_each: what xmeta_db holds is of the  *)
(* last pool of the ones handed to the transform.  A pool that names the   *)
(* meta database replaces it, any other leaves it as it is.                *)
(***************************************************************************)
EXTENDS Startup, TLAPS

PingUris == [host : Hosts \cup {NULL}, port : Ports]
Uris == [hostaddr : Hosts \cup {NULL}, password : Passwords]
Passwd == DOMAIN Plain \cup {NULL}

Metas ==
  [type : {0, 1}, hostaddr : Hosts \cup {NULL}, port : Ports \cup {0},
   passwd : Passwd, ping_uri : PingUris \cup {NULL}, uri : Uris \cup {NULL},
   conn : (Hosts \X Ports) \cup {NULL}]

\* Both URIs are those of the pool that the transform was handed last.
FromPools ==
  IF MetaAmong(done) = {} THEN meta.ping_uri = NULL /\ meta.uri = NULL
  ELSE \E i \in MetaAmong(done) :
         /\ meta.ping_uri = [host |-> cf[i].ip, port |-> cf[i].port]
         /\ meta.uri.hostaddr = cf[i].ip /\ meta.uri \in Uris
         /\ cf[i].passwd # NULL => meta.uri.password = Plain[cf[i].passwd]

TypeInv ==
  /\ TypeOK
  /\ pc \in {"context", "conf"} => cf = NULL
  /\ pc \in {"context", "conf", "pool", "meta"} => meta = NULL /\ done = 0
  /\ pc \in {"pool", "meta", "transform", "ping", "connect", "console"} => cf \in Confs
  /\ pc \in {"transform", "ping", "connect", "console"} => meta \in Metas
  /\ pc \in {"ping", "connect", "console"} => done = Len(cf)
  /\ meta # NULL => cf \in Confs /\ meta \in Metas

HeapInv ==
  /\ pc \in {"context", "conf", "pool"} => "dp" \notin heap /\ "meta" \notin heap
  /\ pc = "meta" => "dp" \in heap /\ "meta" \notin heap
  /\ WholePoolHeld

IInv ==
  /\ TypeInv
  /\ HeapInv
  /\ meta # NULL \/ pc \in {"transform", "ping", "connect", "console"} => FromPools
  /\ pc = "console" => meta.conn = ConnectAddress(meta) /\ meta.conn \in Hosts \X Ports
  /\ pc = "exited" => Reason

-----------------------------------------------------------------------------
\* The pools that conf_create returns.
LEMMA PoolsTyped ==
  ASSUME cf \in Confs
  PROVE  cf \in Seq(ConfPool) /\ Len(cf) \in Nat /\ cf # NULL
  BY StartupAssumption

\* The last meta database after one more pool.
LEMMA MetaGoesOn ==
  ASSUME cf \in Confs, NEW n \in Nat, n < Len(cf)
  PROVE  MetaAmong(n + 1) = IF IsMeta(cf[n + 1]) THEN {n + 1} ELSE MetaAmong(n)
<1>1. ASSUME IsMeta(cf[n + 1])
      PROVE  MetaAmong(n + 1) = {n + 1}
  BY <1>1 DEF MetaAmong
<1>2. ASSUME ~IsMeta(cf[n + 1])
      PROVE  MetaAmong(n + 1) = MetaAmong(n)
  BY <1>2 DEF MetaAmong
<1>3. QED
  BY <1>1, <1>2

\* There is one meta database at most.
LEMMA OneMeta ==
  ASSUME NEW n \in Nat, NEW i \in MetaAmong(n), NEW j \in MetaAmong(n)
  PROVE  i = j
<1>1. i \in 1 .. n /\ j \in 1 .. n /\ IsMeta(cf[i]) /\ IsMeta(cf[j])
  BY DEF MetaAmong
<1>2. ~(i < j) /\ ~(j < i)
  BY <1>1 DEF MetaAmong
<1>3. QED
  BY <1>1, <1>2

\* Where the URIs of a pool lead.
LEMMA Addresses ==
  ASSUME FromPools, cf \in Confs, done \in 0 .. Len(cf)
  PROVE  /\ MetaAmong(done) = {} =>
              /\ PingAddress(meta) = <<LocalHost, DefaultPort>>
              /\ ConnectAddress(meta) = <<LocalHost, DefaultPort>>
         /\ MetaAmong(done) # {} =>
              \E i \in MetaAmong(done) :
                 /\ PingAddress(meta) = <<cf[i].ip, cf[i].port>>
                 /\ ConnectAddress(meta) = <<cf[i].ip, DefaultPort>>
                 /\ cf[i].passwd # NULL => Password(meta) = Plain[cf[i].passwd]
<1>1. CASE MetaAmong(done) = {}
  BY <1>1 DEF FromPools, PingAddress, ConnectAddress
<1>2. CASE MetaAmong(done) # {}
  <2>1. PICK i \in MetaAmong(done) :
           /\ meta.ping_uri = [host |-> cf[i].ip, port |-> cf[i].port]
           /\ meta.uri.hostaddr = cf[i].ip /\ meta.uri \in Uris
           /\ cf[i].passwd # NULL => meta.uri.password = Plain[cf[i].passwd]
    BY <1>2 DEF FromPools
  <2>2. meta.uri # NULL
    BY <2>1, StartupAssumption DEF Uris
  <2>3. meta.ping_uri # NULL
    <3>1. cf[i] \in ConfPool
      BY PoolsTyped DEF MetaAmong
    <3>2. meta.ping_uri \in PingUris
      BY <2>1, <3>1 DEF PingUris, ConfPool
    <3>3. QED
      BY <3>2, StartupAssumption DEF PingUris
  <2>4. QED
    BY <1>2, <2>1, <2>2, <2>3 DEF PingAddress, ConnectAddress, Password
<1>3. QED
  BY <1>1, <1>2

-----------------------------------------------------------------------------
\* The invariant holds when main is called.
LEMMA InvInit ==
  ASSUME Init
  PROVE  IInv
BY StartupAssumption DEF Init, IInv, TypeInv, TypeOK, HeapInv, WholePoolHeld, ConnectAddress

\* The servers' comings and goings keep it.
LEMMA FlapStep ==
  ASSUME IInv, Flap
  PROVE  IInv'
<1>1. /\ UNCHANGED <<faults, pc, heap, cf, meta, buffer, done>>
      /\ flaps' = flaps + 1 /\ flaps < MaxFlaps
  BY DEF Flap
<1>2. up' \subseteq Hosts \X Ports
  BY DEF Flap, IInv, TypeInv, TypeOK
<1>3. flaps' \in 0 .. MaxFlaps /\ flaps' > 0
  BY <1>1, StartupAssumption DEF IInv, TypeInv, TypeOK
<1>4. TypeInv'
  BY <1>1, <1>2, <1>3 DEF IInv, TypeInv, TypeOK
<1>5. HeapInv' /\ (FromPools => FromPools') /\ Reason'
  BY <1>1, <1>3 DEF IInv, HeapInv, WholePoolHeld, FromPools, MetaAmong, Reason
<1>6. QED
  BY <1>1, <1>4, <1>5 DEF IInv, ConnectAddress

\* A call that fails is counted, and is a reason to give up.
LEMMA FaultCounted ==
  ASSUME IInv, Fault
  PROVE  faults' \in 0 .. MaxFaults /\ faults' > 0
BY StartupAssumption DEF IInv, TypeInv, TypeOK, Fault

\* What ctx_create and xdb_pool_create do before the transform keeps it.
LEMMA EarlyStep ==
  ASSUME IInv, Context \/ Conf \/ Pool \/ Meta
  PROVE  IInv'
<1> USE DEF Goto, Fails, world
<1>1. pc \in {"context", "conf", "pool", "meta"} /\ meta = NULL /\ done = 0 /\ UNCHANGED <<world, buffer, done>>
  BY DEF Context, Conf, Pool, Meta, IInv, TypeInv
<1>2. CASE Fault /\ Fails /\ UNCHANGED <<cf, meta>> /\ heap' = heap \ {"dp"}
  <2>1. faults' \in 0 .. MaxFaults /\ faults' > 0
    BY <1>2, FaultCounted
  <2>2. TypeInv'
    BY <1>1, <1>2, <2>1 DEF IInv, TypeInv, TypeOK
  <2>3. HeapInv'
    BY <1>1, <1>2 DEF IInv, HeapInv, WholePoolHeld
  <2>4. QED
    BY <1>1, <1>2, <2>1, <2>2, <2>3 DEF IInv, Reason
<1>3. Fault => faults' # faults
  BY DEF Fault, IInv, TypeInv, TypeOK
<1>4. CASE Context /\ UNCHANGED faults
  BY <1>1, <1>4, <1>3 DEF Context, IInv, TypeInv, TypeOK, HeapInv, WholePoolHeld
<1>5. CASE Conf /\ UNCHANGED faults
  <2>1. cf' \in Confs /\ Len(cf') \in Nat /\ cf' # NULL /\ 0 \in 0 .. Len(cf')
    BY <1>1, <1>3, <1>5, StartupAssumption DEF Conf
  <2>2. QED
    BY <1>1, <1>5, <1>3, <2>1 DEF Conf, IInv, TypeInv, TypeOK, HeapInv, WholePoolHeld
<1>6. CASE Pool /\ UNCHANGED faults
  BY <1>1, <1>6, <1>3 DEF Pool, IInv, TypeInv, TypeOK, HeapInv, WholePoolHeld
<1>7. CASE Meta /\ UNCHANGED faults
  <2>1. pc = "meta" /\ pc' = "transform" /\ meta' = EmptyMeta /\ UNCHANGED cf /\ heap' = heap \cup {"meta"}
    BY <1>7, <1>3 DEF Meta, MetaRefused
  <2>2. meta' \in Metas
    BY <2>1 DEF EmptyMeta, Metas, Passwd
  <2>3. TypeInv'
    BY <1>1, <1>7, <2>1, <2>2 DEF IInv, TypeInv, TypeOK, Metas, Passwd
  <2>4. FromPools'
    BY <1>1, <2>1 DEF FromPools, MetaAmong, EmptyMeta
  <2>5. HeapInv'
    BY <2>1 DEF IInv, HeapInv, WholePoolHeld
  <2>6. QED
    BY <2>1, <2>3, <2>4, <2>5 DEF IInv
<1>8. QED
  BY <1>1, <1>2, <1>4, <1>5, <1>6, <1>7 DEF Context, Conf, Pool, Meta, MetaRefused, IInv, HeapInv

\* array_each's turn with a pool keeps it: a pool that names the meta database
\* takes its place, and no other touches xmeta_db.
LEMMA TransformStep ==
  ASSUME IInv, Transform
  PROVE  IInv'
<1> DEFINE cp == cf[done + 1]
<1> USE DEF Goto, world
<1>1. /\ pc = "transform" /\ cf \in Confs /\ meta \in Metas /\ done < Len(cf)
      /\ done \in Nat /\ done + 1 \in 1 .. Len(cf) /\ done' = done + 1
      /\ UNCHANGED <<up, flaps, faults, heap, cf>>
  BY PoolsTyped DEF Transform, NextPool, IInv, TypeInv, TypeOK
<1>2. cp \in ConfPool
  BY <1>1, PoolsTyped
<1>3. pc' \in {"transform", "wild"}
  BY <1>1 DEF Transform
<1>4. HeapInv'
  BY <1>1, <1>3 DEF IInv, HeapInv, WholePoolHeld
<1>5. MetaAmong(done + 1) = IF IsMeta(cp) THEN {done + 1} ELSE MetaAmong(done)
  BY <1>1, MetaGoesOn
<1>6. MetaAmong(done)' = MetaAmong(done + 1)
  BY <1>1 DEF MetaAmong
<1>7. CASE IsMeta(cp) /\ UNCHANGED pc /\ buffer' \in Decrypted(cp)
           /\ meta' = Transformed(cp, buffer')
  <2>1. buffer' \in Passwords /\ (cp.passwd # NULL => buffer' = Plain[cp.passwd])
    BY <1>2, <1>7 DEF Decrypted, Passwords, ConfPool, IInv, TypeInv, TypeOK
  <2>2. /\ meta'.ping_uri = [host |-> cp.ip, port |-> cp.port]
        /\ meta'.uri = [hostaddr |-> cp.ip, password |-> buffer']
    BY <1>7 DEF Transformed
  <2>3. meta'.uri \in Uris /\ meta'.ping_uri \in PingUris
    BY <1>2, <2>1, <2>2 DEF Uris, PingUris, ConfPool
  <2>4. meta' \in Metas
    BY <1>1, <1>2, <1>7, <2>2, <2>3 DEF Transformed, Metas, Passwd, ConfPool
  <2>5. TypeInv'
    <3>1. /\ meta'.hostaddr \in Hosts \cup {NULL} /\ meta'.port \in Ports \cup {0}
          /\ meta'.passwd \in DOMAIN Plain \cup {NULL}
      BY <2>4 DEF Metas, Passwd
    <3>2. QED
      BY <1>1, <1>3, <1>7, <2>1, <2>4, <3>1, PoolsTyped DEF IInv, TypeInv, TypeOK
  <2>6. FromPools'
    <3>1. MetaAmong(done)' = {done + 1} /\ cf' = cf
      BY <1>1, <1>5, <1>6, <1>7
    <3>2. QED
      BY <2>1, <2>2, <2>3, <3>1 DEF FromPools, Uris
  <2>7. QED
    BY <1>3, <1>4, <2>5, <2>6 DEF IInv
<1>8. CASE ~IsMeta(cp) /\ UNCHANGED <<meta, buffer>>
  <2>1. TypeInv'
    BY <1>1, <1>3, <1>8, PoolsTyped DEF IInv, TypeInv, TypeOK
  <2>2. FromPools'
    <3>1. MetaAmong(done)' = MetaAmong(done) /\ UNCHANGED <<cf, meta>>
      BY <1>1, <1>5, <1>6, <1>8
    <3>2. FromPools
      BY <1>1 DEF IInv
    <3>3. QED
      BY <3>1, <3>2 DEF FromPools, Uris
  <2>3. QED
    BY <1>3, <1>4, <2>1, <2>2 DEF IInv
<1>9. QED
  BY <1>7, <1>8 DEF Transform, IsMeta, IsData

\* The end of array_each keeps it.
LEMMA TransformsStep ==
  ASSUME IInv, Transforms
  PROVE  IInv'
<1>1. /\ pc = "transform" /\ pc' = "ping" /\ done = Len(cf)
      /\ UNCHANGED <<up, flaps, faults, heap, cf, meta, buffer, done>>
  BY DEF Transforms, Goto, world
<1>2. TypeInv' /\ HeapInv'
  BY <1>1 DEF IInv, TypeInv, TypeOK, HeapInv, WholePoolHeld
<1>3. FromPools'
  BY <1>1 DEF IInv, FromPools, MetaAmong
<1>4. QED
  BY <1>1, <1>2, <1>3 DEF IInv

\* What is known of xmeta_db when xdb_pool_preconnect is called: where its
\* URIs lead, and that there is a reason if they lead nowhere.
LEMMA Preconnect ==
  ASSUME IInv, pc \in {"ping", "connect"}
  PROVE  /\ PingAddress(meta) \notin up => Reason
         /\ PingAddress(meta) \in up /\ ~LetIn(meta) => Reason
         /\ LetIn(meta) => ConnectAddress(meta) \in Hosts \X Ports
<1>1. /\ FromPools /\ cf \in Confs /\ done = Len(cf) /\ done \in 0 .. Len(cf)
      /\ up \subseteq Hosts \X Ports
  BY PoolsTyped DEF IInv, TypeInv, TypeOK
<1>2. CASE MetaAmong(Len(cf)) = {}
  BY <1>1, <1>2 DEF Reason, LetIn
<1>3. CASE MetaAmong(Len(cf)) # {}
  <2>1. PICK i \in MetaAmong(Len(cf)) :
           /\ PingAddress(meta) = <<cf[i].ip, cf[i].port>>
           /\ ConnectAddress(meta) = <<cf[i].ip, DefaultPort>>
           /\ cf[i].passwd # NULL => Password(meta) = Plain[cf[i].passwd]
    BY <1>1, <1>3, Addresses
  <2>2. PingAddress(meta) \notin up => Reason
    BY <2>1 DEF Reason
  <2>3. ConnectAddress(meta) \notin up \/ cf[i].passwd = NULL => Reason
    BY <2>1 DEF Reason
  <2>4. ASSUME cf[i].passwd # NULL, <<ConnectAddress(meta)[1], Password(meta)>> \notin Accounts
        PROVE  Reason
    <3>1. <<cf[i].ip, Plain[cf[i].passwd]>> \notin Accounts
      BY <2>1, <2>4
    <3>2. QED
      BY <3>1 DEF Reason
  <2>5. QED
    BY <1>1, <2>2, <2>3, <2>4 DEF LetIn
<1>4. QED
  BY <1>2, <1>3

\* xdb_pool_preconnect keeps it.
LEMMA PreconnectStep ==
  ASSUME IInv, Ping \/ Connect
  PROVE  IInv'
<1> USE DEF Goto, Fails, world
<1>1. CASE /\ UNCHANGED <<up, flaps, faults, heap, cf, meta, buffer, done>>
           /\ pc \in {"ping", "connect"}
           /\ \/ pc' = "connect"
              \/ pc' = "exited" /\ Reason
  <2>1. TypeInv' /\ HeapInv'
    BY <1>1 DEF IInv, TypeInv, TypeOK, HeapInv, WholePoolHeld
  <2>2. FromPools' /\ (Reason => Reason')
    BY <1>1 DEF IInv, FromPools, MetaAmong, Reason
  <2>3. QED
    BY <1>1, <2>1, <2>2 DEF IInv
<1>2. CASE Connect /\ LetIn(meta)
  <2>1. /\ pc = "connect" /\ pc' = "console"
        /\ meta' = [meta EXCEPT !.conn = ConnectAddress(meta)]
        /\ UNCHANGED <<up, flaps, faults, heap, cf, buffer, done>>
        /\ meta \in Metas
    BY <1>2 DEF Connect, IInv, TypeInv
  <2>2. ConnectAddress(meta) \in Hosts \X Ports
    BY <1>2, <2>1, Preconnect
  <2>3. /\ meta' \in Metas /\ meta'.conn = ConnectAddress(meta)
        /\ meta'.ping_uri = meta.ping_uri /\ meta'.uri = meta.uri
    BY <2>1, <2>2 DEF Metas
  <2>4. TypeInv'
    <3>1. /\ meta'.hostaddr \in Hosts \cup {NULL} /\ meta'.port \in Ports \cup {0}
          /\ meta'.passwd \in DOMAIN Plain \cup {NULL}
      BY <2>3 DEF Metas, Passwd
    <3>2. QED
      BY <2>1, <2>3, <3>1 DEF IInv, TypeInv, TypeOK
  <2>5. HeapInv'
    BY <2>1 DEF IInv, HeapInv, WholePoolHeld
  <2>6. FromPools'
    BY <2>1, <2>3 DEF IInv, FromPools, MetaAmong
  <2>7. QED
    BY <2>1, <2>2, <2>3, <2>4, <2>5, <2>6 DEF IInv, ConnectAddress
<1>3. CASE Ping
  <2>1. pc = "ping" /\ (PingAddress(meta) \in up \/ Reason)
    BY <1>3, Preconnect DEF Ping
  <2>2. PingAddress(meta) \notin up => pc' = "exited"
    BY <1>3 DEF Ping
  <2>3. PingAddress(meta) \in up => pc' = "connect"
    BY <1>3 DEF Ping
  <2>4. UNCHANGED <<up, flaps, faults, heap, cf, meta, buffer, done>>
    BY <1>3 DEF Ping
  <2>5. CASE PingAddress(meta) \in up
    BY <1>1, <2>1, <2>3, <2>4, <2>5
  <2>6. CASE PingAddress(meta) \notin up
    BY <1>1, <2>1, <2>2, <2>4, <2>6
  <2>7. QED
    BY <2>5, <2>6
<1>4. CASE Connect /\ ~LetIn(meta)
  <2>1. Reason
    BY <1>4, Preconnect DEF Connect
  <2>2. QED
    BY <1>1, <1>4, <2>1 DEF Connect
<1>5. QED
  BY <1>2, <1>3, <1>4

\* Every step keeps the invariant.
LEMMA InvStep ==
  ASSUME IInv, [Next]_vars
  PROVE  IInv'
<1>1. CASE UNCHANGED vars
  <2>1. UNCHANGED <<up, flaps, faults, pc, heap, cf, meta, buffer, done>>
    BY <1>1 DEF vars, world
  <2>2. TypeInv' /\ HeapInv'
    BY <2>1 DEF IInv, TypeInv, TypeOK, HeapInv, WholePoolHeld
  <2>3. (FromPools => FromPools') /\ (Reason => Reason')
    BY <2>1 DEF FromPools, MetaAmong, Reason
  <2>4. QED
    BY <2>1, <2>2, <2>3 DEF IInv, ConnectAddress
<1>2. QED
  BY <1>1, FlapStep, EarlyStep, TransformStep, TransformsStep, PreconnectStep DEF Next, Step

\* So it holds throughout.
LEMMA InvAlways == Spec => []IInv
<1>1. Init => IInv
  BY InvInit
<1>2. IInv /\ [Next]_vars => IInv'
  BY InvStep
<1>3. QED
  BY <1>1, <1>2, PTL DEF Spec

-----------------------------------------------------------------------------
\* The types: what is read from the pools and from the uninitialised buffer is
\* what the URIs are made of (conf_db_each_transform).
THEOREM TypeCorrect == Spec => []TypeOK
<1>1. IInv => TypeOK
  BY DEF IInv, TypeInv
<1>2. QED
  BY <1>1, InvAlways, PTL

\* xdb_pool_create never leaves one of its structures without the other.
THEOREM WholePoolAlwaysHeld == Spec => []WholePoolHeld
<1>1. IInv => WholePoolHeld
  BY DEF IInv, HeapInv
<1>2. QED
  BY <1>1, InvAlways, PTL

\* The addresses are of one meta database, the last, however many pools name
\* it, and so is the password if that one has any (conf_db_each_transform).
THEOREM AlwaysOneMetaPool == Spec => []OneMetaPool
<1>1. ASSUME IInv, meta # NULL
      PROVE  OneMetaPool
  <2>1. FromPools /\ cf \in Confs /\ done \in 0 .. Len(cf)
    BY <1>1, PoolsTyped DEF IInv, TypeInv, TypeOK
  <2>2. CASE MetaAmong(done) = {}
    BY <2>1, <2>2 DEF OneMetaPool, FromPools
  <2>3. CASE MetaAmong(done) # {}
    BY <2>1, <2>3, Addresses DEF OneMetaPool
  <2>4. QED
    BY <2>2, <2>3
<1>2. IInv => OneMetaPool
  BY <1>1 DEF OneMetaPool
<1>3. QED
  BY <1>2, InvAlways, PTL

\* The console is entered with a connection, at the default port of the host
\* that was pinged (xdb_pool_preconnect).
THEOREM ConsoleAlwaysConnected == Spec => []ConsoleConnected
<1>1. ASSUME IInv, pc = "console"
      PROVE  ConsoleConnected
  <2>1. /\ FromPools /\ cf \in Confs /\ done \in 0 .. Len(cf)
        /\ meta.conn = ConnectAddress(meta) /\ meta.conn \in Hosts \X Ports
    BY <1>1, PoolsTyped DEF IInv, TypeInv, TypeOK
  <2>2. meta.conn # NULL
    BY <2>1, StartupAssumption
  <2>3. CASE MetaAmong(done) = {}
    BY <2>1, <2>2, <2>3, Addresses DEF ConsoleConnected
  <2>4. CASE MetaAmong(done) # {}
    BY <2>1, <2>2, <2>4, Addresses DEF ConsoleConnected
  <2>5. QED
    BY <2>3, <2>4
<1>2. IInv => ConsoleConnected
  BY <1>1 DEF ConsoleConnected
<1>3. QED
  BY <1>2, InvAlways, PTL

\* main gives up only for a reason.
THEOREM ExitAlwaysHasReason == Spec => []ExitHasReason
<1>1. IInv => ExitHasReason
  BY DEF IInv, ExitHasReason
<1>2. QED
  BY <1>1, InvAlways, PTL
=============================================================================
