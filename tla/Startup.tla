-------------------------------- MODULE Startup --------------------------------
(***************************************************************************)
(* From the configuration to the console: main and ctx_create (xadmin.c),  *)
(* xdb_pool_create and xdb_pool_preconnect (xdb_pool.c), and the transform *)
(* that xdb_pool_create has array_each apply to each configuration pool    *)
(* (conf_db_each_transform).  conf_create is abstracted to what ConfLoader *)
(* promises of it: NULL, or at least one pool, and each of them validated. *)
(*                                                                         *)
(* One step per call that can fail, and one per configuration pool.  The   *)
(* database servers start and stop on their own.                           *)
(***************************************************************************)
EXTENDS Naturals, Sequences

CONSTANTS
  NULL,        \* the null pointer, an unset or empty text
  Confs,       \* what conf_create can return: sequences of pools
  Plain,       \* sgnseed_decrypt
  Rubbish,     \* what an uninitialised buffer can hold
  Ports,       \* the ports at which servers may answer
  Accounts,    \* who is let in: pairs of a host and a password
  LocalHost,   \* where libpq looks for a server that it is not told
  DefaultPort, \* the port it takes if it is not told
  MaxFaults,   \* bound: calls of malloc and conf_create that fail
  MaxFlaps     \* bound: servers that start or stop

Hosts == {account[1] : account \in Accounts} \cup {LocalHost}

Passwords == {Plain[sealed] : sealed \in DOMAIN Plain} \cup Rubbish

ConfPool ==
  [name : STRING, product : STRING \cup {NULL}, ip : Hosts \cup {NULL},
   port : Ports, passwd : DOMAIN Plain \cup {NULL}]

ASSUME StartupAssumption ==
  /\ \A conf \in Confs : conf \in Seq(ConfPool) /\ conf # <<>>
  /\ NULL \notin Hosts \cup DOMAIN Plain \cup Confs \cup (Hosts \X Ports)
  /\ NULL \notin [host : Hosts \cup {NULL}, port : Ports]
  /\ NULL \notin [hostaddr : Hosts \cup {NULL}, password : Passwords]
  /\ DefaultPort \in Ports
  /\ Rubbish # {}
  /\ MaxFaults \in Nat /\ MaxFlaps \in Nat

VARIABLES
  up,     \* the addresses at which a server answers
  flaps,  \* how often that has changed
  faults, \* how many calls have failed
  pc,     \* the call that comes next, or how main goes on
  heap,   \* what ctx_create and xdb_pool_create have allocated
  cf,     \* ctx->cf: the pools of the configuration, or NULL
  meta,   \* dp->xmeta_db
  buffer, \* what is left where conf_db_each_transform has its passwd
  done    \* the pools that array_each has handed to the transform

world == <<up, flaps>>
vars == <<world, faults, pc, heap, cf, meta, buffer, done>>

-----------------------------------------------------------------------------
(***************************************************************************)
(* struct xmeta_db.  A URI names what libpq is told; the rest it defaults. *)
(***************************************************************************)
EmptyMeta ==
  [type |-> 0, hostaddr |-> NULL, port |-> 0, passwd |-> NULL,
   ping_uri |-> NULL, uri |-> NULL, conn |-> NULL]

\* The address that pg_ping tries, and the one that pg_connect tries: the URI
\* to connect has no port.
PingAddress(m) ==
  IF m.ping_uri = NULL THEN <<LocalHost, DefaultPort>>
  ELSE <<m.ping_uri.host, m.ping_uri.port>>

ConnectAddress(m) ==
  IF m.uri = NULL THEN <<LocalHost, DefaultPort>> ELSE <<m.uri.hostaddr, DefaultPort>>

Password(m) == IF m.uri = NULL THEN NULL ELSE m.uri.password

LetIn(m) ==
  /\ ConnectAddress(m) \in up
  /\ <<ConnectAddress(m)[1], Password(m)>> \in Accounts

IsMeta(cp) == cp.name = "meta" /\ cp.product = "postgresql"
IsData(cp) == cp.name = "data" /\ cp.product = "mongodb"

\* What the transform's passwd holds once it has decrypted the pool's
\* password, if there is one; and mistaken, only if the buffer is not in use.
DecryptedOnce(cp) ==
  IF cp.passwd # NULL /\ buffer = NULL THEN {Plain[cp.passwd]}
  ELSE Rubbish \cup ({buffer} \ {NULL})

Decrypted(cp) ==
  IF cp.passwd # NULL THEN {Plain[cp.passwd]}
  ELSE Rubbish \cup ({buffer} \ {NULL})

\* What the transform makes of a pool.  Mistakes: the URI to connect is not
\* written; host and password are in each other's place.
UriNotWritten(cp, password) ==
  [type     |-> 1,
   hostaddr |-> cp.ip,
   port     |-> cp.port,
   passwd   |-> cp.passwd,
   ping_uri |-> [host |-> cp.ip, port |-> cp.port],
   uri      |-> meta.uri,
   conn     |-> meta.conn]

Swapped(cp, password) ==
  [type     |-> 1,
   hostaddr |-> cp.passwd,
   port     |-> cp.port,
   passwd   |-> cp.ip,
   ping_uri |-> [host |-> cp.ip, port |-> cp.port],
   uri      |-> [hostaddr |-> cp.ip, password |-> password],
   conn     |-> meta.conn]

Transformed(cp, password) ==
  [type     |-> 1,
   hostaddr |-> cp.ip,
   port     |-> cp.port,
   passwd   |-> cp.passwd,
   ping_uri |-> [host |-> cp.ip, port |-> cp.port],
   uri      |-> [hostaddr |-> cp.ip, password |-> password],
   conn     |-> meta.conn]

-----------------------------------------------------------------------------
Init ==
  /\ up \in SUBSET (Hosts \X Ports)
  /\ flaps = 0
  /\ faults = 0
  /\ pc = "context"
  /\ heap = {}
  /\ cf = NULL
  /\ meta = NULL
  /\ buffer = NULL
  /\ done = 0

\* A server starts or stops.
Flap ==
  /\ flaps < MaxFlaps
  /\ flaps' = flaps + 1
  /\ \E address \in Hosts \X Ports :
       up' = IF address \in up THEN up \ {address} ELSE up \cup {address}
  /\ UNCHANGED <<faults, pc, heap, cf, meta, buffer, done>>

Fault ==
  /\ faults < MaxFaults
  /\ faults' = faults + 1

Goto(p) == pc' = p

\* ctx_create returns NULL, whatever it has acquired, and main ends.
Fails == Goto("exited")

\* ctx_create's malloc.
Context ==
  /\ pc = "context"
  /\ \/ heap' = {"ctx"} /\ Goto("conf") /\ UNCHANGED faults
     \/ Fault /\ Fails /\ UNCHANGED heap
  /\ UNCHANGED <<world, cf, meta, buffer, done>>

\* conf_create.
Conf ==
  /\ pc = "conf"
  /\ \/ /\ cf' \in Confs
        /\ heap' = heap \cup {"cf"}
        /\ Goto("pool")
        /\ UNCHANGED faults
     \/ Fault /\ Fails /\ UNCHANGED <<heap, cf>>
  /\ UNCHANGED <<world, meta, buffer, done>>

\* xdb_pool_create's second allocation fails; and mistaken, without giving the
\* first one back.
MetaRefusedAndForgotten == Fault /\ Fails /\ UNCHANGED heap
MetaRefused == Fault /\ Fails /\ heap' = heap \ {"dp"}

Pool ==
  /\ pc = "pool"
  /\ \/ heap' = heap \cup {"dp"} /\ Goto("meta") /\ UNCHANGED faults
     \/ Fault /\ Fails /\ UNCHANGED heap
  /\ UNCHANGED <<world, cf, meta, buffer, done>>

Meta ==
  /\ pc = "meta"
  /\ \/ /\ heap' = heap \cup {"meta"}
        /\ meta' = EmptyMeta
        /\ Goto("transform")
        /\ UNCHANGED faults
     \/ MetaRefused /\ UNCHANGED meta
  /\ UNCHANGED <<world, cf, buffer, done>>

\* The index moves on; or, mistaken, it does not.
SamePool == done' = done
NextPool == done' = done + 1

\* array_each hands the next pool to conf_db_each_transform.  A pool of
\* mongodb is written through xdata_db, which nothing has ever set.
Transform ==
  /\ pc = "transform"
  /\ done < Len(cf)
  /\ NextPool
  /\ LET cp == cf[done + 1]
     IN \/ /\ IsMeta(cp)
           /\ buffer' \in Decrypted(cp)
           /\ meta' = Transformed(cp, buffer')
           /\ UNCHANGED pc
        \/ /\ IsData(cp)
           /\ Goto("wild")
           /\ UNCHANGED <<meta, buffer>>
        \/ /\ ~IsMeta(cp) /\ ~IsData(cp)
           /\ UNCHANGED <<pc, meta, buffer>>
  /\ UNCHANGED <<world, faults, heap, cf>>

\* array_each is through with the pools.  It would refuse an empty array, and
\* xdb_pool_create would give up, but conf_create returns none.
Transforms ==
  /\ pc = "transform"
  /\ done = Len(cf)
  /\ Goto("ping")
  /\ UNCHANGED <<world, faults, heap, cf, meta, buffer, done>>

\* xdb_pool_preconnect: a ping first, and then the connection.
Ping ==
  /\ pc = "ping"
  /\ Goto(IF PingAddress(meta) \in up THEN "connect" ELSE "exited")
  /\ UNCHANGED <<world, faults, heap, cf, meta, buffer, done>>

Connect ==
  /\ pc = "connect"
  /\ \/ /\ LetIn(meta)
        /\ meta' = [meta EXCEPT !.conn = ConnectAddress(meta)]
        /\ Goto("console")
     \/ ~LetIn(meta) /\ Fails /\ UNCHANGED meta
  /\ UNCHANGED <<world, faults, heap, cf, buffer, done>>

Step == Context \/ Conf \/ Pool \/ Meta \/ Transform \/ Transforms \/ Ping \/ Connect

Next == Step \/ Flap

Spec == Init /\ [][Next]_vars /\ WF_vars(Step)

-----------------------------------------------------------------------------
\* The types of the variables.
TypeOK ==
  /\ up \subseteq Hosts \X Ports
  /\ flaps \in 0 .. MaxFlaps
  /\ faults \in 0 .. MaxFaults
  /\ pc \in {"context", "conf", "pool", "meta", "transform", "ping", "connect",
             "console", "exited", "wild"}
  /\ heap \subseteq {"ctx", "cf", "dp", "meta"}
  /\ cf \in Confs \cup {NULL}
  /\ meta # NULL => /\ meta.hostaddr \in Hosts \cup {NULL}
                    /\ meta.port \in Ports \cup {0}
                    /\ meta.passwd \in DOMAIN Plain \cup {NULL}
  /\ buffer \in Passwords \cup {NULL}
  /\ done \in 0 .. (IF cf = NULL THEN 0 ELSE Len(cf))

\* The meta database among the first n pools: the last one that names it.
MetaAmong(n) == {i \in 1 .. n : IsMeta(cf[i]) /\ \A j \in (i + 1) .. n : ~IsMeta(cf[j])}

\* xdb_pool_create holds both its structures or, once it has returned, none:
\* pools are never leaked one by one.
WholePoolHeld == pc # "meta" => ("dp" \in heap <=> "meta" \in heap)

\* However many pools name the meta database (nothing refuses duplicates), the
\* address pinged and the address to connect to are of one of them, the last,
\* and so is the password if that one has any; a pool of another product
\* contributes nothing (conf_db_each_transform).  Of the password to connect
\* with if the last one has none, nothing is said: it is what Decrypted finds
\* on the stack.
OneMetaPool ==
  meta # NULL =>
    IF MetaAmong(done) = {} THEN meta.ping_uri = NULL /\ meta.uri = NULL
    ELSE \E i \in MetaAmong(done) :
           /\ PingAddress(meta) = <<cf[i].ip, cf[i].port>>
           /\ ConnectAddress(meta)[1] = cf[i].ip
           /\ cf[i].passwd # NULL => Password(meta) = Plain[cf[i].passwd]

\* The console is entered with a connection, and to the very host that was
\* pinged; at the default port, whichever port was pinged
\* (xdb_pool_preconnect).
ConsoleConnected == pc = "console" => meta.conn = <<PingAddress(meta)[1], DefaultPort>>

\* main does not give up without a reason: unless a call failed, a server went
\* or came, or the configuration asks for what does not answer or does not let
\* it in, the console is entered.
Reason ==
  \/ faults > 0
  \/ flaps > 0
  \/ MetaAmong(Len(cf)) = {}
  \/ \E i \in MetaAmong(Len(cf)) :
       \/ <<cf[i].ip, cf[i].port>> \notin up
       \/ <<cf[i].ip, DefaultPort>> \notin up
       \/ cf[i].passwd = NULL
       \/ <<cf[i].ip, Plain[cf[i].passwd]>> \notin Accounts

ExitHasReason == pc = "exited" => Reason

\* Startup comes to an end.
Ends == <>(pc \in {"console", "exited", "wild"})
=============================================================================
