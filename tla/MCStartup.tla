------------------------------ MODULE MCStartup ------------------------------
(***************************************************************************)
(* Configurations and servers for TLC: two hosts, one of them known to     *)
(* libpq by default; up to two pools, among them meta databases of         *)
(* different hosts, one of another product, and one without a password.    *)
(***************************************************************************)
EXTENDS Startup

CONSTANTS here, there, cipher, plain, wrong, leftover

MCPlain == [s \in {cipher, wrong} |-> IF s = cipher THEN plain ELSE leftover]

MCAccounts == {<<there, plain>>, <<here, NULL>>}

Cp(name, product, ip, port, passwd) ==
  [name |-> name, product |-> product, ip |-> ip, port |-> port, passwd |-> passwd]

PoolChoices ==
  {Cp("meta", "postgresql", there, 5432, cipher),
   Cp("meta", "postgresql", here, 5433, wrong),
   Cp("meta", "postgresql", there, 5432, NULL),
   Cp("meta", "oracle", here, 5432, wrong),
   Cp("data", "mongodb", there, 5433, NULL),
   Cp("data", NULL, NULL, 5433, NULL)}

MCConfs == UNION {[1 .. n -> PoolChoices] : n \in 1 .. 2}

MCRubbish == {leftover, NULL}
=============================================================================
