---------------------------- MODULE MCProvenance ----------------------------
(* Instances of Provenance for TLC: a local file, the fixture file and one   *)
(* cloud database that two spellings of its path reach.                      *)
EXTENDS Provenance, TLC
CONSTANTS p1, p2, local, dev, cloud

PathNames == {"energy_grid.duckdb", "dev_fixtures.duckdb", "md:energy_grid", "MD:energy_grid"}
Opens ==
  [path \in PathNames |->
     CASE path = "energy_grid.duckdb"  -> local
       [] path = "dev_fixtures.duckdb" -> dev
       [] OTHER                        -> cloud]

\* The file .env as .env.example proposes it, or naming the fixture file: then a
\* real run and a fixture load have one file.
DotEnvFiles == {Unset, "md:energy_grid", "dev_fixtures.duckdb"}

\* Two processes at once: one file, one cloud database.
TogetherByHand ==
  ({"real", "fixtures"} \X {"dev_fixtures.duckdb"})
    \union ({"real", "build", "publish", "fixtures"} \X {"MD:energy_grid"})

\* The command lines of the Makefile and the workflows, and an incremental build
\* of the fixture file.  A build may keep no row, and is a full refresh then.
Defaults ==
  {<<"fixtures", "dev_fixtures.duckdb">>, <<"fixtures", Unset>>,
   <<"build", "dev_fixtures.duckdb">>, <<"rebuild", "dev_fixtures.duckdb">>,
   <<"charts", "dev_fixtures.duckdb">>,
   <<"real", Unset>>, <<"build", Unset>>, <<"charts", Unset>>}
=============================================================================
