----------------------------- MODULE MCStartup -----------------------------
(* An instance of Startup for TLC: two tables of two demonstration rows.     *)
EXTENDS Startup
MCTableOrder == <<"rules", "decisions">>
=============================================================================
