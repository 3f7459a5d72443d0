---------------------------- MODULE MCOrphanSync ----------------------------
(* OrphanSync with two orders of the bot.           *)
EXTENDS OrphanSync
=============================================================================
