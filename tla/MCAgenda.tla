------------------------------ MODULE MCAgenda ------------------------------
(* A cron job and a job at a timestamp, and two instances that may run them. *)
EXTENDS AgendaProperties

CONSTANTS cron, reminder, c1, r1, i1, i2

MCNameOf == [d \in Docs |-> IF d = c1 THEN cron ELSE reminder]
=============================================================================
