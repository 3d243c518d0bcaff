----------------------------- MODULE MCEventRelay -----------------------------
(* EventRelay with one page: its reconnects already give streams of the job *)
(* that overlap, and two pages touch nothing in common but the streams.    *)
EXTENDS EventRelay

CONSTANT p1

OnePage == {p1}
===============================================================================
