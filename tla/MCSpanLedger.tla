---------------------------- MODULE MCSpanLedger ----------------------------
(* Instances of SpanLedger for TLC.                                        *)
EXTENDS SpanLedger

CONSTANTS s1, s2, c1

\* Purges by hand use a shorter retention than the loop.
ManualShort == {0}

\* No limit, and one above the cap.
LimitsShort == {None, 2}

\* A bound: who follows the pages begins before the restart, and may go on after it.
PagesFirst ==
  \A c \in Clients : walk[c].stage = "off" /\ walk'[c].stage = "on" => boots = 1

ShortNext == Next /\ PagesFirst
ShortSpec == Init /\ [][ShortNext]_vars /\ Fairness
=============================================================================
