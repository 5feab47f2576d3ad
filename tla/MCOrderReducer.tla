-------------------------- MODULE MCOrderReducer --------------------------
(***************************************************************************)
(* Small instances of OrderReducer.                                        *)
(***************************************************************************)
EXTENDS OrderReducer

CONSTANTS x1, x2

\* Cumulative reports: entries and exits in parts, one report delivered again.
Stream ==
    [adapter |-> "stream", exits |-> {x1, x2}, partialEntries |-> TRUE,
     partialExits |-> TRUE, maxLost |-> 0, maxRepeats |-> 1]
\* The MT5 bridge: whole fills and exits, reports lost and delivered again.
Mt5 ==
    [adapter |-> "mt5", exits |-> {x1}, partialEntries |-> FALSE,
     partialExits |-> FALSE, maxLost |-> 2, maxRepeats |-> 2]
BothAdapters == {Stream, Mt5}

\* The MT5 bridge and a position that is reduced in parts.
ScaleOut ==
    {[adapter |-> "mt5", exits |-> {x1}, partialEntries |-> FALSE,
      partialExits |-> TRUE, maxLost |-> 0, maxRepeats |-> 0]}
=============================================================================
