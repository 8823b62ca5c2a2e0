------------------------- MODULE MCDevPhaseHandles -------------------------
(* DevPhaseHandles for TLC: a script works with contracts, with money or with  *)
(* the log.                                                                  *)
EXTENDS DevPhaseHandles

MCScripts ==
    {{"reconnect", "system"}, {"system", "driver"}, {"funds"}, {"logger", "logs"}}
=============================================================================
