--------------------------- MODULE MC_MateLorawan ---------------------------
EXTENDS MateLorawan

CONSTANTS me, other

At(p, l) == [physical |-> p, logical |-> l]
MC_Puts ==
  {GateReport(me, 1, At(0, 1), "open"), GateReport(me, 2, At(1, 0), "closed"),
   GateReport(other, 1, At(0, 1), "open")}
(* A signed command, and an unsigned one that claims to be newer. *)
MC_Downlinks ==
  SerializeRecord(GateCommand(other, 1, At(1, 1), me, "closed"), TRUE, RecordBuffer)
    \cup SerializeRecord(GateCommand(other, 2, At(1, 2), me, "open"), FALSE, RecordBuffer)
=============================================================================
