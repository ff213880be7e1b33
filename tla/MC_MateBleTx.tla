---------------------------- MODULE MC_MateBleTx ----------------------------
EXTENDS MateBleTx

CONSTANTS me, gate

At(p, l) == [physical |-> p, logical |-> l]
MC_Puts ==
  {GateReport(me, 1, At(0, 1), "open"),
   GateReport(me, 2, At(1, Uint32Max), "closed"),
   GateEncounter(me, 3, At(1, 0), gate, "open")}
MC_OwnIdentity ==
  [pubid |-> Message(2, EncodeIdentity([kid |-> me, key |-> me])), signature |-> gate]
=============================================================================
