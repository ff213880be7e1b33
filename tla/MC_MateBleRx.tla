---------------------------- MODULE MC_MateBleRx ----------------------------
EXTENDS MateBleRx

CONSTANTS me, gate, pal, kMe, kGate, kMate, kRoot, kForeign

Announced(kid, key, root) ==
  [pubid |-> Message(2, EncodeIdentity([kid |-> kid, key |-> key])),
   signature |-> [kid |-> RootKid, key |-> root]]
At(p, l) == [physical |-> p, logical |-> l]
Sent(ms, by) == {[msg |-> m, mate |-> by] : m \in ms}
Report == GateReport(gate, 1, At(0, 1), "open")

MC_Provisionings ==
  {Message(9, EncodeIdentity([kid |-> RootKid, key |-> kRoot])
                \o EncodeIdentity([kid |-> me, key |-> kMe])
                \o EncodeSignedPubid(Announced(me, kMe, kRoot))
                \o <<Bytes(me, 8), Bytes(me, 8), Bytes(me, 16)>>)}

(* Commands of two writers for the same gate; an unsigned report that the  *)
(* mate sends; a report of this node; the identities of the gate and the   *)
(* mate, and one by which a foreign root names the mate; a message of a    *)
(* type nobody handles.                                                    *)
MC_Incoming ==
  Sent(SerializeRecord(GateCommand(gate, 1, At(0, 1), me, "open"), TRUE, RecordBuffer), NoId)
    \cup Sent(SerializeRecord(GateCommand(pal, 2, At(0, 1), me, "closed"), TRUE, RecordBuffer), NoId)
    \cup Sent(SerializeRecord([Report EXCEPT !.sig = [by |-> pal, len |-> 0]], TRUE, RecordBuffer), pal)
    \cup Sent(SerializeRecord(GateReport(me, 1, At(0, 1), "closed"), TRUE, RecordBuffer), NoId)
    \cup Sent(SerializeIdReqres("id_request", Announced(gate, kGate, kRoot), IdBuffer), NoId)
    \cup UNION {Sent(SerializeIdReqres("id_response", a, IdBuffer), NoId) :
                  a \in {Announced(gate, kGate, kRoot), Announced(pal, kMate, kRoot),
                         Announced(pal, kForeign, kForeign)}}
=============================================================================
