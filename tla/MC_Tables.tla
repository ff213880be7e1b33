------------------------------ MODULE MC_Tables ------------------------------
(***************************************************************************)
(* A gate g whose main and observer threads both write its report, and a   *)
(* mate m that receives it.  In MC_Tables_live a second mate, far, has met *)
(* the gate once and is now in range of the first only.                    *)
(***************************************************************************)
EXTENDS Tables, TLC

CONSTANTS g, m, far, main, observer, report

OwnerOf == [k \in Key |-> g]
AllInRange == Node \X Node
GateToMate == {<<g, m>>}
InALine   == {<<g, m>>, <<m, g>>, <<m, far>>, <<far, m>>}
NobodyMet == [n \in Node |-> {}]
FarMet == [n \in Node |-> IF n = far THEN {g} ELSE {}]
GateWrites == g :> {main, observer} @@ m :> {}
OneThread == g :> {main} @@ m :> {} @@ far :> {}
Neither == [n \in Node |-> 0]
OnlyGate == [n \in Node |-> IF n = g THEN 1 ELSE 0]
OneEach == [n \in Node |-> 1]
GateThreads == Permutations({main, observer})
=============================================================================
