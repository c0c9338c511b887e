------------------------------ MODULE MCTshark -------------------------------
(* Packets whose JSON is up to three levels deep, good and bad.            *)
EXTENDS Tshark

Leaves == {Value(ok, <<>>) : ok \in BOOLEAN}
Flat == {Value(TRUE, items) : items \in SeqOf(Leaves, 2)}
MCShape == Leaves \cup Flat \cup {Value(TRUE, <<v>>) : v \in Flat}

\* Value(TRUE, <<>>) is both a leaf and flat.
MCNesting == [v \in MCShape |-> IF v \in Leaves THEN 0 ELSE IF v \in Flat THEN 1 ELSE 2]

=============================================================================
