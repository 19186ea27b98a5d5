------------------------------ MODULE MCBrowse ------------------------------
(***************************************************************************)
(* An instance of Browse for TLC: three events of two owners, two of them  *)
(* of one second, with pages of one event and never more than two.         *)
(***************************************************************************)
EXTENDS Browse

Event(row, ts, owner, repo, type) ==
    [row |-> row, ts |-> ts, owner |-> owner, repo |-> repo, type |-> type]

ThreeRows ==
    {Event(1, 1, "a", "x", "commit"), Event(2, 2, "a", "y", "pr"),
     Event(3, 2, "b", "x", "commit")}

WholeOrLate == {<<0, 0>>, <<2, 0>>}

PageNumbers == {-1, 0, 2}
PageSizes == {-1, 0, 2, 3}

=============================================================================
