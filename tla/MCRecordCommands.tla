--------------------------- MODULE MCRecordCommands ---------------------------
(* One teacher, who adds snapshots and submits versions.       *)
EXTENDS RecordCommands

CONSTANT fac

MCUsers == {fac}
MCAccountRole == (fac :> "faculty")

\* Snapshot ids are free text, here a name and a number: a client may choose
\* one that submit would generate.
SubmitCommands ==
  { [type |-> "add-subject", id |-> "s"],
    [type |-> "add-artifact", id |-> "a", subjects |-> {"s"},
     preserve |-> FALSE, hashed |-> FALSE],
    [type |-> "add-snapshot", id |-> <<"opening night", 0>>],
    [type |-> "add-snapshot", id |-> <<"v1", 0>>],
    [type |-> "submit-version", name |-> "v1"],
    [type |-> "submit-version", name |-> "v2"] }
==============================================================================
