----------------------------- MODULE MCPlanning -----------------------------
(* Plannings of a group on two machines: in order or not, with two events of *)
(* one date, over two days of three minutes, and one that check refuses.     *)
EXTENDS Planning

MCWorkers == {"h1", "h2"}
MCGroups == {"g1"}

PlannedEvent(at, h, do) == [at |-> at, host |-> h, group |-> "g1", do |-> do]

MCPlans ==
    {<<PlannedEvent(1, "h1", "start"), PlannedEvent(2, "h1", "kill")>>,
     <<PlannedEvent(2, "h1", "kill"), PlannedEvent(1, "h1", "start"), PlannedEvent(2, "h2", "start")>>,
     <<PlannedEvent(1, "h1", "start"), PlannedEvent(1, "h1", "kill")>>,
     <<PlannedEvent(4, "h2", "start"), PlannedEvent(5, "h2", "kill"), PlannedEvent(1, "h1", "start")>>,
     <<PlannedEvent(1, "h1", "start"), PlannedEvent(2, "h1", "set")>>}
=============================================================================
