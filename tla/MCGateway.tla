----------------------------- MODULE MCGateway -----------------------------
(* A page with two components on one spec and one on another, and a second   *)
(* page that joins a job by its id.                                          *)
EXTENDS GatewaySystem, TLC

MCPages == {"p1", "p2"}
MCJobs == {"j1", "j2"}
MCKeys == {"a", "b", "c"}
MCPageOf == ("a" :> "p1") @@ ("b" :> "p1") @@ ("c" :> "p2")
MCHooks == {"h1", "h2", "h3", "h4"}
MCKeyOf == ("h1" :> "a") @@ ("h2" :> "a") @@ ("h3" :> "b") @@ ("h4" :> "c")
MCAskedJob == ("h1" :> NoJob) @@ ("h2" :> NoJob) @@ ("h3" :> "j2") @@ ("h4" :> "j1")
MCInputTags == 1 .. 2
MCVisits == {[h \in MCHooks |-> IF h = "h1" THEN 2 ELSE 0]} \union
            {[h \in MCHooks |-> IF h \in {"h1", g} THEN 1 ELSE 0] : g \in {"h2", "h3", "h4"}}
=============================================================================
