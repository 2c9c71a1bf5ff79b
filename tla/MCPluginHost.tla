---------------------------- MODULE MCPluginHost ----------------------------
(* Values of the constants of PluginHost for TLC. *)
EXTENDS PluginHost, TLC

CONSTANTS p1, p2, h1, h2

\* A hash with either role; a second hash that comes and goes.
MCTable == {h1 :> "a", (h1 :> "b") @@ (h2 :> "a")}

\* Both plugins, one of them alone, and one that cannot be initialised.
MCConfigs == {(p1 :> (h1 :> "a")) @@ (p2 :> (h1 :> "a")),
              (p1 :> (h1 :> "a")) @@ (p2 :> Broken)}
MCDefaultConfig == p1 :> ((h1 :> "b") @@ (h2 :> "a"))

MCOutput == [provedHash : {h1, h2}, role : {"a", "b"}] \cup {Undefined}

MCClaims ==
    {p1 :> ProofFor(h1),
     (p1 :> ProofFor(h1)) @@ (p2 :> ProofFor(h1)),
     (p1 :> ProofFor(h2)) @@ (p2 :> [hash |-> h1, sound |-> FALSE])}

\* Roles that depend on the output, and fixed ones.
MCRoleMap ==
    (p1 :> [o \in MCOutput |-> IF o = Undefined THEN {"user"}
                              ELSE IF o.role = "a" THEN {"user"} ELSE {"user", "admin"}])
      @@ (p2 :> [o \in MCOutput |-> {"auditor"}])
=============================================================================
