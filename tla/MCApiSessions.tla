---------------------------- MODULE MCApiSessions ----------------------------
(* Values of the constants of ApiSessions for TLC. *)
EXTENDS ApiSessions, TLC

\* As deployed with the template configuration: one plugin is enabled in the
\* plugin server and missing from the roleMap.
CONSTANT Unmapped
MCPartlyMapped == [p \in Plugin \ Unmapped |-> [o \in Output |-> {"user"}]]

MCSymmetry == Permutations(Request) \cup Permutations(Plugin) \cup Permutations(Output)
=============================================================================
