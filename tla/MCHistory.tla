------------------------------ MODULE MCHistory -----------------------------
(* Values of PlatformHistory's constants for TLC, on top of MCPlatform's. *)
EXTENDS MCPlatform, PlatformHistory

\* Actions and properties of PlatformHistory ask of the audit trail only whether
\* a step adds to it: states that differ only there have the same futures.
WithoutAudits == <<rows, pc, req, cur, now, seen, overtaken>>
=============================================================================
