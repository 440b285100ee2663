----------------------------- MODULE MCImporters -----------------------------
EXTENDS Importers, TLC

CONSTANTS passport, family, j1, j2

MCVersionsOf ==
  passport :> {"passport.2026"} @@ family :> {"family.historical", "family.current"}

\* Both cite the gazette, one of them a ministry as well.
MCRecordsOf == passport :> {"gazette"} @@ family :> {"gazette", "ministry"}
=============================================================================
