--------------------------- MODULE MCLocAdapters ---------------------------
(* The engine's adapter and two others, in a list of two.                  *)
EXTENDS LocAdapters

MCAdapters == {"engine", "one", "two"}
MCEvents == {"position", "measurement"}
MCExcluded == {"measurement"}
===========================================================================
