--------------------------- MODULE MCPrinterHub ---------------------------
(***************************************************************************)
(* Small instances of PrinterHub for TLC.                                  *)
(***************************************************************************)
EXTENDS PrinterHub

\* Rows: one per request and one per placeholder the bounds allow, and a spare
\* one, so that no step waits for a row id.
Rows == 1..(1 + MaxRequests + MaxRuns * (1 + MaxMishaps))
Workers == 0..MaxMishaps
=============================================================================
