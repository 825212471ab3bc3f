-------------------------------- MODULE MCScan --------------------------------
(***************************************************************************)
(* Scans of every machine with at most MaxDeviations unhealthy parts and   *)
(* gaps in the evidence: enough for any two of them to hide each other.    *)
(***************************************************************************)
EXTENDS Scan

AnyEpoch == {"past", "future"}
LibstdcxxEpoch == {"future"}

=============================================================================
