------------------------------ MODULE MCAuditQueue ------------------------------
(* Two first scans, one of them of a hotkey in probation, and a later repeat. *)
EXTENDS AuditQueue

MCKOf == [a \in Audits |-> IF a = "c" THEN 1 ELSE 0]
MCPoisons == {{}, {"a"}}
================================================================================
