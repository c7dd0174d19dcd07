------------------------- MODULE MCMaintenancePass -------------------------
(* A process with its timer and an http handler, and another's http handler. *)
EXTENDS MaintenancePass, TLC

CONSTANTS i1, i2, timer1, http1, http2, proc1, proc2

MCProcessOf == timer1 :> proc1 @@ http1 :> proc1 @@ http2 :> proc2

MCExpiresAt == i1 :> 0 @@ i2 :> 1
=============================================================================
