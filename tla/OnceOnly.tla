------------------------------ MODULE OnceOnly ------------------------------
(***************************************************************************)
(* What an Idempotency-Key promises a client: while the outcome of the key *)
(* is remembered, at most one attempt takes effect, and every attempt that *)
(* is answered with success is answered with that outcome (or with its own *)
(* effect, when the outcome was forgotten while the answer was on its way).*)
(***************************************************************************)
CONSTANTS Attempts, None

VARIABLES
    outcome,  \* the attempt whose effect is remembered, or None
    applied,  \* attempts that have taken effect
    reply     \* what each attempt was answered

avars == <<outcome, applied, reply>>

AInit ==
    /\ outcome = None
    /\ applied = {}
    /\ reply = [a \in Attempts |-> None]

TakeEffect(a) ==
    /\ outcome = None
    /\ a \notin applied
    /\ outcome' = a
    /\ applied' = applied \cup {a}

Return(a) ==
    /\ reply[a] = None
    /\ \/ outcome # None /\ reply' = [reply EXCEPT ![a] = outcome]
       \/ a \in applied /\ reply' = [reply EXCEPT ![a] = a]
       \/ reply' = [reply EXCEPT ![a] = "error"]

Forget == outcome # None /\ outcome' = None /\ UNCHANGED <<applied, reply>>

\* An attempt may take effect and be answered in one step.
ANext ==
    \/ \E a \in Attempts :
          \/ TakeEffect(a) /\ UNCHANGED reply
          \/ TakeEffect(a) /\ reply[a] = None
               /\ \E r \in {a, "error"} : reply' = [reply EXCEPT ![a] = r]
          \/ Return(a) /\ UNCHANGED <<outcome, applied>>
    \/ Forget

ASpec == AInit /\ [][ANext]_avars
=============================================================================
