----------------------------- MODULE ImportOnce -----------------------------
(* What the asynchronous import promises about each content, whatever the   *)
(* job service does underneath: it is accepted once, audited at most once   *)
(* and only after that, and registered only after it was audited; nothing   *)
(* is taken back.                                                           *)
EXTENDS Naturals

CONSTANT Content

VARIABLES
  accepted,    \* contents for which a job exists
  audited,     \* contents that have an audit
  total,       \* the number of import audits
  registered   \* contents whose audit was registered

vars == <<accepted, audited, total, registered>>

Init == accepted = {} /\ audited = {} /\ total = 0 /\ registered = {}

Accept(k) ==
  /\ k \in Content \ accepted
  /\ accepted' = accepted \union {k}
  /\ UNCHANGED <<audited, total, registered>>

Audit(k) ==
  /\ k \in accepted \ audited
  /\ audited' = audited \union {k}
  /\ total' = total + 1
  /\ UNCHANGED <<accepted, registered>>

Register(k) ==
  /\ k \in audited \ registered
  /\ registered' = registered \union {k}
  /\ UNCHANGED <<accepted, audited, total>>

Next == \E k \in Content : Accept(k) \/ Audit(k) \/ Register(k)

Spec == Init /\ [][Next]_vars
=============================================================================
