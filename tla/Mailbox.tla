------------------------------- MODULE Mailbox -------------------------------
(***************************************************************************)
(* What the CVE feed promises a tenant: a mailbox.  A message is posted,   *)
(* shipped in an answer, then marked delivered; the tenant acknowledges or *)
(* suppresses it.  Nothing is withdrawn and no mark is taken back.         *)
(***************************************************************************)
CONSTANT Messages

VARIABLES
  posted,        \* messages there are for the tenant
  shipped,       \* messages an answer has listed
  delivered,     \* messages marked as delivered
  acknowledged,  \* messages the tenant has acknowledged
  suppressed     \* messages the tenant does not want to see

mailboxVars == <<posted, shipped, delivered, acknowledged, suppressed>>

Init ==
  /\ posted = {} /\ shipped = {} /\ delivered = {}
  /\ acknowledged = {} /\ suppressed = {}

Post(some) ==
  /\ posted' = posted \cup some
  /\ UNCHANGED <<shipped, delivered, acknowledged, suppressed>>

\* Only what was posted is shipped ...
Ship(some) ==
  /\ some \subseteq posted
  /\ shipped' = shipped \cup some
  /\ UNCHANGED <<posted, delivered, acknowledged, suppressed>>

\* ... and only what was shipped counts as delivered.
Deliver(some) ==
  /\ some \subseteq shipped
  /\ delivered' = delivered \cup some
  /\ UNCHANGED <<posted, shipped, acknowledged, suppressed>>

Acknowledge(m) ==
  /\ m \in posted
  /\ acknowledged' = acknowledged \cup {m}
  /\ UNCHANGED <<posted, shipped, delivered, suppressed>>

Suppress(m) ==
  /\ m \in posted
  /\ suppressed' = suppressed \cup {m}
  /\ UNCHANGED <<posted, shipped, delivered, acknowledged>>

Next ==
  \/ \E some \in SUBSET Messages : Post(some) \/ Ship(some) \/ Deliver(some)
  \/ \E m \in Messages : Acknowledge(m) \/ Suppress(m)

Spec == Init /\ [][Next]_mailboxVars
==============================================================================
