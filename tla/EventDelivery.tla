---------------------------- MODULE EventDelivery ----------------------------
(***************************************************************************)
(* What the event bus and its workers promise together: a message of the   *)
(* vehicle-event stream is settled only when its event is persisted and    *)
(* the rules have been applied to it, or when its payload is malformed; a  *)
(* message the stream's length cap removes is the one exception.           *)
(***************************************************************************)
EXTENDS Naturals, Sequences

CONSTANTS
    Payloads,           \* contents a message can have
    Malformed           \* those the codec rejects

VARIABLES
    log,        \* every message ever added: its payload, at its position
    saved,      \* events in MongoDB
    applied,    \* events the policy has been applied to
    settled,    \* positions that will not be delivered again
    trimmed     \* positions removed by the length cap

vars == <<log, saved, applied, settled, trimmed>>

Init ==
    /\ log = <<>>
    /\ saved = {}
    /\ applied = {}
    /\ settled = {}
    /\ trimmed = {}

Publish ==
    /\ \E p \in Payloads : log' = Append(log, p)
    /\ \E S \in SUBSET DOMAIN log' : trimmed' = trimmed \cup S
    /\ \E S \in SUBSET trimmed' : settled' = settled \cup S
    /\ UNCHANGED <<saved, applied>>

Save ==
    /\ \E i \in DOMAIN log : /\ log[i] \notin Malformed
                             /\ saved' = saved \cup {log[i]}
    /\ UNCHANGED <<log, applied, settled, trimmed>>

Apply ==
    /\ \E p \in saved : applied' = applied \cup {p}
    /\ UNCHANGED <<log, saved, settled, trimmed>>

Settle ==
    /\ \E S \in SUBSET DOMAIN log :
          /\ \A i \in S : \/ log[i] \in applied
                         \/ log[i] \in Malformed
                         \/ i \in trimmed
          /\ settled' = settled \cup S
    /\ UNCHANGED <<log, saved, applied, trimmed>>

Next == Publish \/ Save \/ Apply \/ Settle

Spec == Init /\ [][Next]_vars
==============================================================================
