--------------------------- MODULE DeliveryQueue ---------------------------
(***************************************************************************)
(* What the outbox promises, without workers, claims or crashes: an event  *)
(* that was stored waits until it is settled; requests are sent for events *)
(* that wait, and after that only for one whose claim had run out while it *)
(* was being worked on.  Nothing that was sent or settled is undone.       *)
(***************************************************************************)
CONSTANTS
    Events, Hooks

VARIABLES
    waiting,        \* events stored and not settled
    settled,        \* events that are not sent again
    overdue,        \* events that were claimed again after a claim ran out
    sent            \* requests that were tried: pairs of event and webhook

QueueInit ==
    /\ waiting = {}
    /\ settled = {}
    /\ overdue = {}
    /\ sent = {}

Store(e) ==
    /\ e \notin waiting \cup settled
    /\ waiting' = waiting \cup {e}
    /\ UNCHANGED <<settled, overdue, sent>>

Send(e, h) ==
    /\ e \in waiting \cup (settled \cap overdue)
    /\ sent' = sent \cup {<<e, h>>}
    /\ UNCHANGED <<waiting, settled, overdue>>

Settle(e) ==
    /\ e \in waiting
    /\ waiting' = waiting \ {e}
    /\ settled' = settled \cup {e}
    /\ UNCHANGED <<overdue, sent>>

(* A batch of events is claimed, some of which had been claimed before.    *)
RunOut(es) ==
    /\ es \subseteq waiting
    /\ overdue' = overdue \cup es
    /\ UNCHANGED <<waiting, settled, sent>>

QueueNext ==
    \/ \E e \in Events : Store(e) \/ Settle(e)
    \/ \E e \in Events, h \in Hooks : Send(e, h)
    \/ \E es \in SUBSET Events : RunOut(es)

QueueSpec == QueueInit /\ [][QueueNext]_<<waiting, settled, overdue, sent>>
=============================================================================
