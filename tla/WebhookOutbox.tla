---------------------------- MODULE WebhookOutbox ----------------------------
(***************************************************************************)
(* From an audit row to the webhooks: AuditLogger stores events, workers   *)
(* (AuditWebhookOutboxWorker) claim them in batches for two minutes, send  *)
(* them to the webhooks (WebhookDispatcher) and mark them.                 *)
(*                                                                         *)
(* Each API process runs one worker; the claim (FOR UPDATE SKIP LOCKED) is *)
(* written for several, and a restart overlaps the claims of the process   *)
(* before it.  A worker's steps are its SQL statements and its requests.   *)
(*                                                                         *)
(* Time is the order of events: a claim lapses and a backoff ends at any   *)
(* moment, before or after whatever else happens, so every duration of a   *)
(* batch is covered.  The attempts of an event only lengthen its backoff,  *)
(* and the counters RecordDeliveryResult keeps of a webhook are read by    *)
(* nobody here: both are left out.  All events have one type; a webhook is *)
(* active if its row is there, enabled, and names that type.               *)
(***************************************************************************)
EXTENDS Integers, FiniteSets

CONSTANTS
    Events,         \* ids of audit rows to come
    Hooks,          \* ids of webhooks
    Workers,        \* workers, one in each API process
    BatchSize,      \* how many events a claim takes at most
    MaxFaults,      \* bound: statements that fail, and crashes
    None            \* no value

ASSUME SizesAssumption == /\ BatchSize \in Nat \ {0}
                          /\ MaxFaults \in Nat
ASSUME NoEventAssumption == None \notin Events

VARIABLES
    at,             \* at[e]: the place of e in the order of audit_logs.at, 0: not stored
    logged,         \* how many events have been stored
    claim,          \* claim[e]: webhook_processing_at is null, recent or over two minutes old
    due,            \* due[e]: webhook_next_dispatch_at has come
    dispatched,     \* events whose webhook_dispatched_at is set
    active,         \* webhooks that are active
    pc, loc,        \* the next step of each worker and its local variables
    faults,         \* how many faults there have been
    (* Kept for the properties only; no action reads them. *)
    offered,        \* requests that were tried: pairs of event and webhook
    timedOut,       \* events whose dispatch once ran out of its twenty seconds
    overdue,        \* events claimed while an earlier claim of theirs had lapsed
    since           \* since[e]: webhooks that have been active since e was stored

rows   == <<at, logged, claim, due, dispatched>>
ghosts == <<offered, timedOut, overdue, since>>
vars   == <<rows, active, pc, loc, faults, ghosts>>

-----------------------------------------------------------------------------
Stored == {e \in Events : at[e] > 0}

(* The rest of the batch and whether it was full, the event in hand, the   *)
(* webhooks it still has to go to, and whether its twenty seconds are over.*)
Locals == [batch : SUBSET Events, full : BOOLEAN, event : Events \cup {None},
           targets : SUBSET Hooks, expired : BOOLEAN]

NoLocals == [batch |-> {}, full |-> FALSE, event |-> None, targets |-> {},
             expired |-> FALSE]

PC == {"claim", "next", "list", "send", "markSuccess", "markFailure", "sleep"}

TypeOK ==
    /\ at \in [Events -> Nat]
    /\ logged \in Nat
    /\ claim \in [Events -> {"free", "recent", "lapsed"}]
    /\ due \in [Events -> BOOLEAN]
    /\ dispatched \subseteq Events
    /\ active \subseteq Hooks
    /\ pc \in [Workers -> PC]
    /\ loc \in [Workers -> Locals]
    /\ faults \in Nat
    /\ offered \subseteq Events \X Hooks
    /\ timedOut \subseteq Events
    /\ overdue \subseteq Events
    /\ since \in [Events -> SUBSET Hooks]

Init ==
    /\ at = [e \in Events |-> 0]
    /\ logged = 0
    /\ claim = [e \in Events |-> "free"]
    /\ due = [e \in Events |-> TRUE]
    /\ dispatched = {}
    /\ active \in SUBSET Hooks
    /\ pc = [w \in Workers |-> "claim"]
    /\ loc = [w \in Workers |-> NoLocals]
    /\ faults = 0
    /\ offered = {}
    /\ timedOut = {}
    /\ overdue = {}
    /\ since = [e \in Events |-> {}]

-----------------------------------------------------------------------------
(* Mutant of LogEvent: the column audit_logs.at gets no default.           *)
LogEventUndated(e) ==
    /\ at[e] = 0
    /\ at' = [at EXCEPT ![e] = None]
    /\ logged' = logged + 1
    /\ since' = [since EXCEPT ![e] = active]
    /\ UNCHANGED <<claim, due, dispatched, active, pc, loc, faults,
                   offered, timedOut, overdue>>

(* AuditLogger.Log: one INSERT after the statements of a use case.  One    *)
(* that fails is only logged, and the event never becomes a row.           *)
LogEvent(e) ==
    /\ at[e] = 0
    /\ at' = [at EXCEPT ![e] = logged + 1]
    /\ logged' = logged + 1
    /\ since' = [since EXCEPT ![e] = active]
    /\ UNCHANGED <<claim, due, dispatched, active, pc, loc, faults,
                   offered, timedOut, overdue>>

(* An administrator creates, enables, disables or deletes a webhook.       *)
EnableHook(h) ==
    /\ h \notin active
    /\ active' = active \cup {h}
    /\ UNCHANGED <<rows, pc, loc, faults, ghosts>>

DisableHook(h) ==
    /\ h \in active
    /\ active' = active \ {h}
    /\ since' = [e \in Events |-> since[e] \ {h}]
    /\ UNCHANGED <<rows, pc, loc, faults, offered, timedOut, overdue>>

(* Two minutes have passed since a claim; a backoff is over.               *)
Lapse(e) ==
    /\ claim[e] = "recent"
    /\ claim' = [claim EXCEPT ![e] = "lapsed"]
    /\ UNCHANGED <<at, logged, due, dispatched, active, pc, loc, faults, ghosts>>

ComeDue(e) ==
    /\ ~due[e]
    /\ due' = [due EXCEPT ![e] = TRUE]
    /\ UNCHANGED <<at, logged, claim, dispatched, active, pc, loc, faults, ghosts>>

-----------------------------------------------------------------------------
(* The worker.                                                             *)

Goto(w, next, locals) ==
    /\ pc' = [pc EXCEPT ![w] = next]
    /\ loc' = [loc EXCEPT ![w] = locals]

(* A statement fails, or its answer is lost.                               *)
Fault ==
    /\ faults < MaxFaults
    /\ faults' = faults + 1

(* Mutants of Claimable: a recent claim is not looked at; the mark is not  *)
(* looked at; a claim never lapses.                                        *)
ClaimableWhileClaimed == {e \in Stored \ dispatched : due[e]}
ClaimableAgain == {e \in Stored : due[e] /\ claim[e] # "recent"}
ClaimableOnce == {e \in Stored \ dispatched : due[e] /\ claim[e] = "free"}

Claimable == {e \in Stored \ dispatched : due[e] /\ claim[e] # "recent"}

(* ClaimWebhookDispatchBatch: one statement takes the oldest of them.  The *)
(* answer may be lost, and the claims stay.                                *)
Claim(w) ==
    LET first == {e \in Claimable :
                    Cardinality({f \in Claimable : at[f] < at[e]}) < BatchSize}
        full  == Cardinality(first) = BatchSize
    IN  /\ pc[w] = "claim"
        /\ claim' = [e \in Events |-> IF e \in first THEN "recent" ELSE claim[e]]
        /\ overdue' = overdue \cup {e \in first : claim[e] = "lapsed"}
        /\ \/ /\ IF first = {}
                 THEN Goto(w, "sleep", NoLocals)
                 ELSE Goto(w, "next", [NoLocals EXCEPT !.batch = first, !.full = full])
              /\ UNCHANGED faults
           \/ Fault /\ Goto(w, "sleep", NoLocals)
        /\ UNCHANGED <<at, logged, due, dispatched, active, offered, timedOut, since>>

ClaimFails(w) ==
    /\ pc[w] = "claim"
    /\ Fault
    /\ Goto(w, "sleep", NoLocals)
    /\ UNCHANGED <<rows, active, ghosts>>

(* The ticker.                                                             *)
Wake(w) ==
    /\ pc[w] = "sleep"
    /\ Goto(w, "claim", NoLocals)
    /\ UNCHANGED <<rows, active, faults, ghosts>>

(* drainOnce: the next event of the batch; after a full batch, another one *)
(* is claimed.                                                             *)
NextEvent(w) ==
    /\ pc[w] = "next"
    /\ \/ \E e \in loc[w].batch :
            Goto(w, "list", [NoLocals EXCEPT !.batch = loc[w].batch \ {e},
                                             !.full = loc[w].full, !.event = e])
       \/ /\ loc[w].batch = {}
          /\ Goto(w, IF loc[w].full THEN "claim" ELSE "sleep", NoLocals)
    /\ UNCHANGED <<rows, active, faults, ghosts>>

(* Dispatch: on to the webhooks that are left, or to the mark.             *)
SendTo(w, targets) ==
    Goto(w, IF targets = {} THEN "markSuccess" ELSE "send",
         [loc[w] EXCEPT !.targets = targets])

(* ListActiveByEvent.                                                      *)
ListHooks(w) ==
    /\ pc[w] = "list"
    /\ \/ SendTo(w, active) /\ UNCHANGED faults
       \/ Fault /\ Goto(w, "markFailure", loc[w])
    /\ UNCHANGED <<rows, active, ghosts>>

(* The twenty seconds of dispatchOne are over.                             *)
Expire(w) ==
    /\ pc[w] = "send"
    /\ ~loc[w].expired
    /\ loc' = [loc EXCEPT ![w].expired = TRUE]
    /\ timedOut' = timedOut \cup {loc[w].event}
    /\ UNCHANGED <<rows, active, pc, faults, offered, overdue, since>>

(* Mutant of Send: a webhook that does not answer ends the dispatch.       *)
SendOrGiveUp(w) ==
    /\ pc[w] = "send"
    /\ \E h \in loc[w].targets :
          /\ SendTo(w, loc[w].targets \ {h}) \/ SendTo(w, {})
          /\ offered' = offered \cup {<<loc[w].event, h>>}
    /\ UNCHANGED <<rows, active, faults, timedOut, overdue, since>>

(* deliverWithRetry: a request, and up to two more while it is not         *)
(* answered with 2xx, which changes nothing here; RecordDeliveryResult,    *)
(* whose errors are only logged.  When the twenty seconds are over,        *)
(* nothing is sent any more.                                               *)
Send(w) ==
    /\ pc[w] = "send"
    /\ \E h \in loc[w].targets :
          /\ SendTo(w, loc[w].targets \ {h})
          /\ offered' = IF loc[w].expired THEN offered
                        ELSE offered \cup {<<loc[w].event, h>>}
    /\ UNCHANGED <<rows, active, faults, timedOut, overdue, since>>

AfterEvent(w) ==
    Goto(w, "next", [NoLocals EXCEPT !.batch = loc[w].batch, !.full = loc[w].full])

(* MarkWebhookDispatchSuccess, whoever holds the claim by now.             *)
MarkSuccess(w) ==
    LET e == loc[w].event
    IN  /\ pc[w] = "markSuccess"
        /\ AfterEvent(w)
        /\ \/ /\ dispatched' = dispatched \cup {e}
              /\ claim' = [claim EXCEPT ![e] = "free"]
              /\ UNCHANGED faults
           \/ Fault /\ UNCHANGED <<dispatched, claim>>
        /\ UNCHANGED <<at, logged, due, active, ghosts>>

(* MarkWebhookDispatchFailure, whoever holds the claim by now.             *)
MarkFailure(w) ==
    LET e == loc[w].event
    IN  /\ pc[w] = "markFailure"
        /\ AfterEvent(w)
        /\ \/ /\ claim' = [claim EXCEPT ![e] = "free"]
              /\ due' = [due EXCEPT ![e] = FALSE]
              /\ UNCHANGED faults
           \/ Fault /\ UNCHANGED <<claim, due>>
        /\ UNCHANGED <<at, logged, dispatched, active, ghosts>>

(* The process of a worker stops and is started again, whatever the worker *)
(* was doing.                                                              *)
Crash(w) ==
    /\ Fault
    /\ Goto(w, "claim", NoLocals)
    /\ UNCHANGED <<rows, active, ghosts>>

-----------------------------------------------------------------------------
Work(w) ==
    \/ Claim(w)
    \/ ClaimFails(w)
    \/ Wake(w)
    \/ NextEvent(w)
    \/ ListHooks(w)
    \/ Send(w)
    \/ MarkSuccess(w)
    \/ MarkFailure(w)

Environment ==
    \/ \E e \in Events : LogEvent(e) \/ Lapse(e) \/ ComeDue(e)
    \/ \E h \in Hooks : EnableHook(h) \/ DisableHook(h)

Next ==
    \/ \E w \in Workers : Work(w) \/ Expire(w) \/ Crash(w)
    \/ Environment

Spec == Init /\ [][Next]_vars

(* A worker keeps going: its statements and requests return or time out,   *)
(* and its ticker ticks.  Time passes.  Nobody has to log an event, and    *)
(* the faults come to an end.                                              *)
FairSpec == /\ Spec
            /\ \A w \in Workers : WF_vars(Work(w))
            /\ \A e \in Events : WF_vars(Lapse(e)) /\ WF_vars(ComeDue(e))

-----------------------------------------------------------------------------
(* Properties.                                                             *)

InHand(w) == loc[w].batch \cup (IF loc[w].event = None THEN {} ELSE {loc[w].event})

(* An event is in the hands of one worker at most, and of none once it is  *)
(* dispatched, unless it was claimed again when a claim had lapsed: a mark *)
(* that does not ask who holds the claim gives nothing away by itself      *)
(* (ClaimWebhookDispatchBatch, MarkWebhookDispatchFailure).                *)
ClaimIsExclusive ==
    \A v \in Workers : \A e \in InHand(v) \ overdue :
        /\ e \notin dispatched
        /\ \A w \in Workers \ {v} : e \notin InHand(w)

(* A dispatched event was tried at every webhook that has been active ever *)
(* since the event was stored, unless the twenty seconds ran out: one that *)
(* does not answer keeps no other from its event (Dispatch).               *)
DispatchedWasOffered ==
    \A e \in dispatched \ timedOut : \A h \in since[e] : <<e, h>> \in offered

(* Workers, claims, lapses and crashes behave like the queue of            *)
(* DeliveryQueue.                                                          *)
Queue == INSTANCE DeliveryQueue
            WITH waiting <- Stored \ dispatched, settled <- dispatched, sent <- offered

ImplementsQueue == Queue!QueueSpec

(* Every event that was stored is dispatched, whichever worker crashed     *)
(* with it in hand and however many workers mark it late.                  *)
StoredIsDispatched == \A e \in Events : e \in Stored ~> e \in dispatched
=============================================================================
