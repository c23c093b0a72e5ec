------------------------ MODULE WebhookOutboxProofs ------------------------
(***************************************************************************)
(* Theorems about WebhookOutbox, for any number of events, webhooks and    *)
(* workers, any size of a batch and any number of faults.                  *)
(***************************************************************************)
EXTENDS WebhookOutbox, TLAPS

-----------------------------------------------------------------------------
(* Types.                                                                  *)

(* A worker has an event in hand from NextEvent to the mark, and a batch   *)
(* only while it drains one.                                               *)
Assigned(p, l) ==
    /\ p \in {"list", "send", "markSuccess", "markFailure"} => l.event \in Events
    /\ p \in {"claim", "sleep", "next"} => l.event = None
    /\ p \in {"claim", "sleep"} => l.batch = {}

LocalsAssigned == \A w \in Workers : Assigned(pc[w], loc[w])

TypeInv == TypeOK /\ LocalsAssigned

(* The part of TypeInv that a step of a worker changes.                    *)
ControlTyped ==
    /\ pc \in [Workers -> PC]
    /\ loc \in [Workers -> Locals]
    /\ LocalsAssigned

LEMMA NoLocalsType == NoLocals \in Locals
BY DEF NoLocals, Locals

LEMMA InitTypeInv == Init => TypeInv
<1> SUFFICES ASSUME Init PROVE TypeInv
    OBVIOUS
<1>1. TypeOK
    BY NoLocalsType DEF Init, TypeOK, PC
<1>2. LocalsAssigned
    BY DEF Init, LocalsAssigned, Assigned, NoLocals
<1> QED BY <1>1, <1>2 DEF TypeInv

(* What going on to a step changes.                                        *)
LEMMA GotoEffect ==
    ASSUME TypeInv, NEW w \in Workers, NEW p, NEW l, Goto(w, p, l)
    PROVE  /\ pc'[w] = p /\ loc'[w] = l
           /\ \A v \in Workers \ {w} : pc'[v] = pc[v] /\ loc'[v] = loc[v]
BY DEF TypeInv, TypeOK, Goto

LEMMA GotoType ==
    ASSUME TypeInv, NEW w \in Workers, NEW p \in PC, NEW l \in Locals,
           Assigned(p, l), Goto(w, p, l)
    PROVE  ControlTyped'
BY DEF TypeInv, TypeOK, LocalsAssigned, ControlTyped, Goto

LEMMA IdleType ==
    ASSUME TypeInv, NEW w \in Workers, NEW p \in {"claim", "sleep"},
           Goto(w, p, NoLocals)
    PROVE  ControlTyped'
<1>1. Assigned(p, NoLocals) /\ p \in PC
    BY DEF Assigned, PC, NoLocals
<1> QED BY <1>1, NoLocalsType, GotoType

LEMMA SendToType ==
    ASSUME TypeInv, NEW w \in Workers, NEW targets \in SUBSET Hooks,
           pc[w] \in {"list", "send"}, SendTo(w, targets)
    PROVE  ControlTyped'
<1> DEFINE l == [loc[w] EXCEPT !.targets = targets]
           p == IF targets = {} THEN "markSuccess" ELSE "send"
<1>1. loc[w].event \in Events /\ loc[w] \in Locals
    BY DEF TypeInv, TypeOK, LocalsAssigned, Assigned
<1>2. l \in Locals /\ l.event \in Events
    BY <1>1 DEF Locals
<1>3. p \in PC /\ Assigned(p, l)
    BY <1>2 DEF PC, Assigned
<1> QED BY <1>2, <1>3, GotoType DEF SendTo

LEMMA AfterEventType ==
    ASSUME TypeInv, NEW w \in Workers, AfterEvent(w)
    PROVE  ControlTyped'
<1> DEFINE l == [NoLocals EXCEPT !.batch = loc[w].batch, !.full = loc[w].full]
<1>1. l \in Locals /\ Assigned("next", l)
    BY NoEventAssumption DEF TypeInv, TypeOK, Locals, NoLocals, Assigned
<1> QED BY <1>1, GotoType DEF AfterEvent, PC

LEMMA ClaimType ==
    ASSUME TypeInv, NEW w \in Workers, Claim(w)
    PROVE  TypeInv'
<1> DEFINE first == {e \in Claimable :
                       Cardinality({f \in Claimable : at[f] < at[e]}) < BatchSize}
           full  == Cardinality(first) = BatchSize
           l     == [NoLocals EXCEPT !.batch = first, !.full = full]
<1>1. first \in SUBSET Events /\ full \in BOOLEAN
    BY DEF Claimable, Stored
<1> HIDE DEF first, full
<1>2. l \in Locals /\ Assigned("next", l)
    BY <1>1 DEF Locals, NoLocals, Assigned
<1>3. ControlTyped'
    <2>1. Goto(w, "sleep", NoLocals) \/ Goto(w, "next", l)
        BY DEF Claim, first, full
    <2> QED BY <1>2, <2>1, IdleType, GotoType DEF PC
<1>4. /\ claim' \in [Events -> {"free", "recent", "lapsed"}]
      /\ overdue' \subseteq Events
      /\ faults' \in Nat
      /\ UNCHANGED <<at, logged, due, dispatched, active, offered, timedOut, since>>
    BY <1>1 DEF Claim, Fault, TypeInv, TypeOK, first, full
<1> QED BY <1>3, <1>4 DEF TypeInv, TypeOK, ControlTyped, LocalsAssigned

LEMMA NextEventType ==
    ASSUME TypeInv, NEW w \in Workers, NextEvent(w)
    PROVE  TypeInv'
<1>1. loc[w] \in Locals
    BY DEF TypeInv, TypeOK
<1>2. ControlTyped'
    <2>1. ASSUME NEW e \in loc[w].batch,
                 Goto(w, "list", [NoLocals EXCEPT !.batch = loc[w].batch \ {e},
                                                  !.full = loc[w].full, !.event = e])
          PROVE  ControlTyped'
        <3> DEFINE l == [NoLocals EXCEPT !.batch = loc[w].batch \ {e},
                                         !.full = loc[w].full, !.event = e]
        <3>1. l \in Locals /\ Assigned("list", l)
            BY <1>1 DEF Locals, NoLocals, Assigned
        <3> QED BY <2>1, <3>1, GotoType DEF PC
    <2>2. Goto(w, "claim", NoLocals) \/ Goto(w, "sleep", NoLocals) => ControlTyped'
        BY IdleType
    <2> QED BY <2>1, <2>2 DEF NextEvent
<1> QED
    BY <1>2 DEF NextEvent, TypeInv, TypeOK, ControlTyped, LocalsAssigned, rows, ghosts

LEMMA TypeStep == TypeInv /\ [Next]_vars => TypeInv'
<1> SUFFICES ASSUME TypeInv, [Next]_vars PROVE TypeInv'
    OBVIOUS
<1> USE DEF TypeInv, TypeOK, ControlTyped, rows, ghosts
<1>1. ASSUME NEW w \in Workers, Wake(w) \/ ClaimFails(w) \/ Crash(w)
      PROVE  TypeInv'
    <2>1. ControlTyped'
        BY <1>1, IdleType DEF Wake, ClaimFails, Crash
    <2> QED BY <1>1, <2>1 DEF Wake, ClaimFails, Crash, Fault, LocalsAssigned
<1>2. ASSUME NEW w \in Workers, ListHooks(w)
      PROVE  TypeInv'
    <2>1. ControlTyped'
        <3>1. CASE SendTo(w, active)
            BY <1>2, <3>1, SendToType DEF ListHooks
        <3>2. CASE Goto(w, "markFailure", loc[w])
            <4>1. loc[w] \in Locals /\ Assigned("markFailure", loc[w])
                BY <1>2 DEF ListHooks, LocalsAssigned, Assigned
            <4> QED BY <3>2, <4>1, GotoType DEF PC
        <3> QED BY <1>2, <3>1, <3>2 DEF ListHooks
    <2> QED BY <1>2, <2>1 DEF ListHooks, Fault, LocalsAssigned
<1>3. ASSUME NEW w \in Workers, Expire(w)
      PROVE  TypeInv'
    <2>1. loc[w].event \in Events
        BY <1>3 DEF Expire, LocalsAssigned, Assigned
    <2>2. loc' = [loc EXCEPT ![w] = [loc[w] EXCEPT !.expired = TRUE]]
        BY <1>3 DEF Expire
    <2>3. /\ [loc[w] EXCEPT !.expired = TRUE] \in Locals
          /\ Assigned(pc[w], [loc[w] EXCEPT !.expired = TRUE])
        BY DEF Locals, LocalsAssigned, Assigned
    <2>4. loc' \in [Workers -> Locals] /\ LocalsAssigned'
        BY <1>3, <2>2, <2>3 DEF Expire, LocalsAssigned
    <2> QED BY <1>3, <2>1, <2>4 DEF Expire
<1>4. ASSUME NEW w \in Workers, Send(w)
      PROVE  TypeInv'
    <2>1. PICK h \in loc[w].targets :
              /\ SendTo(w, loc[w].targets \ {h})
              /\ offered' = IF loc[w].expired THEN offered
                            ELSE offered \cup {<<loc[w].event, h>>}
        BY <1>4 DEF Send
    <2>2. loc[w].event \in Events /\ loc[w].targets \subseteq Hooks
        BY <1>4 DEF Send, LocalsAssigned, Assigned, Locals
    <2>3. ControlTyped'
        BY <1>4, <2>1, <2>2, SendToType DEF Send
    <2>4. offered' \subseteq Events \X Hooks
        BY <2>1, <2>2
    <2> QED BY <1>4, <2>3, <2>4 DEF Send, LocalsAssigned
<1>5. ASSUME NEW w \in Workers, MarkSuccess(w) \/ MarkFailure(w)
      PROVE  TypeInv'
    <2>1. loc[w].event \in Events
        BY <1>5 DEF MarkSuccess, MarkFailure, LocalsAssigned, Assigned
    <2>2. ControlTyped'
        BY <1>5, AfterEventType DEF MarkSuccess, MarkFailure
    <2>3. /\ dispatched' \subseteq Events
          /\ claim' \in [Events -> {"free", "recent", "lapsed"}]
          /\ due' \in [Events -> BOOLEAN]
          /\ faults' \in Nat
        <3>1. CASE MarkSuccess(w)
            BY <2>1, <3>1 DEF MarkSuccess, Fault
        <3>2. CASE MarkFailure(w)
            <4>1. claim' \in [Events -> {"free", "recent", "lapsed"}]
                BY <3>2 DEF MarkFailure
            <4>2. due' \in [Events -> BOOLEAN]
                BY <3>2 DEF MarkFailure
            <4> QED BY <3>2, <4>1, <4>2 DEF MarkFailure, Fault
        <3> QED BY <1>5, <3>1, <3>2
    <2> QED
        BY <1>5, <2>2, <2>3 DEF MarkSuccess, MarkFailure, LocalsAssigned
<1>6. CASE Environment
    <2>1. ASSUME NEW e \in Events, LogEvent(e) \/ Lapse(e) \/ ComeDue(e)
          PROVE  TypeInv'
        <3>1. /\ at' \in [Events -> Nat]
              /\ logged' \in Nat
              /\ since' \in [Events -> SUBSET Hooks]
            BY <2>1 DEF LogEvent, Lapse, ComeDue
        <3>2. claim' \in [Events -> {"free", "recent", "lapsed"}]
            BY <2>1 DEF LogEvent, Lapse, ComeDue
        <3>3. due' \in [Events -> BOOLEAN]
            BY <2>1 DEF LogEvent, Lapse, ComeDue
        <3> QED
            BY <2>1, <3>1, <3>2, <3>3 DEF LogEvent, Lapse, ComeDue, LocalsAssigned
    <2>2. ASSUME NEW h \in Hooks, EnableHook(h) \/ DisableHook(h)
          PROVE  TypeInv'
        BY <2>2 DEF EnableHook, DisableHook, LocalsAssigned
    <2> QED BY <1>6, <2>1, <2>2 DEF Environment
<1>7. CASE UNCHANGED vars
    BY <1>7 DEF vars, LocalsAssigned
<1> QED
    BY <1>1, <1>2, <1>3, <1>4, <1>5, <1>6, <1>7, ClaimType, NextEventType DEF Next, Work

LEMMA TypeInvAlways == Spec => []TypeInv
BY InitTypeInv, TypeStep, PTL DEF Spec

(* The variables keep their types, and each step of a worker finds the     *)
(* event in hand that an earlier step left there (drainOnce, dispatchOne). *)
THEOREM TypeCorrect == Spec => []TypeOK
<1>1. TypeInv => TypeOK
    BY DEF TypeInv
<1> QED BY <1>1, TypeInvAlways, PTL

-----------------------------------------------------------------------------
(* Claims.                                                                 *)

(* A worker has stored events in hand; one that was never claimed over a   *)
(* lapsed claim is claimed, not dispatched, and in no other hands.         *)
ClaimsHeld ==
    \A v \in Workers : \A e \in InHand(v) :
        /\ e \in Stored
        /\ e \notin overdue =>
              /\ claim[e] # "free"
              /\ e \notin dispatched
              /\ \A w \in Workers \ {v} : e \notin InHand(w)

EventApart == \A w \in Workers : loc[w].event \notin loc[w].batch

HoldInv == TypeInv /\ ClaimsHeld /\ EventApart /\ dispatched \subseteq Stored

(* Holding less, while claims and marks of what is held stay as they are.  *)
LEMMA LessInHand ==
    ASSUME ClaimsHeld, Stored \subseteq Stored', overdue \subseteq overdue',
           \A v \in Workers : InHand(v)' \subseteq InHand(v),
           \A v \in Workers : \A e \in InHand(v)' \ overdue :
               claim'[e] # "free" /\ e \notin dispatched'
    PROVE  ClaimsHeld'
BY DEF ClaimsHeld

LEMMA InitHoldInv == Init => HoldInv
<1> SUFFICES ASSUME Init PROVE HoldInv
    OBVIOUS
<1>1. \A w \in Workers : loc[w] = NoLocals
    BY DEF Init
<1>2. \A w \in Workers : InHand(w) = {} /\ loc[w].event \notin loc[w].batch
    BY <1>1 DEF InHand, NoLocals
<1> QED BY <1>2, InitTypeInv DEF HoldInv, ClaimsHeld, EventApart, Init

(* A worker that has nothing in hand any more, or what it had.             *)
LEMMA GoneFromHand ==
    ASSUME HoldInv, NEW w \in Workers, NEW p, Goto(w, p, NoLocals)
    PROVE  /\ \A v \in Workers : InHand(v)' \subseteq InHand(v)
           /\ EventApart'
<1>1. loc'[w] = NoLocals /\ \A v \in Workers \ {w} : loc'[v] = loc[v]
    BY GotoEffect DEF HoldInv
<1>2. InHand(w)' = {} /\ loc'[w].event \notin loc'[w].batch
    BY <1>1 DEF InHand, NoLocals
<1> QED BY <1>1, <1>2 DEF InHand, EventApart, HoldInv

LEMMA SameInHand ==
    ASSUME HoldInv, NEW w \in Workers, NEW p, NEW l,
           l.batch = loc[w].batch, l.event = loc[w].event, Goto(w, p, l)
    PROVE  /\ \A v \in Workers : InHand(v)' = InHand(v)
           /\ EventApart'
<1>1. loc'[w] = l /\ \A v \in Workers \ {w} : loc'[v] = loc[v]
    BY GotoEffect DEF HoldInv
<1> QED BY <1>1 DEF InHand, EventApart, HoldInv

(* After an event, a worker holds the rest of its batch.                   *)
LEMMA AfterEventHolds ==
    ASSUME HoldInv, NEW w \in Workers, AfterEvent(w)
    PROVE  /\ InHand(w)' = loc[w].batch
           /\ \A v \in Workers \ {w} : InHand(v)' = InHand(v)
           /\ EventApart'
<1> DEFINE l == [NoLocals EXCEPT !.batch = loc[w].batch, !.full = loc[w].full]
<1>1. loc'[w] = l /\ \A v \in Workers \ {w} : loc'[v] = loc[v]
    BY GotoEffect DEF HoldInv, AfterEvent
<1>2. l.batch = loc[w].batch /\ l.event = None /\ loc[w].batch \subseteq Events
    BY DEF NoLocals, HoldInv, TypeInv, TypeOK, Locals
<1> QED BY <1>1, <1>2, NoEventAssumption DEF InHand, EventApart, HoldInv

LEMMA ClaimHolds ==
    ASSUME HoldInv, NEW w \in Workers, Claim(w)
    PROVE  ClaimsHeld' /\ EventApart'
<1> DEFINE first == {e \in Claimable :
                       Cardinality({f \in Claimable : at[f] < at[e]}) < BatchSize}
           full  == Cardinality(first) = BatchSize
           l     == [NoLocals EXCEPT !.batch = first, !.full = full]
<1>1. \A e \in first : e \in Stored \ dispatched /\ claim[e] # "recent"
    BY DEF Claimable
<1> HIDE DEF first, full
<1>2. /\ claim' = [e \in Events |-> IF e \in first THEN "recent" ELSE claim[e]]
      /\ overdue' = overdue \cup {e \in first : claim[e] = "lapsed"}
      /\ at' = at /\ dispatched' = dispatched
      /\ pc[w] = "claim"
    BY DEF Claim, first, full
<1>3. \E p : Goto(w, p, NoLocals) \/ Goto(w, p, l)
    BY DEF Claim, first, full
<1>4. loc'[w] \in {NoLocals, l} /\ \A v \in Workers \ {w} : loc'[v] = loc[v]
    BY <1>3, GotoEffect DEF HoldInv
<1>5. loc'[w].event = None /\ loc'[w].batch \subseteq first
    <2>1. l.event = None /\ l.batch = first
        BY DEF NoLocals
    <2>2. NoLocals.event = None /\ NoLocals.batch = {}
        BY DEF NoLocals
    <2> HIDE DEF l
    <2> QED BY <1>4, <2>1, <2>2
<1>6. InHand(w)' \subseteq first /\ \A v \in Workers \ {w} : InHand(v)' = InHand(v)
    BY <1>4, <1>5 DEF InHand
<1>7. Stored' = Stored /\ Stored \subseteq Events
    BY <1>2 DEF Stored
<1>8. \A e \in first \ overdue' : claim[e] = "free"
    BY <1>1, <1>2, <1>7 DEF HoldInv, TypeInv, TypeOK
<1>9. \A e \in first \ overdue', v \in Workers : e \notin InHand(v)
    BY <1>2, <1>8 DEF HoldInv, ClaimsHeld
<1>10. ClaimsHeld'
    <2> SUFFICES ASSUME NEW v \in Workers, NEW e \in InHand(v)'
                 PROVE  /\ e \in Stored
                        /\ e \notin overdue' =>
                              /\ claim'[e] # "free"
                              /\ e \notin dispatched
                              /\ \A u \in Workers \ {v} : e \notin InHand(u)'
        BY <1>2, <1>7 DEF ClaimsHeld
    <2>1. CASE e \in first
        <3>1. ASSUME e \notin overdue', NEW u \in Workers \ {v}
              PROVE  e \notin InHand(u)'
            BY <1>6, <1>9, <2>1, <3>1
        <3> QED BY <1>1, <1>2, <1>7, <2>1, <3>1
    <2>2. CASE e \notin first
        <3>1. v # w /\ e \in InHand(v)
            BY <1>6, <2>2
        <3>2. e \in Stored
            BY <3>1 DEF HoldInv, ClaimsHeld
        <3>3. ASSUME e \notin overdue'
              PROVE  /\ claim'[e] # "free"
                     /\ e \notin dispatched
                     /\ \A u \in Workers \ {v} : e \notin InHand(u)'
            <4>1. e \notin overdue
                BY <1>2, <3>3
            <4>2. /\ claim[e] # "free" /\ e \notin dispatched
                  /\ \A u \in Workers \ {v} : e \notin InHand(u)
                BY <3>1, <4>1 DEF HoldInv, ClaimsHeld
            <4>3. \A u \in Workers \ {v} : e \notin InHand(u)'
                BY <1>6, <2>2, <4>2
            <4> QED BY <1>2, <1>7, <2>2, <3>2, <4>2, <4>3
        <3> QED BY <3>2, <3>3
    <2> QED BY <2>1, <2>2
<1>11. EventApart'
    BY <1>1, <1>4, <1>5, <1>7, NoEventAssumption DEF EventApart, HoldInv
<1> QED BY <1>10, <1>11

(* The event of a mark leaves the hands of its worker, whoever else had it.*)
LEMMA MarkHolds ==
    ASSUME HoldInv, NEW w \in Workers, MarkSuccess(w) \/ MarkFailure(w)
    PROVE  ClaimsHeld' /\ EventApart' /\ dispatched' \subseteq Stored'
<1> DEFINE e == loc[w].event
<1>1. e \in InHand(w) /\ e \in Events
    BY NoEventAssumption DEF MarkSuccess, MarkFailure, HoldInv, TypeInv, LocalsAssigned,
       Assigned, InHand
<1>2. /\ InHand(w)' = InHand(w) \ {e}
      /\ \A v \in Workers \ {w} : InHand(v)' = InHand(v)
      /\ EventApart'
    <2>1. AfterEvent(w)
        BY DEF MarkSuccess, MarkFailure
    <2> QED BY <1>1, <2>1, AfterEventHolds DEF InHand, HoldInv, EventApart
<1>3. /\ at' = at /\ overdue' = overdue
      /\ dispatched' \subseteq dispatched \cup {e}
      /\ \A f \in Events \ {e} : claim'[f] = claim[f]
    BY <1>1 DEF MarkSuccess, MarkFailure, HoldInv, TypeInv, TypeOK, ghosts
<1>4. Stored' = Stored /\ dispatched' \subseteq Stored'
    BY <1>1, <1>3 DEF Stored, HoldInv, ClaimsHeld
<1>5. ASSUME NEW v \in Workers, NEW f \in InHand(v)' \ overdue
      PROVE  claim'[f] # "free" /\ f \notin dispatched'
    <2>1. f \in InHand(v) /\ (v = w => f # e)
        BY <1>2
    <2>2. f # e /\ f \in Events /\ claim[f] # "free" /\ f \notin dispatched
        BY <1>1, <2>1 DEF HoldInv, ClaimsHeld, Stored
    <2> QED BY <1>3, <2>2
<1>6. ClaimsHeld'
    <2>1. \A v \in Workers : InHand(v)' \subseteq InHand(v)
        BY <1>2
    <2> QED BY <1>3, <1>4, <1>5, <2>1, LessInHand DEF HoldInv
<1> QED BY <1>2, <1>4, <1>6

(* Steps that write no claim and no mark.                                  *)
LEMMA OtherStepHolds ==
    ASSUME HoldInv, UNCHANGED <<at, claim, dispatched, overdue>>,
           \A v \in Workers : InHand(v)' \subseteq InHand(v)
    PROVE  ClaimsHeld' /\ dispatched' \subseteq Stored'
<1>1. Stored' = Stored
    BY DEF Stored
<1>2. \A v \in Workers : \A e \in InHand(v)' \ overdue : claim'[e] # "free" /\ e \notin dispatched'
    BY DEF HoldInv, ClaimsHeld
<1> QED BY <1>1, <1>2, LessInHand DEF HoldInv

LEMMA NextEventHolds ==
    ASSUME HoldInv, NEW w \in Workers, NextEvent(w)
    PROVE  EventApart' /\ \A v \in Workers : InHand(v)' \subseteq InHand(v)
<1>1. CASE \E p : Goto(w, p, NoLocals)
    BY <1>1, GoneFromHand
<1>2. ASSUME NEW e \in loc[w].batch,
             Goto(w, "list", [NoLocals EXCEPT !.batch = loc[w].batch \ {e},
                                              !.full = loc[w].full, !.event = e])
      PROVE  EventApart' /\ \A v \in Workers : InHand(v)' \subseteq InHand(v)
    <2> DEFINE l == [NoLocals EXCEPT !.batch = loc[w].batch \ {e},
                                     !.full = loc[w].full, !.event = e]
    <2>1. l.batch = loc[w].batch \ {e} /\ l.event = e
        BY DEF NoLocals
    <2>2. loc'[w] = l /\ \A v \in Workers \ {w} : loc'[v] = loc[v]
        BY <1>2, GotoEffect DEF HoldInv
    <2> HIDE DEF l
    <2> QED BY <2>1, <2>2 DEF InHand, EventApart, HoldInv
<1> QED BY <1>1, <1>2 DEF NextEvent

LEMMA HoldStep == HoldInv /\ [Next]_vars => HoldInv'
<1> SUFFICES ASSUME HoldInv, [Next]_vars PROVE HoldInv'
    OBVIOUS
<1>1. TypeInv'
    BY TypeStep DEF HoldInv
<1> SUFFICES ClaimsHeld' /\ EventApart' /\ dispatched' \subseteq Stored'
    BY <1>1 DEF HoldInv
<1>2. ASSUME NEW w \in Workers, Claim(w)
      PROVE  ClaimsHeld' /\ EventApart' /\ dispatched' \subseteq Stored'
    BY <1>2, ClaimHolds DEF Claim, HoldInv, Stored
<1>3. ASSUME NEW w \in Workers, Wake(w) \/ ClaimFails(w) \/ Crash(w)
      PROVE  ClaimsHeld' /\ EventApart' /\ dispatched' \subseteq Stored'
    BY <1>3, GoneFromHand, OtherStepHolds DEF Wake, ClaimFails, Crash, rows, ghosts
<1>4. ASSUME NEW w \in Workers, NextEvent(w)
      PROVE  ClaimsHeld' /\ EventApart' /\ dispatched' \subseteq Stored'
    BY <1>4, NextEventHolds, OtherStepHolds DEF NextEvent, rows, ghosts
<1>5. ASSUME NEW w \in Workers, ListHooks(w) \/ Send(w) \/ Expire(w)
      PROVE  ClaimsHeld' /\ EventApart' /\ dispatched' \subseteq Stored'
    <2>1. \E p, l : /\ l.batch = loc[w].batch /\ l.event = loc[w].event
                    /\ Goto(w, p, l)
        <3>1. loc[w] \in Locals
            BY DEF HoldInv, TypeInv, TypeOK
        <3>2. ASSUME NEW targets, SendTo(w, targets)
              PROVE  \E p, l : /\ l.batch = loc[w].batch /\ l.event = loc[w].event
                               /\ Goto(w, p, l)
            BY <3>1, <3>2 DEF SendTo, Locals
        <3>3. CASE Expire(w)
            <4>1. Goto(w, pc[w], [loc[w] EXCEPT !.expired = TRUE])
                BY <3>3 DEF Expire, Goto, HoldInv, TypeInv, TypeOK
            <4> QED BY <3>1, <4>1 DEF Locals
        <3> QED BY <1>5, <3>2, <3>3 DEF ListHooks, Send
    <2>2. EventApart' /\ \A v \in Workers : InHand(v)' = InHand(v)
        BY <2>1, SameInHand
    <2> QED BY <1>5, <2>2, OtherStepHolds DEF ListHooks, Send, Expire, rows, ghosts
<1>6. CASE Environment \/ UNCHANGED vars
    <2>1. UNCHANGED <<loc, dispatched, overdue>>
        BY <1>6 DEF Environment, LogEvent, Lapse, ComeDue, EnableHook, DisableHook, rows,
           ghosts, vars
    <2>2. EventApart' /\ \A v \in Workers : InHand(v)' = InHand(v)
        BY <2>1 DEF EventApart, HoldInv, InHand
    <2>3. CASE UNCHANGED <<at, claim>>
        BY <2>1, <2>2, <2>3, OtherStepHolds
    <2>4. ASSUME NEW e \in Events, LogEvent(e)
          PROVE  ClaimsHeld' /\ EventApart' /\ dispatched' \subseteq Stored'
        <3>1. Stored \subseteq Stored'
            BY <2>4 DEF LogEvent, Stored, HoldInv, TypeInv, TypeOK
        <3>2. \A v \in Workers : \A f \in InHand(v)' \ overdue : claim'[f] # "free" /\ f \notin dispatched'
            BY <2>1, <2>2, <2>4 DEF LogEvent, HoldInv, ClaimsHeld
        <3> QED BY <2>1, <2>2, <3>1, <3>2, LessInHand DEF HoldInv
    <2>5. ASSUME NEW e \in Events, Lapse(e)
          PROVE  ClaimsHeld' /\ EventApart' /\ dispatched' \subseteq Stored'
        <3>1. Stored' = Stored
            BY <2>5 DEF Lapse, Stored
        <3>2. \A f \in Events : claim[f] # "free" => claim'[f] # "free"
            BY <2>5 DEF Lapse, HoldInv, TypeInv, TypeOK
        <3>3. \A v \in Workers : \A f \in InHand(v)' \ overdue : claim'[f] # "free" /\ f \notin dispatched'
            BY <2>1, <2>2, <3>2 DEF HoldInv, ClaimsHeld, Stored
        <3> QED BY <2>1, <2>2, <3>1, <3>3, LessInHand DEF HoldInv
    <2> QED
        BY <1>6, <2>3, <2>4, <2>5
        DEF Environment, ComeDue, EnableHook, DisableHook, rows, vars
<1> QED
    BY <1>2, <1>3, <1>4, <1>5, <1>6, MarkHolds DEF Next, Work

LEMMA HoldInvAlways == Spec => []HoldInv
BY InitHoldInv, HoldStep, PTL DEF Spec

(* An event is in the hands of one worker at most, and of none once it is  *)
(* dispatched, unless it was claimed over a lapsed claim: the claims of    *)
(* ClaimWebhookDispatchBatch exclude each other although neither mark asks *)
(* who holds the claim.                                                    *)
THEOREM ClaimsAreExclusive == Spec => []ClaimIsExclusive
<1>1. HoldInv => ClaimIsExclusive
    BY DEF HoldInv, ClaimsHeld, ClaimIsExclusive
<1> QED BY <1>1, HoldInvAlways, PTL

-----------------------------------------------------------------------------
(* Offers.                                                                 *)

(* A webhook that was active all along is still to be tried or has been,   *)
(* unless the time ran out; nothing is left to try at the mark.            *)
Covered(p, l) ==
    /\ p \in {"send", "markSuccess"} =>
          \A h \in since[l.event] :
              h \in l.targets \/ <<l.event, h>> \in offered \/ l.event \in timedOut
    /\ p = "markSuccess" => l.targets = {}
    /\ l.expired => l.event \in timedOut

WorkersCovered == \A w \in Workers : Covered(pc[w], loc[w])

SinceActive == \A e \in Events : since[e] \subseteq active

OfferInv == HoldInv /\ WorkersCovered /\ SinceActive /\ DispatchedWasOffered

LEMMA InitOfferInv == Init => OfferInv
<1> SUFFICES ASSUME Init PROVE OfferInv
    OBVIOUS
<1>1. WorkersCovered
    BY DEF Init, WorkersCovered, Covered, NoLocals
<1> QED
    BY <1>1, InitHoldInv DEF OfferInv, Init, SinceActive, DispatchedWasOffered

(* What is covered stays covered while requests are only added and no      *)
(* webhook joins those that were active all along.                         *)
LEMMA StaysCovered ==
    ASSUME NEW w \in Workers, Covered(pc[w], loc[w]),
           pc'[w] = pc[w], loc'[w] = loc[w],
           pc[w] \in {"send", "markSuccess"} => since'[loc[w].event] \subseteq since[loc[w].event],
           offered \subseteq offered', timedOut \subseteq timedOut'
    PROVE  Covered(pc[w], loc[w])'
BY DEF Covered

(* A step of one worker leaves what the others cover.                      *)
LEMMA OneWorkerCovered ==
    ASSUME OfferInv, NEW w \in Workers, NEW p, NEW l, Goto(w, p, l),
           Covered(pc[w], loc[w])', since' = since,
           offered \subseteq offered', timedOut \subseteq timedOut'
    PROVE  WorkersCovered'
<1>1. ASSUME NEW v \in Workers \ {w}
      PROVE  Covered(pc[v], loc[v])'
    <2>1. pc'[v] = pc[v] /\ loc'[v] = loc[v]
        BY GotoEffect DEF OfferInv, HoldInv
    <2> QED BY <2>1, StaysCovered DEF OfferInv, WorkersCovered
<1> QED BY <1>1 DEF WorkersCovered

LEMMA ListHooksCovered ==
    ASSUME OfferInv, NEW w \in Workers, ListHooks(w)
    PROVE  WorkersCovered'
<1>1. /\ loc[w] \in Locals /\ loc[w].event \in Events
      /\ Covered(pc[w], loc[w])
      /\ UNCHANGED <<since, offered, timedOut>>
    BY DEF ListHooks, OfferInv, HoldInv, TypeInv, TypeOK, LocalsAssigned, Assigned,
       WorkersCovered, ghosts
<1>2. CASE SendTo(w, active)
    <2> DEFINE l == [loc[w] EXCEPT !.targets = active]
               p == IF active = {} THEN "markSuccess" ELSE "send"
    <2>1. l.event = loc[w].event /\ l.targets = active /\ l.expired = loc[w].expired
        BY <1>1 DEF Locals
    <2>2. Goto(w, p, l)
        BY <1>2 DEF SendTo
    <2> HIDE DEF l
    <2>3. pc'[w] = p /\ loc'[w] = l
        BY <2>2, GotoEffect DEF OfferInv, HoldInv
    <2>4. /\ since[l.event] \subseteq l.targets
          /\ p = "markSuccess" => l.targets = {}
          /\ l.expired => l.event \in timedOut
        BY <1>1, <2>1 DEF OfferInv, SinceActive, Covered
    <2>5. Covered(pc[w], loc[w])'
        BY <1>1, <2>3, <2>4 DEF Covered
    <2> QED BY <1>1, <2>2, <2>5, OneWorkerCovered
<1>3. CASE Goto(w, "markFailure", loc[w])
    <2>1. pc'[w] = "markFailure" /\ loc'[w] = loc[w]
        BY <1>3, GotoEffect DEF OfferInv, HoldInv
    <2>2. Covered(pc[w], loc[w])'
        BY <1>1, <2>1 DEF Covered
    <2> QED BY <1>1, <1>3, <2>2, OneWorkerCovered
<1> QED BY <1>2, <1>3 DEF ListHooks

LEMMA SendCovered ==
    ASSUME OfferInv, NEW w \in Workers, Send(w)
    PROVE  WorkersCovered'
<1>1. /\ loc[w] \in Locals /\ loc[w].event \in Events
      /\ pc[w] = "send" /\ Covered("send", loc[w])
      /\ UNCHANGED <<since, timedOut>>
    BY DEF Send, OfferInv, HoldInv, TypeInv, TypeOK, LocalsAssigned, Assigned,
       WorkersCovered, ghosts
<1>2. PICK h \in loc[w].targets :
          /\ SendTo(w, loc[w].targets \ {h})
          /\ offered' = IF loc[w].expired THEN offered
                        ELSE offered \cup {<<loc[w].event, h>>}
    BY DEF Send
<1> DEFINE targets == loc[w].targets \ {h}
           l == [loc[w] EXCEPT !.targets = targets]
           p == IF targets = {} THEN "markSuccess" ELSE "send"
<1>3. l.event = loc[w].event /\ l.targets = targets /\ l.expired = loc[w].expired
    BY <1>1 DEF Locals
<1>4. Goto(w, p, l)
    BY <1>2 DEF SendTo
<1> HIDE DEF l
<1>5. pc'[w] = p /\ loc'[w] = l
    BY <1>4, GotoEffect DEF OfferInv, HoldInv
<1>6. /\ p = "markSuccess" => l.targets = {}
      /\ l.expired => l.event \in timedOut
    BY <1>1, <1>3 DEF Covered
<1>7. ASSUME NEW g \in since[l.event]
      PROVE  g \in l.targets \/ <<l.event, g>> \in offered' \/ l.event \in timedOut
    <2>1. g \in loc[w].targets \/ <<l.event, g>> \in offered \/ l.event \in timedOut
        BY <1>1, <1>3, <1>7 DEF Covered
    <2> QED BY <1>2, <1>3, <1>6, <2>1
<1>8. Covered(pc[w], loc[w])'
    BY <1>1, <1>5, <1>6, <1>7 DEF Covered
<1>9. offered \subseteq offered'
    BY <1>2
<1> QED BY <1>1, <1>4, <1>8, <1>9, OneWorkerCovered

LEMMA ExpireCovered ==
    ASSUME OfferInv, NEW w \in Workers, Expire(w)
    PROVE  WorkersCovered'
<1> DEFINE l == [loc[w] EXCEPT !.expired = TRUE]
<1>1. /\ loc[w] \in Locals /\ Covered("send", loc[w]) /\ pc[w] = "send"
      /\ UNCHANGED <<since, offered>> /\ timedOut' = timedOut \cup {loc[w].event}
    BY DEF Expire, OfferInv, HoldInv, TypeInv, TypeOK, WorkersCovered
<1>2. l.event = loc[w].event /\ l.targets = loc[w].targets
    BY <1>1 DEF Locals
<1>3. Goto(w, "send", l)
    BY <1>1 DEF Expire, Goto, OfferInv, HoldInv, TypeInv, TypeOK
<1> HIDE DEF l
<1>4. pc'[w] = "send" /\ loc'[w] = l
    BY <1>3, GotoEffect DEF OfferInv, HoldInv
<1>5. Covered(pc[w], loc[w])'
    BY <1>1, <1>2, <1>4 DEF Covered
<1> QED BY <1>1, <1>3, <1>5, OneWorkerCovered

(* Steps after which a worker has sent nothing yet of what it has in hand. *)
LEMMA NothingSentCovered ==
    ASSUME OfferInv, NEW w \in Workers, NEW p, p \notin {"send", "markSuccess"},
           NEW l, l.expired = FALSE, Goto(w, p, l),
           UNCHANGED <<since, offered, timedOut>>
    PROVE  WorkersCovered'
<1>1. pc'[w] = p /\ loc'[w] = l
    BY GotoEffect DEF OfferInv, HoldInv
<1>2. Covered(pc[w], loc[w])'
    BY <1>1 DEF Covered
<1> QED BY <1>2, OneWorkerCovered

LEMMA OtherWorkCovered ==
    ASSUME OfferInv, NEW w \in Workers,
           \/ Claim(w) \/ ClaimFails(w) \/ Wake(w) \/ NextEvent(w)
           \/ MarkSuccess(w) \/ MarkFailure(w) \/ Crash(w)
    PROVE  WorkersCovered'
<1>1. UNCHANGED <<since, offered, timedOut>>
    BY DEF Claim, ClaimFails, Wake, NextEvent, MarkSuccess, MarkFailure, Crash, ghosts
<1>2. /\ NoLocals.expired = FALSE
      /\ \A batch, full :
            [NoLocals EXCEPT !.batch = batch, !.full = full].expired = FALSE
      /\ \A batch, full, event :
            [NoLocals EXCEPT !.batch = batch, !.full = full, !.event = event].expired = FALSE
    BY DEF NoLocals
<1>3. \E p, l : /\ p \notin {"send", "markSuccess"} /\ l.expired = FALSE
                /\ Goto(w, p, l)
    <2>1. CASE Claim(w)
        <3> DEFINE first == {e \in Claimable :
                     Cardinality({f \in Claimable : at[f] < at[e]}) < BatchSize}
                   full == Cardinality(first) = BatchSize
        <3>1. \/ Goto(w, "sleep", NoLocals)
              \/ Goto(w, "next", [NoLocals EXCEPT !.batch = first, !.full = full])
            BY <2>1 DEF Claim
        <3> HIDE DEF first, full
        <3> QED BY <1>2, <3>1
    <2>2. CASE NextEvent(w)
        <3>1. ASSUME NEW e \in loc[w].batch,
                     Goto(w, "list", [NoLocals EXCEPT !.batch = loc[w].batch \ {e},
                                                      !.full = loc[w].full, !.event = e])
              PROVE  \E p, l : /\ p \notin {"send", "markSuccess"} /\ l.expired = FALSE
                              /\ Goto(w, p, l)
            <4> DEFINE l == [NoLocals EXCEPT !.batch = loc[w].batch \ {e},
                                             !.full = loc[w].full, !.event = e]
            <4>1. l.expired = FALSE
                BY <1>2
            <4> HIDE DEF l
            <4>2. Goto(w, "list", l)
                BY <3>1 DEF l
            <4> QED BY <4>1, <4>2
        <3>2. CASE Goto(w, "claim", NoLocals) \/ Goto(w, "sleep", NoLocals)
            BY <1>2, <3>2
        <3> QED BY <2>2, <3>1, <3>2 DEF NextEvent
    <2>3. CASE ClaimFails(w) \/ Wake(w) \/ Crash(w)
        BY <1>2, <2>3 DEF ClaimFails, Wake, Crash
    <2>4. CASE MarkSuccess(w) \/ MarkFailure(w)
        BY <1>2, <2>4 DEF MarkSuccess, MarkFailure, AfterEvent
    <2> QED BY <2>1, <2>2, <2>3, <2>4
<1> QED BY <1>1, <1>3, NothingSentCovered

LEMMA EnvironmentOffers ==
    ASSUME OfferInv, Environment
    PROVE  WorkersCovered' /\ SinceActive' /\ DispatchedWasOffered'
<1>1. UNCHANGED <<dispatched, pc, loc, offered, timedOut>>
    BY DEF Environment, LogEvent, Lapse, ComeDue, EnableHook, DisableHook, rows, ghosts
<1>2. SinceActive'
    BY DEF Environment, LogEvent, Lapse, ComeDue, EnableHook, DisableHook, rows, ghosts,
       OfferInv, HoldInv, TypeInv, TypeOK, SinceActive
<1>3. \A e \in Stored : since'[e] \subseteq since[e]
    <2>1. ASSUME NEW f \in Events, LogEvent(f)
          PROVE  \A e \in Stored : since'[e] = since[e]
        BY <2>1 DEF LogEvent, Stored, OfferInv, HoldInv, TypeInv, TypeOK
    <2>2. ASSUME NEW h \in Hooks, DisableHook(h)
          PROVE  \A e \in Stored : since'[e] \subseteq since[e]
        BY <2>2 DEF DisableHook, Stored
    <2> QED
        BY <2>1, <2>2 DEF Environment, Lapse, ComeDue, EnableHook, ghosts
<1>4. WorkersCovered'
    <2> SUFFICES ASSUME NEW w \in Workers
                 PROVE  Covered(pc[w], loc[w])'
        BY DEF WorkersCovered
    <2>1. ASSUME pc[w] \in {"send", "markSuccess"}
          PROVE  loc[w].event \in Stored
        <3>1. loc[w].event \in InHand(w)
            BY <2>1, NoEventAssumption DEF OfferInv, HoldInv, TypeInv, LocalsAssigned,
               Assigned, InHand
        <3> QED BY <3>1 DEF OfferInv, HoldInv, ClaimsHeld
    <2> QED BY <1>1, <1>3, <2>1, StaysCovered DEF OfferInv, WorkersCovered
<1>5. DispatchedWasOffered'
    BY <1>1, <1>3 DEF OfferInv, HoldInv, DispatchedWasOffered
<1> QED BY <1>2, <1>4, <1>5

LEMMA WorkOffers ==
    ASSUME OfferInv, NEW w \in Workers, Work(w) \/ Expire(w) \/ Crash(w)
    PROVE  SinceActive' /\ DispatchedWasOffered'
<1>1. /\ UNCHANGED <<since, active>>
      /\ offered \subseteq offered' /\ timedOut \subseteq timedOut'
    BY DEF Work, Claim, ClaimFails, Wake, NextEvent, ListHooks, Send, Expire, MarkSuccess,
       MarkFailure, Crash, rows, ghosts
<1>2. CASE dispatched' = dispatched
    BY <1>1, <1>2 DEF OfferInv, SinceActive, DispatchedWasOffered
<1>3. CASE MarkSuccess(w)
    <2>1. Covered("markSuccess", loc[w])
        BY <1>3 DEF MarkSuccess, OfferInv, WorkersCovered
    <2>2. dispatched' \subseteq dispatched \cup {loc[w].event}
        BY <1>3 DEF MarkSuccess
    <2> QED
        BY <1>1, <2>1, <2>2 DEF Covered, OfferInv, SinceActive, DispatchedWasOffered
<1> QED
    BY <1>2, <1>3 DEF Work, Claim, ClaimFails, Wake, NextEvent, ListHooks, Send, Expire,
       MarkFailure, Crash, rows

LEMMA OfferStep == OfferInv /\ [Next]_vars => OfferInv'
<1> SUFFICES ASSUME OfferInv, [Next]_vars PROVE OfferInv'
    OBVIOUS
<1>1. HoldInv'
    BY HoldStep DEF OfferInv
<1>2. CASE UNCHANGED vars
    BY <1>1, <1>2
    DEF vars, rows, ghosts, OfferInv, WorkersCovered, Covered, SinceActive, DispatchedWasOffered
<1>3. CASE Environment
    BY <1>1, <1>3, EnvironmentOffers DEF OfferInv
<1>4. ASSUME NEW w \in Workers, Work(w) \/ Expire(w) \/ Crash(w)
      PROVE  OfferInv'
    <2>1. WorkersCovered'
        BY <1>4, ListHooksCovered, SendCovered, ExpireCovered, OtherWorkCovered DEF Work
    <2> QED BY <1>1, <1>4, <2>1, WorkOffers DEF OfferInv
<1> QED BY <1>2, <1>3, <1>4 DEF Next

(* A dispatched event was tried at every webhook that has been active ever *)
(* since the event was stored, unless the twenty seconds ran out: neither  *)
(* a webhook that does not answer nor a second worker takes it from the    *)
(* others (Dispatch, dispatchOne).                                         *)
THEOREM NobodyIsLeftOut == Spec => []DispatchedWasOffered
<1>1. OfferInv => DispatchedWasOffered
    BY DEF OfferInv
<1> QED BY <1>1, InitOfferInv, OfferStep, PTL DEF Spec

-----------------------------------------------------------------------------
(* The queue.                                                              *)

QueueUnchanged == UNCHANGED <<Stored \ dispatched, dispatched, overdue, offered>>

LEMMA ClaimRunsOut ==
    ASSUME HoldInv, NEW w \in Workers, Claim(w)
    PROVE  Queue!QueueNext
<1> DEFINE first == {e \in Claimable :
                       Cardinality({f \in Claimable : at[f] < at[e]}) < BatchSize}
           lapsed == {e \in first : claim[e] = "lapsed"}
<1>1. lapsed \subseteq Stored \ dispatched /\ Stored \subseteq Events
    BY DEF Claimable, Stored
<1>2. overdue' = overdue \cup lapsed /\ UNCHANGED <<Stored, dispatched, offered>>
    BY DEF Claim, Stored
<1> HIDE DEF lapsed
<1>3. Queue!RunOut(lapsed)
    BY <1>1, <1>2 DEF Queue!RunOut
<1> QED BY <1>1, <1>3 DEF Queue!QueueNext

(* A request is sent for an event that waits, or that was claimed twice.   *)
LEMMA SendIsSend ==
    ASSUME HoldInv, NEW w \in Workers, Send(w)
    PROVE  Queue!QueueNext \/ QueueUnchanged
<1> DEFINE e == loc[w].event
<1>1. PICK h \in loc[w].targets :
          offered' = IF loc[w].expired THEN offered ELSE offered \cup {<<e, h>>}
    BY DEF Send
<1>2. e \in Events /\ h \in Hooks
    BY DEF Send, HoldInv, TypeInv, TypeOK, LocalsAssigned, Assigned, Locals
<1>3. e \in Stored /\ (e \notin overdue => e \notin dispatched)
    BY <1>2, NoEventAssumption DEF InHand, HoldInv, ClaimsHeld
<1>4. UNCHANGED <<Stored, dispatched, overdue>>
    BY DEF Send, rows, Stored
<1> HIDE DEF e
<1>5. CASE loc[w].expired
    BY <1>1, <1>4, <1>5 DEF QueueUnchanged
<1>6. CASE ~loc[w].expired
    <2>1. Queue!Send(e, h)
        BY <1>1, <1>3, <1>4, <1>6 DEF Queue!Send
    <2> QED BY <1>2, <2>1 DEF Queue!QueueNext
<1> QED BY <1>5, <1>6

LEMMA MarkIsSettle ==
    ASSUME HoldInv, NEW w \in Workers, MarkSuccess(w)
    PROVE  Queue!QueueNext \/ QueueUnchanged
<1> DEFINE e == loc[w].event
<1>1. e \in Events
    BY DEF MarkSuccess, HoldInv, TypeInv, LocalsAssigned, Assigned
<1>2. e \in Stored
    BY <1>1, NoEventAssumption DEF InHand, HoldInv, ClaimsHeld
<1>3. UNCHANGED <<Stored, overdue, offered>>
    BY DEF MarkSuccess, ghosts, Stored
<1>4. dispatched' = dispatched \/ dispatched' = dispatched \cup {e}
    BY DEF MarkSuccess
<1> HIDE DEF e
<1>5. CASE dispatched' = dispatched
    BY <1>3, <1>5 DEF QueueUnchanged
<1>6. CASE e \notin dispatched /\ dispatched' = dispatched \cup {e}
    <2>1. Queue!Settle(e)
        BY <1>2, <1>3, <1>6 DEF Queue!Settle
    <2> QED BY <1>1, <2>1 DEF Queue!QueueNext
<1> QED BY <1>4, <1>5, <1>6

LEMMA LogIsStore ==
    ASSUME HoldInv, NEW e \in Events, LogEvent(e)
    PROVE  Queue!QueueNext
<1>1. Stored' = Stored \cup {e} /\ e \notin Stored
    BY DEF LogEvent, Stored, HoldInv, TypeInv, TypeOK
<1>2. UNCHANGED <<dispatched, overdue, offered>> /\ e \notin dispatched
    BY <1>1 DEF LogEvent, HoldInv
<1>3. Queue!Store(e)
    BY <1>1, <1>2 DEF Queue!Store
<1> QED BY <1>3 DEF Queue!QueueNext

LEMMA QueueStep ==
    ASSUME HoldInv, [Next]_vars
    PROVE  Queue!QueueNext \/ QueueUnchanged
<1>1. ASSUME UNCHANGED <<at, dispatched, overdue, offered>>
      PROVE  QueueUnchanged
    BY <1>1 DEF QueueUnchanged, Stored
<1>2. CASE UNCHANGED vars
    BY <1>1, <1>2 DEF vars, rows, ghosts
<1>3. CASE Environment
    BY <1>1, <1>3, LogIsStore
    DEF Environment, Lapse, ComeDue, EnableHook, DisableHook, rows, ghosts
<1>4. ASSUME NEW w \in Workers, Work(w) \/ Expire(w) \/ Crash(w)
      PROVE  Queue!QueueNext \/ QueueUnchanged
    BY <1>1, <1>4, ClaimRunsOut, SendIsSend, MarkIsSettle
    DEF Work, ClaimFails, Wake, NextEvent, ListHooks, MarkFailure, Expire, Crash, rows, ghosts
<1> QED BY <1>2, <1>3, <1>4 DEF Next

(* Seen through its rows and its requests, the outbox is the queue: stored *)
(* events wait until they are settled, and after that nothing is sent for  *)
(* them but by a worker whose claim had lapsed.                            *)
THEOREM OutboxImplementsQueue == Spec => ImplementsQueue
<1>1. Init => Queue!QueueInit
    BY DEF Init, Queue!QueueInit, Stored
<1>2. HoldInv /\ [Next]_vars
        => [Queue!QueueNext]_<<Stored \ dispatched, dispatched, overdue, offered>>
    BY QueueStep DEF QueueUnchanged
<1> QED
    BY <1>1, <1>2, HoldInvAlways, PTL DEF Spec, ImplementsQueue, Queue!QueueSpec

=============================================================================
