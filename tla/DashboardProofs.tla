--------------------------- MODULE DashboardProofs ---------------------------
(***************************************************************************)
(* Theorems of Dashboard for any number of overlapping rounds and calls of *)
(* updateStatus, any parts that are fetched besides the incidents, and any *)
(* number of writes and failures.  That the screen converges is a liveness *)
(* property and is left to TLC.                                            *)
(***************************************************************************)
EXTENDS Dashboard, TLAPS

Answer    == Versions \cup {Partial, Pending, Failed}
RoundType == [busy : BOOLEAN, part : [Part -> Answer]]
UpdateType ==
  [pc : {"idle", "patching", "refreshing"}, patch : {"none", "sent", "done", "failed"},
   version : Versions, slot : Slot]

LEMMA Numbers == /\ Partial \notin Versions /\ Pending \notin Versions /\ Failed \notin Versions
                 /\ Versions \subseteq Nat /\ MaxVersion \in Versions /\ 0 \in Versions
                 /\ Partial # Pending /\ Partial # Failed /\ Pending # Failed
  BY BoundsAssumption DEF Versions, Partial, Pending, Failed

LEMMA IdleType == /\ Idle \in RoundType /\ ~Idle.busy
                  /\ [busy |-> TRUE, part |-> NoRound] \in RoundType
<1>1. NoRound \in [Part -> Answer]
  BY DEF NoRound, Answer
<1> QED
  BY <1>1 DEF Idle, RoundType

LEMMA NoUpdateType == NoUpdate \in UpdateType /\ NoUpdate.pc = "idle" /\ NoUpdate.patch = "none"
<1>1. (CHOOSE s \in Slot : TRUE) \in Slot
  BY SlotAssumption
<1> QED
  BY <1>1, Numbers DEF NoUpdate, UpdateType

\* The refresh of an update goes on in a slot of its own, begun after the answer to the
\* PATCH; what its round has of the incidents by now is no older than the PATCH.
RefreshOf(u) ==
  /\ update[u].patch = "done" => update[u].version <= hub
  /\ update[u].pc = "refreshing" =>
       /\ update[u].patch \in {"done", "failed"}
       /\ round[update[u].slot].busy
       /\ update[u].patch = "done" =>
            round[update[u].slot].part["incidents"] \in
              {Pending, Partial, Failed} \cup update[u].version .. MaxVersion
  /\ update[u].pc = "idle" => update[u].patch = "none"

RefreshInv == \A u \in Update : RefreshOf(u)

Inv == TypeOK /\ RefreshInv

LEMMA TypeOKFields ==
  TypeOK <=> /\ hub \in Versions
             /\ round \in [Slot -> RoundType]
             /\ shown \in [Part -> Versions \cup {Partial}]
             /\ online \in BOOLEAN
             /\ update \in [Update -> UpdateType]
             /\ faults \in 0 .. MaxFaults
  BY DEF TypeOK, RoundType, UpdateType, Answer

LEMMA InitInv == Init => Inv
<1> SUFFICES ASSUME Init PROVE Inv
  OBVIOUS
<1>1. TypeOK
  <2>1. hub \in Versions /\ faults \in 0 .. MaxFaults /\ shown \in [Part -> Versions \cup {Partial}]
    BY Numbers, BoundsAssumption DEF Init
  <2>2. round \in [Slot -> RoundType] /\ update \in [Update -> UpdateType] /\ online \in BOOLEAN
    BY IdleType, NoUpdateType DEF Init
  <2> QED
    BY <2>1, <2>2, TypeOKFields
<1>2. RefreshInv
  BY NoUpdateType DEF Init, RefreshInv, RefreshOf
<1> QED
  BY <1>1, <1>2 DEF Inv

-----------------------------------------------------------------------------
(* What the steps do.                                                      *)

LEMMA FailsType ==
  ASSUME faults \in 0 .. MaxFaults, Works \/ Fails
  PROVE  faults' \in 0 .. MaxFaults
  BY BoundsAssumption DEF Works, Fails

LEMMA BeginEffect ==
  ASSUME TypeOK, NEW s \in Slot, Begin(s)
  PROVE  /\ round' \in [Slot -> RoundType] /\ ~round[s].busy
         /\ round'[s].busy /\ round'[s].part = NoRound
         /\ \A t \in Slot \ {s} : round'[t] = round[t]
<1> DEFINE begun == [busy |-> TRUE, part |-> NoRound]
<1>1. begun \in RoundType /\ begun.busy /\ begun.part = NoRound
  BY IdleType
<1>2. round \in [Slot -> RoundType] /\ round' = [round EXCEPT ![s] = begun] /\ ~round[s].busy
  BY TypeOKFields DEF Begin
<1> QED
  BY <1>1, <1>2

LEMMA EndEffect ==
  ASSUME TypeOK, NEW s \in Slot, EndUpdate(s)
  PROVE  /\ update' \in [Update -> UpdateType]
         /\ \A u \in Update : \/ Awaits(u, s) /\ update'[u] = NoUpdate
                              \/ ~Awaits(u, s) /\ update'[u] = update[u]
  BY NoUpdateType, TypeOKFields DEF EndUpdate

LEMMA OverEffect ==
  ASSUME TypeOK, NEW s \in Slot, round' = [round EXCEPT ![s] = Idle]
  PROVE  /\ round' \in [Slot -> RoundType]
         /\ \A t \in Slot \ {s} : round'[t] = round[t]
  BY IdleType, TypeOKFields

\* Setting one update.
LEMMA OneUpdate ==
  ASSUME update \in [Update -> UpdateType], NEW u \in Update, NEW r \in UpdateType,
         update' = [update EXCEPT ![u] = r]
  PROVE  /\ update' \in [Update -> UpdateType] /\ update'[u] = r
         /\ \A v \in Update \ {u} : update'[v] = update[v]
  OBVIOUS

LEMMA ClickEffect ==
  ASSUME TypeOK, NEW u \in Update, Click(u)
  PROVE  /\ update' \in [Update -> UpdateType]
         /\ update'[u].pc = "patching" /\ update'[u].patch = "sent"
         /\ \A v \in Update \ {u} : update'[v] = update[v]
<1> DEFINE next == [update[u] EXCEPT !.pc = "patching", !.patch = "sent"]
<1>1. update \in [Update -> UpdateType] /\ update[u] \in UpdateType
  BY TypeOKFields
<1>2. update' = [update EXCEPT ![u] = next]
  BY DEF Click
<1>3. next \in UpdateType /\ next.pc = "patching" /\ next.patch = "sent"
  BY <1>1 DEF UpdateType
<1> HIDE DEF next
<1> QED
  BY <1>1, <1>2, <1>3, OneUpdate

LEMMA RefreshAllEffect ==
  ASSUME TypeOK, NEW u \in Update, NEW s \in Slot, RefreshAll(u, s)
  PROVE  /\ update' \in [Update -> UpdateType]
         /\ update'[u].pc = "refreshing" /\ update'[u].slot = s
         /\ update'[u].patch = update[u].patch /\ update'[u].version = update[u].version
         /\ \A v \in Update \ {u} : update'[v] = update[v]
<1> DEFINE next == [update[u] EXCEPT !.pc = "refreshing", !.slot = s]
<1>1. update \in [Update -> UpdateType] /\ update[u] \in UpdateType
  BY TypeOKFields
<1>2. update' = [update EXCEPT ![u] = next]
  BY DEF RefreshAll
<1>3. /\ next \in UpdateType /\ next.pc = "refreshing" /\ next.slot = s
      /\ next.patch = update[u].patch /\ next.version = update[u].version
  BY <1>1 DEF UpdateType
<1> HIDE DEF next
<1> QED
  BY <1>1, <1>2, <1>3, OneUpdate

\* A PATCH that succeeds is the newest version of the tables.
LEMMA PatchEffect ==
  ASSUME TypeOK, NEW u \in Update, UpdateIncidentStatus(u)
  PROVE  /\ update' \in [Update -> UpdateType]
         /\ hub' \in Versions /\ hub' >= hub
         /\ update'[u].pc = update[u].pc
         /\ \/ update'[u].patch = "done" /\ update'[u].version = hub'
            \/ update'[u].patch = "failed"
         /\ \A v \in Update \ {u} : update'[v] = update[v]
<1>1. update \in [Update -> UpdateType] /\ update[u] \in UpdateType
  BY TypeOKFields
<1>2. hub \in Versions /\ hub' \in Versions /\ hub' >= hub
  <2>1. hub \in Versions /\ ((hub' = hub + 1 /\ hub < MaxVersion) \/ hub' \in {hub, hub + 1} \cap Versions)
    BY TypeOKFields DEF UpdateIncidentStatus
  <2> QED
    BY <2>1, BoundsAssumption DEF Versions
<1>3. CASE hub' = hub + 1 /\ update' = [update EXCEPT ![u].patch = "done", ![u].version = hub + 1]
  <2> DEFINE next == [update[u] EXCEPT !.patch = "done", !.version = hub']
  <2>1. update' = [update EXCEPT ![u] = next]
    BY <1>3
  <2>2. next \in UpdateType /\ next.pc = update[u].pc /\ next.patch = "done" /\ next.version = hub'
    BY <1>1, <1>2 DEF UpdateType
  <2> HIDE DEF next
  <2> QED
    BY <1>1, <1>2, <2>1, <2>2, OneUpdate
<1>4. CASE update' = [update EXCEPT ![u].patch = "failed"]
  <2> DEFINE next == [update[u] EXCEPT !.patch = "failed"]
  <2>1. update' = [update EXCEPT ![u] = next]
    BY <1>4
  <2>2. next \in UpdateType /\ next.pc = update[u].pc /\ next.patch = "failed"
    BY <1>1 DEF UpdateType
  <2> HIDE DEF next
  <2> QED
    BY <1>1, <1>2, <2>1, <2>2, OneUpdate
<1> QED
  BY <1>3, <1>4 DEF UpdateIncidentStatus

LEMMA ThrowEffect ==
  ASSUME TypeOK, NEW u \in Update, PatchThrows(u)
  PROVE  /\ update' \in [Update -> UpdateType] /\ update'[u] = NoUpdate
         /\ \A v \in Update \ {u} : update'[v] = update[v]
  BY NoUpdateType, TypeOKFields, OneUpdate DEF PatchThrows

LEMMA ServeEffect ==
  ASSUME TypeOK, NEW s \in Slot, NEW p \in Part, Serve(s, p)
  PROVE  \E answer \in {hub, Partial, Failed} :
           /\ round' \in [Slot -> RoundType]
           /\ round'[s].busy /\ round[s].busy
           /\ round'[s].part = [round[s].part EXCEPT ![p] = answer]
           /\ \A t \in Slot \ {s} : round'[t] = round[t]
<1>1. PICK answer \in {hub, Partial, Failed} : round' = [round EXCEPT ![s].part[p] = answer]
  BY DEF Serve
<1>2. answer \in Answer /\ round \in [Slot -> RoundType] /\ round[s] \in RoundType /\ round[s].busy
  BY TypeOKFields DEF Answer, Serve
<1>3. round[s].part \in [Part -> Answer] /\ [round[s].part EXCEPT ![p] = answer] \in [Part -> Answer]
  BY <1>2 DEF RoundType
<1> DEFINE part == [round[s].part EXCEPT ![p] = answer]
           next == [round[s] EXCEPT !.part = part]
<1>4. next \in RoundType /\ next.part = part /\ next.busy = round[s].busy
  <2> HIDE DEF part
  <2> QED
    BY <1>2, <1>3 DEF RoundType, part
<1>5. round' = [round EXCEPT ![s] = next]
  BY <1>1
<1>6. /\ round' \in [Slot -> RoundType] /\ round'[s] = next
      /\ \A t \in Slot \ {s} : round'[t] = round[t]
  BY <1>2, <1>4, <1>5
<1> QED
  BY <1>2, <1>4, <1>6

LEMMA NextTypeOK == TypeOK /\ [Next]_vars => TypeOK'
<1> SUFFICES ASSUME TypeOK, [Next]_vars
             PROVE  /\ hub' \in Versions
                    /\ round' \in [Slot -> RoundType]
                    /\ shown' \in [Part -> Versions \cup {Partial}]
                    /\ online' \in BOOLEAN
                    /\ update' \in [Update -> UpdateType]
                    /\ faults' \in 0 .. MaxFaults
  BY DEF TypeOK, RoundType, UpdateType, Answer
<1> USE TypeOKFields
<1>1. CASE HubChanges
  BY <1>1, BoundsAssumption DEF HubChanges, Versions
<1>2. ASSUME NEW s \in Slot, Poll(s) PROVE round' \in [Slot -> RoundType] /\ UNCHANGED <<hub, shown, online, update, faults>>
  BY <1>2, BeginEffect DEF Poll
<1>3. ASSUME NEW u \in Update, NEW s \in Slot, RefreshAll(u, s)
      PROVE  /\ round' \in [Slot -> RoundType] /\ update' \in [Update -> UpdateType]
             /\ UNCHANGED <<hub, shown, online, faults>>
  BY <1>3, BeginEffect, RefreshAllEffect DEF RefreshAll
<1>4. ASSUME NEW s \in Slot, NEW p \in Part, Serve(s, p)
      PROVE  /\ round' \in [Slot -> RoundType] /\ faults' \in 0 .. MaxFaults
             /\ UNCHANGED <<hub, shown, online, update>>
  <2>1. Works \/ Fails
    BY <1>4 DEF Serve, Query
  <2> QED
    BY <1>4, <2>1, ServeEffect, FailsType DEF Serve
<1>5. ASSUME NEW s \in Slot, Settle(s)
      PROVE  /\ round' \in [Slot -> RoundType] /\ update' \in [Update -> UpdateType]
             /\ shown' \in [Part -> Versions \cup {Partial}] /\ online' \in BOOLEAN
             /\ UNCHANGED <<hub, faults>>
  <2>1. round[s].part \in [Part -> Answer]
    BY DEF RoundType
  <2>2. \A p \in Part : round[s].part[p] \notin {Pending, Failed}
    BY <1>5 DEF Settle, AllAnswered
  <2>3. round[s].part \in [Part -> Versions \cup {Partial}]
    BY <2>1, <2>2 DEF Answer
  <2> QED
    BY <1>5, <2>3, OverEffect, EndEffect DEF Settle
<1>6. ASSUME NEW s \in Slot, Reject(s)
      PROVE  /\ round' \in [Slot -> RoundType] /\ update' \in [Update -> UpdateType] /\ online' \in BOOLEAN
             /\ UNCHANGED <<hub, shown, faults>>
  BY <1>6, OverEffect, EndEffect DEF Reject
<1>7. ASSUME NEW u \in Update, Click(u)
      PROVE  update' \in [Update -> UpdateType] /\ UNCHANGED <<hub, round, shown, online, faults>>
  BY <1>7, ClickEffect DEF Click
<1>8. ASSUME NEW u \in Update, UpdateIncidentStatus(u)
      PROVE  /\ hub' \in Versions /\ update' \in [Update -> UpdateType] /\ faults' \in 0 .. MaxFaults
             /\ UNCHANGED <<round, shown, online>>
  <2>1. (Works \/ Fails) /\ UNCHANGED <<round, shown, online>>
    BY <1>8 DEF UpdateIncidentStatus
  <2> QED
    BY <1>8, <2>1, PatchEffect, FailsType
<1>9. ASSUME NEW u \in Update, PatchThrows(u)
      PROVE  /\ update' \in [Update -> UpdateType] /\ faults' \in 0 .. MaxFaults
             /\ UNCHANGED <<hub, round, shown, online>>
  BY <1>9, ThrowEffect, FailsType DEF PatchThrows
<1>10. CASE UNCHANGED vars
  BY <1>10 DEF vars
<1> QED
  BY <1>1, <1>2, <1>3, <1>4, <1>5, <1>6, <1>7, <1>8, <1>9, <1>10 DEF Next

\* A step that leaves an update and the round it awaits alone keeps its part of the
\* invariant.
LEMMA OtherRound ==
  ASSUME Inv, TypeOK', NEW u \in Update, update'[u] = update[u], hub' >= hub,
         update[u].pc = "refreshing" => round'[update[u].slot] = round[update[u].slot]
  PROVE  RefreshOf(u)'
<1>1. update[u].version \in Nat /\ hub \in Nat /\ hub' \in Nat
  BY Numbers, TypeOKFields DEF Inv, UpdateType, TypeOK
<1>2. RefreshOf(u)
  BY DEF Inv, RefreshInv
<1> QED
  BY <1>1, <1>2 DEF RefreshOf

\* A round that begins, or ends, in a slot that an update does not await.
LEMMA NotAwaited ==
  ASSUME Inv, NEW u \in Update, NEW s \in Slot, ~round[s].busy \/ ~Awaits(u, s),
         \A t \in Slot \ {s} : round'[t] = round[t]
  PROVE  update[u].pc = "refreshing" => round'[update[u].slot] = round[update[u].slot]
<1>1. RefreshOf(u) /\ update[u].slot \in Slot
  BY TypeOKFields DEF Inv, RefreshInv, UpdateType
<1> QED
  BY <1>1 DEF RefreshOf, Awaits

LEMMA NextRefreshInv == Inv /\ [Next]_vars => RefreshInv'
<1> SUFFICES ASSUME Inv, [Next]_vars, NEW u \in Update PROVE RefreshOf(u)'
  BY DEF RefreshInv
<1>1. TypeOK /\ TypeOK' /\ RefreshOf(u)
  BY NextTypeOK DEF Inv, RefreshInv
<1>2. /\ hub \in Nat /\ hub' \in Nat /\ hub <= MaxVersion /\ hub' <= MaxVersion
      /\ round \in [Slot -> RoundType] /\ update \in [Update -> UpdateType]
      /\ update[u] \in UpdateType /\ update[u].version \in Nat
  BY <1>1, BoundsAssumption, TypeOKFields DEF Versions, UpdateType, TypeOK
<1>3. ASSUME NEW s \in Slot, Poll(s) PROVE RefreshOf(u)'
  <2>1. UNCHANGED <<update, hub>> /\ ~round[s].busy /\ \A t \in Slot \ {s} : round'[t] = round[t]
    BY <1>1, <1>3, BeginEffect DEF Poll
  <2> QED
    BY <1>1, <1>2, <2>1, NotAwaited, OtherRound
<1>4. ASSUME NEW v \in Update, NEW s \in Slot, RefreshAll(v, s) PROVE RefreshOf(u)'
  <2>1. /\ ~round[s].busy /\ hub' = hub /\ \A t \in Slot \ {s} : round'[t] = round[t]
        /\ round'[s].busy /\ round'[s].part = NoRound
    BY <1>1, <1>4, BeginEffect DEF RefreshAll
  <2>2. CASE u = v
    <3>1. /\ update'[u].pc = "refreshing" /\ update'[u].slot = s
          /\ update'[u].patch = update[u].patch /\ update'[u].version = update[u].version
          /\ update[u].patch \in {"done", "failed"}
      BY <1>1, <1>4, <2>2, RefreshAllEffect DEF RefreshAll, PatchAnswered
    <3>2. round'[s].part["incidents"] = Pending
      BY <2>1, PartAssumption DEF NoRound
    <3> QED
      BY <1>1, <2>1, <3>1, <3>2 DEF RefreshOf
  <2>3. CASE u # v
    <3>1. update'[u] = update[u]
      BY <1>1, <1>4, <2>3, RefreshAllEffect
    <3> QED
      BY <1>1, <1>2, <2>1, <3>1, NotAwaited, OtherRound
  <2> QED
    BY <2>2, <2>3
<1>5. ASSUME NEW s \in Slot, NEW p \in Part, Serve(s, p) PROVE RefreshOf(u)'
  <2>1. PICK answer \in {hub, Partial, Failed} :
          /\ round'[s].busy /\ round[s].busy
          /\ round'[s].part = [round[s].part EXCEPT ![p] = answer]
          /\ \A t \in Slot \ {s} : round'[t] = round[t]
    BY <1>1, <1>5, ServeEffect
  <2>2. UNCHANGED <<update, hub>>
    BY <1>5 DEF Serve
  <2>3. CASE Awaits(u, s)
    <3>1. round[s].part \in [Part -> Answer]
      BY <1>2 DEF RoundType
    <3>2. round'[s].part["incidents"] \in {round[s].part["incidents"], hub, Partial, Failed}
      BY <2>1, <3>1
    <3>3. update[u].patch = "done" => hub \in update[u].version .. MaxVersion
      BY <1>1, <1>2, BoundsAssumption DEF RefreshOf
    <3> QED
      BY <1>1, <2>1, <2>2, <2>3, <3>2, <3>3 DEF RefreshOf, Awaits
  <2>4. CASE ~Awaits(u, s)
    BY <1>1, <1>2, <2>1, <2>2, <2>4, NotAwaited, OtherRound
  <2> QED
    BY <2>3, <2>4
<1>6. ASSUME NEW s \in Slot, Settle(s) \/ Reject(s) PROVE RefreshOf(u)'
  <2>1. /\ EndUpdate(s) /\ hub' = hub
        /\ round' = [round EXCEPT ![s] = Idle]
    BY <1>6 DEF Settle, Reject
  <2>2. \A t \in Slot \ {s} : round'[t] = round[t]
    BY <1>1, <2>1, OverEffect
  <2>3. CASE update'[u] = NoUpdate
    BY <2>3, NoUpdateType DEF RefreshOf
  <2>4. CASE update'[u] = update[u] /\ ~Awaits(u, s)
    BY <1>1, <1>2, <2>1, <2>2, <2>4, NotAwaited, OtherRound
  <2> QED
    BY <1>1, <2>1, <2>3, <2>4, EndEffect
<1>7. CASE HubChanges
  BY <1>1, <1>2, <1>7, OtherRound DEF HubChanges
<1>8. ASSUME NEW v \in Update, Click(v) PROVE RefreshOf(u)'
  <2>1. CASE u = v
    BY <1>1, <1>8, <2>1, ClickEffect DEF RefreshOf
  <2>2. CASE u # v
    <3>1. update'[u] = update[u] /\ UNCHANGED <<hub, round>>
      BY <1>1, <1>8, <2>2, ClickEffect DEF Click
    <3> QED
      BY <1>1, <1>2, <3>1, OtherRound
  <2> QED
    BY <2>1, <2>2
<1>9. ASSUME NEW v \in Update, UpdateIncidentStatus(v) PROVE RefreshOf(u)'
  <2>1. hub' >= hub /\ round' = round /\ update[v].patch = "sent"
    BY <1>1, <1>9, PatchEffect DEF UpdateIncidentStatus
  <2>2. CASE u = v
    <3>1. update[u].pc # "refreshing" /\ update[u].pc # "idle"
      BY <1>1, <2>1, <2>2 DEF RefreshOf
    <3>2. /\ update'[u].pc = update[u].pc
          /\ \/ update'[u].patch = "done" /\ update'[u].version = hub'
             \/ update'[u].patch = "failed"
      BY <1>1, <1>9, <2>2, PatchEffect
    <3> QED
      BY <1>2, <3>1, <3>2 DEF RefreshOf
  <2>3. CASE u # v
    <3>1. update'[u] = update[u]
      BY <1>1, <1>9, <2>3, PatchEffect
    <3> QED
      BY <1>1, <1>2, <2>1, <3>1, OtherRound
  <2> QED
    BY <2>2, <2>3
<1>10. ASSUME NEW v \in Update, PatchThrows(v) PROVE RefreshOf(u)'
  <2>1. CASE u = v
    BY <1>1, <1>10, <2>1, ThrowEffect, NoUpdateType DEF RefreshOf
  <2>2. CASE u # v
    <3>1. update'[u] = update[u] /\ UNCHANGED <<hub, round>>
      BY <1>1, <1>10, <2>2, ThrowEffect DEF PatchThrows
    <3> QED
      BY <1>1, <1>2, <3>1, OtherRound
  <2> QED
    BY <2>1, <2>2
<1>11. CASE UNCHANGED vars
  BY <1>1, <1>11 DEF RefreshOf, vars
<1> QED
  BY <1>3, <1>4, <1>5, <1>6, <1>7, <1>8, <1>9, <1>10, <1>11 DEF Next

-----------------------------------------------------------------------------
(* The theorems.                                                           *)

\* The invariant: while an update is refreshing, its round is under way, and what that
\* has of the incidents was read after the PATCH.
THEOREM InvHolds == Spec => []Inv
<1>1. Inv /\ [Next]_vars => Inv'
  BY NextTypeOK, NextRefreshInv DEF Inv
<1> QED
  BY <1>1, InitInv, PTL DEF Spec

\* The variables stay in their types.
THEOREM TypeCorrect == Spec => []TypeOK
<1>1. Inv => TypeOK
  BY DEF Inv
<1> QED
  BY <1>1, InvHolds, PTL

\* However many rounds of fetchAll overlap, the refresh after a PATCH that succeeded shows
\* tables that have it, or a list that was cut short.
THEOREM UpdatesAreShown == Spec => UpdateIsShown
<1>1. Inv /\ [Next]_vars =>
        [\A u \in Update, s \in Slot :
           Awaits(u, s) /\ update[u].patch = "done" /\ Settle(s) =>
             shown'["incidents"] \in {Partial} \cup update[u].version .. MaxVersion]_vars
  <2> SUFFICES ASSUME Inv, NEW u \in Update, NEW s \in Slot, Awaits(u, s),
                      update[u].patch = "done", Settle(s)
               PROVE  shown'["incidents"] \in {Partial} \cup update[u].version .. MaxVersion
    OBVIOUS
  <2>1. shown'["incidents"] \in {Pending, Partial, Failed} \cup update[u].version .. MaxVersion
    BY DEF Inv, RefreshInv, RefreshOf, Settle, Awaits
  <2>2. shown'["incidents"] # Pending /\ shown'["incidents"] # Failed
    BY PartAssumption DEF Settle, AllAnswered
  <2> QED
    BY <2>1, <2>2
<1> QED
  BY <1>1, InvHolds, PTL DEF Spec, UpdateIsShown
=============================================================================
