-------------------------- MODULE SyncOperatorProofs --------------------------
(***************************************************************************)
(* Theorems about SyncOperator, for every set of CRs, specs and namespaces *)
(* and any number of edits, provided no CR is moved to another target      *)
(* namespace.                                                              *)
(***************************************************************************)
EXTENDS SyncOperator, TLAPS

\* All specs a CR can be given have the same target namespace.  Without it the
\* ConfigMap in the namespace it has left is not deleted (reconciler.rs:84, 122).
OneTarget == \A o \in Cr : \A v, w \in WantsOf[o] : Target[v] = Target[w]

\* Gone or going.
Leaving(c) == c.alive => c.terminating

Owned(o) == cr[o].alive /\ cr[o].own

\* The finalizer is on the CR while there is a ConfigMap or a pass that may yet
\* create one, and a cached CR that would start such a pass speaks the truth; a
\* cleanup is of a CR that is going, and has the ConfigMap deleted before it takes
\* the finalizer off.
Guarded(o) ==
  /\ \A n \in Namespace : configmap[n][o] # Absent => Owned(o) /\ pc[o] # "unfinalize"
  /\ (pc[o] \in Syncing \/ (pc[o] = "finalizer" /\ given[o].own)) => Owned(o)
  /\ (cache[o].alive /\ ~cache[o].terminating /\ cache[o].own) => Owned(o)
  /\ (cache[o].alive /\ cache[o].terminating) => Leaving(cr[o])
  /\ pc[o] \in {"cleanup", "unfinalize"} => Leaving(cr[o]) /\ Leaving(cache[o])

\* The ConfigMap is in no other namespace than its CR's.
AtHome(o) ==
  /\ cr[o].alive => cr[o].want \in WantsOf[o]
  /\ cache[o].alive => cache[o].want \in WantsOf[o]
  /\ given[o].alive => given[o].want \in WantsOf[o]
  /\ \A n \in Namespace : configmap[n][o] # Absent => \E w \in WantsOf[o] : n = Target[w]

Kept(o) == AtHome(o) /\ (o \notin replaced => Guarded(o))

IInv == TypeOK /\ \A o \in Cr : Kept(o)

-----------------------------------------------------------------------------
\* What changing its finalizers makes of a CR: it goes, or only they change.
LEMMA HeldIs ==
  ASSUME NEW c \in CrRecord, NEW own \in BOOLEAN, NEW other \in BOOLEAN
  PROVE  /\ Held(c, own, other) \in CrRecord
         /\ Held(c, own, other).alive =>
              /\ c.alive
              /\ Held(c, own, other).own = own
              /\ Held(c, own, other).terminating = c.terminating
              /\ Held(c, own, other).want = c.want
         /\ (own /\ c.alive) => Held(c, own, other).alive
         /\ (c.terminating /\ ~own /\ ~other) => ~Held(c, own, other).alive
BY DEF Held, NoCr, CrRecord

\* One that keeps the operator's finalizer stays.
LEMMA HoldingIs ==
  ASSUME NEW c \in CrRecord, NEW other \in BOOLEAN, c.alive
  PROVE  /\ Held(c, TRUE, other).alive
         /\ Held(c, TRUE, other).own
         /\ Held(c, TRUE, other).terminating = c.terminating
         /\ Held(c, TRUE, other).want = c.want
BY DEF Held, NoCr, CrRecord

\* A CR that is deleted goes, or is going with the finalizers it has.
LEMMA DeletedIs ==
  ASSUME NEW c \in CrRecord
  PROVE  /\ Deleted(c) \in CrRecord
         /\ Leaving(Deleted(c))
         /\ Deleted(c).alive => c.alive /\ Deleted(c).own = c.own /\ Deleted(c).want = c.want
         /\ (c.alive /\ c.own) => Deleted(c).alive
<1> DEFINE d == [c EXCEPT !.terminating = TRUE]
<1>1. /\ d \in CrRecord
      /\ d.alive = c.alive /\ d.terminating /\ d.own = c.own /\ d.want = c.want
      /\ c.own \in BOOLEAN /\ c.other \in BOOLEAN
  BY DEF CrRecord
<1>2. Deleted(c) = Held(d, c.own, c.other)
  BY DEF Deleted
<1> HIDE DEF d
<1>3. (c.alive /\ c.own) => Deleted(c).alive
  BY <1>1, <1>2 DEF Held
<1> QED
  BY <1>1, <1>2, <1>3, HeldIs DEF Leaving

\* A pass goes on or ends, and what it was given with it.
LEMMA GotoIs ==
  ASSUME NEW o \in Cr, NEW next, Goto(o, next),
         pc \in [Cr -> {"idle", "finalizer", "cleanup", "unfinalize"} \cup Syncing],
         given \in [Cr -> CrRecord],
         next \in {"idle", "finalizer", "cleanup", "unfinalize"} \cup Syncing
  PROVE  /\ pc' \in [Cr -> {"idle", "finalizer", "cleanup", "unfinalize"} \cup Syncing]
         /\ given' \in [Cr -> CrRecord]
         /\ pc'[o] = next
         /\ next = "idle" => ~given'[o].alive
         /\ next # "idle" => given'[o] = given[o]
         /\ \A p \in Cr \ {o} : pc'[p] = pc[p] /\ given'[p] = given[p]
BY DEF Goto, CrRecord, NoCr

\* A ConfigMap that is put or deleted is the only one that changes.
LEMMA PutConfigMapIs ==
  ASSUME configmap \in [Namespace -> [Cr -> Content]], version \in [Namespace -> [Cr -> Nat]],
         NEW m \in Namespace, NEW p \in Cr, NEW content \in Content, PutConfigMap(m, p, content)
  PROVE  /\ configmap' \in [Namespace -> [Cr -> Content]]
         /\ version' \in [Namespace -> [Cr -> Nat]]
         /\ configmap'[m][p] = content
         /\ version'[m][p] = IF content = configmap[m][p] THEN version[m][p] ELSE version[m][p] + 1
         /\ \A n \in Namespace, q \in Cr :
              (n # m \/ q # p) => /\ configmap'[n][q] = configmap[n][q]
                                 /\ version'[n][q] = version[n][q]
<1>1. /\ configmap' \in [Namespace -> [Cr -> Content]]
      /\ configmap'[m][p] = content
      /\ \A n \in Namespace, q \in Cr :
           (n # m \/ q # p) => configmap'[n][q] = configmap[n][q]
  BY DEF PutConfigMap
<1> DEFINE v == IF content = configmap[m][p] THEN version[m][p] ELSE version[m][p] + 1
<1>2. v \in Nat /\ version' = [version EXCEPT ![m][p] = v]
  BY DEF PutConfigMap
<1> HIDE DEF v
<1>3. /\ version' \in [Namespace -> [Cr -> Nat]]
      /\ version'[m][p] = v
      /\ \A n \in Namespace, q \in Cr :
           (n # m \/ q # p) => version'[n][q] = version[n][q]
  BY <1>2
<1> QED
  BY <1>1, <1>3 DEF v

-----------------------------------------------------------------------------
(***************************************************************************)
(* Types.                                                                  *)
(***************************************************************************)
Pc == {"idle", "finalizer", "cleanup", "unfinalize"} \cup Syncing

\* An operator that starts has the types.
LEMMA InitTypeOK == Init => TypeOK
<1> SUFFICES ASSUME Init PROVE TypeOK
  OBVIOUS
<1>1. NoCr \in CrRecord /\ ~NoCr.alive /\ \A w \in Want : SyncedCr(w) \in CrRecord
  BY DEF NoCr, SyncedCr, CrRecord
<1>a. cr \in [Cr -> CrRecord]
  BY <1>1 DEF Init
<1>2. configmap \in [Namespace -> [Cr -> Content]]
  BY <1>a DEF Init, Content, CrRecord
<1>3. version \in [Namespace -> [Cr -> Nat]]
  BY DEF Init
<1>4. liveRv \in [Cr -> Nat] /\ \A o \in Cr : liveRv[o] = NotFound
  BY DEF Init, NotFound
<1> QED
  BY <1>1, <1>a, <1>2, <1>3, <1>4 DEF Init, TypeOK, Syncing

\* A step of a pass keeps the types if it leaves the list of gc_resources to its
\* loop and the version that was read to the apply.
LEMMA PassKeepsTypes ==
  ASSUME TypeOK, NEW o \in Cr, NEW next \in Pc, Goto(o, next), pc[o] # "idle",
         cr' \in [Cr -> CrRecord],
         configmap' \in [Namespace -> [Cr -> Content]],
         version' \in [Namespace -> [Cr -> Nat]],
         liveRv' \in [Cr -> Nat],
         todo' \in [Cr -> SUBSET Cr],
         cache' = cache, edits' = edits, replaced' = replaced,
         next # "gc" => todo'[o] = {},
         next # "apply" => liveRv'[o] = NotFound,
         \A p \in Cr \ {o} : todo'[p] = todo[p] /\ liveRv'[p] = liveRv[p]
  PROVE  TypeOK'
<1>1. /\ pc' \in [Cr -> Pc]
      /\ given' \in [Cr -> CrRecord]
      /\ pc'[o] = next
      /\ next = "idle" => ~given'[o].alive
      /\ next # "idle" => given'[o] = given[o]
      /\ \A p \in Cr \ {o} : pc'[p] = pc[p] /\ given'[p] = given[p]
  BY GotoIs DEF TypeOK, Pc
<1>2. \A p \in Cr : /\ pc'[p] = "idle" <=> ~given'[p].alive
                    /\ pc'[p] # "gc" => todo'[p] = {}
                    /\ pc'[p] # "apply" => liveRv'[p] = NotFound
  <2> TAKE p \in Cr
  <2>1. CASE p = o
    BY <1>1, <2>1 DEF TypeOK
  <2>2. CASE p # o
    BY <1>1, <2>2 DEF TypeOK
  <2> QED
    BY <2>1, <2>2
<1> QED
  BY <1>1, <1>2 DEF TypeOK, Pc

\* So do the calls of a pass, whatever their answer.
LEMMA StepTypeOK ==
  ASSUME TypeOK, NEW o \in Cr, Step(o) \/ GiveUp(o) \/ LoseAnswer(o)
  PROVE  TypeOK'
<1> USE DEF Pc, Syncing
<1>a. /\ pc[o] # "gc" => todo[o] = {}
      /\ pc[o] # "apply" => liveRv[o] = NotFound
      /\ pc[o] # "idle" => given[o].alive
      /\ given[o] \in CrRecord /\ cr[o] \in CrRecord
      /\ given[o].want \in Content /\ Absent \in Content
      /\ NotFound \in Nat
      /\ pc[o] # "idle" => TargetOf(o) \in Namespace
  BY SyncAssumption DEF TypeOK, CrRecord, Content, NotFound, TargetOf
<1>1. CASE HasFinalizer(o)
  BY <1>1, <1>a, PassKeepsTypes DEF HasFinalizer, apiserver, stored, others, TypeOK
<1>2. ASSUME NEW next \in {"get", "idle"}, AddFinalizer(o, next) PROVE TypeOK'
  <2>1. Held(cr[o], TRUE, given[o].other) \in CrRecord
    BY <1>a, HeldIs DEF CrRecord
  <2> QED
    BY <1>2, <2>1, <1>a, PassKeepsTypes DEF AddFinalizer, stored, others, TypeOK
<1>3. CASE AddFinalizerRefused(o)
  BY <1>3, <1>a, PassKeepsTypes DEF AddFinalizerRefused, apiserver, stored, others, TypeOK
<1>4. CASE Get(o)
  <2>1. liveRv' \in [Cr -> Nat] /\ \A p \in Cr \ {o} : liveRv'[p] = liveRv[p]
    BY <1>4, <1>a DEF Get, TypeOK
  <2> QED
    BY <1>4, <2>1, <1>a, PassKeepsTypes DEF Get, apiserver, stored, others, TypeOK
<1>5. ASSUME NEW unchangedNext \in {"list", "idle"}, NEW changedNext \in {"event", "idle"},
             Apply(o, unchangedNext, changedNext)
      PROVE TypeOK'
  <2>1. configmap' \in [Namespace -> [Cr -> Content]] /\ version' \in [Namespace -> [Cr -> Nat]]
    BY <1>5, <1>a, PutConfigMapIs DEF Apply, TypeOK
  <2>2. PICK next \in Pc : Goto(o, next) /\ next \notin {"gc", "apply"}
    BY <1>5 DEF Apply
  <2> QED
    BY <1>5, <2>1, <2>2, <1>a, PassKeepsTypes DEF Apply, others, TypeOK
<1>6. CASE RecordEvent(o)
  BY <1>6, <1>a, PassKeepsTypes DEF RecordEvent, apiserver, stored, others, TypeOK
<1>7. CASE GcList(o)
  BY <1>7, <1>a, PassKeepsTypes DEF GcList, apiserver, stored, others, TypeOK
<1>8. CASE GcEnd(o)
  BY <1>8, <1>a, PassKeepsTypes DEF GcEnd, apiserver, stored, others, TypeOK
<1>9. ASSUME NEW p \in Cr, NEW next \in {"gc", "idle"}, GcDelete(o, p, next) PROVE TypeOK'
  <2>1. configmap' \in [Namespace -> [Cr -> Content]] /\ version' \in [Namespace -> [Cr -> Nat]]
    BY <1>9, <1>a, PutConfigMapIs DEF GcDelete, TypeOK
  <2>2. /\ todo' \in [Cr -> SUBSET Cr]
        /\ next # "gc" => todo'[o] = {}
        /\ \A q \in Cr \ {o} : todo'[q] = todo[q]
    BY <1>9 DEF GcDelete, TypeOK
  <2> QED
    BY <1>9, <2>1, <2>2, <1>a, PassKeepsTypes DEF GcDelete, others, TypeOK
<1>10. CASE PatchLabels(o)
  BY <1>10, <1>a, PassKeepsTypes DEF PatchLabels, apiserver, stored, others, TypeOK
<1>11. CASE PatchStatus(o)
  <2>1. WithStatus(cr[o], given[o].want) \in CrRecord
    BY <1>a DEF WithStatus, CrRecord
  <2> QED
    BY <1>11, <2>1, <1>a, PassKeepsTypes DEF PatchStatus, stored, others, TypeOK
<1>12. ASSUME NEW next \in {"unfinalize", "idle"}, DeleteConfigMap(o, next) PROVE TypeOK'
  <2>1. configmap' \in [Namespace -> [Cr -> Content]] /\ version' \in [Namespace -> [Cr -> Nat]]
    BY <1>12, <1>a, PutConfigMapIs DEF DeleteConfigMap, TypeOK
  <2> QED
    BY <1>12, <2>1, <1>a, PassKeepsTypes DEF DeleteConfigMap, others, TypeOK
<1>13. CASE RemoveFinalizers(o)
  <2>1. Held(cr[o], FALSE, FALSE) \in CrRecord
    BY <1>a, HeldIs
  <2> QED
    BY <1>13, <2>1, <1>a, PassKeepsTypes DEF RemoveFinalizers, stored, others, TypeOK
<1>14. CASE GiveUp(o)
  BY <1>14, <1>a, PassKeepsTypes DEF GiveUp, apiserver, stored, others, TypeOK
<1> QED
  BY <1>1, <1>2, <1>3, <1>4, <1>5, <1>6, <1>7, <1>8, <1>9, <1>10, <1>11, <1>12, <1>13, <1>14
  DEF Step, LoseAnswer

\* So does what others do to the CR and its ConfigMap.
LEMMA OthersTypeOK ==
  ASSUME TypeOK, NEW o \in Cr, Others(o)
  PROVE  TypeOK'
<1>a. cr[o] \in CrRecord
  BY DEF TypeOK
<1>1. Edit(o) => edits' \in [Cr -> Nat] /\ UNCHANGED <<cache, pc, given, todo>>
  BY DEF Edit, pass, TypeOK
<1>2. CASE Create(o)
  <2>1. \A w \in WantsOf[o], held \in BOOLEAN : NewCr(w, held) \in CrRecord
    BY SyncAssumption DEF NewCr, CrRecord
  <2> QED
    BY <1>1, <1>2, <2>1 DEF Create, stored, TypeOK
<1>3. CASE ChangeSpec(o)
  <2>1. \A w \in WantsOf[o] : WithSpec(cr[o], w) \in CrRecord
    BY <1>a, SyncAssumption DEF WithSpec, CrRecord
  <2> QED
    BY <1>1, <1>3, <2>1 DEF ChangeSpec, stored, TypeOK
<1>4. CASE Delete(o)
  <2>1. Deleted(cr[o]) \in CrRecord
    BY <1>a, DeletedIs
  <2> QED
    BY <1>1, <1>4, <2>1 DEF Delete, stored, TypeOK
<1>5. CASE Release(o)
  <2>1. Held(cr[o], cr[o].own, FALSE) \in CrRecord
    BY <1>a, HeldIs DEF CrRecord
  <2> QED
    BY <1>1, <1>5, <2>1 DEF Release, stored, TypeOK
<1>6. CASE Hold(o)
  <2>1. Held(cr[o], cr[o].own, TRUE) \in CrRecord
    BY <1>a, HeldIs DEF CrRecord
  <2> QED
    BY <1>1, <1>6, <2>1 DEF Hold, stored, TypeOK
<1>7. ASSUME NEW n \in Namespace, Drift(o, n) PROVE TypeOK'
  <2>1. configmap' \in [Namespace -> [Cr -> Content]] /\ version' \in [Namespace -> [Cr -> Nat]]
    BY <1>7, PutConfigMapIs DEF Drift, Content, TypeOK
  <2> QED
    BY <1>1, <1>7, <2>1 DEF Drift, TypeOK
<1> QED
  BY <1>2, <1>3, <1>4, <1>5, <1>6, <1>7 DEF Others

\* Every step keeps the types.
LEMMA NextTypeOK == TypeOK /\ [Next]_vars => TypeOK'
<1> SUFFICES ASSUME TypeOK, [Next]_vars PROVE TypeOK'
  OBVIOUS
<1>1. ASSUME NEW o \in Cr, Begin(o) PROVE TypeOK'
  BY <1>1 DEF Begin, apiserver, stored, others, TypeOK, Syncing
<1>2. ASSUME NEW o \in Cr, Observe(o) PROVE TypeOK'
  BY <1>2 DEF Observe, apiserver, stored, pass, others, TypeOK
<1>3. CASE UNCHANGED vars
  BY <1>3 DEF vars, apiserver, stored, pass, others, TypeOK
<1> QED
  BY <1>1, <1>2, <1>3, StepTypeOK, OthersTypeOK DEF Next

\* The variables keep their types, and what a pass was given and has listed ends
\* with it (reconciler.rs:54-183: nothing outlives the call of reconcile).
THEOREM TypesKept == Spec => []TypeOK
BY InitTypeOK, NextTypeOK, PTL DEF Spec

-----------------------------------------------------------------------------
(***************************************************************************)
(* The finalizer guards the ConfigMap.                                     *)
(***************************************************************************)
\* A CR whose state and pass are left alone, and of which a ConfigMap is deleted at
\* most, stays guarded.
LEMMA Untouched ==
  ASSUME NEW p \in Cr, Kept(p),
         cr'[p] = cr[p], cache'[p] = cache[p], pc'[p] = pc[p], given'[p] = given[p],
         \A n \in Namespace : configmap'[n][p] \in {configmap[n][p], Absent},
         replaced \subseteq replaced'
  PROVE  Kept(p)'
BY DEF Kept, AtHome, Guarded, Owned, Leaving

\* When an operator starts, each ConfigMap is its CR's.
LEMMA InitIInv == Init => IInv
<1> SUFFICES ASSUME Init PROVE IInv
  OBVIOUS
<1>1. TypeOK
  BY InitTypeOK
<1>2. ASSUME NEW o \in Cr PROVE Kept(o)
  <2>1. cr[o].alive => cr[o].own /\ cr[o].want \in WantsOf[o]
    BY DEF Init, SyncedCr, NoCr
  <2>2. \A n \in Namespace : configmap[n][o] # Absent => cr[o].alive /\ n = Target[cr[o].want]
    BY DEF Init
  <2>3. pc[o] = "idle" /\ ~given[o].alive /\ ~cache[o].alive
    BY DEF Init, NoCr
  <2> QED
    BY <2>1, <2>2, <2>3 DEF Kept, AtHome, Guarded, Owned, Syncing
<1> QED
  BY <1>1, <1>2 DEF IInv

\* A call of a pass, or its end, leaves the other CRs guarded.
LEMMA StepKeepsOthers ==
  ASSUME IInv, NEW o \in Cr, Step(o) \/ GiveUp(o) \/ LoseAnswer(o), NEW p \in Cr \ {o}
  PROVE  Kept(p)'
<1>1. Kept(p) /\ TypeOK
  BY DEF IInv
<1>2. cr'[p] = cr[p]
  BY <1>1 DEF Step, GiveUp, LoseAnswer, HasFinalizer, AddFinalizer, AddFinalizerRefused, Get,
     Apply, RecordEvent, GcList, GcEnd, GcDelete, PatchLabels, PatchStatus, DeleteConfigMap,
     RemoveFinalizers, apiserver, stored, TypeOK
<1>3. cache'[p] = cache[p] /\ replaced' = replaced
  BY DEF Step, GiveUp, LoseAnswer, HasFinalizer, AddFinalizer, AddFinalizerRefused, Get,
     Apply, RecordEvent, GcList, GcEnd, GcDelete, PatchLabels, PatchStatus, DeleteConfigMap,
     RemoveFinalizers, others
<1>4. \A n \in Namespace : configmap'[n][p] \in {configmap[n][p], Absent}
  <2>1. \/ configmap' = configmap
        \/ \E m, content : PutConfigMap(m, o, content)
        \/ \E m, q \in Cr : PutConfigMap(TargetOf(m), q, Absent)
    BY DEF Step, GiveUp, LoseAnswer, HasFinalizer, AddFinalizer, AddFinalizerRefused, Get,
       Apply, RecordEvent, GcList, GcEnd, GcDelete, PatchLabels, PatchStatus, DeleteConfigMap,
       RemoveFinalizers, apiserver, stored
  <2>2. ASSUME NEW m, NEW content, PutConfigMap(m, o, content)
        PROVE  \A n \in Namespace : configmap'[n][p] = configmap[n][p]
    BY <1>1, <2>2 DEF PutConfigMap, TypeOK
  <2>3. ASSUME NEW m, NEW q \in Cr, PutConfigMap(m, q, Absent)
        PROVE  \A n \in Namespace : configmap'[n][p] \in {configmap[n][p], Absent}
    BY <1>1, <2>3 DEF PutConfigMap, TypeOK
  <2> QED
    BY <2>1, <2>2, <2>3
<1>5. pc'[p] = pc[p] /\ given'[p] = given[p]
  BY <1>1 DEF Step, GiveUp, LoseAnswer, HasFinalizer, AddFinalizer, AddFinalizerRefused, Get,
     Apply, RecordEvent, GcList, GcEnd, GcDelete, PatchLabels, PatchStatus, DeleteConfigMap,
     RemoveFinalizers, Goto, TypeOK
<1> QED
  BY <1>1, <1>2, <1>3, <1>4, <1>5, Untouched

\* Nor does a pass that writes nothing, if it begins to work on the ConfigMap with
\* the finalizer on.
LEMMA SilentKeeps ==
  ASSUME TypeOK, NEW o \in Cr, Kept(o), NEW next \in Pc, Goto(o, next),
         UNCHANGED <<apiserver, cache, others>>,
         \/ next = "idle"
         \/ next \in Syncing /\ pc[o] \in Syncing
         \/ next = "get" /\ pc[o] = "finalizer" /\ given[o].own
  PROVE  Kept(o)'
<1>1. /\ pc'[o] = next
      /\ next = "idle" => ~given'[o].alive
      /\ next # "idle" => given'[o] = given[o]
  BY GotoIs DEF TypeOK, Pc
<1> QED
  BY <1>1 DEF Kept, AtHome, Guarded, Owned, Leaving, apiserver, stored, others, Syncing

\* Nor do the calls of a pass leave its own CR unguarded.
LEMMA StepKeepsOwn ==
  ASSUME OneTarget, IInv, NEW o \in Cr, Step(o) \/ GiveUp(o) \/ LoseAnswer(o)
  PROVE  Kept(o)'
<1> USE DEF Pc, Syncing
<1>a. /\ Kept(o) /\ TypeOK
      /\ cr[o] \in CrRecord /\ cache[o] \in CrRecord /\ given[o] \in CrRecord
      /\ pc[o] # "idle" => given[o].alive
  BY DEF IInv, TypeOK
<1>b. pc[o] # "idle" => given[o].want \in WantsOf[o] /\ TargetOf(o) \in Namespace
  BY <1>a, SyncAssumption DEF Kept, AtHome, TargetOf
<1>c. \A next \in Pc : Goto(o, next) =>
        /\ pc'[o] = next
        /\ next = "idle" => ~given'[o].alive
        /\ next # "idle" => given'[o] = given[o]
  BY <1>a, GotoIs DEF TypeOK
<1>1. CASE \/ HasFinalizer(o) \/ AddFinalizerRefused(o) \/ Get(o) \/ RecordEvent(o)
           \/ GcList(o) \/ GcEnd(o) \/ PatchLabels(o) \/ GiveUp(o)
  BY <1>1, <1>a, SilentKeeps
  DEF HasFinalizer, AddFinalizerRefused, Get, RecordEvent, GcList, GcEnd, PatchLabels, GiveUp,
      apiserver, stored, others
<1>2. ASSUME NEW next \in {"get", "idle"}, AddFinalizer(o, next) PROVE Kept(o)'
  <2>1. /\ pc[o] = "finalizer" /\ cr[o].alive
        /\ cr' = [cr EXCEPT ![o] = Held(cr[o], TRUE, given[o].other)]
        /\ UNCHANGED <<configmap, cache, replaced>>
        /\ Goto(o, next)
    BY <1>2 DEF AddFinalizer, AcceptsFinalizers, stored, others
  <2>2. /\ cr'[o].alive /\ cr'[o].own
        /\ cr'[o].terminating = cr[o].terminating /\ cr'[o].want = cr[o].want
    <3>1. cr'[o] = Held(cr[o], TRUE, given[o].other)
      BY <2>1, <1>a DEF TypeOK
    <3>2. given[o].other \in BOOLEAN
      BY <1>a DEF CrRecord
    <3>3. cr[o] \in CrRecord /\ cr[o].alive
      BY <2>1, <1>a
    <3> QED
      BY <3>1, <3>2, <3>3, HoldingIs
  <2> QED
    BY <2>1, <2>2, <1>a, <1>c DEF Kept, AtHome, Guarded, Owned, Leaving
<1>3. ASSUME NEW unchangedNext \in {"list", "idle"}, NEW changedNext \in {"event", "idle"},
             Apply(o, unchangedNext, changedNext)
      PROVE Kept(o)'
  <2>1. /\ pc[o] = "apply"
        /\ UNCHANGED <<cr, cache, replaced>>
        /\ PutConfigMap(TargetOf(o), o, given[o].want)
    BY <1>3 DEF Apply, others
  <2>2. PICK next \in {"list", "event", "idle"} : Goto(o, next)
    BY <1>3 DEF Apply
  <2>3. \A n \in Namespace : n # TargetOf(o) => configmap'[n][o] = configmap[n][o]
    BY <2>1, <1>a DEF PutConfigMap, TypeOK
  <2>4. \A n \in Namespace : configmap'[n][o] # Absent => \E w \in WantsOf[o] : n = Target[w]
    BY <2>1, <2>3, <1>a, <1>b DEF Kept, AtHome, TargetOf
  <2> QED
    BY <2>1, <2>2, <2>4, <1>a, <1>c DEF Kept, AtHome, Guarded, Owned, Leaving
<1>4. ASSUME NEW p \in Cr, NEW next \in {"gc", "idle"}, GcDelete(o, p, next) PROVE Kept(o)'
  <2>1. /\ pc[o] = "gc"
        /\ UNCHANGED <<cr, cache, replaced>>
        /\ PutConfigMap(TargetOf(o), p, Absent)
        /\ Goto(o, next)
    BY <1>4 DEF GcDelete, others
  <2>2. \A n \in Namespace : configmap'[n][o] \in {configmap[n][o], Absent}
    BY <2>1, <1>a DEF PutConfigMap, TypeOK
  <2> QED
    BY <2>1, <2>2, <1>a, <1>c DEF Kept, AtHome, Guarded, Owned, Leaving
<1>5. CASE PatchStatus(o)
  <2>1. /\ pc[o] = "status"
        /\ UNCHANGED <<configmap, cache, replaced>>
        /\ Goto(o, "idle")
        /\ cr'[o] = IF cr[o].alive THEN WithStatus(cr[o], given[o].want) ELSE cr[o]
    BY <1>5, <1>a DEF PatchStatus, stored, others, TypeOK
  <2>2. LET c == WithStatus(cr[o], given[o].want) IN
          /\ c.alive = cr[o].alive /\ c.terminating = cr[o].terminating
          /\ c.own = cr[o].own /\ c.want = cr[o].want
    BY <1>a DEF WithStatus, CrRecord
  <2>3. /\ cr'[o].alive = cr[o].alive /\ cr'[o].terminating = cr[o].terminating
        /\ cr'[o].own = cr[o].own /\ cr'[o].want = cr[o].want
    BY <2>1, <2>2
  <2> QED
    BY <2>1, <2>3, <1>a, <1>c DEF Kept, AtHome, Guarded, Owned, Leaving
<1>6. ASSUME NEW next \in {"unfinalize", "idle"}, DeleteConfigMap(o, next) PROVE Kept(o)'
  <2>1. /\ pc[o] = "cleanup"
        /\ UNCHANGED <<cr, cache, replaced>>
        /\ PutConfigMap(TargetOf(o), o, Absent)
        /\ Goto(o, next)
    BY <1>6 DEF DeleteConfigMap, others
  <2>2. \A n \in Namespace : configmap'[n][o] = Absent
    <3> SUFFICES ASSUME NEW n \in Namespace, configmap'[n][o] # Absent PROVE FALSE
      OBVIOUS
    <3>1. n # TargetOf(o) /\ configmap'[n][o] = configmap[n][o]
      BY <2>1, <1>a DEF PutConfigMap, TypeOK
    <3>2. PICK w \in WantsOf[o] : n = Target[w]
      BY <3>1, <1>a DEF Kept, AtHome
    <3> QED
      BY <2>1, <3>1, <3>2, <1>b DEF OneTarget, TargetOf
  <2> QED
    BY <2>1, <2>2, <1>a, <1>c DEF Kept, AtHome, Guarded, Owned, Leaving
<1>7. CASE RemoveFinalizers(o)
  <2>1. /\ pc[o] = "unfinalize"
        /\ UNCHANGED <<configmap, cache, replaced>>
        /\ Goto(o, "idle")
        /\ cr'[o] = IF cr[o].alive THEN Held(cr[o], FALSE, FALSE) ELSE cr[o]
    BY <1>7, <1>a DEF RemoveFinalizers, stored, others, TypeOK
  <2>2. LET h == Held(cr[o], FALSE, FALSE) IN
          /\ h.alive => h.want = cr[o].want
          /\ cr[o].terminating => ~h.alive
    BY <1>a, HeldIs
  <2>3. cr'[o].alive => cr'[o].want = cr[o].want /\ cr[o].alive
    BY <2>1, <2>2
  <2>4. o \notin replaced => ~cr'[o].alive
    BY <2>1, <2>2, <1>a DEF Kept, Guarded, Leaving
  <2> QED
    BY <2>1, <2>3, <2>4, <1>a, <1>c DEF Kept, AtHome, Guarded, Owned, Leaving
<1> QED
  BY <1>1, <1>2, <1>3, <1>4, <1>5, <1>6, <1>7 DEF Step, LoseAnswer

\* What others do to a CR leaves the rest guarded.
LEMMA OthersKeepOthers ==
  ASSUME IInv, NEW o \in Cr, Others(o), NEW p \in Cr \ {o}
  PROVE  Kept(p)'
<1>1. Kept(p) /\ TypeOK
  BY DEF IInv
<1>2. cr'[p] = cr[p]
  BY <1>1 DEF Others, Create, ChangeSpec, Delete, Release, Hold, Drift, TypeOK
<1>3. UNCHANGED <<cache, pc, given>>
  BY DEF Others, Create, ChangeSpec, Delete, Release, Hold, Drift, Edit, pass
<1>4. \A n \in Namespace : configmap'[n][p] = configmap[n][p]
  <2>1. configmap' = configmap \/ \E m, content : PutConfigMap(m, o, content)
    BY DEF Others, Create, ChangeSpec, Delete, Release, Hold, Drift, stored
  <2>2. ASSUME NEW m, NEW content, PutConfigMap(m, o, content)
        PROVE  \A n \in Namespace : configmap'[n][p] = configmap[n][p]
    BY <1>1, <2>2 DEF PutConfigMap, TypeOK
  <2> QED
    BY <2>1, <2>2
<1>5. replaced \subseteq replaced'
  BY DEF Others, Create, ChangeSpec, Delete, Release, Hold, Drift
<1> QED
  BY <1>1, <1>2, <1>3, <1>4, <1>5, Untouched

\* And that CR itself, unless it is the successor of one in hand.
LEMMA OthersKeepOwn ==
  ASSUME IInv, NEW o \in Cr, Others(o)
  PROVE  Kept(o)'
<1>a. /\ Kept(o) /\ TypeOK
      /\ cr[o] \in CrRecord /\ cache[o] \in CrRecord /\ given[o] \in CrRecord
      /\ cr[o].own \in BOOLEAN
      /\ pc[o] \in {"idle", "finalizer", "cleanup", "unfinalize"} \cup Syncing
      /\ pc[o] = "idle" <=> ~given[o].alive
  BY DEF IInv, TypeOK, CrRecord
<1>b. Edit(o) => UNCHANGED <<cache, pc, given>>
  BY DEF Edit, pass
<1>1. CASE Create(o)
  <2>1. /\ ~cr[o].alive
        /\ UNCHANGED <<configmap, cache, pc, given>>
        /\ o \notin replaced' => o \notin replaced /\ ~cache[o].alive /\ pc[o] = "idle"
    BY <1>1, <1>b DEF Create, stored
  <2>2. cr'[o].alive => cr'[o].want \in WantsOf[o]
    <3>1. PICK w \in WantsOf[o], held \in BOOLEAN : cr' = [cr EXCEPT ![o] = NewCr(w, held)]
      BY <1>1 DEF Create
    <3>2. cr'[o] = NewCr(w, held)
      BY <3>1, <1>a DEF TypeOK
    <3> QED
      BY <3>2 DEF NewCr
  <2> QED
    BY <2>1, <2>2, <1>a DEF Kept, AtHome, Guarded, Owned, Syncing
<1>2. CASE ChangeSpec(o)
  <2>1. PICK w \in WantsOf[o] : cr' = [cr EXCEPT ![o] = WithSpec(cr[o], w)]
    BY <1>2 DEF ChangeSpec
  <2>2. cr'[o] = WithSpec(cr[o], w)
    BY <2>1, <1>a DEF TypeOK
  <2>3. /\ cr'[o].alive = cr[o].alive /\ cr'[o].terminating = cr[o].terminating
        /\ cr'[o].own = cr[o].own /\ cr'[o].want = w
    BY <2>2, <1>a DEF WithSpec, CrRecord
  <2>4. UNCHANGED <<configmap, cache, pc, given, replaced>>
    BY <1>2, <1>b DEF ChangeSpec, stored
  <2> QED
    BY <2>3, <2>4, <1>a DEF Kept, AtHome, Guarded, Owned, Leaving
<1>3. CASE Delete(o)
  <2>1. cr'[o] = Deleted(cr[o])
    BY <1>3, <1>a DEF Delete, stored, TypeOK
  <2>2. /\ Leaving(cr'[o])
        /\ cr'[o].alive => cr[o].alive /\ cr'[o].own = cr[o].own /\ cr'[o].want = cr[o].want
        /\ Owned(o) => cr'[o].alive
    BY <2>1, <1>a, DeletedIs DEF Owned
  <2>3. UNCHANGED <<configmap, cache, pc, given, replaced>>
    BY <1>3, <1>b DEF Delete, stored
  <2> QED
    BY <2>2, <2>3, <1>a DEF Kept, AtHome, Guarded, Owned
<1>4. CASE Release(o) \/ Hold(o)
  <2>1. PICK other \in BOOLEAN : cr' = [cr EXCEPT ![o] = Held(cr[o], cr[o].own, other)]
    BY <1>4 DEF Release, Hold
  <2>2. cr'[o] = Held(cr[o], cr[o].own, other)
    BY <2>1, <1>a DEF TypeOK
  <2>3. /\ cr'[o].alive => /\ cr[o].alive /\ cr'[o].own = cr[o].own
                           /\ cr'[o].terminating = cr[o].terminating /\ cr'[o].want = cr[o].want
        /\ Owned(o) => cr'[o].alive
    BY <2>2, <1>a, HeldIs DEF Owned
  <2>4. UNCHANGED <<configmap, cache, pc, given, replaced>>
    BY <1>4, <1>b DEF Release, Hold, stored
  <2> QED
    BY <2>3, <2>4, <1>a DEF Kept, AtHome, Guarded, Owned, Leaving
<1>5. ASSUME NEW m \in Namespace, Drift(o, m) PROVE Kept(o)'
  <2>1. /\ UNCHANGED <<cr, cache, pc, given, replaced>>
        /\ configmap[m][o] # Absent
    BY <1>5, <1>b DEF Drift
  <2>2. \A n \in Namespace : configmap'[n][o] # Absent => configmap[n][o] # Absent
    BY <1>5, <2>1, <1>a DEF Drift, PutConfigMap, TypeOK
  <2> QED
    BY <2>1, <2>2, <1>a DEF Kept, AtHome, Guarded, Owned
<1> QED
  BY <1>1, <1>2, <1>3, <1>4, <1>5 DEF Others

\* Every step keeps each ConfigMap guarded.
LEMMA NextIInv == OneTarget /\ IInv /\ [Next]_vars => IInv'
<1> SUFFICES ASSUME OneTarget, IInv, [Next]_vars PROVE IInv'
  OBVIOUS
<1>1. TypeOK /\ TypeOK' /\ \A p \in Cr : Kept(p)
  BY NextTypeOK DEF IInv
<1>2. ASSUME NEW o \in Cr, Step(o) \/ GiveUp(o) \/ LoseAnswer(o), NEW p \in Cr PROVE Kept(p)'
  BY <1>2, StepKeepsOwn, StepKeepsOthers
<1>3. ASSUME NEW o \in Cr, Others(o), NEW p \in Cr PROVE Kept(p)'
  BY <1>3, OthersKeepOwn, OthersKeepOthers
<1>4. ASSUME NEW o \in Cr, Begin(o), NEW p \in Cr PROVE Kept(p)'
  BY <1>1, <1>4
  DEF Begin, apiserver, stored, others, Kept, AtHome, Guarded, Owned, Leaving, TypeOK, Syncing
<1>5. ASSUME NEW o \in Cr, Observe(o), NEW p \in Cr PROVE Kept(p)'
  BY <1>1, <1>5
  DEF Observe, apiserver, stored, pass, others, Kept, AtHome, Guarded, Owned, Leaving, TypeOK
<1>6. ASSUME UNCHANGED vars, NEW p \in Cr PROVE Kept(p)'
  BY <1>1, <1>6 DEF vars, apiserver, stored, pass, others, Kept, AtHome, Guarded, Owned, Leaving
<1> QED
  BY <1>1, <1>2, <1>3, <1>4, <1>5, <1>6 DEF Next, IInv

\* No ConfigMap outlives its CR, or the finalizer on it (reconciler.rs:68-81,
\* README.md:35), whatever breaks off, is delayed or is done by others, but for a
\* successor created before the operator has seen its predecessor go.
THEOREM ConfigMapsAreGuarded == OneTarget => (Spec => []NoOrphan)
<1> SUFFICES ASSUME OneTarget PROVE Spec => []NoOrphan
  OBVIOUS
<1>1. IInv /\ [Next]_vars => IInv'
  BY NextIInv
<1>2. IInv => NoOrphan
  BY DEF IInv, Kept, Guarded, Owned, NoOrphan
<1> QED
  BY InitIInv, <1>1, <1>2, PTL DEF Spec

-----------------------------------------------------------------------------
(***************************************************************************)
(* What Unchanged means.                                                   *)
(***************************************************************************)
\* The version that the GET has read is not newer than the one the apply meets.
Recorded(o) == pc[o] = "apply" => liveRv[o] <= version[TargetOf(o)][o]

VersionInv == TypeOK /\ \A o \in Cr : Recorded(o)

\* A pass in hand works in a namespace.
LEMMA PassHasTarget ==
  ASSUME TypeOK, NEW o \in Cr, pc[o] # "idle"
  PROVE  given[o].want \in Want /\ TargetOf(o) \in Namespace
BY SyncAssumption DEF TypeOK, CrRecord, TargetOf

\* Whatever happens writes one ConfigMap at most.
LEMMA OneIsPut ==
  ASSUME TypeOK, [Next]_vars
  PROVE  \/ UNCHANGED <<configmap, version>>
         \/ \E m \in Namespace, p \in Cr, content \in Content : PutConfigMap(m, p, content)
<1> DEFINE Quiet == UNCHANGED <<configmap, version>>
           Put == \E m \in Namespace, p \in Cr, content \in Content : PutConfigMap(m, p, content)
<1> USE DEF apiserver, stored
<1>a. Drifted \in Content /\ Absent \in Content /\ Want \subseteq Content
  BY DEF Content
<1>1. ASSUME NEW o \in Cr, Begin(o) \/ GiveUp(o) \/ Observe(o) PROVE Quiet
  BY <1>1 DEF Begin, GiveUp, Observe
<1>2. ASSUME NEW o \in Cr, NEW u, NEW c, Apply(o, u, c) PROVE Put
  BY <1>2, <1>a, PassHasTarget DEF Apply
<1>3. ASSUME NEW o \in Cr, NEW p \in Cr, NEW next, GcDelete(o, p, next) PROVE Put
  BY <1>3, <1>a, PassHasTarget DEF GcDelete
<1>4. ASSUME NEW o \in Cr, NEW next, DeleteConfigMap(o, next) PROVE Put
  BY <1>4, <1>a, PassHasTarget DEF DeleteConfigMap
<1>5. ASSUME NEW o \in Cr, NEW next, AddFinalizer(o, next) PROVE Quiet
  BY <1>5 DEF AddFinalizer
<1>6. ASSUME NEW o \in Cr,
             \/ HasFinalizer(o) \/ AddFinalizerRefused(o) \/ Get(o) \/ RecordEvent(o)
             \/ GcList(o) \/ GcEnd(o) \/ PatchLabels(o) \/ PatchStatus(o) \/ RemoveFinalizers(o)
      PROVE Quiet
  BY <1>6 DEF HasFinalizer, AddFinalizerRefused, Get, RecordEvent, GcList, GcEnd, PatchLabels,
     PatchStatus, RemoveFinalizers
<1>7. ASSUME NEW o \in Cr, Others(o) PROVE Quiet \/ Put
  <2>1. CASE Create(o) \/ ChangeSpec(o) \/ Delete(o) \/ Release(o) \/ Hold(o)
    BY <2>1 DEF Create, ChangeSpec, Delete, Release, Hold
  <2>2. ASSUME NEW n \in Namespace, Drift(o, n) PROVE Put
    BY <2>2, <1>a DEF Drift
  <2> QED
    BY <1>7, <2>1, <2>2 DEF Others
<1>8. CASE UNCHANGED vars
  BY <1>8 DEF vars
<1>9. ASSUME NEW o \in Cr, Step(o) \/ LoseAnswer(o) PROVE Quiet \/ Put
  BY <1>9, <1>2, <1>3, <1>4, <1>5, <1>6 DEF Step, LoseAnswer
<1> QED
  BY <1>1, <1>7, <1>8, <1>9 DEF Next

\* A resourceVersion never goes back.
LEMMA VersionsGrow ==
  ASSUME TypeOK, [Next]_vars
  PROVE  \A n \in Namespace, q \in Cr : version[n][q] <= version'[n][q]
<1>1. \A n \in Namespace, q \in Cr : version[n][q] \in Nat
  BY DEF TypeOK
<1>2. CASE UNCHANGED <<configmap, version>>
  BY <1>1, <1>2
<1>3. ASSUME NEW m \in Namespace, NEW p \in Cr, NEW content \in Content, PutConfigMap(m, p, content)
      PROVE  \A n \in Namespace, q \in Cr : version[n][q] <= version'[n][q]
  <2>1. /\ version'[m][p] = version[m][p] \/ version'[m][p] = version[m][p] + 1
        /\ \A n \in Namespace, q \in Cr : (n # m \/ q # p) => version'[n][q] = version[n][q]
    BY <1>3, PutConfigMapIs DEF TypeOK
  <2> QED
    BY <1>1, <2>1
<1> QED
  BY <1>2, <1>3, OneIsPut

\* A pass before its apply goes on to it, keeping what it has read, until it applies
\* or breaks off.
LEMMA ApplyIsNext ==
  ASSUME TypeOK, [Next]_vars, NEW o \in Cr
  PROVE  \/ pc'[o] = pc[o] /\ given'[o] = given[o] /\ liveRv'[o] = liveRv[o]
         \/ Get(o)
         \/ Apply(o, "list", "event")
         \/ pc'[o] \notin {"apply", "list"}
         \/ pc[o] # "apply" /\ pc'[o] # "apply"
<1> DEFINE Same(p) == pc'[p] = pc[p] /\ given'[p] = given[p] /\ liveRv'[p] = liveRv[p]
<1> USE DEF TypeOK
<1>1. ASSUME NEW p \in Cr \ {o}, Step(p) \/ GiveUp(p) \/ LoseAnswer(p) PROVE Same(o)
  BY <1>1 DEF Step, GiveUp, LoseAnswer, HasFinalizer, AddFinalizer,
     AddFinalizerRefused, Get, Apply, RecordEvent, GcList, GcEnd, GcDelete, PatchLabels,
     PatchStatus, DeleteConfigMap, RemoveFinalizers, Goto
<1>2. ASSUME NEW p \in Cr \ {o}, Begin(p) PROVE Same(o)
  BY <1>2 DEF Begin
<1>3. ASSUME NEW p \in Cr, Observe(p) \/ Others(p) PROVE Same(o)
  BY <1>3 DEF Observe, Others, Create, ChangeSpec, Delete, Release, Hold, Drift, Edit, pass
<1>4. CASE UNCHANGED vars
  BY <1>4 DEF vars, pass
<1>5. CASE Begin(o)
  BY <1>5 DEF Begin
<1>6. CASE GiveUp(o)
  BY <1>6 DEF GiveUp, Goto
<1>7. ASSUME Step(o) \/ LoseAnswer(o)
      PROVE  \/ Get(o) \/ Apply(o, "list", "event") \/ pc'[o] \notin {"apply", "list"}
             \/ pc[o] # "apply" /\ pc'[o] # "apply"
  BY <1>7 DEF Step, LoseAnswer, HasFinalizer, AddFinalizer, AddFinalizerRefused, Apply,
     RecordEvent, GcList, GcEnd, GcDelete, PatchLabels, PatchStatus, DeleteConfigMap,
     RemoveFinalizers, Goto
<1> QED
  BY <1>1, <1>2, <1>3, <1>4, <1>5, <1>6, <1>7 DEF Next

\* Every step keeps what was read older than what is there.
LEMMA NextVersionInv == VersionInv /\ [Next]_vars => VersionInv'
<1> SUFFICES ASSUME VersionInv, [Next]_vars, NEW o \in Cr, pc'[o] = "apply"
             PROVE  (liveRv[o] <= version[TargetOf(o)][o])'
  BY NextTypeOK DEF VersionInv, Recorded
<1>1. TypeOK /\ TypeOK' /\ Recorded(o)
  BY NextTypeOK DEF VersionInv
<1>2. CASE pc'[o] = pc[o] /\ given'[o] = given[o] /\ liveRv'[o] = liveRv[o]
  <2> DEFINE n == TargetOf(o)
  <2>1. n \in Namespace /\ n' = n
    BY <1>1, <1>2, PassHasTarget DEF TargetOf
  <2>2. version[n][o] \in Nat /\ version'[n][o] \in Nat /\ liveRv[o] \in Nat
    BY <1>1, <2>1 DEF TypeOK
  <2>3. version[n][o] <= version'[n][o] /\ liveRv[o] <= version[n][o]
    BY <1>1, <1>2, <2>1, VersionsGrow DEF Recorded
  <2> HIDE DEF n
  <2>4. liveRv'[o] <= version'[n][o]
    BY <1>2, <2>2, <2>3
  <2> QED
    BY <2>1, <2>4 DEF n
<1>3. CASE Get(o)
  <2> DEFINE n == TargetOf(o)
  <2>1. n \in Namespace /\ n' = n
    BY <1>1, <1>3, PassHasTarget DEF Get, Goto, TargetOf
  <2>2. version[n][o] \in Nat /\ version' = version
    BY <1>1, <1>3, <2>1 DEF Get, apiserver, stored, TypeOK
  <2>3. liveRv'[o] = 0 \/ liveRv'[o] = version[n][o]
    BY <1>1, <1>3 DEF Get, NotFound, TypeOK
  <2> HIDE DEF n
  <2>4. liveRv'[o] <= version'[n][o]
    BY <2>2, <2>3
  <2> QED
    BY <2>1, <2>4 DEF n
<1>4. ~Apply(o, "list", "event")
  BY <1>1 DEF Apply, Goto, TypeOK
<1> QED
  BY <1>1, <1>2, <1>3, <1>4, ApplyIsNext

\* A pass that goes on from its apply without recording an event has found the
\* ConfigMap as its CR wants it and has written nothing (resources.rs:352-372),
\* whatever others have done to it since the GET: any change since then, and any of
\* its own, gives a newer resourceVersion than the one it compares with.
THEOREM ChangesAreAnnounced == Spec => ChangeIsAnnounced
<1> DEFINE Announced(o) == pc[o] = "apply" /\ pc'[o] = "list" =>
                             /\ configmap[TargetOf(o)][o] = given[o].want
                             /\ UNCHANGED configmap
<1>1. Init => VersionInv
  BY InitTypeOK DEF Init, VersionInv, Recorded
<1>2. ASSUME VersionInv, [Next]_vars, NEW o \in Cr, pc[o] = "apply", pc'[o] = "list"
      PROVE  configmap[TargetOf(o)][o] = given[o].want /\ UNCHANGED configmap
  <2> DEFINE n == TargetOf(o)
             want == given[o].want
  <2>1. TypeOK /\ liveRv[o] <= version[n][o]
    BY <1>2 DEF VersionInv, Recorded
  <2>2. n \in Namespace /\ want \in Content
    BY <1>2, <2>1, PassHasTarget DEF Content
  <2>3. Apply(o, "list", "event")
    BY <1>2, <2>1, ApplyIsNext DEF Get
  <2>4. PutConfigMap(n, o, want)
    BY <2>3 DEF Apply
  <2>5. version'[n][o] = liveRv[o]
    BY <1>2, <2>1, <2>3 DEF Apply, Goto, IsUnchanged, TypeOK
  <2>6. version[n][o] \in Nat /\ liveRv[o] \in Nat
    BY <2>1, <2>2 DEF TypeOK
  <2>7. version'[n][o] = IF want = configmap[n][o] THEN version[n][o] ELSE version[n][o] + 1
    BY <2>1, <2>2, <2>4, PutConfigMapIs DEF TypeOK
  <2> HIDE DEF n, want
  <2>8. want = configmap[n][o]
    BY <2>1, <2>5, <2>6, <2>7
  <2>9. configmap' = [configmap EXCEPT ![n][o] = want]
    BY <2>4 DEF PutConfigMap
  <2>10. UNCHANGED configmap
    BY <2>1, <2>2, <2>8, <2>9 DEF TypeOK
  <2> QED
    BY <2>8, <2>10 DEF n, want
<1>3. ASSUME VersionInv, [Next]_vars PROVE [\A o \in Cr : Announced(o)]_vars
  BY <1>2, <1>3
<1> QED
  BY <1>1, NextVersionInv, <1>3, PTL DEF Spec, ChangeIsAnnounced
=============================================================================
