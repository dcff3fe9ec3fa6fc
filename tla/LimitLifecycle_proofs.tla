------------------------ MODULE LimitLifecycle_proofs ------------------------
(***************************************************************************)
(* What is proved of the limits' life cycle, for every set of apps,        *)
(* cgroups and REST threads:                                               *)
(*                                                                         *)
(* - the types, with the registry's and the exclusions' insertion order;   *)
(*                                                                         *)
(* - the pressure loop and a user-installed limit never own the same       *)
(*   cgroup (OwnersDisjoint).  It is not inductive: it says nothing of an  *)
(*   applier that has made its ownership check and not yet recorded its    *)
(*   entry.  The strengthening says that such an applier holds             *)
(*   operation_lock and that what it checked still holds, whatever the     *)
(*   unlocked operations (restore, hand-over, reaper, shutdown) did to the *)
(*   registry meanwhile;                                                   *)
(*                                                                         *)
(* - no cap is forgotten (NoOrphanCap) and a shutdown leaves none          *)
(*   (StoppedClean), when one operation runs at a time, every write        *)
(*   succeeds and no manual limit is edited.  The strengthening says which *)
(*   caps the thread in the middle of an operation answers for, label by   *)
(*   label, until the registry does;                                       *)
(*                                                                         *)
(* - the registry imagines no cap (NoPhantomCap) and an entry's stages are *)
(*   what its primary cgroup has (StageMatchesCap), when one operation     *)
(*   runs at a time and apps go on running; failing writes are included;   *)
(*                                                                         *)
(* - an exemption ends with the limit that it is for                       *)
(*   (ExemptionEndsWithLimit), when one operation runs at a time and every *)
(*   app is controlled.  The strengthening says that entries, locals and   *)
(*   exclusions each name cgroups of one app only, that an exemption names *)
(*   the key of a limit it is for, and that the pressure loop writes to no *)
(*   entry of the user's.                                                  *)
(***************************************************************************)
EXTENDS LimitLifecycle, TLAPS, WellFoundedInduction, FiniteSetTheorems

-----------------------------------------------------------------------------
(***************************************************************************)
(* Insertion order                                                         *)
(***************************************************************************)

\* Deleting keys leaves the others in order.
LEMMA KeptOrder ==
    ASSUME NEW r, NEW S, IsOrder(r, S), NEW T \in SUBSET S
    PROVE  IsOrder(Kept(r, T), T)
<1>1. ASSUME NEW M \in SUBSET T, M # {}
      PROVE  \E k \in M : \A j \in M \ {k} : <<k, j>> \in Kept(r, T) /\ <<j, k>> \notin Kept(r, T)
  <2>1. PICK k \in M : \A j \in M \ {k} : <<k, j>> \in r /\ <<j, k>> \notin r
    BY <1>1 DEF IsOrder
  <2> QED
    BY <2>1 DEF Kept
<1> QED
  BY <1>1 DEF IsOrder, Kept

\* Adding a key at the end, or moving it there, orders all the keys.
LEMMA ToEndOrder ==
    ASSUME NEW r, NEW S, IsOrder(r, S), NEW k
    PROVE  IsOrder(ToEnd(r, S, k), S \cup {k})
<1> DEFINE q == ToEnd(r, S, k)
<1>1. ASSUME NEW M \in SUBSET (S \cup {k}), M # {}
      PROVE  \E i \in M : \A j \in M \ {i} : <<i, j>> \in q /\ <<j, i>> \notin q
  <2>1. CASE M = {k}
    BY <2>1
  <2>2. CASE M # {k}
    <3>1. M \ {k} # {} /\ M \ {k} \in SUBSET S
      BY <1>1, <2>2
    <3>2. PICK i \in M \ {k} : \A j \in (M \ {k}) \ {i} : <<i, j>> \in r /\ <<j, i>> \notin r
      BY <3>1 DEF IsOrder
    <3>3. \A j \in M \ {i} : <<i, j>> \in q /\ <<j, i>> \notin q
      BY <3>1, <3>2 DEF ToEnd, Kept
    <3> QED
      BY <3>2, <3>3
  <2> QED
    BY <2>1, <2>2
<1>2. q \subseteq (S \cup {k}) \X (S \cup {k}) /\ \A i \in S \cup {k} : <<i, i>> \notin q
  BY DEF ToEnd, Kept, IsOrder
<1> QED
  BY <1>1, <1>2 DEF IsOrder

\* A loop over some of the keys that stops at the first finds one.
LEMMA FirstIsOne ==
    ASSUME NEW r, NEW S, IsOrder(r, S), NEW M \in SUBSET S, M # {}
    PROVE  First(M, r) \in M
<1>1. PICK k \in M : \A j \in M \ {k} : <<k, j>> \in r /\ <<j, k>> \notin r
  BY DEF IsOrder
<1>2. \A j \in M \ {k} : <<k, j>> \in r
  BY <1>1
<1> HIDE DEF IsOrder
<1> QED
  BY <1>2, Zenon DEF First

\* A nonempty set of cgroups has a lexicographically first one.
LEMMA MinIsOne ==
    ASSUME NEW T \in SUBSET Nat, T # {}
    PROVE  Min(T) \in T
<1>1. PICK x \in T : \A y \in T : <<y, x>> \notin OpToRel(<, Nat)
  BY NatLessThanWellFounded, WFMin
<1>2. \A y \in T : x =< y
  <2> SUFFICES ASSUME NEW y \in T, ~(x =< y) PROVE FALSE
    OBVIOUS
  <2>1. y < x /\ <<y, x>> \in Nat \X Nat
    OBVIOUS
  <2>2. <<y, x>> \in OpToRel(<, Nat)
    BY <2>1 DEF OpToRel
  <2> QED
    BY <1>1, <2>2
<1> QED
  BY <1>2, Zenon DEF Min

-----------------------------------------------------------------------------
(***************************************************************************)
(* What the operators return                                               *)
(***************************************************************************)
ThreadsOK ==
    /\ oplock \in Threads \cup {NoThread}
    /\ pc \in [Threads -> Labels]
    /\ op \in [Threads -> Local]
    /\ chan \in Channel
    /\ closed \subseteq Entry

WorldOK ==
    /\ running \in BOOLEAN
    /\ live \subseteq exists
    /\ exists \subseteq Cgroups
    /\ controlled \subseteq Apps

CapsOK == cap \in [Cgroups -> [Parts -> Caps]]

\* The type invariant, part by part.
Typed == EntriesOK /\ ExclusionsOK(exclusions) /\ ThreadsOK /\ WorldOK /\ CapsOK

\* t is running an operation that will record, or look up, an entry under the
\* key it has chosen.
Working(t) ==
    \/ pc[t] \in {"begin_apply", "yield", "write", "upsert", "write_sys", "write_io",
                  "record", "lift_user", "pop_user"}
    \/ t = Monitor /\ pc[t] \in {"lift", "account"} /\ chan.next = "write"

\* That key is a cgroup.
Named == \A t \in Threads : Working(t) => op[t].key \in Cgroups

\* A query answers None or one of the keys it asks for.
LEMMA OldestIsOne ==
    ASSUME EntriesOK, NEW M \in SUBSET Keys
    PROVE  /\ Oldest(M) \in M \cup {NoKey}
           /\ M # {} => Oldest(M) \in M
           /\ Oldest(M) # NoKey => Oldest(M) \in M
  BY FirstIsOne DEF EntriesOK, Oldest

\* first_auto_with_part finds an auto limit that still has the part.
LEMMA FirstAutoFinds ==
    ASSUME EntriesOK, NEW part, NEW skip, first_auto_with_part(part, skip) # NoKey
    PROVE  LET k == first_auto_with_part(part, skip)
           IN  /\ k \in Keys /\ registry[k].source = "auto" /\ part \in registry[k].parts
               /\ skip => part \notin registry[k].partial
<1> DEFINE M == {k \in Keys : /\ registry[k].source = "auto"
                              /\ part \in registry[k].parts
                              /\ skip => part \notin registry[k].partial}
<1>1. first_auto_with_part(part, skip) = Oldest(M)
  BY DEF first_auto_with_part
<1>2. Oldest(M) \in M
  BY <1>1, OldestIsOne
<1> QED
  BY <1>1, <1>2

\* by_public_id finds an entry of the given source, or nothing.
LEMMA ByPublicIdFinds ==
    ASSUME EntriesOK, NEW app, NEW source, by_public_id(app, source) # NoKey
    PROVE  LET k == by_public_id(app, source)
           IN  k \in Keys /\ registry[k].app = app /\ registry[k].source = source
<1> DEFINE M == {k \in Keys : registry[k].app = app /\ registry[k].source = source}
<1>1. by_public_id(app, source) = Oldest(M)
  BY DEF by_public_id
<1>2. Oldest(M) \in M
  BY <1>1, OldestIsOne
<1> QED
  BY <1>1, <1>2

\* A lookup over both sources finds an entry of the app, or nothing.
LEMMA ByAnyIdFinds ==
    ASSUME EntriesOK, NEW ident, NEW source, by_any_id(ident, source) # NoKey
    PROVE  LET k == by_any_id(ident, source)
           IN  /\ k \in Keys /\ registry[k].source = source
               /\ ident \in {k, registry[k].app} \cup registry[k].cgroups
<1> DEFINE M == {k \in Keys : /\ registry[k].source = source
                              /\ ident \in {k, registry[k].app} \cup registry[k].cgroups}
<1>1. by_any_id(ident, source) = Oldest(M)
  BY DEF by_any_id
<1>2. Oldest(M) \in M
  BY <1>1, OldestIsOne
<1> QED
  BY <1>1, <1>2

\* The updates keep the registry well formed.
LEMMA PopTyped ==
    ASSUME EntriesOK, NEW ks, Pop(ks)
    PROVE  EntriesOK'
<1>1. registry' = Restrict(registry, Keys \ ks) /\ order' = Kept(order, Keys \ ks)
  BY DEF Pop
<1>2. Keys' = Keys \ ks /\ registry' \in [Keys' -> Entry]
  BY <1>1 DEF Restrict, Keys, EntriesOK
<1>3. IsOrder(order', Keys')
  BY <1>1, <1>2, KeptOrder DEF EntriesOK
<1> QED
  BY <1>2, <1>3 DEF EntriesOK

\* Storing an entry, in place or at the end.
LEMMA PutTyped ==
    ASSUME EntriesOK, NEW key \in Cgroups, NEW entry \in Entry, Put(key, entry)
    PROVE  EntriesOK'
<1>1. Keys' = Keys \cup {key} /\ registry' \in [Keys' -> Entry]
  BY DEF Put, Keys, EntriesOK
<1>2. IsOrder(order', Keys')
  <2>1. CASE key \in Keys
    <3>1. order' = order /\ Keys' = Keys
      BY <1>1, <2>1 DEF Put
    <3> QED
      BY <3>1 DEF EntriesOK
  <2>2. CASE key \notin Keys
    BY <1>1, <2>2, ToEndOrder DEF Put, EntriesOK
  <2> QED
    BY <2>1, <2>2
<1> QED
  BY <1>1, <1>2 DEF EntriesOK

\* Storing a new entry after it was popped: it moves to the end.
LEMMA PutLastTyped ==
    ASSUME EntriesOK, NEW key \in Keys, NEW entry \in Entry, PutLast(key, entry)
    PROVE  EntriesOK'
<1>1. Keys' = Keys /\ registry' \in [Keys' -> Entry]
  BY DEF PutLast, Keys, EntriesOK
<1>2. order' = ToEnd(order, Keys, key) /\ Keys \cup {key} = Keys
  BY DEF PutLast
<1>3. IsOrder(order', Keys')
  BY <1>1, <1>2, ToEndOrder DEF EntriesOK
<1> QED
  BY <1>1, <1>3 DEF EntriesOK

\* So do the updates of the exclusions.
LEMMA DropTyped ==
    ASSUME NEW excl, ExclusionsOK(excl), NEW xs
    PROVE  ExclusionsOK(DropExclusions(excl, xs))
<1> DEFINE kept == DropExclusions(excl, xs)
<1>1. /\ kept.rec = Restrict(excl.rec, Excluded(excl) \ xs)
      /\ kept.order = Kept(excl.order, Excluded(excl) \ xs)
      /\ kept = [rec |-> kept.rec, order |-> kept.order]
  BY DEF DropExclusions
<1>2. /\ DOMAIN kept.rec = Excluded(excl) \ xs
      /\ kept.rec \in [DOMAIN kept.rec -> Exclusion]
  BY <1>1 DEF Restrict, ExclusionsOK, Excluded
<1>3. IsOrder(kept.order, DOMAIN kept.rec)
  BY <1>1, <1>2, KeptOrder DEF ExclusionsOK, Excluded
<1> HIDE DEF kept
<1> QED
  BY <1>1, <1>2, <1>3 DEF ExclusionsOK, Excluded, kept

\* Recording an exclusion.
LEMMA AddTyped ==
    ASSUME NEW excl, ExclusionsOK(excl), NEW key \in Cgroups, NEW entry,
           entry.app \in Ids, entry.cgroups \in SUBSET Cgroups,
           NEW reason \in {"user_restore", "manual_limit"}
    PROVE  ExclusionsOK(add_exclusion(excl, key, entry, reason))
<1> DEFINE x == exclusion_key(key, entry)
           record == [app |-> entry.app, reason |-> reason, cgroups |-> entry.cgroups]
           new == add_exclusion(excl, key, entry, reason)
<1>1. x \in ExclusionKeys /\ record \in Exclusion
  BY DEF exclusion_key, ExclusionKeys, Ids, Exclusion
<1>2. /\ new.rec = [y \in Excluded(excl) \cup {x} |-> IF y = x THEN record ELSE excl.rec[y]]
      /\ new.order = IF x \in Excluded(excl) THEN excl.order ELSE ToEnd(excl.order, Excluded(excl), x)
      /\ new = [rec |-> new.rec, order |-> new.order]
  BY DEF add_exclusion
<1> HIDE DEF x, record, new
<1>3. /\ DOMAIN new.rec = Excluded(excl) \cup {x}
      /\ new.rec \in [DOMAIN new.rec -> Exclusion]
  BY <1>1, <1>2 DEF ExclusionsOK, Excluded
<1>4. IsOrder(new.order, DOMAIN new.rec)
  <2>1. CASE x \in Excluded(excl)
    <3>1. Excluded(excl) \cup {x} = Excluded(excl)
      BY <2>1
    <3> QED
      BY <1>2, <1>3, <2>1, <3>1 DEF ExclusionsOK, Excluded
  <2>2. CASE x \notin Excluded(excl)
    BY <1>2, <1>3, <2>2, ToEndOrder DEF ExclusionsOK, Excluded
  <2> QED
    BY <2>1, <2>2
<1>5. DOMAIN new.rec \subseteq ExclusionKeys
  BY <1>1, <1>3 DEF ExclusionsOK, Excluded
<1>6. ExclusionsOK(new)
  BY <1>2, <1>3, <1>4, <1>5 DEF ExclusionsOK
<1> QED
  BY <1>6 DEF new

\* A write leaves caps.
LEMMA WriteTyped ==
    ASSUME CapsOK, NEW C, NEW P, NEW v \in Caps, Write(C, P, v)
    PROVE  CapsOK'
  BY DEF CapsOK, Write

\* An operation goes on with well-formed locals.
LEMMA ContinueTyped ==
    ASSUME ThreadsOK, NEW t \in Threads, NEW label \in Labels, NEW l \in Local,
           Continue(t, label, l)
    PROVE  pc' \in [Threads -> Labels] /\ op' \in [Threads -> Local]
  BY DEF ThreadsOK, Continue, Goto

\* Going on without touching the locals.
LEMMA GotoTyped ==
    ASSUME ThreadsOK, NEW t \in Threads, NEW label \in Labels, Goto(t, label)
    PROVE  pc' \in [Threads -> Labels]
  BY DEF ThreadsOK, Goto

\* The locals of an idle thread.
LEMMA NoOpTyped == Apps # {} => NoOp \in Local
  BY DEF NoOp, Local, Ids, Parts

\* There is always an identity that nobody holds.
LEMMA FreshIsFresh ==
    ASSUME EntriesOK, ThreadsOK
    PROVE  /\ FreshId \in Nat \ {0}
           /\ \A k \in Keys : registry[k].id # FreshId
           /\ \A t \in Threads : op[t].id # FreshId
           /\ chan.id # FreshId
<1> DEFINE entries == {registry[k].id : k \in Keys}
           locals == {op[t].id : t \in Threads}
           used == entries \cup locals \cup {chan.id}
           n == Cardinality(used)
<1>1. IsFiniteSet(entries)
  <2>1. IsFiniteSet(Keys)
    BY LifecycleAssumption, FS_Subset DEF EntriesOK
  <2>2. [k \in Keys |-> registry[k].id] \in Surjection(Keys, entries)
    BY DEF Surjection
  <2> QED
    BY <2>1, <2>2, FS_Surjection
<1>2. IsFiniteSet(locals)
  <2>1. IsFiniteSet({Monitor, Main} \cup Rest)
    <3>1. IsFiniteSet({Monitor} \cup {Main})
      BY FS_Singleton, FS_Union
    <3>2. {Monitor} \cup {Main} = {Monitor, Main}
      OBVIOUS
    <3> QED
      BY <3>1, <3>2, LifecycleAssumption, FS_Union
  <2>2. IsFiniteSet(Threads)
    BY <2>1 DEF Threads
  <2>3. [t \in Threads |-> op[t].id] \in Surjection(Threads, locals)
    BY DEF Surjection
  <2> QED
    BY <2>2, <2>3, FS_Surjection
<1>3. IsFiniteSet(used)
  BY <1>1, <1>2, FS_Singleton, FS_Union
<1>4. n \in Nat
  BY <1>3, FS_CardinalityType
<1>5. \E i \in 1..(n + 1) : i \notin used
  <2> SUFFICES ASSUME 1..(n + 1) \subseteq used PROVE FALSE
    OBVIOUS
  <2> HIDE DEF used
  <2>1. Cardinality(1..(n + 1)) = n + 1
    BY <1>4, FS_Interval
  <2>2. Cardinality(1..(n + 1)) <= n
    BY <1>3, FS_Subset
  <2> QED
    BY <1>4, <2>1, <2>2
<1>6. FreshId = CHOOSE i \in 1..(n + 1) : i \notin used
  BY DEF FreshId
<1> HIDE DEF used, n
<1>7. FreshId \in 1..(n + 1) /\ FreshId \notin used
  BY <1>5, <1>6
<1> QED
  BY <1>4, <1>7 DEF used

-----------------------------------------------------------------------------
(***************************************************************************)
(* Every step keeps the types                                              *)
(***************************************************************************)
\* The threads that are always there.
LEMMA ThreadsHere ==
    /\ Monitor \in Threads /\ Main \in Threads /\ \A t \in Rest : t \in Threads
    /\ NoOp \in Local
  BY LifecycleAssumption, NoOpTyped DEF Threads

\* The locals of a thread, field by field.
LEMMA LocalTyped ==
    ASSUME NEW a \in Ids, NEW k \in Cgroups, NEW C \in SUBSET Cgroups,
           NEW P \in SUBSET Parts, NEW b \in BOOLEAN
    PROVE  [NoOp EXCEPT !.app = a, !.key = k, !.targets = C, !.parts = P,
                        !.controlled = b] \in Local
  BY ThreadsHere DEF Local

\* Ending an operation.
LEMMA ReturnTyped ==
    ASSUME ThreadsOK, NEW t \in Threads, Return(t), UNCHANGED <<chan, closed>>
    PROVE  ThreadsOK'
<1>1. pc' \in [Threads -> Labels] /\ op' \in [Threads -> Local]
  BY ThreadsHere, ContinueTyped DEF Return, Labels
<1>2. oplock' \in Threads \cup {NoThread}
  BY DEF Return, Unlock, ThreadsOK
<1> QED
  BY <1>1, <1>2 DEF ThreadsOK

\* Setting the limit_parts of an entry.
LEMMA SetPartsTyped ==
    ASSUME EntriesOK, ThreadsOK, NEW k \in Keys, NEW P \in SUBSET Parts, NEW done,
           SetParts(k, P, done), UNCHANGED order
    PROVE  EntriesOK' /\ op' \in [Threads -> Local] /\ chan' \in Channel
<1>1. Keys' = Keys /\ registry' \in [Keys -> Entry]
  BY DEF SetParts, Keys, EntriesOK, Entry
<1>2. op' \in [Threads -> Local]
  <2>1. \A t \in Threads : [op[t] EXCEPT !.parts = P] \in Local
    BY DEF ThreadsOK, Local
  <2> QED
    BY <2>1, ThreadsHere DEF SetParts, Shared, ThreadsOK
<1>3. chan' \in Channel
  BY DEF SetParts, Shared, ThreadsOK, Channel
<1> QED
  BY <1>1, <1>2, <1>3 DEF EntriesOK

\* Handing an auto entry over to the user.
LEMMA FlipTyped ==
    ASSUME EntriesOK, ThreadsOK, ExclusionsOK(exclusions), NEW k \in Keys, NEW app \in Apps,
           FlipToManual(k, app), UNCHANGED order
    PROVE  EntriesOK' /\ ExclusionsOK(exclusions') /\ op' \in [Threads -> Local]
<1> DEFINE entry == [registry[k] EXCEPT !.source = "manual", !.adopted = TRUE,
                                        !.controlled = TRUE, !.app = app]
<1>1. entry \in Entry
  BY DEF EntriesOK, Entry, Sources, Ids
<1>2. /\ registry' = [registry EXCEPT ![k] = entry]
      /\ exclusions' = add_exclusion(exclusions, k, entry, "manual_limit")
  BY DEF FlipToManual
<1>3. op' = [t \in Threads |-> Shared(k, op[t], [op[t] EXCEPT !.app = app, !.controlled = TRUE])]
  BY DEF FlipToManual
<1> HIDE DEF entry
<1>4. Keys' = Keys /\ registry' \in [Keys -> Entry]
  BY <1>1, <1>2 DEF Keys, EntriesOK
<1>5. ExclusionsOK(exclusions')
  <2>1. k \in Cgroups /\ entry.app \in Ids /\ entry.cgroups \in SUBSET Cgroups
    BY <1>1 DEF EntriesOK, Entry
  <2> QED
    BY <1>2, <2>1, AddTyped
<1>6. op' \in [Threads -> Local]
  <2>1. \A t \in Threads : [op[t] EXCEPT !.app = app, !.controlled = TRUE] \in Local
    BY DEF ThreadsOK, Local, Ids
  <2> QED
    BY <1>3, <2>1 DEF Shared, ThreadsOK
<1> QED
  BY <1>4, <1>5, <1>6 DEF EntriesOK

\* The monitor's target selection keeps the types.
LEMMA SelectTyped ==
    ASSUME Typed, NEW app \in Apps, NEW c \in Cgroups, NEW part \in Parts,
           SelectTarget(app, c, part)
    PROVE  Typed'
<1> DEFINE T == IF app \in controlled THEN LiveOf(app) ELSE {c}
           l == [NoOp EXCEPT !.app = IF app \in controlled \/ part = "sys" THEN app ELSE c,
                             !.key = Min(T), !.targets = T, !.parts = {part},
                             !.controlled = app \in controlled]
<1>1. T \in SUBSET Cgroups /\ T # {}
  BY DEF SelectTarget, LiveOf, CgroupsOf
<1>2. Min(T) \in T
  BY <1>1, CgroupsAssumption, MinIsOne
<1>3. Continue(Monitor, "begin_apply", l)
  BY DEF SelectTarget
<1>4. l \in Local
  <2>1. Min(T) \in Cgroups /\ {part} \in SUBSET Parts /\ (app \in controlled) \in BOOLEAN
    BY <1>1, <1>2
  <2>2. (IF app \in controlled \/ part = "sys" THEN app ELSE c) \in Ids
    BY DEF Ids
  <2> HIDE DEF T
  <2> QED
    BY <1>1, <2>1, <2>2, LocalTyped
<1> HIDE DEF l
<1>5. UNCHANGED <<registryVars, worldVars, cap, oplock, chan, closed>>
  BY DEF SelectTarget
<1>6. "begin_apply" \in Labels
  BY DEF Labels
<1> QED
  BY <1>3, <1>4, <1>5, <1>6, ContinueTyped, ThreadsHere
     DEF Typed, EntriesOK, Keys, ThreadsOK, WorldOK, CapsOK, registryVars, worldVars

\* Entering _apply_resource_limits keeps the types.
LEMMA BeginTyped ==
    ASSUME Typed, BeginApply
    PROVE  Typed'
<1>1. UNCHANGED <<registryVars, worldVars, cap, chan, closed>>
  BY DEF BeginApply
<1>2. ThreadsOK'
  <2>1. CASE Return(Monitor)
    BY <1>1, <2>1, ThreadsHere, ReturnTyped DEF Typed
  <2>2. CASE ~Return(Monitor)
    BY <1>1, <2>2, ThreadsHere
       DEF Typed, BeginApply, Goto, ThreadsOK, Labels, ApplySteps
  <2> QED
    BY <2>1, <2>2
<1> QED
  BY <1>1, <1>2 DEF Typed, EntriesOK, Keys, WorldOK, CapsOK, registryVars, worldVars

\* Lifting the user's IO cap before an auto limit keeps the types.
LEMMA YieldTyped ==
    ASSUME Typed, YieldIo
    PROVE  Typed'
<1> DEFINE k == by_any_id(op[Monitor].key, "auto")
           yields == k # NoKey /\ "io" \in registry[k].parts
<1>1. UNCHANGED <<registryVars, worldVars, cap, oplock, op, closed>>
  BY DEF YieldIo
<1>2. chan' \in Channel
  <2>1. CASE yields
    <3>1. k \in Keys
      BY <2>1, ByAnyIdFinds DEF Typed
    <3>2. registry[k] \in Entry /\ k \in Cgroups
      BY <3>1 DEF Typed, EntriesOK
    <3>3. chan' = [key |-> k, id |-> registry[k].id, parts |-> registry[k].parts,
                   part |-> "io", stage |-> "full", ok |-> TRUE, next |-> "write"]
      BY <2>1 DEF YieldIo
    <3> HIDE DEF k
    <3> QED
      BY <3>2, <3>3 DEF Channel, Entry, Parts
  <2>2. CASE ~yields
    BY <2>2 DEF Typed, YieldIo, ThreadsOK
  <2> QED
    BY <2>1, <2>2
<1>3. pc' \in [Threads -> Labels]
  BY ThreadsHere, GotoTyped DEF Typed, YieldIo, Labels, ApplySteps
<1> QED
  BY <1>1, <1>2, <1>3
     DEF Typed, EntriesOK, Keys, ThreadsOK, WorldOK, CapsOK, registryVars, worldVars

\* The write of an auto limit keeps the types.
LEMMA WriteAutoTyped ==
    ASSUME Typed, WriteAuto
    PROVE  Typed'
<1>1. UNCHANGED <<registryVars, worldVars, chan, closed>>
  BY DEF WriteAuto
<1> DEFINE l == [op[Monitor] EXCEPT !.done = op[Monitor].parts]
<1>2. PICK W : /\ Write(W, op[Monitor].parts, "full")
               /\ \/ Continue(Monitor, "upsert", l) /\ UNCHANGED oplock
                  \/ Return(Monitor)
  BY DEF WriteAuto
<1>3. CapsOK'
  BY <1>2, WriteTyped DEF Typed, Caps
<1>4. l \in Local /\ "upsert" \in Labels
  BY ThreadsHere DEF Typed, ThreadsOK, Local, Labels, ApplySteps
<1> HIDE DEF l
<1>5. ThreadsOK'
  <2>1. CASE Return(Monitor)
    BY <1>1, <2>1, ThreadsHere, ReturnTyped DEF Typed
  <2>2. CASE Continue(Monitor, "upsert", l) /\ UNCHANGED oplock
    BY <1>1, <1>4, <2>2, ThreadsHere, ContinueTyped DEF Typed, ThreadsOK
  <2> QED
    BY <1>2, <2>1, <2>2
<1> QED
  BY <1>1, <1>3, <1>5 DEF Typed, EntriesOK, Keys, WorldOK, registryVars, worldVars

\* Recording an auto limit keeps the types.
LEMMA UpsertTyped ==
    ASSUME Typed, Named, Upsert
    PROVE  Typed'
<1> DEFINE l == op[Monitor]
           prev == registry[l.key]
           fresh == [id |-> FreshId, app |-> l.app, source |-> "auto", adopted |-> FALSE,
                     controlled |-> l.controlled, parts |-> l.done, partial |-> {},
                     cgroups |-> l.targets]
           merges == l.key \in Keys /\ prev.source = "auto"
           entry == IF merges THEN Merge(prev, fresh) ELSE fresh
<1>1. Put(l.key, entry) /\ Return(Monitor) /\ UNCHANGED <<exclusions, worldVars, cap, chan, closed>>
  BY DEF Upsert
<1>6. l.key \in Cgroups
  BY ThreadsHere DEF Upsert, Named, Working
<1>2. fresh \in Entry
  BY ThreadsHere, FreshIsFresh DEF Typed, ThreadsOK, Local, Entry, Sources
<1> HIDE DEF fresh
<1>3. entry \in Entry
  BY <1>2 DEF Typed, EntriesOK, Entry, Merge
<1> HIDE DEF entry
<1>4. EntriesOK'
  BY <1>1, <1>3, <1>6, PutTyped DEF Typed
<1>5. ThreadsOK'
  BY <1>1, ThreadsHere, ReturnTyped DEF Typed
<1> QED
  BY <1>1, <1>4, <1>5 DEF Typed, WorldOK, CapsOK, worldVars

\* Starting a staged restore keeps the types.
LEMMA StartTyped ==
    ASSUME Typed, NEW part \in Parts, NEW stage \in {"partial", "full"},
           StartRestore(part, stage)
    PROVE  Typed'
<1> DEFINE k == first_auto_with_part(part, stage = "partial")
<1>1. k \in Keys
  BY FirstAutoFinds DEF StartRestore, Typed
<1>2. registry[k] \in Entry /\ k \in Cgroups
  BY <1>1 DEF Typed, EntriesOK
<1>3. chan' = [key |-> k, id |-> registry[k].id, parts |-> registry[k].parts,
               part |-> part, stage |-> stage, ok |-> TRUE, next |-> "idle"]
  BY DEF StartRestore
<1> HIDE DEF k
<1>4. chan' \in Channel
  BY <1>2, <1>3 DEF Channel, Entry
<1>5. pc' \in [Threads -> Labels]
  BY ThreadsHere, GotoTyped DEF StartRestore, Labels, ApplySteps, Typed
<1>6. UNCHANGED <<registryVars, worldVars, cap, oplock, op, closed>>
  BY DEF StartRestore
<1> QED
  BY <1>4, <1>5, <1>6
     DEF Typed, EntriesOK, Keys, ThreadsOK, WorldOK, CapsOK, registryVars, worldVars

\* Lifting one stage keeps the types.
LEMMA LiftTyped ==
    ASSUME Typed, Lift
    PROVE  Typed'
<1>1. UNCHANGED <<order, exclusions, worldVars, oplock, closed>> /\ Goto(Monitor, "account")
  BY DEF Lift
<1> DEFINE present == chan.key \in Keys
           C == {chan.key} \cup IF present THEN registry[chan.key].cgroups ELSE {}
<1>2. PICK W \in IF running THEN Succeed(C) ELSE {{}} :
              /\ Write(W, {chan.part}, IF chan.stage = "partial" THEN "half" ELSE "none")
              /\ IF present /\ chan.stage = "full" /\ chan.key \in W
                 THEN SetParts(chan.key, registry[chan.key].parts \ {chan.part}, {})
                 ELSE /\ chan' = [chan EXCEPT !.ok = ~running \/ chan.key \in W]
                      /\ UNCHANGED <<registry, op>>
  BY DEF Lift
<1>3. CapsOK'
  <2>1. (IF chan.stage = "partial" THEN "half" ELSE "none") \in Caps
    BY DEF Caps
  <2> QED
    BY <1>2, <2>1, WriteTyped DEF Typed
<1>4. EntriesOK' /\ op' \in [Threads -> Local] /\ chan' \in Channel
  <2>1. CASE present /\ chan.stage = "full" /\ chan.key \in W
    <3>1. registry[chan.key].parts \ {chan.part} \in SUBSET Parts
      BY <2>1 DEF Typed, EntriesOK, Entry
    <3>2. SetParts(chan.key, registry[chan.key].parts \ {chan.part}, {})
      BY <1>2, <2>1
    <3> QED
      BY <1>1, <2>1, <3>1, <3>2, SetPartsTyped DEF Typed
  <2>2. CASE ~(present /\ chan.stage = "full" /\ chan.key \in W)
    <3>1. chan' = [chan EXCEPT !.ok = ~running \/ chan.key \in W] /\ UNCHANGED <<registry, op>>
      BY <1>2, <2>2
    <3>2. (~running \/ chan.key \in W) \in BOOLEAN
      OBVIOUS
    <3>3. chan' \in Channel
      BY <3>1, <3>2 DEF Typed, ThreadsOK, Channel
    <3> QED
      BY <1>1, <3>1, <3>3 DEF Typed, EntriesOK, Keys, ThreadsOK
  <2> QED
    BY <2>1, <2>2
<1>5. pc' \in [Threads -> Labels]
  BY <1>1, ThreadsHere, GotoTyped DEF Labels, ApplySteps, Typed
<1> QED
  BY <1>1, <1>3, <1>4, <1>5 DEF Typed, ThreadsOK, WorldOK, worldVars

\* Recording a lifted stage keeps the types.
LEMMA AccountTyped ==
    ASSUME Typed, Account
    PROVE  Typed'
<1> DEFINE Resume == IF chan.next = "write"
                     THEN Goto(Monitor, "write") /\ UNCHANGED <<op, oplock>>
                     ELSE Return(Monitor)
           relaxed == [registry[chan.key] EXCEPT !.partial = NextPartial(@)]
<1>1. UNCHANGED <<exclusions, worldVars, cap, closed>> /\ chan' = NoChannel
  BY DEF Account
<1>2. /\ Resume \/ Return(Monitor)
      /\ \/ Pop({chan.key})
         \/ /\ chan.key \in Keys
            /\ PutLast(chan.key, registry[chan.key]) \/ PutLast(chan.key, relaxed)
         \/ UNCHANGED <<registry, order>>
  BY DEF Account
<1>3. EntriesOK'
  <2>1. CASE Pop({chan.key})
    BY <2>1, PopTyped DEF Typed
  <2>2. CASE chan.key \in Keys /\ PutLast(chan.key, registry[chan.key])
    <3>1. registry[chan.key] \in Entry
      BY <2>2 DEF Typed, EntriesOK
    <3> QED
      BY <2>2, <3>1, PutLastTyped DEF Typed
  <2>3. CASE chan.key \in Keys /\ PutLast(chan.key, relaxed)
    <3>1. NextPartial(registry[chan.key].partial) \in SUBSET Parts
      BY <2>3 DEF Typed, EntriesOK, Entry, NextPartial, ThreadsOK, Channel
    <3>2. relaxed \in Entry
      BY <2>3, <3>1 DEF Typed, EntriesOK, Entry
    <3> HIDE DEF relaxed
    <3> QED
      BY <2>3, <3>2, PutLastTyped DEF Typed
  <2>4. CASE UNCHANGED <<registry, order>>
    BY <2>4 DEF Typed, EntriesOK, Keys
  <2> QED
    BY <1>2, <2>1, <2>2, <2>3, <2>4
<1>4. pc' \in [Threads -> Labels] /\ op' \in [Threads -> Local] /\ oplock' \in Threads \cup {NoThread}
  <2>1. CASE Return(Monitor)
    <3>1. pc' \in [Threads -> Labels] /\ op' \in [Threads -> Local]
      BY <2>1, ThreadsHere, ContinueTyped DEF Return, Labels, Typed
    <3> QED
      BY <2>1, <3>1 DEF Return, Unlock, Typed, ThreadsOK
  <2>2. CASE Goto(Monitor, "write") /\ UNCHANGED <<op, oplock>>
    BY <2>2, ThreadsHere, GotoTyped DEF Typed, ThreadsOK, Labels, ApplySteps
  <2> QED
    BY <1>2, <2>1, <2>2
<1>5. chan' \in Channel
  BY <1>1 DEF NoChannel, Channel, Parts
<1> QED
  BY <1>1, <1>3, <1>4, <1>5 DEF Typed, ThreadsOK, WorldOK, CapsOK, worldVars

\* Reaping closed cgroups keeps the types.
LEMMA ReapTyped ==
    ASSUME Typed, Reap \/ ReapOne
    PROVE  Typed'
<1>1. UNCHANGED <<worldVars, oplock, op, chan>>
  BY DEF Reap, ReapOne
<1>2. pc' \in [Threads -> Labels]
  BY ThreadsHere, GotoTyped DEF Reap, ReapOne, Labels, Typed
<1>3. EntriesOK' /\ ExclusionsOK(exclusions') /\ closed' \subseteq Entry /\ CapsOK'
  <2>1. CASE Reap
    <3> DEFINE gone == {k \in Keys : registry[k].cgroups \cap live = {}}
    <3>1. Pop(gone) /\ exclusions' = remove_exclusions(exclusions, gone) /\ UNCHANGED cap
          /\ closed' = {registry[k] : k \in gone}
      BY <2>1 DEF Reap
    <3>2. closed' \subseteq Entry
      BY <3>1 DEF Typed, EntriesOK
    <3> HIDE DEF gone
    <3>3. ExclusionsOK(exclusions')
      BY <3>1, DropTyped DEF remove_exclusions, Typed
    <3> QED
      BY <3>1, <3>2, <3>3, PopTyped DEF Typed, CapsOK
  <2>2. CASE ReapOne
    <3>1. /\ \E W, P : Write(W, P, "none")
          /\ closed' \subseteq closed
          /\ UNCHANGED registryVars
      BY <2>2 DEF ReapOne
    <3> QED
      BY <3>1, WriteTyped DEF Caps, Typed, EntriesOK, Keys, ThreadsOK, registryVars
  <2> QED
    BY <2>1, <2>2
<1> QED
  BY <1>1, <1>2, <1>3 DEF Typed, ThreadsOK, WorldOK, worldVars

\* A hand-over makes an auto entry the user's, under its app's id.
LEMMA HandoffFlips ==
    ASSUME Typed, NEW t \in Threads, NEW ident,
           LockToManual(t, ident) \/ (ident \in Cgroups /\ AdoptAutoLimit(t, ident))
    PROVE  \E k \in Keys : /\ Owner[k] \in Apps /\ registry[k].source = "auto"
                           /\ FlipToManual(k, Owner[k])
                           /\ controlled' = controlled \cup {Owner[k]}
<1>1. CASE LockToManual(t, ident)
  <2>1. PICK k : /\ k = IF by_public_id(ident, "auto") # NoKey THEN by_public_id(ident, "auto")
                        ELSE by_any_id(ident, "auto")
                 /\ k # NoKey /\ Owner[k] \in controlled /\ FlipToManual(k, Owner[k])
    BY <1>1 DEF LockToManual
  <2>2. k \in Keys /\ registry[k].source = "auto"
    BY <2>1, ByPublicIdFinds, ByAnyIdFinds DEF Typed
  <2>3. controlled' = controlled /\ Owner[k] \in Apps
    BY <1>1, <2>1 DEF LockToManual, worldVars, Typed, WorldOK
  <2> QED
    BY <2>1, <2>2, <2>3
<1>2. CASE ident \in Cgroups /\ AdoptAutoLimit(t, ident)
  BY <1>2, LifecycleAssumption DEF AdoptAutoLimit
<1> QED
  BY <1>1, <1>2

\* Handing a limit over keeps the types.
LEMMA HandoffTyped ==
    ASSUME Typed, NEW t \in Threads, NEW ident,
           LockToManual(t, ident) \/ (ident \in Cgroups /\ AdoptAutoLimit(t, ident))
    PROVE  Typed'
<1>1. UNCHANGED <<order, running, live, exists, cap, oplock, pc, chan, closed>>
  BY DEF LockToManual, AdoptAutoLimit, worldVars
<1>2. \E k \in Keys, a \in Apps : FlipToManual(k, a)
  BY HandoffFlips
<1>3. controlled' \subseteq Apps
  BY HandoffFlips DEF Typed, WorldOK
<1> QED
  BY <1>1, <1>2, <1>3, FlipTyped DEF Typed, ThreadsOK, WorldOK, CapsOK

\* Entering _install_resource_limit keeps the types.
LEMMA LimitTyped ==
    ASSUME Typed, NEW t \in Rest, NEW app \in Apps, NEW T \in SUBSET Cgroups,
           NEW want \in SUBSET Parts, Limit(t, app, T, want)
    PROVE  Typed'
<1> DEFINE l == [NoOp EXCEPT !.app = app, !.key = Min(T), !.targets = T, !.parts = want,
                             !.controlled = TRUE]
<1>1. /\ Continue(t, IF "sys" \in want THEN "write_sys" ELSE "write_io", l)
      /\ oplock' = t
      /\ UNCHANGED <<registryVars, worldVars, cap, chan, closed>>
  BY DEF Limit
<1>2. T # {}
  BY DEF Limit
<1>3. Min(T) \in Cgroups
  BY <1>2, CgroupsAssumption, MinIsOne
<1>4. l \in Local
  BY <1>3, LocalTyped DEF Ids
<1> HIDE DEF l
<1>5. (IF "sys" \in want THEN "write_sys" ELSE "write_io") \in Labels
  BY DEF Labels, InstallSteps
<1>6. pc' \in [Threads -> Labels] /\ op' \in [Threads -> Local]
  BY <1>1, <1>4, <1>5, ThreadsHere, ContinueTyped DEF Typed
<1> QED
  BY <1>1, <1>6, ThreadsHere
     DEF Typed, EntriesOK, Keys, ThreadsOK, WorldOK, CapsOK, registryVars, worldVars

\* An operation that writes caps and goes on, with the channels that landed.
LEMMA WriteStepTyped ==
    ASSUME Typed, NEW t \in Threads, NEW C, NEW P, NEW v \in Caps, Write(C, P, v),
           NEW label \in Labels, NEW l \in Local, Continue(t, label, l),
           UNCHANGED <<registryVars, worldVars, oplock, chan, closed>>
    PROVE  Typed'
<1>1. pc' \in [Threads -> Labels] /\ op' \in [Threads -> Local] /\ CapsOK'
  BY ContinueTyped, WriteTyped DEF Typed
<1> QED
  BY <1>1 DEF Typed, EntriesOK, Keys, ThreadsOK, WorldOK, registryVars, worldVars

\* The CPU and memory write of a manual limit keeps the types.
LEMMA WriteSysTyped ==
    ASSUME Typed, NEW t \in Rest, WriteSys(t)
    PROVE  Typed'
<1>1. PICK W \in IF running THEN Succeed(op[t].targets) ELSE {{}}, mem \in BOOLEAN :
         /\ Write(W, {"sys"}, "full")
         /\ LET landed == Landed(op[t], W)
                defer == landed /\ mem /\ "io" \in op[t].parts
            IN  Continue(t, IF "io" \in op[t].parts /\ ~defer THEN "write_io" ELSE "record",
                   [op[t] EXCEPT !.done = IF landed THEN {"sys"} ELSE {}, !.defer = defer])
  BY DEF WriteSys
<1> DEFINE defer == Landed(op[t], W) /\ mem /\ "io" \in op[t].parts
           done == IF Landed(op[t], W) THEN {"sys"} ELSE {}
           label == IF "io" \in op[t].parts /\ ~defer THEN "write_io" ELSE "record"
           l == [op[t] EXCEPT !.done = done, !.defer = defer]
<1>2. Continue(t, label, l)
  BY <1>1
<1>3. done \in SUBSET Parts /\ defer \in BOOLEAN /\ label \in Labels
  BY DEF Parts, Labels, InstallSteps, Landed
<1>4. l \in Local
  <2> HIDE DEF done, defer, label
  <2> QED
    BY <1>3, ThreadsHere DEF Typed, ThreadsOK, Local
<1> HIDE DEF l, label
<1>5. UNCHANGED <<registryVars, worldVars, oplock, chan, closed>>
  BY DEF WriteSys
<1> QED
  BY <1>1, <1>2, <1>3, <1>4, <1>5, ThreadsHere, WriteStepTyped DEF Caps

\* The IO write of a manual limit keeps the types.
LEMMA WriteIoTyped ==
    ASSUME Typed, NEW t \in Rest, WriteIo(t) \/ DeferWrite(t)
    PROVE  Typed'
<1>1. ASSUME NEW W, NEW done \in SUBSET Parts, NEW label \in {"record", "defer_record"},
             Write(W, {"io"}, "full"), Continue(t, label, [op[t] EXCEPT !.done = done])
      PROVE  Typed'
  <2>1. [op[t] EXCEPT !.done = done] \in Local /\ label \in Labels
    BY ThreadsHere DEF Typed, ThreadsOK, Local, Labels, InstallSteps
  <2>2. UNCHANGED <<registryVars, worldVars, oplock, chan, closed>>
    BY DEF WriteIo, DeferWrite
  <2> QED
    BY <1>1, <2>1, <2>2, ThreadsHere, WriteStepTyped DEF Caps
<1>2. CASE WriteIo(t)
  <2>1. PICK W : /\ Write(W, {"io"}, "full")
                 /\ Continue(t, "record",
                      [op[t] EXCEPT !.done = IF Landed(op[t], W) THEN @ \cup {"io"} ELSE @])
    BY <1>2 DEF WriteIo
  <2> DEFINE done == IF Landed(op[t], W) THEN op[t].done \cup {"io"} ELSE op[t].done
  <2>2. done \in SUBSET Parts
    BY ThreadsHere DEF Typed, ThreadsOK, Local, Parts
  <2>3. Continue(t, "record", [op[t] EXCEPT !.done = done])
    BY <2>1
  <2> HIDE DEF done
  <2> QED
    BY <1>1, <2>1, <2>2, <2>3
<1>3. CASE DeferWrite(t)
  <2>1. PICK W : /\ Write(W, {"io"}, "full")
                 /\ Continue(t, "defer_record",
                      [op[t] EXCEPT !.done = IF Landed(op[t], W) THEN {"io"} ELSE {}])
    BY <1>3 DEF DeferWrite
  <2> DEFINE done == IF Landed(op[t], W) THEN {"io"} ELSE {}
  <2>2. done \in SUBSET Parts
    BY DEF Parts
  <2>3. Continue(t, "defer_record", [op[t] EXCEPT !.done = done])
    BY <2>1
  <2> HIDE DEF done
  <2> QED
    BY <1>1, <2>1, <2>2, <2>3
<1> QED
  BY <1>2, <1>3

\* Recording a manual limit keeps the types.
LEMMA RecordTyped ==
    ASSUME Typed, Named, NEW t \in Rest, Record(t)
    PROVE  Typed'
<1> DEFINE l == op[t]
           entry == [id |-> FreshId, app |-> l.app, source |-> "manual", adopted |-> FALSE,
                     controlled |-> TRUE, parts |-> l.done, partial |-> {},
                     cgroups |-> l.targets]
<1>1. /\ \/ /\ Put(l.key, entry)
            /\ exclusions' = add_exclusion(exclusions, l.key, entry, "manual_limit")
         \/ UNCHANGED registryVars
      /\ \/ Goto(t, "deferred") /\ oplock' = NoThread /\ UNCHANGED op
         \/ Return(t)
      /\ UNCHANGED <<worldVars, cap, chan, closed>>
  BY DEF Record
<1>2. l.key \in Cgroups
  BY ThreadsHere DEF Record, Named, Working
<1>3. l \in Local
  BY ThreadsHere DEF Typed, ThreadsOK
<1>4. entry \in Entry
  BY <1>3, FreshIsFresh DEF Typed, Local, Entry, Sources
<1>5. EntriesOK' /\ ExclusionsOK(exclusions')
  <2>1. CASE /\ Put(l.key, entry)
             /\ exclusions' = add_exclusion(exclusions, l.key, entry, "manual_limit")
    <3>1. entry.app \in Ids /\ entry.cgroups \in SUBSET Cgroups
      BY <1>3 DEF Local
    <3> HIDE DEF entry
    <3> QED
      BY <1>2, <1>4, <2>1, <3>1, PutTyped, AddTyped DEF Typed
  <2>2. CASE UNCHANGED registryVars
    BY <2>2 DEF Typed, EntriesOK, Keys, registryVars
  <2> QED
    BY <1>1, <2>1, <2>2
<1>6. ThreadsOK'
  <2>1. CASE Return(t)
    BY <1>1, <2>1, ThreadsHere, ReturnTyped DEF Typed
  <2>2. CASE Goto(t, "deferred") /\ oplock' = NoThread /\ UNCHANGED op
    BY <1>1, <2>2, ThreadsHere, GotoTyped DEF Typed, ThreadsOK, Labels, InstallSteps
  <2> QED
    BY <1>1, <2>1, <2>2
<1> QED
  BY <1>1, <1>5, <1>6 DEF Typed, WorldOK, CapsOK, worldVars

\* The deferred IO cap of a manual limit keeps the types.
LEMMA DeferTyped ==
    ASSUME Typed, NEW t \in Rest, Deferred(t) \/ DeferRecord(t)
    PROVE  Typed'
<1>1. CASE Deferred(t)
  <2>1. UNCHANGED <<registryVars, worldVars, cap, chan, closed>>
    BY <1>1 DEF Deferred
  <2>2. ThreadsOK'
    <3>1. CASE Return(t)
      BY <2>1, <3>1, ThreadsHere, ReturnTyped DEF Typed
    <3>2. CASE oplock' = t /\ Goto(t, "defer_write") /\ UNCHANGED op
      BY <2>1, <3>2, ThreadsHere, GotoTyped DEF Typed, ThreadsOK, Labels, InstallSteps
    <3> QED
      BY <1>1, <3>1, <3>2 DEF Deferred
  <2> QED
    BY <2>1, <2>2 DEF Typed, EntriesOK, Keys, WorldOK, CapsOK, registryVars, worldVars
<1>2. CASE DeferRecord(t)
  <2>1. UNCHANGED <<order, exclusions, worldVars, cap, closed>>
    BY <1>2 DEF DeferRecord
  <2>2. CASE op[t].key \in Keys
    <3> DEFINE P == (registry[op[t].key].parts \ {"io"}) \cup op[t].done
    <3>1. SetParts(op[t].key, P, {t}) /\ Goto(t, "idle") /\ Unlock(t)
      BY <1>2, <2>2 DEF DeferRecord
    <3>2. P \in SUBSET Parts
      BY <2>2, ThreadsHere DEF Typed, ThreadsOK, EntriesOK, Entry, Local
    <3> HIDE DEF P
    <3>3. EntriesOK' /\ op' \in [Threads -> Local] /\ chan' \in Channel
      BY <2>1, <2>2, <3>1, <3>2, SetPartsTyped DEF Typed
    <3>4. pc' \in [Threads -> Labels]
      BY <3>1, ThreadsHere, GotoTyped DEF Typed, Labels
    <3>5. oplock' \in Threads \cup {NoThread}
      BY <3>1 DEF Unlock, Typed, ThreadsOK
    <3> QED
      BY <2>1, <3>3, <3>4, <3>5 DEF Typed, ThreadsOK, WorldOK, CapsOK, worldVars
  <2>3. CASE op[t].key \notin Keys
    <3>1. Return(t) /\ UNCHANGED <<registry, chan>>
      BY <1>2, <2>3 DEF DeferRecord
    <3>2. ThreadsOK'
      BY <2>1, <3>1, ThreadsHere, ReturnTyped DEF Typed
    <3> QED
      BY <2>1, <3>1, <3>2 DEF Typed, EntriesOK, Keys, WorldOK, CapsOK, worldVars
  <2> QED
    BY <2>2, <2>3
<1> QED
  BY <1>1, <1>2

\* Starting a restore by the user keeps the types.
LEMMA RestoreTyped ==
    ASSUME Typed, NEW t \in Rest, NEW app \in Ids, Restore(t, app) \/ UserRestore(t, app)
    PROVE  Typed'
<1>1. CASE Restore(t, app)
  <2> DEFINE k == by_public_id(app, "manual")
             l == [NoOp EXCEPT !.app = app, !.key = k, !.targets = registry[k].cgroups,
                               !.parts = registry[k].parts]
  <2>1. /\ Pop({k}) /\ exclusions' = remove_exclusion(exclusions, k)
        /\ Continue(t, "lift_manual", l)
        /\ UNCHANGED <<worldVars, cap, oplock, chan, closed>>
    BY <1>1 DEF Restore
  <2>2. k \in Keys
    BY <1>1, ByPublicIdFinds DEF Restore, Typed
  <2>3. k \in Cgroups /\ registry[k] \in Entry
    BY <2>2 DEF Typed, EntriesOK
  <2> HIDE DEF k
  <2>4. l \in Local
    BY <2>3, ThreadsHere DEF Local, Entry
  <2> HIDE DEF l
  <2>5. pc' \in [Threads -> Labels] /\ op' \in [Threads -> Local]
    BY <2>1, <2>4, ThreadsHere, ContinueTyped DEF Labels, Typed
  <2>6. EntriesOK' /\ ExclusionsOK(exclusions')
    BY <2>1, PopTyped, DropTyped DEF remove_exclusion, Typed
  <2> QED
    BY <2>1, <2>5, <2>6 DEF Typed, ThreadsOK, WorldOK, CapsOK, worldVars
<1>2. CASE UserRestore(t, app)
  <2> DEFINE public == by_public_id(app, "auto")
             k == IF public # NoKey THEN public ELSE by_any_id(app, "auto")
             l == [NoOp EXCEPT !.app = registry[k].app, !.key = k, !.id = registry[k].id,
                               !.targets = registry[k].cgroups, !.parts = registry[k].parts,
                               !.controlled = registry[k].controlled]
  <2>1. /\ Continue(t, "lift_user", l)
        /\ UNCHANGED <<registryVars, worldVars, cap, oplock, chan, closed>>
    BY <1>2 DEF UserRestore
  <2>2. k \in Keys
    BY <1>2, ByPublicIdFinds, ByAnyIdFinds DEF UserRestore, Typed
  <2>3. k \in Cgroups /\ registry[k] \in Entry
    BY <2>2 DEF Typed, EntriesOK
  <2> HIDE DEF k
  <2>4. l \in Local
    BY <2>3, ThreadsHere DEF Local, Entry
  <2> HIDE DEF l
  <2>5. pc' \in [Threads -> Labels] /\ op' \in [Threads -> Local]
    BY <2>1, <2>4, ThreadsHere, ContinueTyped DEF Labels, Typed
  <2> QED
    BY <2>1, <2>5
       DEF Typed, EntriesOK, Keys, ThreadsOK, WorldOK, CapsOK, registryVars, worldVars
<1> QED
  BY <1>1, <1>2

\* The writes of a restore by the user keep the types.
LEMMA LiftedTyped ==
    ASSUME Typed, NEW t \in Rest, LiftManual(t) \/ LiftUser(t)
    PROVE  Typed'
<1>1. UNCHANGED <<registryVars, worldVars, chan, closed>>
  BY DEF LiftManual, LiftUser
<1>2. \E C, P : Write(C, P, "none")
  BY DEF LiftManual, LiftUser
<1>3. CapsOK'
  BY <1>2, WriteTyped DEF Caps, Typed
<1>4. ThreadsOK'
  <2>1. CASE Return(t)
    BY <1>1, <2>1, ThreadsHere, ReturnTyped DEF Typed
  <2>2. CASE Goto(t, "pop_user") /\ UNCHANGED <<op, oplock>>
    BY <1>1, <2>2, ThreadsHere, GotoTyped DEF Typed, ThreadsOK, Labels
  <2> QED
    BY <2>1, <2>2 DEF LiftManual, LiftUser
<1> QED
  BY <1>1, <1>3, <1>4 DEF Typed, EntriesOK, Keys, WorldOK, registryVars, worldVars

\* Dropping the record of a restored limit keeps the types.
LEMMA PopUserTyped ==
    ASSUME Typed, Named, NEW t \in Rest, PopUser(t)
    PROVE  Typed'
<1> DEFINE l == op[t]
           subject == [app |-> l.app, controlled |-> l.controlled, cgroups |-> l.targets]
<1>1. /\ Pop({l.key}) \/ UNCHANGED <<registry, order>>
      /\ exclusions' = add_exclusion(exclusions, l.key, subject, "user_restore")
      /\ Return(t)
      /\ UNCHANGED <<worldVars, cap, chan, closed>>
  BY DEF PopUser
<1>2. l.key \in Cgroups
  BY ThreadsHere DEF PopUser, Named, Working
<1>3. subject.app \in Ids /\ subject.cgroups \in SUBSET Cgroups
  BY ThreadsHere DEF Typed, ThreadsOK, Local
<1> HIDE DEF subject
<1>4. ExclusionsOK(exclusions')
  BY <1>1, <1>2, <1>3, AddTyped DEF Typed
<1>5. EntriesOK'
  BY <1>1, PopTyped DEF Typed, EntriesOK, Keys
<1>6. ThreadsOK'
  BY <1>1, ThreadsHere, ReturnTyped DEF Typed
<1> QED
  BY <1>1, <1>4, <1>5, <1>6 DEF Typed, WorldOK, CapsOK, worldVars

\* Launches, exits, exclusions and the shutdown keep the types.
LEMMA OtherTyped ==
    ASSUME Typed,
           \/ \E t \in Rest : Unexclude(t)
           \/ StopRunning
           \/ Sweep
           \/ \E c \in Cgroups : Exit(c) \/ Launch(c)
    PROVE  Typed'
<1>1. CASE \E t \in Rest : Unexclude(t)
  <2>1. PICK t \in Rest : Unexclude(t)
    BY <1>1
  <2>2. ExclusionsOK(exclusions')
    BY <2>1, DropTyped DEF Unexclude, Typed
  <2> QED
    BY <2>1, <2>2
       DEF Unexclude, Typed, EntriesOK, Keys, ThreadsOK, WorldOK, CapsOK, worldVars
<1>2. CASE StopRunning
  BY <1>2, ThreadsHere, GotoTyped
     DEF StopRunning, Labels, Typed, EntriesOK, Keys, ThreadsOK, WorldOK, CapsOK, registryVars
<1>3. CASE Sweep
  <2>1. UNCHANGED <<exclusions, worldVars, oplock, op, chan, closed>> /\ Pop(Swept)
    BY <1>3 DEF Sweep
  <2>2. EntriesOK'
    BY <2>1, PopTyped DEF Typed
  <2>3. CapsOK'
    <3>1. PICK W : cap' = [c \in Cgroups |-> [p \in Parts |->
                      IF c \in W /\ \E k \in Swept : c \in registry[k].cgroups /\ p \in registry[k].parts
                      THEN "none" ELSE cap[c][p]]]
      BY <1>3 DEF Sweep
    <3> QED
      BY <3>1 DEF Typed, CapsOK, Caps
  <2>4. pc' \in [Threads -> Labels]
    BY <1>3, ThreadsHere, GotoTyped DEF Sweep, Labels, Typed
  <2> QED
    BY <2>1, <2>2, <2>3, <2>4 DEF Typed, ThreadsOK, WorldOK, worldVars
<1>4. CASE \E c \in Cgroups : Exit(c)
  <2>1. PICK c \in Cgroups : Exit(c)
    BY <1>4
  <2>2. CapsOK'
    BY <2>1, WriteTyped DEF Exit, Typed, CapsOK, Caps
  <2>3. WorldOK'
    BY <2>1 DEF Exit, Typed, WorldOK
  <2> QED
    BY <2>1, <2>2, <2>3 DEF Exit, Typed, EntriesOK, Keys, ThreadsOK, registryVars
<1>5. CASE \E c \in Cgroups : Launch(c)
  BY <1>5 DEF Launch, Typed, EntriesOK, Keys, ThreadsOK, WorldOK, CapsOK, registryVars
<1> QED
  BY <1>1, <1>2, <1>3, <1>4, <1>5

\* A step of t that leaves the others' keys alone keeps them named.
LEMMA NamedKept ==
    ASSUME Named, NEW t \in Threads,
           \A u \in Threads \ {t} : pc'[u] = pc[u] /\ op'[u].key = op[u].key,
           t = Monitor \/ chan'.next = chan.next,
           Working(t)' => op'[t].key \in Cgroups
    PROVE  Named'
<1> SUFFICES ASSUME NEW u \in Threads, Working(u)' PROVE op'[u].key \in Cgroups
  BY DEF Named, Working
<1>1. CASE u = t
  BY <1>1
<1>2. CASE u # t
  <2>1. Working(u)
    BY <1>2 DEF Working
  <2> QED
    BY <1>2, <2>1 DEF Named
<1> QED
  BY <1>1, <1>2

\* t goes on with the locals l.
LEMMA ContinueNamed ==
    ASSUME Typed, Named, NEW t \in Threads, NEW label, NEW l, Continue(t, label, l),
           t = Monitor \/ chan'.next = chan.next, label \notin {"lift", "account"},
           l.key \in Cgroups \/ label \in {"idle", "lift_manual", "defer_record"}
    PROVE  Named'
<1>1. \A u \in Threads \ {t} : pc'[u] = pc[u] /\ op'[u].key = op[u].key
  BY DEF Continue, Goto, Typed, ThreadsOK
<1>2. pc'[t] = label /\ op'[t] = l
  BY DEF Continue, Goto, Typed, ThreadsOK
<1>3. Working(t)' => op'[t].key \in Cgroups
  BY <1>2 DEF Working
<1> QED
  BY <1>1, <1>3, NamedKept

\* Ending an operation keeps the others' keys named.
LEMMA ReturnNamed ==
    ASSUME Typed, Named, NEW t \in Threads, Return(t), t = Monitor \/ chan'.next = chan.next
    PROVE  Named'
  BY ContinueNamed DEF Return

\* t goes on with the locals it has.
LEMMA GotoNamed ==
    ASSUME Typed, Named, NEW t \in Threads, NEW label, Goto(t, label),
           \A u \in Threads : op'[u].key = op[u].key, t = Monitor \/ chan'.next = chan.next,
           \/ label \in {"idle", "reap", "deferred", "defer_write", "sweep", "stopped"}
           \/ label \in {"lift", "account"} /\ chan'.next = "idle"
           \/ Working(t)
    PROVE  Named'
<1>1. \A u \in Threads \ {t} : pc'[u] = pc[u] /\ op'[u].key = op[u].key
  BY DEF Goto, Typed, ThreadsOK
<1>2. pc'[t] = label
  BY DEF Goto, Typed, ThreadsOK
<1>3. Working(t)' => op'[t].key \in Cgroups
  BY <1>2 DEF Working, Named
<1> QED
  BY <1>1, <1>3, NamedKept

\* A hand-over keeps the keys named.
LEMMA HandoffNamed ==
    ASSUME Typed, Named, NEW t \in Threads, NEW app,
           LockToManual(t, app) \/ AdoptAutoLimit(t, app)
    PROVE  Named'
<1>1. UNCHANGED <<pc, chan>>
  BY DEF LockToManual, AdoptAutoLimit
<1>2. PICK k, a : FlipToManual(k, a)
  BY DEF LockToManual, AdoptAutoLimit
<1>3. op \in [Threads -> Local]
  BY DEF Typed, ThreadsOK
<1>4. \A u \in Threads : op'[u] = op[u] \/ op'[u] = [op[u] EXCEPT !.app = a, !.controlled = TRUE]
  BY <1>2 DEF FlipToManual, Shared
<1>5. \A u \in Threads : op'[u].key = op[u].key
  BY <1>3, <1>4 DEF Local
<1> QED
  BY <1>1, <1>5 DEF Named, Working

\* The monitor's steps keep the keys named.
LEMMA MonitorNamed ==
    ASSUME Typed, Named, MonitorNext
    PROVE  Named'
<1>1. ASSUME NEW app \in Apps, NEW c \in Cgroups, NEW part \in Parts, SelectTarget(app, c, part)
      PROVE  Named'
  <2> DEFINE T == IF app \in controlled THEN LiveOf(app) ELSE {c}
             l == [NoOp EXCEPT !.app = IF app \in controlled \/ part = "sys" THEN app ELSE c,
                               !.key = Min(T), !.targets = T, !.parts = {part},
                               !.controlled = app \in controlled]
  <2>1. T \in SUBSET Cgroups /\ T # {}
    BY <1>1 DEF SelectTarget, LiveOf, CgroupsOf
  <2>2. Min(T) \in Cgroups
    BY <2>1, CgroupsAssumption, MinIsOne
  <2>3. Continue(Monitor, "begin_apply", l)
    BY <1>1 DEF SelectTarget
  <2>4. l.key = Min(T)
    BY DEF NoOp
  <2> HIDE DEF l, T
  <2> QED
    BY <2>2, <2>3, <2>4, ContinueNamed, ThreadsHere
<1>2. CASE BeginApply
  BY <1>2, ReturnNamed, GotoNamed, ThreadsHere DEF BeginApply, Working
<1>3. CASE YieldIo
  BY <1>3, GotoNamed, ThreadsHere DEF YieldIo, Working
<1>4. CASE WriteAuto
  <2>1. \/ Continue(Monitor, "upsert", [op[Monitor] EXCEPT !.done = op[Monitor].parts])
        \/ Return(Monitor)
    BY <1>4 DEF WriteAuto
  <2>2. op[Monitor].key \in Cgroups
    BY <1>4, ThreadsHere DEF WriteAuto, Named, Working
  <2> DEFINE l == [op[Monitor] EXCEPT !.done = op[Monitor].parts]
  <2>3. l.key \in Cgroups
    BY <2>2, ThreadsHere DEF Typed, ThreadsOK, Local
  <2>4. Continue(Monitor, "upsert", l) \/ Return(Monitor)
    BY <2>1
  <2> HIDE DEF l
  <2> QED
    BY <2>3, <2>4, ReturnNamed, ContinueNamed, ThreadsHere
<1>5. CASE Upsert
  BY <1>5, ReturnNamed, ThreadsHere DEF Upsert
<1>6. ASSUME NEW part, NEW stage, StartRestore(part, stage)
      PROVE  Named'
  <2>1. Goto(Monitor, "lift") /\ UNCHANGED op /\ chan'.next = "idle"
    BY <1>6 DEF StartRestore
  <2> QED
    BY <2>1, GotoNamed, ThreadsHere
<1>7. CASE Lift
  <2>1. Goto(Monitor, "account") /\ pc[Monitor] = "lift"
    BY <1>7 DEF Lift
  <2>2. chan'.next = chan.next /\ \A u \in Threads : op'[u].key = op[u].key
    BY <1>7 DEF Lift, SetParts, Shared, Typed, ThreadsOK, Local, Channel
  <2>3. chan'.next = "idle" \/ Working(Monitor)
    BY <2>1, <2>2 DEF Working, Typed, ThreadsOK, Channel
  <2> QED
    BY <2>1, <2>2, <2>3, GotoNamed, ThreadsHere
<1>8. CASE Account
  <2>1. CASE Return(Monitor)
    BY <2>1, ReturnNamed, ThreadsHere
  <2>2. CASE ~Return(Monitor)
    <3>1. /\ Goto(Monitor, "write") /\ UNCHANGED op
          /\ pc[Monitor] = "account" /\ chan.next = "write"
      BY <1>8, <2>2 DEF Account
    <3> QED
      BY <3>1, GotoNamed, ThreadsHere DEF Working
  <2> QED
    BY <2>1, <2>2
<1>9. CASE Reap \/ ReapOne
  BY <1>9, GotoNamed, ThreadsHere DEF Reap, ReapOne
<1>10. ASSUME NEW app \in Apps, LockToManual(Monitor, app)
       PROVE  Named'
  BY <1>10, HandoffNamed, ThreadsHere
<1> QED
  BY <1>1, <1>2, <1>3, <1>4, <1>5, <1>6, <1>7, <1>8, <1>9, <1>10 DEF MonitorNext

\* The steps of the REST threads keep the keys named.
LEMMA RestNamed ==
    ASSUME Typed, Named, NEW t \in Rest, RestNext(t)
    PROVE  Named'
<1>1. ASSUME NEW app, NEW T \in SUBSET Cgroups, NEW want, Limit(t, app, T, want)
      PROVE  Named'
  <2> DEFINE l == [NoOp EXCEPT !.app = app, !.key = Min(T), !.targets = T, !.parts = want,
                               !.controlled = TRUE]
  <2>1. Min(T) \in Cgroups
    BY <1>1, CgroupsAssumption, MinIsOne DEF Limit
  <2>2. l.key = Min(T)
    BY DEF NoOp
  <2>3. Continue(t, IF "sys" \in want THEN "write_sys" ELSE "write_io", l) /\ UNCHANGED chan
    BY <1>1 DEF Limit
  <2> HIDE DEF l
  <2> QED
    BY <2>1, <2>2, <2>3, ContinueNamed, ThreadsHere
<1>2. ASSUME NEW label \in {"write_io", "record"}, NEW l, Continue(t, label, l), UNCHANGED chan,
             l.key = op[t].key, pc[t] \in {"write_sys", "write_io"}
      PROVE  Named'
  <2>1. op[t].key \in Cgroups
    BY <1>2, ThreadsHere DEF Named, Working
  <2> QED
    BY <1>2, <2>1, ContinueNamed, ThreadsHere
<1>3. CASE WriteSys(t)
  <2>1. PICK W \in IF running THEN Succeed(op[t].targets) ELSE {{}}, mem \in BOOLEAN :
           LET landed == Landed(op[t], W)
               defer == landed /\ mem /\ "io" \in op[t].parts
           IN  Continue(t, IF "io" \in op[t].parts /\ ~defer THEN "write_io" ELSE "record",
                  [op[t] EXCEPT !.done = IF landed THEN {"sys"} ELSE {}, !.defer = defer])
    BY <1>3 DEF WriteSys
  <2> DEFINE defer == Landed(op[t], W) /\ mem /\ "io" \in op[t].parts
             done == IF Landed(op[t], W) THEN {"sys"} ELSE {}
             label == IF "io" \in op[t].parts /\ ~defer THEN "write_io" ELSE "record"
  <2>2. Continue(t, label, [op[t] EXCEPT !.done = done, !.defer = defer])
    BY <2>1
  <2>3. label \in {"write_io", "record"}
    OBVIOUS
  <2> HIDE DEF done, defer, label
  <2>4. [op[t] EXCEPT !.done = done, !.defer = defer].key = op[t].key
    BY ThreadsHere DEF Typed, ThreadsOK, Local
  <2> QED
    BY <1>2, <1>3, <2>2, <2>3, <2>4 DEF WriteSys
<1>4. CASE WriteIo(t)
  <2>1. PICK W : Continue(t, "record",
                   [op[t] EXCEPT !.done = IF Landed(op[t], W) THEN @ \cup {"io"} ELSE @])
    BY <1>4 DEF WriteIo
  <2> DEFINE l == [op[t] EXCEPT !.done = IF Landed(op[t], W) THEN @ \cup {"io"} ELSE @]
  <2>2. l.key = op[t].key
    BY ThreadsHere DEF Typed, ThreadsOK, Local
  <2> HIDE DEF l
  <2> QED
    BY <1>2, <1>4, <2>1, <2>2 DEF WriteIo, l
<1>5. CASE Record(t)
  BY <1>5, ReturnNamed, GotoNamed, ThreadsHere DEF Record
<1>6. CASE Deferred(t)
  BY <1>6, ReturnNamed, GotoNamed, ThreadsHere DEF Deferred
<1>7. CASE DeferWrite(t)
  <2>1. /\ \E l : Continue(t, "defer_record", l)
        /\ UNCHANGED chan
    BY <1>7 DEF DeferWrite
  <2> QED
    BY <2>1, ContinueNamed, ThreadsHere
<1>8. CASE DeferRecord(t)
  <2>1. CASE Return(t) /\ UNCHANGED chan
    BY <2>1, ReturnNamed, ThreadsHere
  <2>2. CASE ~(Return(t) /\ UNCHANGED chan)
    <3>1. Goto(t, "idle") /\ \E k, P : SetParts(k, P, {t})
      BY <1>8, <2>2 DEF DeferRecord
    <3>2. pc'[t] = "idle" /\ \A u \in Threads \ {t} : pc'[u] = pc[u]
      BY <3>1, ThreadsHere DEF Goto, Typed, ThreadsOK
    <3>3. chan'.next = chan.next /\ \A u \in Threads \ {t} : op'[u].key = op[u].key
      BY <3>1 DEF SetParts, Shared, Typed, ThreadsOK, Local, Channel
    <3> QED
      BY <3>2, <3>3, NamedKept, ThreadsHere, LifecycleAssumption DEF Working
  <2> QED
    BY <2>1, <2>2
<1>9. ASSUME NEW app, Restore(t, app)
      PROVE  Named'
  <2>1. /\ \E l : Continue(t, "lift_manual", l)
        /\ UNCHANGED chan
    BY <1>9 DEF Restore
  <2> QED
    BY <2>1, ContinueNamed, ThreadsHere
<1>10. ASSUME NEW app, UserRestore(t, app)
       PROVE  Named'
  <2> DEFINE public == by_public_id(app, "auto")
             k == IF public # NoKey THEN public ELSE by_any_id(app, "auto")
             l == [NoOp EXCEPT !.app = registry[k].app, !.key = k, !.id = registry[k].id,
                               !.targets = registry[k].cgroups, !.parts = registry[k].parts,
                               !.controlled = registry[k].controlled]
  <2>1. Continue(t, "lift_user", l) /\ UNCHANGED chan
    BY <1>10 DEF UserRestore
  <2>2. k \in Cgroups
    BY <1>10, ByPublicIdFinds, ByAnyIdFinds DEF UserRestore, Typed, EntriesOK
  <2>3. l.key = k
    BY DEF NoOp
  <2> HIDE DEF l, k
  <2> QED
    BY <2>1, <2>2, <2>3, ContinueNamed, ThreadsHere
<1>11. CASE LiftManual(t) \/ PopUser(t)
  BY <1>11, ReturnNamed, ThreadsHere DEF LiftManual, PopUser
<1>12. CASE LiftUser(t)
  <2>1. UNCHANGED chan /\ pc[t] = "lift_user"
    BY <1>12 DEF LiftUser
  <2>2. PICK W : IF Lifted(op[t], W) THEN Goto(t, "pop_user") /\ UNCHANGED <<op, oplock>>
                                    ELSE Return(t)
    BY <1>12 DEF LiftUser
  <2>3. CASE Return(t)
    BY <2>1, <2>3, ReturnNamed, ThreadsHere
  <2>4. CASE Goto(t, "pop_user") /\ UNCHANGED op
    <3>1. Working(t) /\ chan'.next = chan.next /\ \A u \in Threads : op'[u].key = op[u].key
      BY <2>1, <2>4 DEF Working
    <3> QED
      BY <2>4, <3>1, GotoNamed, ThreadsHere
  <2> QED
    BY <2>2, <2>3, <2>4
<1>13. ASSUME NEW app, LockToManual(t, app) \/ AdoptAutoLimit(t, app)
       PROVE  Named'
  BY <1>13, HandoffNamed, ThreadsHere
<1>14. CASE Unexclude(t)
  BY <1>14 DEF Unexclude, Named, Working
<1> QED
  BY <1>1, <1>3, <1>4, <1>5, <1>6, <1>7, <1>8, <1>9, <1>10, <1>11, <1>12, <1>13, <1>14
     DEF RestNext

\* The steps of the other threads and of the apps.
LEMMA OtherNamed ==
    ASSUME Typed, Named,
           \/ StopRunning \/ Sweep
           \/ \E c \in Cgroups : Exit(c) \/ Launch(c)
    PROVE  Named'
<1>1. CASE StopRunning
  <2>1. Goto(Main, "sweep") /\ chan'.next = chan.next /\ \A u \in Threads : op'[u].key = op[u].key
    BY <1>1 DEF StopRunning
  <2> QED
    BY <2>1, GotoNamed, ThreadsHere
<1>2. CASE Sweep
  <2>1. Goto(Main, "stopped") /\ chan'.next = chan.next /\ \A u \in Threads : op'[u].key = op[u].key
    BY <1>2 DEF Sweep
  <2> QED
    BY <2>1, GotoNamed, ThreadsHere
<1>3. ASSUME NEW c \in Cgroups, Exit(c) \/ Launch(c)
      PROVE  Named'
  BY <1>3 DEF Exit, Launch, Named, Working
<1> QED
  BY <1>1, <1>2, <1>3

\* Initially.
LEMMA InitTyped == Init => Typed /\ Named
<1> SUFFICES ASSUME Init PROVE Typed /\ Named
  OBVIOUS
<1>1. EntriesOK /\ ExclusionsOK(exclusions)
  BY DEF Init, RegistryInit, EntriesOK, ExclusionsOK, Keys, IsOrder
<1>2. ThreadsOK
  BY ThreadsHere DEF Init, ThreadsOK, Labels, NoChannel, Channel, Parts
<1>3. WorldOK /\ CapsOK
  BY LifecycleAssumption DEF Init, WorldOK, CapsOK, Caps
<1>4. Named
  BY DEF Init, Named, Working
<1> QED
  BY <1>1, <1>2, <1>3, <1>4 DEF Typed

\* Every step keeps the types.
LEMMA StepTyped == Typed /\ Named /\ [Next]_vars => Typed' /\ Named'
<1> SUFFICES ASSUME Typed, Named, [Next]_vars PROVE Typed' /\ Named'
  OBVIOUS
<1>1. CASE MonitorNext
  <2>1. Named'
    BY <1>1, MonitorNamed
  <2>2. Typed'
    BY <1>1, SelectTyped, BeginTyped, YieldTyped, WriteAutoTyped, UpsertTyped, StartTyped,
       LiftTyped, AccountTyped, ReapTyped, HandoffTyped, ThreadsHere DEF MonitorNext
  <2> QED
    BY <2>1, <2>2
<1>2. ASSUME NEW t \in Rest, RestNext(t)
      PROVE  Typed' /\ Named'
  <2>1. Named'
    BY <1>2, RestNamed
  <2>2. \A app \in Apps : app \in Ids
    BY DEF Ids
  <2>3. Typed'
    BY <1>2, <2>2, LimitTyped, WriteSysTyped, WriteIoTyped, RecordTyped, DeferTyped, RestoreTyped,
       LiftedTyped, PopUserTyped, OtherTyped, HandoffTyped, ThreadsHere DEF RestNext
  <2> QED
    BY <2>1, <2>3
<1>3. CASE StopRunning \/ Sweep \/ \E c \in Cgroups : Exit(c) \/ Launch(c)
  BY <1>3, OtherTyped, OtherNamed
<1>4. CASE UNCHANGED vars
  BY <1>4 DEF vars, Typed, EntriesOK, Keys, ThreadsOK, WorldOK, CapsOK, Named, Working
<1> QED
  BY <1>1, <1>2, <1>3, <1>4 DEF Next

\* The types hold throughout, and whoever works on an entry works on a cgroup.
LEMMA TypedKept == Spec => [](Typed /\ Named)
  BY InitTyped, StepTyped, PTL DEF Spec

\* The registry, the exclusions, the caps and the locals of every thread keep
\* their types, for every set of apps, cgroups and REST threads and every subset
\* of the operations: in particular the registry's order stays a total order of
\* its keys (balancer.py's _limited_apps is an OrderedDict that code pops from,
\* re-inserts into and iterates over in insertion order).
THEOREM LifecycleTypeCorrect == Spec => []TypeOK
<1>1. Typed => TypeOK
  BY DEF Typed, TypeOK, RegistryTypeOK, ThreadsOK, WorldOK, CapsOK
<1> QED
  BY <1>1, TypedKept, PTL

-----------------------------------------------------------------------------
(***************************************************************************)
(* Who owns a cgroup                                                       *)
(***************************************************************************)
\* The fields the argument looks at are there.
Shape ==
    /\ DOMAIN pc = Threads
    /\ DOMAIN op = Threads
    /\ \A k \in Keys : {"source", "adopted", "cgroups"} \subseteq DOMAIN registry[k]
    /\ \A t \in Threads : "targets" \in DOMAIN op[t]
    /\ "next" \in DOMAIN chan

\* The monitor is between the ownership check of _apply_resource_limits and
\* the end of its upsert; it may be lifting an IO cap on the way.
Applying ==
    \/ pc[Monitor] \in {"yield", "write", "upsert"}
    \/ pc[Monitor] \in {"lift", "account"} /\ chan.next = "write"

\* t is between the ownership check of _install_resource_limit and its record.
Installing(t) == pc[t] \in {"write_sys", "write_io", "record"}

UserOwned(e) == e.source = "manual" /\ ~e.adopted

\* What the monitor checked still holds.
ApplyInv ==
    Applying => /\ oplock = Monitor
                /\ \A k \in Keys : UserOwned(registry[k])
                                    => registry[k].cgroups \cap op[Monitor].targets = {}

\* What a REST thread checked still holds.
InstallInv ==
    \A t \in Rest : Installing(t) =>
        /\ oplock = t
        /\ \A k \in Keys : registry[k].source = "auto"
                            => registry[k].cgroups \cap op[t].targets = {}

IInv == Shape /\ ApplyInv /\ InstallInv /\ OwnersDisjoint

-----------------------------------------------------------------------------
(***************************************************************************)
(* What a step can do                                                      *)
(***************************************************************************)
\* Entries may go, and may be handed from the pressure loop to the user; no
\* entry comes and none changes its cgroups.
Tame ==
    \A k \in Keys' :
        /\ k \in Keys
        /\ {"source", "adopted", "cgroups"} \subseteq DOMAIN registry'[k]
        /\ registry'[k].cgroups = registry[k].cgroups
        /\ \/ /\ registry'[k].source = registry[k].source
              /\ registry'[k].adopted = registry[k].adopted
           \/ registry'[k].source = "manual" /\ registry'[k].adopted

\* A step of t leaves the other threads where they are and takes no lock that
\* another thread holds.
Frame(t) ==
    /\ DOMAIN pc' = Threads
    /\ DOMAIN op' = Threads
    /\ \A u \in Threads : "targets" \in DOMAIN op'[u]
    /\ "next" \in DOMAIN chan'
    /\ \A u \in Threads \ {t} : pc'[u] = pc[u] /\ op'[u].targets = op[u].targets
    /\ oplock' = oplock \/ oplock \in {t, NoThread}

\* A step that leaves the registry alone is tame.
LEMMA UnchangedTame == ASSUME Shape, UNCHANGED registry PROVE Tame
  BY DEF Tame, Shape, Keys

\* Popping entries is tame.
LEMMA PopTame == ASSUME Shape, NEW ks, Pop(ks) PROVE Tame
  BY DEF Tame, Shape, Keys, Pop, Restrict

\* Setting limit_parts is tame, and changes no local but the parts.
LEMMA SetPartsTame ==
    ASSUME Shape, NEW k \in Keys, NEW P, NEW done, SetParts(k, P, done)
    PROVE  /\ Tame
           /\ DOMAIN op' = Threads
           /\ \A u \in Threads : "targets" \in DOMAIN op'[u]
           /\ \A u \in Threads \ done : op'[u].targets = op[u].targets
           /\ "next" \in DOMAIN chan'
           /\ chan'.next = chan.next
<1>1. Tame
  BY DEF Tame, Shape, Keys, SetParts
<1>2. /\ DOMAIN op' = Threads
      /\ \A u \in Threads : "targets" \in DOMAIN op'[u]
      /\ \A u \in Threads \ done : op'[u].targets = op[u].targets
  BY DEF Shape, SetParts, Shared, NoOp
<1>3. "next" \in DOMAIN chan' /\ chan'.next = chan.next
  BY DEF Shape, SetParts, Shared
<1> QED
  BY <1>1, <1>2, <1>3

\* Moving an entry to the end of the queue, relaxed or not, is tame.
LEMMA PutLastTame ==
    ASSUME Shape, NEW k \in Keys, NEW P,
           \/ PutLast(k, registry[k])
           \/ PutLast(k, [registry[k] EXCEPT !.partial = P])
    PROVE  Tame
  BY DEF Tame, Shape, Keys, PutLast

\* Handing an entry over is tame, and changes neither the targets of an
\* operation nor where anyone is.
LEMMA FlipTame ==
    ASSUME Shape, NEW k \in Keys, NEW app, FlipToManual(k, app)
    PROVE  /\ Tame
           /\ DOMAIN op' = Threads
           /\ \A u \in Threads : "targets" \in DOMAIN op'[u] /\ op'[u].targets = op[u].targets
<1>1. Tame
  BY DEF Tame, Shape, Keys, FlipToManual
<1>2. /\ DOMAIN op' = Threads
      /\ \A u \in Threads : "targets" \in DOMAIN op'[u] /\ op'[u].targets = op[u].targets
  BY DEF Shape, FlipToManual, Shared
<1> QED
  BY <1>1, <1>2

\* The operation of t goes on, or returns: only t moves.
LEMMA ContinueFrame ==
    ASSUME Shape, NEW t \in Threads, NEW label, NEW l, "targets" \in DOMAIN l,
           Continue(t, label, l)
    PROVE  /\ DOMAIN pc' = Threads /\ DOMAIN op' = Threads
           /\ \A u \in Threads : "targets" \in DOMAIN op'[u]
           /\ \A u \in Threads \ {t} : pc'[u] = pc[u] /\ op'[u].targets = op[u].targets
           /\ pc'[t] = label /\ op'[t] = l
  BY DEF Shape, Continue, Goto

\* A return resets the locals of t and releases operation_lock if t holds it.
LEMMA ReturnFrame ==
    ASSUME Shape, NEW t \in Threads, Return(t), UNCHANGED chan
    PROVE  Frame(t) /\ pc'[t] = "idle"
<1>1. "targets" \in DOMAIN NoOp
  BY DEF NoOp
<1> QED
  BY <1>1, ContinueFrame DEF Shape, Return, Unlock, Frame

\* A step of t to the next label leaves every local alone.
LEMMA GotoFrame ==
    ASSUME Shape, NEW t \in Threads, NEW label, Goto(t, label), UNCHANGED <<op, chan>>,
           oplock' = oplock \/ oplock \in {t, NoThread}
    PROVE  Frame(t) /\ pc'[t] = label
  BY DEF Shape, Goto, Frame

-----------------------------------------------------------------------------
(***************************************************************************)
(* The steps of a REST thread                                              *)
(***************************************************************************)
\* What a step of a REST thread that records no entry does.
RestEffect(t) ==
    /\ Tame
    /\ Frame(t)
    /\ chan'.next = chan.next
    /\ Installing(t)' => \/ /\ Installing(t)
                            /\ UNCHANGED oplock
                            /\ op'[t].targets = op[t].targets
                         \/ /\ oplock = NoThread /\ oplock' = t
                            /\ ~AnyOwned(op'[t].targets, "auto")

\* _install_resource_limit takes operation_lock and refuses auto-limited cgroups.
LEMMA LimitEffect ==
    ASSUME Shape, NEW t \in Rest, NEW app, NEW T, NEW want, Limit(t, app, T, want)
    PROVE  RestEffect(t)
<1> DEFINE l == [NoOp EXCEPT !.app = app, !.key = Min(T), !.targets = T, !.parts = want,
                             !.controlled = TRUE]
           label == IF "sys" \in want THEN "write_sys" ELSE "write_io"
<1>1. t \in Threads
  BY DEF Threads
<1>2. "targets" \in DOMAIN l /\ l.targets = T
  BY DEF NoOp
<1>3. Continue(t, label, l)
  BY DEF Limit
<1>4. oplock = NoThread /\ oplock' = t /\ ~AnyOwned(T, "auto") /\ UNCHANGED <<registry, chan>>
  BY DEF Limit, registryVars
<1> HIDE DEF l, label
<1>5. /\ DOMAIN pc' = Threads /\ DOMAIN op' = Threads
      /\ \A u \in Threads : "targets" \in DOMAIN op'[u]
      /\ \A u \in Threads \ {t} : pc'[u] = pc[u] /\ op'[u].targets = op[u].targets
      /\ op'[t] = l
  BY <1>1, <1>2, <1>3, ContinueFrame
<1>6. Frame(t)
  BY <1>4, <1>5 DEF Frame, Shape
<1> QED
  BY <1>2, <1>4, <1>5, <1>6, UnchangedTame DEF RestEffect

\* The writes of _install_resource_limit keep its targets and the lock.
LEMMA WriteEffect ==
    ASSUME Shape, NEW t \in Rest, WriteSys(t) \/ WriteIo(t)
    PROVE  RestEffect(t)
<1>1. t \in Threads /\ Installing(t)
  BY DEF Threads, WriteSys, WriteIo, Installing
<1>2. UNCHANGED <<registry, oplock, chan>>
  BY DEF WriteSys, WriteIo, registryVars
<1>3. \E label, l : /\ "targets" \in DOMAIN l /\ l.targets = op[t].targets
                    /\ Continue(t, label, l)
  <2>1. CASE WriteSys(t)
    <3>1. PICK W \in IF running THEN Succeed(op[t].targets) ELSE {{}}, mem \in BOOLEAN :
             LET landed == Landed(op[t], W)
                 defer == landed /\ mem /\ "io" \in op[t].parts
             IN  Continue(t, IF "io" \in op[t].parts /\ ~defer THEN "write_io" ELSE "record",
                    [op[t] EXCEPT !.done = IF landed THEN {"sys"} ELSE {}, !.defer = defer])
      BY <2>1 DEF WriteSys
    <3> DEFINE defer == Landed(op[t], W) /\ mem /\ "io" \in op[t].parts
               done == IF Landed(op[t], W) THEN {"sys"} ELSE {}
               label == IF "io" \in op[t].parts /\ ~defer THEN "write_io" ELSE "record"
    <3>2. Continue(t, label, [op[t] EXCEPT !.done = done, !.defer = defer])
      BY <3>1
    <3> HIDE DEF defer, done, label
    <3> DEFINE l == [op[t] EXCEPT !.done = done, !.defer = defer]
    <3>3. "targets" \in DOMAIN l /\ l.targets = op[t].targets
      BY <1>1 DEF Shape
    <3> HIDE DEF l
    <3> QED
      BY <3>2, <3>3 DEF l
  <2>2. CASE WriteIo(t)
    <3>1. PICK W : Continue(t, "record",
                     [op[t] EXCEPT !.done = IF Landed(op[t], W) THEN @ \cup {"io"} ELSE @])
      BY <2>2 DEF WriteIo
    <3> QED
      BY <1>1, <3>1 DEF Shape
  <2> QED
    BY <2>1, <2>2
<1>4. PICK label, l : /\ "targets" \in DOMAIN l /\ l.targets = op[t].targets
                      /\ Continue(t, label, l)
  BY <1>3
<1>5. Frame(t) /\ op'[t].targets = op[t].targets
  BY <1>1, <1>2, <1>4, ContinueFrame DEF Frame, Shape
<1> QED
  BY <1>1, <1>2, <1>5, UnchangedTame DEF RestEffect

\* Popping an entry to restore it, and looking one up to give it back.
LEMMA LookupEffect ==
    ASSUME Shape, NEW t \in Rest, NEW app,
           Restore(t, app) \/ UserRestore(t, app)
    PROVE  RestEffect(t)
<1>1. t \in Threads
  BY DEF Threads
<1>2. UNCHANGED <<oplock, chan>>
  BY DEF Restore, UserRestore
<1>3. Tame
  BY UnchangedTame, PopTame DEF Restore, UserRestore, registryVars
<1>4. \E label, l : /\ "targets" \in DOMAIN l
                    /\ label \in {"lift_manual", "lift_user"}
                    /\ Continue(t, label, l)
  <2>1. CASE Restore(t, app)
    <3> DEFINE k == by_public_id(app, "manual")
               l == [NoOp EXCEPT !.app = app, !.key = k, !.targets = registry[k].cgroups,
                                 !.parts = registry[k].parts]
    <3>1. "targets" \in DOMAIN l
      BY DEF NoOp
    <3>2. Continue(t, "lift_manual", l)
      BY <2>1 DEF Restore
    <3> HIDE DEF l
    <3> QED
      BY <3>1, <3>2
  <2>2. CASE UserRestore(t, app)
    <3> DEFINE public == by_public_id(app, "auto")
               k == IF public # NoKey THEN public ELSE by_any_id(app, "auto")
               l == [NoOp EXCEPT !.app = registry[k].app, !.key = k, !.id = registry[k].id,
                                 !.targets = registry[k].cgroups, !.parts = registry[k].parts,
                                 !.controlled = registry[k].controlled]
    <3>1. "targets" \in DOMAIN l
      BY DEF NoOp
    <3>2. Continue(t, "lift_user", l)
      BY <2>2 DEF UserRestore
    <3> HIDE DEF l
    <3> QED
      BY <3>1, <3>2
  <2> QED
    BY <2>1, <2>2
<1>5. PICK label, l : /\ "targets" \in DOMAIN l
                      /\ label \in {"lift_manual", "lift_user"}
                      /\ Continue(t, label, l)
  BY <1>4
<1>6. Frame(t) /\ pc'[t] = label
  BY <1>1, <1>2, <1>5, ContinueFrame DEF Frame, Shape
<1> QED
  BY <1>2, <1>3, <1>5, <1>6 DEF RestEffect, Installing

\* The deferred IO cap: t is past its record.
LEMMA DeferEffect ==
    ASSUME Shape, NEW t \in Rest, Deferred(t) \/ DeferWrite(t) \/ DeferRecord(t)
    PROVE  RestEffect(t)
<1>1. t \in Threads
  BY DEF Threads
<1>2. CASE Deferred(t)
  <2>1. UNCHANGED <<registry, chan>> /\ oplock = NoThread
    BY <1>2 DEF Deferred, registryVars
  <2>2. Frame(t) /\ pc'[t] \in {"defer_write", "idle"}
    BY <1>1, <1>2, <2>1, GotoFrame, ReturnFrame DEF Deferred
  <2> QED
    BY <2>1, <2>2, UnchangedTame DEF RestEffect, Installing
<1>3. CASE DeferWrite(t)
  <2>1. UNCHANGED <<registry, oplock, chan>>
    BY <1>3 DEF DeferWrite, registryVars
  <2>2. PICK W : Continue(t, "defer_record",
                    [op[t] EXCEPT !.done = IF Landed(op[t], W) THEN {"io"} ELSE {}])
    BY <1>3 DEF DeferWrite
  <2> DEFINE l == [op[t] EXCEPT !.done = IF Landed(op[t], W) THEN {"io"} ELSE {}]
  <2>3. "targets" \in DOMAIN l
    BY <1>1 DEF Shape
  <2> HIDE DEF l
  <2>4. Frame(t) /\ pc'[t] = "defer_record"
    BY <1>1, <2>1, <2>2, <2>3, ContinueFrame DEF Frame, Shape, l
  <2> QED
    BY <2>1, <2>4, UnchangedTame DEF RestEffect, Installing
<1>4. CASE DeferRecord(t)
  <2>1. CASE op[t].key \in Keys
    <3>1. SetParts(op[t].key, (registry[op[t].key].parts \ {"io"}) \cup op[t].done, {t})
      BY <1>4, <2>1 DEF DeferRecord
    <3>2. Goto(t, "idle") /\ Unlock(t)
      BY <1>4, <2>1 DEF DeferRecord
    <3>3. /\ Tame
          /\ DOMAIN op' = Threads
          /\ \A u \in Threads : "targets" \in DOMAIN op'[u]
          /\ \A u \in Threads \ {t} : op'[u].targets = op[u].targets
          /\ "next" \in DOMAIN chan'
          /\ chan'.next = chan.next
      BY <2>1, <3>1, SetPartsTame
    <3>4. Frame(t) /\ pc'[t] = "idle"
      BY <1>1, <3>2, <3>3 DEF Frame, Shape, Goto, Unlock
    <3> QED
      BY <3>3, <3>4 DEF RestEffect, Installing
  <2>2. CASE op[t].key \notin Keys
    <3>1. Return(t) /\ UNCHANGED <<registry, chan>>
      BY <1>4, <2>2 DEF DeferRecord
    <3> QED
      BY <1>1, <3>1, ReturnFrame, UnchangedTame DEF RestEffect, Installing
  <2> QED
    BY <2>1, <2>2
<1> QED
  BY <1>2, <1>3, <1>4

\* The writes and the bookkeeping of a restore.
LEMMA RestoreEffect ==
    ASSUME Shape, NEW t \in Rest, LiftManual(t) \/ LiftUser(t) \/ PopUser(t)
    PROVE  RestEffect(t)
<1>1. t \in Threads /\ UNCHANGED chan
  BY DEF Threads, LiftManual, LiftUser, PopUser
<1>2. Tame
  BY UnchangedTame, PopTame DEF LiftManual, LiftUser, PopUser, registryVars
<1>3. Frame(t) /\ pc'[t] \in {"idle", "pop_user"}
  BY <1>1, ReturnFrame, GotoFrame DEF LiftManual, LiftUser, PopUser
<1> QED
  BY <1>1, <1>2, <1>3 DEF RestEffect, Installing

\* A hand-over, from whatever thread.
LEMMA HandoffEffect ==
    ASSUME Shape, NEW t \in Threads, NEW app,
           LockToManual(t, app) \/ AdoptAutoLimit(t, app)
    PROVE  /\ Tame /\ Frame(t) /\ UNCHANGED <<pc, chan, oplock>>
           /\ \A u \in Threads : op'[u].targets = op[u].targets
<1>1. UNCHANGED <<pc, chan, oplock>>
  BY DEF LockToManual, AdoptAutoLimit
<1>2. \E k, a : FlipToManual(k, a)
  BY DEF LockToManual, AdoptAutoLimit
<1>3. PICK k, a : FlipToManual(k, a)
  BY <1>2
<1>4. CASE k \in Keys
  BY <1>1, <1>3, <1>4, FlipTame DEF Frame, Shape
<1>5. CASE k \notin Keys
  <2>1. Tame
    BY <1>3, <1>5 DEF FlipToManual, Tame, Shape, Keys
  <2>2. /\ DOMAIN op' = Threads
        /\ \A u \in Threads : "targets" \in DOMAIN op'[u] /\ op'[u].targets = op[u].targets
    BY <1>3 DEF FlipToManual, Shared, Shape
  <2> QED
    BY <1>1, <2>1, <2>2 DEF Frame, Shape
<1> QED
  BY <1>4, <1>5

\* Every step of a REST thread but the record of a new entry.
LEMMA RestStep ==
    ASSUME Shape, NEW t \in Rest, RestNext(t), ~Record(t)
    PROVE  RestEffect(t)
<1>1. t \in Threads
  BY DEF Threads
<1>2. ASSUME NEW app, LockToManual(t, app) \/ AdoptAutoLimit(t, app) PROVE RestEffect(t)
  <2>1. pc[t] = "idle"
    BY <1>2 DEF LockToManual, AdoptAutoLimit, MayStart
  <2> QED
    BY <1>1, <1>2, <2>1, HandoffEffect DEF RestEffect, Installing
<1>3. CASE Unexclude(t)
  <2>1. UNCHANGED <<registry, oplock, pc, op, chan>> /\ pc[t] = "idle"
    BY <1>3 DEF Unexclude, MayStart
  <2>2. Frame(t)
    BY <2>1 DEF Frame, Shape
  <2> QED
    BY <2>1, <2>2, UnchangedTame DEF RestEffect, Installing
<1> QED
  BY <1>2, <1>3, LimitEffect, WriteEffect, LookupEffect, DeferEffect, RestoreEffect
     DEF RestNext

-----------------------------------------------------------------------------
(***************************************************************************)
(* The steps of the monitor                                                *)
(***************************************************************************)
\* What a step of the monitor that records no entry does.
MonitorEffect ==
    /\ Tame
    /\ Frame(Monitor)
    /\ Applying' => \/ /\ Applying
                       /\ UNCHANGED oplock
                       /\ op'[Monitor].targets = op[Monitor].targets
                    \/ /\ oplock = NoThread /\ oplock' = Monitor
                       /\ ~AnyOwned(op'[Monitor].targets, "manual")

\* Picking a target takes no lock and starts no apply.
LEMMA SelectEffect ==
    ASSUME Shape, NEW app, NEW c, NEW part, SelectTarget(app, c, part)
    PROVE  MonitorEffect
<1>1. Monitor \in Threads
  BY DEF Threads
<1>2. UNCHANGED <<registry, oplock, chan>>
  BY DEF SelectTarget, registryVars
<1> DEFINE T == IF app \in controlled THEN LiveOf(app) ELSE {c}
           l == [NoOp EXCEPT !.app = IF app \in controlled \/ part = "sys" THEN app ELSE c,
                             !.key = Min(T), !.targets = T, !.parts = {part},
                             !.controlled = app \in controlled]
<1>3. Continue(Monitor, "begin_apply", l)
  BY DEF SelectTarget
<1>4. "targets" \in DOMAIN l
  BY DEF NoOp
<1> HIDE DEF l
<1>5. Frame(Monitor) /\ pc'[Monitor] = "begin_apply"
  BY <1>1, <1>2, <1>3, <1>4, ContinueFrame DEF Frame, Shape
<1> QED
  BY <1>2, <1>5, UnchangedTame DEF MonitorEffect, Applying

\* _apply_resource_limits up to its upsert.
LEMMA ApplyEffect ==
    ASSUME Shape, BeginApply \/ YieldIo \/ WriteAuto
    PROVE  MonitorEffect
<1>1. Monitor \in Threads /\ UNCHANGED registry
  BY DEF Threads, BeginApply, YieldIo, WriteAuto, registryVars
<1>2. Tame
  BY <1>1, UnchangedTame
<1>3. CASE BeginApply
  <2>1. UNCHANGED chan /\ oplock = NoThread
    BY <1>3 DEF BeginApply
  <2>2. CASE ManuallyLimited(op[Monitor].targets)
    <3>1. Frame(Monitor) /\ pc'[Monitor] = "idle"
      BY <1>1, <1>3, <2>1, <2>2, ReturnFrame DEF BeginApply
    <3> QED
      BY <1>2, <3>1 DEF MonitorEffect, Applying
  <2>3. CASE ~ManuallyLimited(op[Monitor].targets)
    <3>1. oplock' = Monitor /\ UNCHANGED op
      BY <1>3, <2>3 DEF BeginApply
    <3>2. Frame(Monitor)
      BY <1>1, <1>3, <2>1, <2>3, GotoFrame DEF BeginApply
    <3> QED
      BY <1>2, <2>1, <2>3, <3>1, <3>2 DEF MonitorEffect, ManuallyLimited
  <2> QED
    BY <2>2, <2>3
<1>4. CASE YieldIo
  <2>1. UNCHANGED <<oplock, op>> /\ pc[Monitor] = "yield"
    BY <1>4 DEF YieldIo
  <2>2. "next" \in DOMAIN chan'
    BY <1>4 DEF YieldIo, Shape
  <2>3. Frame(Monitor)
    BY <1>1, <1>4, <2>1, <2>2 DEF YieldIo, Frame, Shape, Goto
  <2> QED
    BY <1>2, <2>1, <2>3 DEF MonitorEffect, Applying
<1>5. CASE WriteAuto
  <2>1. UNCHANGED chan /\ pc[Monitor] = "write"
    BY <1>5 DEF WriteAuto
  <2>2. \/ Return(Monitor)
        \/ /\ UNCHANGED oplock
           /\ Continue(Monitor, "upsert", [op[Monitor] EXCEPT !.done = op[Monitor].parts])
    BY <1>5 DEF WriteAuto
  <2>3. CASE Return(Monitor)
    BY <1>1, <1>2, <2>1, <2>3, ReturnFrame DEF MonitorEffect, Applying
  <2>4. CASE /\ UNCHANGED oplock
             /\ Continue(Monitor, "upsert", [op[Monitor] EXCEPT !.done = op[Monitor].parts])
    <3> DEFINE l == [op[Monitor] EXCEPT !.done = op[Monitor].parts]
    <3>1. "targets" \in DOMAIN l /\ l.targets = op[Monitor].targets
      BY <1>1 DEF Shape
    <3> HIDE DEF l
    <3>2. Frame(Monitor) /\ op'[Monitor].targets = op[Monitor].targets
      BY <1>1, <2>1, <2>4, <3>1, ContinueFrame DEF Frame, Shape, l
    <3> QED
      BY <1>2, <2>1, <2>4, <3>2 DEF MonitorEffect, Applying
  <2> QED
    BY <2>2, <2>3, <2>4
<1> QED
  BY <1>3, <1>4, <1>5

\* _restore_channel_for, by itself or inside an apply.
LEMMA StagedEffect ==
    ASSUME Shape, (\E part, stage : StartRestore(part, stage)) \/ Lift \/ Account
    PROVE  MonitorEffect
<1>1. Monitor \in Threads
  BY DEF Threads
<1>2. ASSUME NEW part, NEW stage, StartRestore(part, stage) PROVE MonitorEffect
  <2>1. UNCHANGED <<registry, oplock, op>> /\ Goto(Monitor, "lift")
    BY <1>2 DEF StartRestore, registryVars
  <2>2. "next" \in DOMAIN chan' /\ chan'.next = "idle"
    BY <1>2 DEF StartRestore
  <2>3. Frame(Monitor) /\ pc'[Monitor] = "lift"
    BY <1>1, <2>1, <2>2 DEF Frame, Shape, Goto
  <2> QED
    BY <2>1, <2>2, <2>3, UnchangedTame DEF MonitorEffect, Applying
<1>3. CASE Lift
  <2>1. UNCHANGED oplock /\ Goto(Monitor, "account") /\ pc[Monitor] = "lift"
    BY <1>3 DEF Lift
  <2>2. /\ Tame
        /\ DOMAIN op' = Threads
        /\ \A u \in Threads : "targets" \in DOMAIN op'[u] /\ op'[u].targets = op[u].targets
        /\ "next" \in DOMAIN chan'
        /\ chan'.next = chan.next
    <3>1. CASE chan.key \in Keys /\ SetParts(chan.key, registry[chan.key].parts \ {chan.part}, {})
      BY <3>1, SetPartsTame
    <3>2. CASE UNCHANGED <<registry, op>> /\ \E W : chan' = [chan EXCEPT !.ok = ~running \/ chan.key \in W]
      <4>1. "next" \in DOMAIN chan' /\ chan'.next = chan.next
        BY <3>2 DEF Shape
      <4> QED
        BY <3>2, <4>1, UnchangedTame DEF Shape
    <3> QED
      BY <1>3, <3>1, <3>2 DEF Lift
  <2>3. Frame(Monitor) /\ pc'[Monitor] = "account"
    BY <1>1, <2>1, <2>2 DEF Frame, Shape, Goto
  <2> QED
    BY <1>1, <2>1, <2>2, <2>3 DEF MonitorEffect, Applying
<1>4. CASE Account
  <2>1. chan' = NoChannel /\ pc[Monitor] = "account"
    BY <1>4 DEF Account
  <2>2. "next" \in DOMAIN chan' /\ chan'.next = "idle"
    BY <2>1 DEF NoChannel
  <2>3. \/ Return(Monitor)
        \/ chan.next = "write" /\ Goto(Monitor, "write") /\ UNCHANGED <<op, oplock>>
    BY <1>4 DEF Account
  <2>4. Tame
    <3>1. CASE Pop({chan.key})
      BY <3>1, PopTame
    <3>2. CASE /\ chan.key \in Keys
               /\ \/ PutLast(chan.key, registry[chan.key])
                  \/ PutLast(chan.key, [registry[chan.key] EXCEPT !.partial = NextPartial(@)])
      BY <3>2, PutLastTame
    <3>3. CASE UNCHANGED registry
      BY <3>3, UnchangedTame
    <3> QED
      BY <1>4, <3>1, <3>2, <3>3 DEF Account
  <2>5. CASE Return(Monitor)
    <3>1. Frame(Monitor) /\ pc'[Monitor] = "idle"
      <4>1. "targets" \in DOMAIN NoOp
        BY DEF NoOp
      <4> QED
        BY <1>1, <2>2, <2>5, <4>1, ContinueFrame DEF Return, Unlock, Frame
    <3> QED
      BY <2>4, <3>1 DEF MonitorEffect, Applying
  <2>6. CASE chan.next = "write" /\ Goto(Monitor, "write") /\ UNCHANGED <<op, oplock>>
    BY <1>1, <2>1, <2>2, <2>4, <2>6 DEF MonitorEffect, Applying, Frame, Shape, Goto
  <2> QED
    BY <2>3, <2>5, <2>6
<1> QED
  BY <1>2, <1>3, <1>4

\* The reaper.
LEMMA ReapEffect ==
    ASSUME Shape, Reap \/ ReapOne
    PROVE  MonitorEffect
<1>1. Monitor \in Threads /\ UNCHANGED <<oplock, op, chan>>
  BY DEF Threads, Reap, ReapOne
<1>2. Tame
  BY PopTame, UnchangedTame DEF Reap, ReapOne, registryVars
<1>3. \E label \in {"idle", "reap"} : Goto(Monitor, label)
  BY DEF Reap, ReapOne
<1>4. Frame(Monitor) /\ pc'[Monitor] \in {"idle", "reap"}
  BY <1>1, <1>3, GotoFrame
<1> QED
  BY <1>2, <1>4 DEF MonitorEffect, Applying

\* Every step of the monitor but the upsert.
LEMMA MonitorStep ==
    ASSUME Shape, MonitorNext, ~Upsert
    PROVE  MonitorEffect
<1>1. ASSUME NEW app, LockToManual(Monitor, app) PROVE MonitorEffect
  <2>1. Monitor \in Threads
    BY DEF Threads
  <2>2. pc[Monitor] = "idle"
    BY <1>1 DEF LockToManual, MayStart
  <2> QED
    BY <1>1, <2>1, <2>2, HandoffEffect DEF MonitorEffect, Applying
<1> QED
  BY <1>1, SelectEffect, ApplyEffect, StagedEffect, ReapEffect DEF MonitorNext

-----------------------------------------------------------------------------
(***************************************************************************)
(* The other steps, and the two that record an entry                       *)
(***************************************************************************)
\* Shutdown and the environment.
LEMMA OtherStep ==
    ASSUME Shape, StopRunning \/ Sweep \/ (\E c \in Cgroups : Exit(c) \/ Launch(c))
    PROVE  /\ Tame /\ UNCHANGED <<oplock, op, chan>>
           /\ DOMAIN pc' = Threads
           /\ \A t \in Threads \ {Main} : pc'[t] = pc[t]
<1>1. UNCHANGED <<oplock, op, chan>>
  BY DEF StopRunning, Sweep, Exit, Launch
<1>2. Tame
  BY PopTame, UnchangedTame DEF StopRunning, Sweep, Exit, Launch, registryVars
<1>3. DOMAIN pc' = Threads /\ \A t \in Threads \ {Main} : pc'[t] = pc[t]
  BY DEF Shape, StopRunning, Sweep, Exit, Launch, Goto
<1> QED
  BY <1>1, <1>2, <1>3

\* The monitor records its entry: what it checked makes the entry disjoint from
\* every user-owned one, and so does OwnersDisjoint for what it merges with.
LEMMA UpsertStep ==
    ASSUME IInv, Upsert
    PROVE  IInv'
<1>1. Monitor \in Threads /\ Monitor \notin Rest /\ Shape
  BY LifecycleAssumption DEF Threads, IInv
<1>2. Return(Monitor) /\ UNCHANGED chan /\ pc[Monitor] = "upsert"
  BY DEF Upsert
<1>3. Frame(Monitor) /\ pc'[Monitor] = "idle"
  BY <1>1, <1>2, ReturnFrame
<1>4. oplock = Monitor
  BY <1>2 DEF IInv, ApplyInv, Applying
<1> DEFINE l == op[Monitor]
           prev == registry[l.key]
           fresh == [id |-> FreshId, app |-> l.app, source |-> "auto", adopted |-> FALSE,
                     controlled |-> l.controlled, parts |-> l.done, partial |-> {},
                     cgroups |-> l.targets]
           merges == l.key \in Keys /\ prev.source = "auto"
           entry == IF merges THEN Merge(prev, fresh) ELSE fresh
<1>5. Put(l.key, entry)
  BY DEF Upsert
<1>6. /\ {"source", "adopted", "cgroups"} \subseteq DOMAIN entry
      /\ entry.source = "auto"
      /\ entry.cgroups = IF merges THEN l.targets \cup prev.cgroups ELSE l.targets
  <2>1. CASE merges
    BY <2>1 DEF Merge
  <2>2. CASE ~merges
    BY <2>2
  <2> QED
    BY <2>1, <2>2
<1> HIDE DEF entry
<1>7. /\ Keys' = Keys \cup {l.key}
      /\ \A k \in Keys' : registry'[k] = IF k = l.key THEN entry ELSE registry[k]
  BY <1>5 DEF Put, Keys
<1>8. Shape'
  BY <1>1, <1>3, <1>6, <1>7 DEF Shape, Frame
<1>9. ApplyInv'
  BY <1>3 DEF ApplyInv, Applying
<1>10. InstallInv'
  BY <1>1, <1>3, <1>4 DEF InstallInv, Installing, IInv, Frame, Threads
<1>11. OwnersDisjoint'
  <2> SUFFICES ASSUME NEW j \in Keys', NEW k \in Keys',
                      registry'[j].source = "auto", registry'[k].source = "manual",
                      ~registry'[k].adopted
               PROVE  registry'[j].cgroups \cap registry'[k].cgroups = {}
    BY DEF OwnersDisjoint
  <2>1. k # l.key /\ k \in Keys /\ UserOwned(registry[k]) /\ registry'[k] = registry[k]
    BY <1>6, <1>7 DEF UserOwned
  <2>2. registry[k].cgroups \cap l.targets = {}
    BY <1>2, <2>1 DEF IInv, ApplyInv, Applying
  <2>3. CASE j # l.key
    BY <1>7, <2>1, <2>3 DEF IInv, OwnersDisjoint, UserOwned
  <2>4. CASE j = l.key
    <3>1. merges => prev.cgroups \cap registry[k].cgroups = {}
      BY <2>1 DEF IInv, OwnersDisjoint, UserOwned
    <3> QED
      BY <1>6, <1>7, <2>1, <2>2, <2>4, <3>1
  <2> QED
    BY <2>3, <2>4
<1> QED
  BY <1>8, <1>9, <1>10, <1>11 DEF IInv

\* A REST thread records its entry (or, when no cap landed, nothing).
LEMMA RecordStep ==
    ASSUME IInv, NEW t \in Rest, Record(t)
    PROVE  IInv'
<1>1. t \in Threads /\ Monitor \notin Rest /\ Monitor \in Threads /\ Shape
  BY LifecycleAssumption DEF Threads, IInv
<1>2. oplock = t /\ UNCHANGED chan /\ pc[t] = "record"
  BY DEF Record, IInv, InstallInv, Installing
<1>3. Frame(t) /\ pc'[t] \in {"idle", "deferred"}
  BY <1>1, <1>2, ReturnFrame, GotoFrame DEF Record
<1>4. ~Applying /\ ~Applying'
  <2>1. ~Applying
    BY <1>1, <1>2 DEF IInv, ApplyInv
  <2>2. pc'[Monitor] = pc[Monitor]
    BY <1>1, <1>3 DEF Frame
  <2> QED
    BY <1>2, <2>1, <2>2 DEF Applying
<1>5. \A u \in Rest : ~Installing(u)'
  BY <1>1, <1>2, <1>3 DEF IInv, InstallInv, Installing, Frame, Threads
<1> DEFINE l == op[t]
           entry == [id |-> FreshId, app |-> l.app, source |-> "manual", adopted |-> FALSE,
                     controlled |-> TRUE, parts |-> l.done, partial |-> {},
                     cgroups |-> l.targets]
<1>6. UNCHANGED registry \/ Put(l.key, entry)
  BY DEF Record, registryVars
<1>7. /\ {"source", "adopted", "cgroups"} \subseteq DOMAIN entry
      /\ entry.source = "manual"
      /\ entry.cgroups = l.targets
  OBVIOUS
<1> HIDE DEF entry
<1>8. CASE UNCHANGED registry
  BY <1>1, <1>3, <1>4, <1>5, <1>8
     DEF IInv, Shape, Frame, ApplyInv, InstallInv, OwnersDisjoint, Keys
<1>9. CASE Put(l.key, entry)
  <2>1. /\ Keys' = Keys \cup {l.key}
        /\ \A k \in Keys' : registry'[k] = IF k = l.key THEN entry ELSE registry[k]
    BY <1>9 DEF Put, Keys
  <2>2. Shape'
    BY <1>1, <1>3, <1>7, <2>1 DEF Shape, Frame
  <2>3. OwnersDisjoint'
    <3> SUFFICES ASSUME NEW j \in Keys', NEW k \in Keys',
                        registry'[j].source = "auto", registry'[k].source = "manual",
                        ~registry'[k].adopted
                 PROVE  registry'[j].cgroups \cap registry'[k].cgroups = {}
      BY DEF OwnersDisjoint
    <3>1. j # l.key /\ j \in Keys /\ registry'[j] = registry[j]
      BY <1>7, <2>1
    <3>2. registry[j].cgroups \cap l.targets = {}
      BY <1>2, <3>1 DEF IInv, InstallInv, Installing
    <3>3. CASE k = l.key
      BY <1>7, <2>1, <3>1, <3>2, <3>3
    <3>4. CASE k # l.key
      BY <2>1, <3>1, <3>4 DEF IInv, OwnersDisjoint
    <3> QED
      BY <3>3, <3>4
  <2> QED
    BY <1>4, <1>5, <2>2, <2>3 DEF IInv, ApplyInv, InstallInv
<1> QED
  BY <1>6, <1>8, <1>9

-----------------------------------------------------------------------------
(***************************************************************************)
(* The invariant                                                           *)
(***************************************************************************)
\* A tame step keeps the owners apart, and makes no cgroup owned that was not.
LEMMA TameKeeps ==
    ASSUME Tame, OwnersDisjoint, NEW C
    PROVE  /\ OwnersDisjoint'
           /\ (\A k \in Keys : UserOwned(registry[k]) => registry[k].cgroups \cap C = {})
                => \A k \in Keys' : UserOwned(registry'[k]) => registry'[k].cgroups \cap C = {}
           /\ (\A k \in Keys : registry[k].source = "auto" => registry[k].cgroups \cap C = {})
                => \A k \in Keys' : registry'[k].source = "auto" => registry'[k].cgroups \cap C = {}
  BY DEF Tame, OwnersDisjoint, UserOwned

\* A thread that the step leaves alone keeps its part of the invariant.
LEMMA InstallKept ==
    ASSUME IInv, Tame, NEW u \in Rest, pc'[u] = pc[u], op'[u].targets = op[u].targets,
           oplock' = oplock \/ oplock # u, Installing(u)'
    PROVE  /\ oplock' = u
           /\ \A k \in Keys' : registry'[k].source = "auto"
                                => registry'[k].cgroups \cap op'[u].targets = {}
<1>1. Installing(u)
  BY DEF Installing
<1>2. oplock = u /\ \A k \in Keys : registry[k].source = "auto"
                                    => registry[k].cgroups \cap op[u].targets = {}
  BY <1>1 DEF IInv, InstallInv
<1> QED
  BY <1>2, TameKeeps DEF IInv

\* The same for the monitor.
LEMMA ApplyKept ==
    ASSUME IInv, Tame, pc'[Monitor] = pc[Monitor], op'[Monitor].targets = op[Monitor].targets,
           chan'.next = chan.next, oplock' = oplock \/ oplock # Monitor
    PROVE  ApplyInv'
<1> SUFFICES ASSUME Applying' PROVE /\ oplock' = Monitor
                                    /\ \A k \in Keys' : UserOwned(registry'[k])
                                         => registry'[k].cgroups \cap op'[Monitor].targets = {}
  BY DEF ApplyInv, UserOwned
<1>1. Applying
  BY DEF Applying
<1>2. oplock = Monitor /\ \A k \in Keys : UserOwned(registry[k])
                                          => registry[k].cgroups \cap op[Monitor].targets = {}
  BY <1>1 DEF IInv, ApplyInv
<1> QED
  BY <1>2, TameKeeps DEF IInv

\* Every step keeps the inductive invariant.
LEMMA InvStep == IInv /\ [Next]_vars => IInv'
<1> SUFFICES ASSUME IInv, [Next]_vars PROVE IInv'
  OBVIOUS
<1>1. /\ Shape /\ Monitor \in Threads /\ Rest \subseteq Threads /\ Main \notin Rest
      /\ Monitor \notin Rest /\ Monitor # Main /\ NoThread \notin Threads
  BY LifecycleAssumption DEF IInv, Threads
<1>2. ASSUME NEW t \in Rest, RestNext(t) PROVE IInv'
  <2>1. CASE Record(t)
    BY <2>1, RecordStep
  <2>2. CASE ~Record(t)
    <3>1. RestEffect(t)
      BY <1>1, <1>2, <2>2, RestStep
    <3>2. Tame /\ Frame(t) /\ OwnersDisjoint'
      BY <3>1, TameKeeps DEF RestEffect, IInv
    <3>3. Shape'
      BY <1>1, <3>2 DEF Shape, Frame, Tame
    <3>4. ApplyInv'
      <4>1. /\ pc'[Monitor] = pc[Monitor] /\ op'[Monitor].targets = op[Monitor].targets
            /\ chan'.next = chan.next /\ (oplock' = oplock \/ oplock # Monitor)
        BY <1>1, <3>1, <3>2 DEF RestEffect, Frame
      <4> QED
        BY <3>2, <4>1, ApplyKept
    <3>5. InstallInv'
      <4> SUFFICES ASSUME NEW u \in Rest, Installing(u)'
                   PROVE  /\ oplock' = u
                          /\ \A k \in Keys' : registry'[k].source = "auto"
                                => registry'[k].cgroups \cap op'[u].targets = {}
        BY DEF InstallInv, Installing
      <4>1. CASE u # t
        <5>1. /\ pc'[u] = pc[u] /\ op'[u].targets = op[u].targets
              /\ oplock' = oplock \/ oplock # u
          BY <1>1, <3>2, <4>1 DEF Frame
        <5> QED
          BY <3>2, <5>1, InstallKept
      <4>2. CASE u = t
        <5>1. CASE Installing(t) /\ UNCHANGED oplock /\ op'[t].targets = op[t].targets
          BY <3>2, <4>2, <5>1, TameKeeps DEF IInv, InstallInv
        <5>2. CASE oplock' = t /\ ~AnyOwned(op'[t].targets, "auto")
          <6>1. \A k \in Keys : registry[k].source = "auto"
                                => registry[k].cgroups \cap op'[t].targets = {}
            BY <5>2 DEF AnyOwned
          <6> QED
            BY <3>2, <4>2, <5>2, <6>1, TameKeeps DEF IInv
        <5> QED
          BY <3>1, <4>2, <5>1, <5>2 DEF RestEffect
      <4> QED
        BY <4>1, <4>2
    <3> QED
      BY <3>2, <3>3, <3>4, <3>5 DEF IInv
  <2> QED
    BY <2>1, <2>2
<1>3. CASE MonitorNext
  <2>1. CASE Upsert
    BY <2>1, UpsertStep
  <2>2. CASE ~Upsert
    <3>1. MonitorEffect
      BY <1>1, <1>3, <2>2, MonitorStep
    <3>2. Tame /\ Frame(Monitor) /\ OwnersDisjoint'
      BY <3>1, TameKeeps DEF MonitorEffect, IInv
    <3>3. Shape'
      BY <1>1, <3>2 DEF Shape, Frame, Tame
    <3>4. ApplyInv'
      <4> SUFFICES ASSUME Applying'
                   PROVE  /\ oplock' = Monitor
                          /\ \A k \in Keys' : UserOwned(registry'[k])
                                => registry'[k].cgroups \cap op'[Monitor].targets = {}
        BY DEF ApplyInv, UserOwned
      <4>1. CASE Applying /\ UNCHANGED oplock /\ op'[Monitor].targets = op[Monitor].targets
        BY <3>2, <4>1, TameKeeps DEF IInv, ApplyInv
      <4>2. CASE oplock' = Monitor /\ ~AnyOwned(op'[Monitor].targets, "manual")
        <5>1. \A k \in Keys : UserOwned(registry[k])
                              => registry[k].cgroups \cap op'[Monitor].targets = {}
          BY <4>2 DEF AnyOwned, UserOwned
        <5> QED
          BY <3>2, <4>2, <5>1, TameKeeps DEF IInv
      <4> QED
        BY <3>1, <4>1, <4>2 DEF MonitorEffect
    <3>5. InstallInv'
      <4> SUFFICES ASSUME NEW u \in Rest, Installing(u)'
                   PROVE  /\ oplock' = u
                          /\ \A k \in Keys' : registry'[k].source = "auto"
                                => registry'[k].cgroups \cap op'[u].targets = {}
        BY DEF InstallInv, Installing
      <4>1. /\ pc'[u] = pc[u] /\ op'[u].targets = op[u].targets
            /\ oplock' = oplock \/ oplock # u
        BY <1>1, <3>2 DEF Frame
      <4> QED
        BY <3>2, <4>1, InstallKept
    <3> QED
      BY <3>2, <3>3, <3>4, <3>5 DEF IInv
  <2> QED
    BY <2>1, <2>2
<1>4. CASE \/ StopRunning
           \/ Sweep
           \/ \E c \in Cgroups : Exit(c) \/ Launch(c)
  <2>1. /\ Tame /\ UNCHANGED <<oplock, op, chan>>
        /\ DOMAIN pc' = Threads
        /\ \A t \in Threads \ {Main} : pc'[t] = pc[t]
    BY <1>1, <1>4, OtherStep
  <2>2. OwnersDisjoint' /\ Shape'
    BY <1>1, <2>1, TameKeeps DEF IInv, Shape, Tame
  <2>3. ApplyInv'
    BY <1>1, <2>1, ApplyKept
  <2>4. InstallInv'
    <3> SUFFICES ASSUME NEW u \in Rest, Installing(u)'
                 PROVE  /\ oplock' = u
                        /\ \A k \in Keys' : registry'[k].source = "auto"
                              => registry'[k].cgroups \cap op'[u].targets = {}
      BY DEF InstallInv, Installing
    <3>1. pc'[u] = pc[u]
      BY <1>1, <2>1
    <3> QED
      BY <2>1, <3>1, InstallKept
  <2> QED
    BY <2>2, <2>3, <2>4 DEF IInv
<1>5. CASE UNCHANGED vars
  BY <1>5 DEF vars, IInv, Shape, ApplyInv, InstallInv, OwnersDisjoint, Applying,
              Installing, Keys
<1> QED
  BY <1>2, <1>3, <1>4, <1>5 DEF Next

\* The pressure loop and a user-installed limit never own the same cgroup,
\* however their operations interleave.
THEOREM OwnersAreDisjoint == Spec => []OwnersDisjoint
<1>1. Init => IInv
  <2> SUFFICES ASSUME Init PROVE IInv
    OBVIOUS
  <2>1. Keys = {} /\ DOMAIN pc = Threads /\ DOMAIN op = Threads
    BY DEF Init, RegistryInit, Keys
  <2>2. \A t \in Threads : pc[t] = "idle" /\ op[t] = NoOp
    BY DEF Init
  <2>3. "targets" \in DOMAIN NoOp /\ "next" \in DOMAIN chan
    BY DEF Init, NoOp, NoChannel
  <2> QED
    BY <2>1, <2>2, <2>3
       DEF IInv, Shape, ApplyInv, InstallInv, OwnersDisjoint, Applying, Installing, Threads
<1>2. IInv => OwnersDisjoint
  BY DEF IInv
<1> QED
  BY <1>1, <1>2, InvStep, PTL DEF Spec

-----------------------------------------------------------------------------
(***************************************************************************)
(* No cap is forgotten, and a shutdown leaves none                         *)
(***************************************************************************)

\* One operation at a time, every write succeeds, and no manual limit is edited.
Sequential == Serial /\ ~WritesMayFail /\ "edit" \notin Ops

\* Nobody but t is in the middle of anything.
Alone == \A t, u \in Threads : pc[t] # "idle" /\ pc[u] # "idle" => t = u

Roles ==
    /\ pc[Main] \in {"idle", "sweep", "stopped"}
    /\ pc[Main] = "idle" => running
    /\ pc[Main] = "stopped" => Keys = {}
    /\ closed # {} => pc[Monitor] = "reap"

\* An entry covers cgroups of one app, its key among them, and a manual one is
\* known by that app's id.
EntrySound(k, e) ==
    /\ k \in e.cgroups
    /\ e.cgroups \subseteq CgroupsOf(Owner[k])
    /\ e.app \in {Owner[k], k}
    /\ e.source = "manual" => e.app = Owner[k]
EntriesSound == \A k \in Keys : EntrySound(k, registry[k])

GoneIsUncapped == \A c \in Cgroups \ exists, p \in Parts : cap[c][p] = "none"

\* t acts on existing cgroups of one app, the key among them.
Aims(t) ==
    /\ op[t].key \in op[t].targets
    /\ op[t].targets \subseteq exists
    /\ op[t].targets \subseteq CgroupsOf(Owner[op[t].key])

\* What the operation of t relies on.
Applies(t) ==
    (pc[t] \in {"begin_apply", "yield", "write", "upsert"}
       \/ (pc[t] \in {"lift", "account"} /\ chan.next = "write")) =>
        /\ Aims(t)
        /\ op[t].id = 0
        /\ op[t].app \in {Owner[op[t].key], op[t].key}
        /\ pc[t] # "begin_apply" /\ op[t].key \in Keys
              => registry[op[t].key].source = "auto"
Lifts(t) ==
    pc[t] \in {"lift", "account"} =>
        /\ chan.key \in Keys
        /\ chan.id = registry[chan.key].id
        /\ chan.parts = registry[chan.key].parts
        /\ pc[t] = "lift" => chan.part \in chan.parts
Installs(t) ==
    pc[t] \in {"write_sys", "write_io", "record"} =>
        /\ Aims(t)
        /\ op[t].app = Owner[op[t].key]
        /\ op[t].key \notin Keys
        /\ pc[t] = "record" /\ op[t].defer => op[t].done # {}
Defers(t) ==
    pc[t] \in {"deferred", "defer_write", "defer_record"} =>
        /\ Aims(t)
        /\ op[t].key \in Keys
        /\ registry[op[t].key].cgroups = op[t].targets
        /\ pc[t] = "defer_record" => op[t].done = {"io"}
Relieves(t) ==
    pc[t] \in {"lift_user", "pop_user"} =>
        /\ op[t].key \in Keys
        /\ registry[op[t].key].cgroups = op[t].targets
        /\ registry[op[t].key].parts = op[t].parts
        /\ pc[t] = "pop_user" => \A c \in op[t].targets, p \in op[t].parts : cap[c][p] = "none"
Doing(t) == Applies(t) /\ Lifts(t) /\ Installs(t) /\ Defers(t) /\ Relieves(t)

\* Who answers for the cap on channel p of cgroup c: an entry, the operation
\* of t, or an entry the reaper has popped.
Recorded(c, p) == \E k \in Keys : c \in registry[k].cgroups /\ p \in registry[k].parts
Mine(t, c, p) ==
    /\ c \in op[t].targets
    /\ \/ pc[t] \in {"upsert", "write_io", "record", "defer_record"} /\ p \in op[t].done
       \/ pc[t] = "lift_manual" /\ p \in op[t].parts
InHand(c, p) == \E e \in closed : c \in e.cgroups /\ p \in e.parts
Claimed(c, p) == Recorded(c, p) \/ (\E t \in Threads : Mine(t, c, p)) \/ InHand(c, p)

Covered == \A c \in Cgroups, p \in Parts : cap[c][p] # "none" => Claimed(c, p)

OInv ==
    /\ Alone /\ Roles /\ EntriesSound /\ GoneIsUncapped
    /\ \A t \in Threads : Doing(t)
    /\ Covered

-----------------------------------------------------------------------------
\* When an operation starts nothing else is under way.
LEMMA StartAlone ==
    ASSUME Sequential, Roles, NEW o, Enabled(o)
    PROVE  /\ \A u \in Threads : pc[u] = "idle"
           /\ running /\ closed = {}
  BY ThreadsHere DEF Sequential, Enabled, Roles

\* In the middle of an operation neither.
LEMMA MiddleAlone ==
    ASSUME Alone, Roles, NEW t \in Threads, pc[t] # "idle"
    PROVE  /\ \A u \in Threads \ {t} : pc[u] = "idle"
           /\ t # Main => running
           /\ t # Monitor => closed = {}
  BY ThreadsHere DEF Alone, Roles

\* So the step is one of t alone, and what others rely on is nothing.
LEMMA OnlyMine ==
    ASSUME NEW t \in Threads, Typed, \A u \in Threads \ {t} : pc[u] = "idle",
           \/ \E label : Goto(t, label)
           \/ UNCHANGED pc,
           Doing(t)'
    PROVE  /\ \A u \in Threads \ {t} : pc'[u] = "idle"
           /\ Alone' /\ \A u \in Threads : Doing(u)'
<1>1. \A u \in Threads \ {t} : pc'[u] = "idle"
  BY DEF Goto, Typed, ThreadsOK
<1>2. Alone'
  BY <1>1 DEF Alone
<1>3. \A u \in Threads \ {t} : Doing(u)'
  BY <1>1 DEF Doing, Applies, Lifts, Installs, Defers, Relieves
<1> QED
  BY <1>1, <1>2, <1>3

\* and a cap is claimed by an entry, by t, or by the reaper.
LEMMA MyClaim ==
    ASSUME NEW t \in Threads, \A u \in Threads \ {t} : pc[u] = "idle", NEW c, NEW p
    PROVE  Claimed(c, p) <=> Recorded(c, p) \/ Mine(t, c, p) \/ InHand(c, p)
  BY DEF Claimed, Mine

\* Every write succeeds where there is a cgroup.
LEMMA AllSucceed ==
    ASSUME Sequential, NEW C, NEW W \in Succeed(C)
    PROVE  W = C \cap exists
  BY DEF Sequential, Succeed

\* A write changes no cgroup that is gone.
LEMMA WriteGone ==
    ASSUME GoneIsUncapped, CapsOK, NEW W, W \subseteq exists, NEW P, NEW v, Write(W, P, v),
           UNCHANGED exists
    PROVE  GoneIsUncapped'
  BY DEF GoneIsUncapped, Write, CapsOK

\* The caps after a write.
LEMMA Written ==
    ASSUME NEW W, NEW P, NEW v, Write(W, P, v), NEW c \in Cgroups, NEW p \in Parts
    PROVE  cap'[c][p] = IF c \in W /\ p \in P THEN v ELSE cap[c][p]
  BY DEF Write

\* A step that leaves the registry, the caps, and what t answers for alone.
LEMMA QuietStep ==
    ASSUME NEW t \in Threads, Typed, OInv, \A u \in Threads \ {t} : pc[u] = "idle",
           \E label : Goto(t, label),
           UNCHANGED <<registry, exists, cap, closed>>, UNCHANGED running, Doing(t)',
           \A c, p : Mine(t, c, p) => Mine(t, c, p)',
           t # Main, closed # {} => pc'[Monitor] = "reap"
    PROVE  OInv'
<1>1. /\ \A u \in Threads \ {t} : pc'[u] = "idle"
      /\ Alone' /\ \A u \in Threads : Doing(u)'
  BY OnlyMine
<1>2. pc'[Main] = "idle" /\ pc[Main] = "idle"
  BY <1>1, ThreadsHere
<1>3. Roles' /\ EntriesSound' /\ GoneIsUncapped'
  BY <1>2 DEF OInv, Roles, EntriesSound, Keys, GoneIsUncapped
<1>4. Covered'
  <2> SUFFICES ASSUME NEW c \in Cgroups, NEW p \in Parts, cap'[c][p] # "none" PROVE Claimed(c, p)'
    BY DEF Covered
  <2>1. Recorded(c, p) \/ Mine(t, c, p) \/ InHand(c, p)
    BY MyClaim DEF OInv, Covered
  <2>2. Recorded(c, p) => Recorded(c, p)'
    BY DEF Recorded, Keys
  <2>3. InHand(c, p) => InHand(c, p)'
    BY DEF InHand
  <2> QED
    BY <2>1, <2>2, <2>3 DEF Claimed
<1> QED
  BY <1>1, <1>3, <1>4 DEF OInv

\* The monitor's target selection loses no cap.
LEMMA SelectCovered ==
    ASSUME Sequential, Typed, OInv, NEW app \in Apps, NEW c \in Cgroups, NEW part \in Parts,
           SelectTarget(app, c, part)
    PROVE  OInv'
<1> DEFINE T == IF app \in controlled THEN LiveOf(app) ELSE {c}
           l == [NoOp EXCEPT !.app = IF app \in controlled \/ part = "sys" THEN app ELSE c,
                             !.key = Min(T), !.targets = T, !.parts = {part},
                             !.controlled = app \in controlled]
<1>1. \A u \in Threads : pc[u] = "idle"
  BY StartAlone DEF SelectTarget, MayStart, OInv
<1>2. running /\ closed = {}
  BY StartAlone DEF SelectTarget, MayStart, OInv
<1>3. Continue(Monitor, "begin_apply", l) /\ UNCHANGED <<registryVars, worldVars, cap, oplock, chan, closed>>
  BY DEF SelectTarget
<1>4. T \in SUBSET Cgroups /\ c \in T /\ T \subseteq exists /\ T \subseteq CgroupsOf(app)
  BY DEF SelectTarget, LiveOf, CgroupsOf, Typed, WorldOK
<1>5. Min(T) \in T
  BY <1>4, CgroupsAssumption, MinIsOne
<1>6. l.key = Min(T) /\ l.targets = T /\ l.id = 0
      /\ l.app = IF app \in controlled \/ part = "sys" THEN app ELSE c
  BY DEF NoOp
<1>7. l.app \in {Owner[Min(T)], Min(T)} /\ CgroupsOf(Owner[Min(T)]) = CgroupsOf(app)
  <2>1. Owner[Min(T)] = app
    BY <1>4, <1>5 DEF CgroupsOf
  <2>2. app \notin controlled => T = {c}
    OBVIOUS
  <2>3. app \notin controlled => Min(T) = c
    BY <1>5, <2>2
  <2> HIDE DEF T, l
  <2> QED
    BY <1>6, <2>1, <2>3
<1> HIDE DEF l, T
<1>8. pc'[Monitor] = "begin_apply" /\ op'[Monitor] = l
  BY <1>3, ThreadsHere DEF Continue, Goto, Typed, ThreadsOK
<1>9. Doing(Monitor)'
  BY <1>3, <1>4, <1>5, <1>6, <1>7, <1>8
     DEF Doing, Applies, Lifts, Installs, Defers, Relieves, Aims, worldVars
<1>10. \A d, p : ~Mine(Monitor, d, p)
  BY <1>1, ThreadsHere DEF Mine
<1> QED
  BY <1>1, <1>2, <1>3, <1>9, <1>10, QuietStep, ThreadsHere, LifecycleAssumption
     DEF Continue, registryVars, worldVars

\* The entry that by_any_id looks for is there if a cgroup of it is asked for.
LEMMA NotOwned ==
    ASSUME NEW C, NEW source, ~AnyOwned(C, source), NEW k \in Keys, k \in C
    PROVE  registry[k].source # source
  BY DEF AnyOwned

\* Entering _apply_resource_limits loses no cap.
LEMMA BeginCovered ==
    ASSUME Sequential, Typed, OInv, BeginApply
    PROVE  OInv'
<1>1. \A u \in Threads \ {Monitor} : pc[u] = "idle"
  BY MiddleAlone, ThreadsHere DEF BeginApply, OInv
<1>2. UNCHANGED <<registryVars, worldVars, cap, chan, closed>> /\ pc[Monitor] = "begin_apply"
  BY DEF BeginApply
<1>3. closed = {}
  BY <1>2 DEF OInv, Roles
<1>4. Doing(Monitor)' /\ \E label : Goto(Monitor, label)
  <2>1. CASE ManuallyLimited(op[Monitor].targets)
    <3>1. Return(Monitor)
      BY <2>1 DEF BeginApply
    <3> QED
      BY <3>1, ThreadsHere DEF Return, Continue, Goto, Typed, ThreadsOK, Doing, Applies, Lifts,
         Installs, Defers, Relieves
  <2>2. CASE ~ManuallyLimited(op[Monitor].targets)
    <3>1. /\ pc'[Monitor] \in {"yield", "write"} /\ UNCHANGED op
          /\ \E label : Goto(Monitor, label)
      BY <2>2, ThreadsHere DEF BeginApply, Goto, Typed, ThreadsOK
    <3>2. Applies(Monitor)
      BY ThreadsHere DEF OInv, Doing
    <3>3. op[Monitor].key \in Keys => registry[op[Monitor].key].source = "auto"
      BY <1>2, <2>2, <3>2, NotOwned DEF ManuallyLimited, Applies, Aims, Typed, EntriesOK, Entry, Sources
    <3> QED
      BY <1>2, <3>1, <3>2, <3>3 DEF Doing, Applies, Aims, Lifts, Installs, Defers, Relieves,
         registryVars, worldVars, Keys
  <2> QED
    BY <2>1, <2>2
<1>5. \A d, p : ~Mine(Monitor, d, p)
  BY <1>2 DEF Mine
<1> QED
  BY <1>1, <1>2, <1>3, <1>4, <1>5, QuietStep, ThreadsHere, LifecycleAssumption
     DEF registryVars, worldVars

\* Lifting the user's IO cap before an auto limit loses no cap.
LEMMA YieldCovered ==
    ASSUME Sequential, Typed, OInv, YieldIo
    PROVE  OInv'
<1>1. \A u \in Threads \ {Monitor} : pc[u] = "idle"
  BY MiddleAlone, ThreadsHere DEF YieldIo, OInv
<1>2. UNCHANGED <<registryVars, worldVars, cap, oplock, op, closed>> /\ pc[Monitor] = "yield"
  BY DEF YieldIo
<1>3. closed = {}
  BY <1>2 DEF OInv, Roles
<1>4. Applies(Monitor)
  BY ThreadsHere DEF OInv, Doing
<1> DEFINE k == by_any_id(op[Monitor].key, "auto")
           yields == k # NoKey /\ "io" \in registry[k].parts
<1>5. Doing(Monitor)' /\ \E label : Goto(Monitor, label)
  <2>1. CASE yields
    <3>1. k \in Keys
      BY <2>1, ByAnyIdFinds DEF Typed
    <3>2. /\ chan' = [key |-> k, id |-> registry[k].id, parts |-> registry[k].parts,
                     part |-> "io", stage |-> "full", ok |-> TRUE, next |-> "write"]
          /\ Goto(Monitor, "lift")
      BY <2>1 DEF YieldIo
    <3>3. pc'[Monitor] = "lift"
      BY <3>2, ThreadsHere DEF Goto, Typed, ThreadsOK
    <3>4. "io" \in registry[k].parts
      BY <2>1
    <3> HIDE DEF k
    <3> QED
      BY <1>2, <1>4, <3>1, <3>2, <3>3, <3>4 DEF Doing, Applies, Aims, Lifts, Installs, Defers,
         Relieves, registryVars, worldVars, Keys
  <2>2. CASE ~yields
    <3>1. pc'[Monitor] = "write" /\ Goto(Monitor, "write")
      BY <2>2, ThreadsHere DEF YieldIo, Goto, Typed, ThreadsOK
    <3> QED
      BY <1>2, <1>4, <3>1 DEF Doing, Applies, Aims, Lifts, Installs, Defers,
         Relieves, registryVars, worldVars, Keys
  <2> QED
    BY <2>1, <2>2
<1>6. \A d, p : ~Mine(Monitor, d, p)
  BY <1>2 DEF Mine
<1> QED
  BY <1>1, <1>2, <1>3, <1>5, <1>6, QuietStep, ThreadsHere, LifecycleAssumption
     DEF registryVars, worldVars

\* Starting a staged restore loses no cap.
LEMMA StartCovered ==
    ASSUME Sequential, Typed, OInv, NEW part \in Parts, NEW stage, StartRestore(part, stage)
    PROVE  OInv'
<1>1. \A u \in Threads : pc[u] = "idle"
  BY StartAlone DEF StartRestore, MayStart, OInv
<1>2. running /\ closed = {}
  BY StartAlone DEF StartRestore, MayStart, OInv
<1>3. UNCHANGED <<registryVars, worldVars, cap, oplock, op, closed>> /\ Goto(Monitor, "lift")
  BY DEF StartRestore
<1> DEFINE k == first_auto_with_part(part, stage = "partial")
<1>4. /\ k \in Keys /\ part \in registry[k].parts
      /\ chan' = [key |-> k, id |-> registry[k].id, parts |-> registry[k].parts,
                  part |-> part, stage |-> stage, ok |-> TRUE, next |-> "idle"]
  BY FirstAutoFinds DEF StartRestore, Typed
<1> HIDE DEF k
<1>5. pc'[Monitor] = "lift"
  BY <1>3, ThreadsHere DEF Goto, Typed, ThreadsOK
<1>6. Doing(Monitor)'
  BY <1>3, <1>4, <1>5
     DEF Doing, Applies, Lifts, Installs, Defers, Relieves, Keys, registryVars
<1>7. \A d, p : ~Mine(Monitor, d, p)
  BY <1>1, ThreadsHere DEF Mine
<1> QED
  BY <1>1, <1>2, <1>3, <1>6, <1>7, QuietStep, ThreadsHere, LifecycleAssumption
     DEF registryVars, worldVars

\* A step of t alone that leaves running, exists and who is stopped: what is left
\* to show is what it does to the entries, to the caps and to t.
LEMMA StepCovered ==
    ASSUME NEW t \in Threads, Typed, OInv, \A u \in Threads \ {t} : pc[u] = "idle",
           \E label : Goto(t, label), t # Main, UNCHANGED <<running, exists>>,
           closed' # {} => pc'[Monitor] = "reap",
           EntriesSound', GoneIsUncapped', Doing(t)',
           \A c \in Cgroups, p \in Parts : cap'[c][p] # "none" => Claimed(c, p)'
    PROVE  OInv'
<1>1. /\ \A u \in Threads \ {t} : pc'[u] = "idle"
      /\ Alone' /\ \A u \in Threads : Doing(u)'
  BY OnlyMine
<1>2. pc'[Main] = "idle" /\ pc[Main] = "idle"
  BY <1>1, ThreadsHere
<1>3. Roles'
  BY <1>2 DEF OInv, Roles
<1> QED
  BY <1>1, <1>3 DEF OInv, Covered

\* The write of an auto limit loses no cap.
LEMMA WriteAutoCovered ==
    ASSUME Sequential, Typed, OInv, WriteAuto
    PROVE  OInv'
<1>1. \A u \in Threads \ {Monitor} : pc[u] = "idle"
  BY MiddleAlone, ThreadsHere DEF WriteAuto, OInv
<1>2. UNCHANGED <<registryVars, worldVars, chan, closed>> /\ pc[Monitor] = "write"
  BY DEF WriteAuto
<1>3. closed = {} /\ running
  BY <1>2, MiddleAlone, ThreadsHere, LifecycleAssumption DEF OInv, Roles
<1>4. Applies(Monitor)
  BY ThreadsHere DEF OInv, Doing
<1> DEFINE C == op[Monitor].targets
           P == op[Monitor].parts
           l == [op[Monitor] EXCEPT !.done = P]
<1>5. C \subseteq exists /\ op[Monitor].key \in C
  BY <1>2, <1>4 DEF Applies, Aims
<1>6. Write(C, P, "full") /\ Continue(Monitor, "upsert", l)
  <2>1. PICK W \in Succeed(C) :
           /\ Write(W, P, "full")
           /\ IF Landed(op[Monitor], W)
              THEN Continue(Monitor, "upsert", l) /\ UNCHANGED oplock
              ELSE Return(Monitor)
    BY <1>3 DEF WriteAuto
  <2>2. W = C
    BY <1>5, <2>1, AllSucceed
  <2> QED
    BY <1>5, <2>1, <2>2 DEF Landed
<1>7. op[Monitor] \in Local /\ C \subseteq Cgroups /\ P \subseteq Parts
  BY ThreadsHere DEF Typed, ThreadsOK, Local
<1>8. l.key = op[Monitor].key /\ l.targets = C /\ l.done = P /\ l.id = op[Monitor].id
      /\ l.app = op[Monitor].app
  BY <1>7 DEF Local
<1> HIDE DEF l
<1>9. pc'[Monitor] = "upsert" /\ op'[Monitor] = l
  BY <1>6, ThreadsHere DEF Continue, Goto, Typed, ThreadsOK
<1>10. Doing(Monitor)'
  BY <1>2, <1>4, <1>8, <1>9
     DEF Doing, Applies, Lifts, Installs, Defers, Relieves, Aims, Keys, registryVars, worldVars
<1>11. GoneIsUncapped'
  BY <1>2, <1>5, <1>6, WriteGone DEF OInv, Typed, worldVars
<1>12. ASSUME NEW c \in Cgroups, NEW p \in Parts, cap'[c][p] # "none"
       PROVE  Claimed(c, p)'
  <2>1. CASE c \in C /\ p \in P
    BY <1>8, <1>9, <2>1, ThreadsHere DEF Claimed, Mine
  <2>2. CASE ~(c \in C /\ p \in P)
    <3>1. cap[c][p] # "none"
      BY <1>6, <1>12, <2>2, Written
    <3>2. Recorded(c, p) \/ Mine(Monitor, c, p) \/ InHand(c, p)
      BY <1>1, <3>1, MyClaim, ThreadsHere DEF OInv, Covered
    <3>3. Recorded(c, p)
      BY <1>2, <1>3, <3>2 DEF Mine, InHand
    <3> QED
      BY <1>2, <3>3 DEF Claimed, Recorded, Keys, registryVars
  <2> QED
    BY <2>1, <2>2
<1>13. EntriesSound'
  BY <1>2 DEF OInv, EntriesSound, Keys, registryVars
<1> QED
  BY <1>1, <1>2, <1>3, <1>6, <1>10, <1>11, <1>12, <1>13, StepCovered, ThreadsHere,
     LifecycleAssumption DEF Continue, worldVars

\* The registry after an entry was put under a key.
LEMMA PutEntries ==
    ASSUME NEW key, NEW entry, Put(key, entry), EntriesSound, EntrySound(key, entry)
    PROVE  /\ EntriesSound'
           /\ Keys' = Keys \cup {key} /\ registry'[key] = entry
           /\ \A c, p : c \in entry.cgroups /\ p \in entry.parts => Recorded(c, p)'
           /\ \A c, p : Recorded(c, p) =>
                  \/ Recorded(c, p)'
                  \/ key \in Keys /\ c \in registry[key].cgroups /\ p \in registry[key].parts
<1>1. Keys' = Keys \cup {key} /\ registry' = [k \in Keys \cup {key} |-> IF k = key THEN entry ELSE registry[k]]
  BY DEF Put, Keys
<1>2. EntriesSound'
  BY <1>1 DEF EntriesSound, EntrySound
<1> QED
  BY <1>1, <1>2 DEF Recorded

\* Recording an auto limit loses no cap.
LEMMA UpsertCovered ==
    ASSUME Sequential, Typed, Named, OInv, Upsert
    PROVE  OInv'
<1>1. \A u \in Threads \ {Monitor} : pc[u] = "idle"
  BY MiddleAlone, ThreadsHere DEF Upsert, OInv
<1>2. UNCHANGED <<exclusions, worldVars, cap, chan, closed>> /\ pc[Monitor] = "upsert"
  BY DEF Upsert
<1>3. closed = {}
  BY <1>2 DEF OInv, Roles
<1>4. Applies(Monitor)
  BY ThreadsHere DEF OInv, Doing
<1> DEFINE l == op[Monitor]
           prev == registry[l.key]
           fresh == [id |-> FreshId, app |-> l.app, source |-> "auto", adopted |-> FALSE,
                     controlled |-> l.controlled, parts |-> l.done, partial |-> {},
                     cgroups |-> l.targets]
           merges == l.key \in Keys /\ prev.source = "auto"
           entry == IF merges THEN Merge(prev, fresh) ELSE fresh
<1>5. Put(l.key, entry) /\ Return(Monitor)
  BY DEF Upsert
<1>6. l.key \in Keys => merges /\ prev \in Entry /\ EntrySound(l.key, prev)
  BY <1>2, <1>4 DEF Applies, Typed, EntriesOK, OInv, EntriesSound
<1>7. /\ fresh.app = l.app /\ fresh.source = "auto" /\ fresh.parts = l.done
      /\ fresh.cgroups = l.targets /\ DOMAIN fresh = DOMAIN fresh
  OBVIOUS
<1>8. /\ l.targets \subseteq entry.cgroups /\ l.done \subseteq entry.parts
      /\ entry.app = l.app /\ entry.source = "auto"
      /\ merges => prev.cgroups \subseteq entry.cgroups /\ prev.parts \subseteq entry.parts
      /\ entry.cgroups = l.targets \cup IF merges THEN prev.cgroups ELSE {}
  <2>1. CASE merges
    BY <2>1 DEF Merge
  <2>2. CASE ~merges
    BY <2>2
  <2> QED
    BY <2>1, <2>2
<1>9. EntrySound(l.key, entry)
  <2> HIDE DEF fresh, entry
  <2> QED
    BY <1>2, <1>4, <1>6, <1>8 DEF Applies, Aims, EntrySound
<1> HIDE DEF entry
<1>10. EntriesSound'
  BY <1>5, <1>9, PutEntries DEF OInv
<1>11. pc'[Monitor] = "idle" /\ \E label : Goto(Monitor, label)
  BY <1>5, ThreadsHere DEF Return, Continue, Goto, Typed, ThreadsOK
<1>12. Doing(Monitor)'
  BY <1>11 DEF Doing, Applies, Lifts, Installs, Defers, Relieves
<1>13. GoneIsUncapped'
  BY <1>2 DEF OInv, GoneIsUncapped, worldVars
<1>14. ASSUME NEW c \in Cgroups, NEW p \in Parts, cap'[c][p] # "none"
       PROVE  Claimed(c, p)'
  <2>1. Recorded(c, p) \/ Mine(Monitor, c, p)
    BY <1>1, <1>2, <1>3, <1>14, MyClaim, ThreadsHere DEF OInv, Covered, InHand
  <2>2. CASE Mine(Monitor, c, p)
    BY <1>2, <1>5, <1>8, <1>9, <2>2, PutEntries DEF Mine, OInv, Claimed
  <2>3. CASE Recorded(c, p)
    BY <1>5, <1>6, <1>8, <1>9, <2>3, PutEntries DEF OInv, Claimed
  <2> QED
    BY <2>1, <2>2, <2>3
<1> QED
  BY <1>1, <1>2, <1>3, <1>10, <1>11, <1>12, <1>13, <1>14, StepCovered, ThreadsHere,
     LifecycleAssumption DEF worldVars

\* What setting the limit_parts of an entry does to the registry.
LEMMA SetPartsEntries ==
    ASSUME NEW k \in Keys, NEW P, NEW done, SetParts(k, P, done), Typed, EntriesSound
    PROVE  /\ EntriesSound' /\ Keys' = Keys
           /\ \A j \in Keys : /\ registry'[j].cgroups = registry[j].cgroups
                              /\ registry'[j].source = registry[j].source
                              /\ registry'[j].id = registry[j].id
                              /\ j # k => registry'[j].parts = registry[j].parts
           /\ registry'[k].parts = P
<1>1. registry' = [registry EXCEPT ![k].parts = P]
  BY DEF SetParts
<1>2. registry \in [Keys -> Entry]
  BY DEF Typed, EntriesOK
<1>3. /\ Keys' = Keys
      /\ \A j \in Keys : /\ registry'[j].cgroups = registry[j].cgroups
                         /\ registry'[j].source = registry[j].source
                         /\ registry'[j].app = registry[j].app
                         /\ registry'[j].id = registry[j].id
                         /\ j # k => registry'[j].parts = registry[j].parts
      /\ registry'[k].parts = P
  BY <1>1, <1>2 DEF Keys, Entry
<1> QED
  BY <1>3 DEF EntriesSound, EntrySound

\* Lifting one stage loses no cap.
LEMMA LiftCovered ==
    ASSUME Sequential, Typed, OInv, Lift
    PROVE  OInv'
<1>1. \A u \in Threads \ {Monitor} : pc[u] = "idle"
  BY MiddleAlone, ThreadsHere DEF Lift, OInv
<1>2. UNCHANGED <<order, exclusions, worldVars, oplock, closed>> /\ pc[Monitor] = "lift"
      /\ Goto(Monitor, "account")
  BY DEF Lift
<1>3. closed = {} /\ running
  BY <1>2, MiddleAlone, ThreadsHere, LifecycleAssumption DEF OInv, Roles
<1>4. Applies(Monitor) /\ Lifts(Monitor)
  BY ThreadsHere DEF OInv, Doing
<1> DEFINE k == chan.key
           C == registry[k].cgroups
           W == C \cap exists
           part == chan.part
           clears == chan.stage = "full" /\ k \in W
<1>5. /\ k \in Keys /\ chan.id = registry[k].id /\ chan.parts = registry[k].parts
      /\ part \in registry[k].parts /\ part \in Parts /\ k \in C
  BY <1>2, <1>4 DEF Lifts, OInv, EntriesSound, EntrySound, Typed, ThreadsOK, Channel
<1>6. /\ Write(W, {part}, IF chan.stage = "partial" THEN "half" ELSE "none")
      /\ IF clears
         THEN SetParts(k, registry[k].parts \ {part}, {})
         ELSE /\ chan' = [chan EXCEPT !.ok = ~running \/ k \in W]
              /\ UNCHANGED <<registry, op>>
  <2>1. {k} \cup C = C
    BY <1>5
  <2>2. PICK V \in Succeed(C) :
           /\ Write(V, {part}, IF chan.stage = "partial" THEN "half" ELSE "none")
           /\ IF chan.stage = "full" /\ k \in V
              THEN SetParts(k, registry[k].parts \ {part}, {})
              ELSE /\ chan' = [chan EXCEPT !.ok = ~running \/ k \in V]
                   /\ UNCHANGED <<registry, op>>
    BY <1>3, <1>5, <2>1 DEF Lift
  <2>3. V = W
    BY <2>2, AllSucceed
  <2> QED
    BY <2>2, <2>3
<1>7. pc'[Monitor] = "account"
  BY <1>2, ThreadsHere DEF Goto, Typed, ThreadsOK
<1>8. GoneIsUncapped'
  BY <1>2, <1>6, WriteGone DEF OInv, Typed, worldVars
<1>9. CASE clears
  <2>1. SetParts(k, registry[k].parts \ {part}, {}) /\ k \in W /\ chan.stage # "partial"
    BY <1>6, <1>9
  <2>2. /\ EntriesSound' /\ Keys' = Keys
        /\ \A j \in Keys : /\ registry'[j].cgroups = registry[j].cgroups
                           /\ registry'[j].source = registry[j].source
                           /\ registry'[j].id = registry[j].id
                           /\ j # k => registry'[j].parts = registry[j].parts
        /\ registry'[k].parts = registry[k].parts \ {part}
    BY <1>5, <2>1, SetPartsEntries DEF OInv
  <2>3. chan' = [chan EXCEPT !.parts = registry[k].parts \ {part}]
    BY <1>5, <2>1 DEF SetParts, Shared
  <2>4. chan'.key = k /\ chan'.id = chan.id /\ chan'.parts = registry'[k].parts /\ chan'.next = chan.next
    BY <2>2, <2>3 DEF Typed, ThreadsOK, Channel
  <2>5. op[Monitor].id = 0 => op'[Monitor] = op[Monitor]
    <3>1. registry[k].id # 0
      BY <1>5 DEF Typed, EntriesOK, Entry
    <3> QED
      BY <2>1, <3>1, ThreadsHere DEF SetParts, Shared
  <2>6. Doing(Monitor)'
    BY <1>2, <1>4, <1>5, <1>7, <2>2, <2>4, <2>5
       DEF Doing, Applies, Lifts, Installs, Defers, Relieves, Aims, worldVars
  <2>7. ASSUME NEW c \in Cgroups, NEW p \in Parts, cap'[c][p] # "none"
        PROVE  Claimed(c, p)'
    <3>1. ~(c \in W /\ p = part) /\ cap[c][p] # "none"
      BY <1>6, <2>1, <2>7, Written
    <3>2. Recorded(c, p)
      BY <1>1, <1>2, <1>3, <3>1, MyClaim, ThreadsHere DEF OInv, Covered, Mine, InHand
    <3>3. PICK j \in Keys : c \in registry[j].cgroups /\ p \in registry[j].parts
      BY <3>2 DEF Recorded
    <3>4. c \in exists
      BY <3>1 DEF OInv, GoneIsUncapped
    <3>5. j = k => p # part
      BY <3>1, <3>3, <3>4
    <3>6. p \in registry'[j].parts /\ c \in registry'[j].cgroups /\ j \in Keys'
      BY <2>2, <3>3, <3>5
    <3> QED
      BY <3>6 DEF Claimed, Recorded
  <2> HIDE DEF clears
  <2> QED
    BY <1>1, <1>2, <1>3, <1>8, <2>2, <2>6, <2>7, StepCovered, ThreadsHere, LifecycleAssumption
       DEF worldVars
<1>10. CASE ~clears
  <2>1. chan' = [chan EXCEPT !.ok = ~running \/ k \in W] /\ UNCHANGED <<registry, op>>
    BY <1>6, <1>10
  <2>2. chan'.key = k /\ chan'.id = chan.id /\ chan'.parts = chan.parts /\ chan'.next = chan.next
    BY <2>1 DEF Typed, ThreadsOK, Channel
  <2>3. Doing(Monitor)'
    BY <1>2, <1>4, <1>5, <1>7, <2>1, <2>2
       DEF Doing, Applies, Lifts, Installs, Defers, Relieves, Aims, Keys, worldVars
  <2>4. ASSUME NEW c \in Cgroups, NEW p \in Parts, cap'[c][p] # "none"
        PROVE  Claimed(c, p)'
    <3>1. CASE c \in W /\ p = part
      BY <1>5, <2>1, <3>1 DEF Claimed, Recorded, Keys
    <3>2. CASE ~(c \in W /\ p = part)
      <4>1. cap[c][p] # "none"
        BY <1>6, <2>4, <3>2, Written
      <4>2. Recorded(c, p)
        BY <1>1, <1>2, <1>3, <4>1, MyClaim, ThreadsHere DEF OInv, Covered, Mine, InHand
      <4> QED
        BY <2>1, <4>2 DEF Claimed, Recorded, Keys
    <3> QED
      BY <3>1, <3>2
  <2>5. EntriesSound'
    BY <2>1 DEF OInv, EntriesSound, Keys
  <2> HIDE DEF clears
  <2> QED
    BY <1>1, <1>2, <1>3, <1>8, <2>3, <2>4, <2>5, StepCovered, ThreadsHere, LifecycleAssumption
       DEF worldVars
<1> QED
  BY <1>9, <1>10

\* Popping entries leaves the others, and their claims.
LEMMA PopEntries ==
    ASSUME NEW ks, Pop(ks), EntriesSound
    PROVE  /\ EntriesSound' /\ Keys' = Keys \ ks
           /\ \A k \in Keys \ ks : registry'[k] = registry[k]
           /\ \A c, p : Recorded(c, p) =>
                  \/ Recorded(c, p)'
                  \/ \E k \in ks \cap Keys : c \in registry[k].cgroups /\ p \in registry[k].parts
<1>1. Keys' = Keys \ ks /\ \A k \in Keys \ ks : registry'[k] = registry[k]
  BY DEF Pop, Restrict, Keys
<1> QED
  BY <1>1 DEF EntriesSound, Recorded

\* Recording a lifted stage loses no cap.
LEMMA AccountCovered ==
    ASSUME Sequential, Typed, OInv, Account
    PROVE  OInv'
<1>1. \A u \in Threads \ {Monitor} : pc[u] = "idle"
  BY MiddleAlone, ThreadsHere DEF Account, OInv
<1>2. UNCHANGED <<exclusions, worldVars, cap, closed>> /\ pc[Monitor] = "account" /\ chan' = NoChannel
  BY DEF Account
<1>3. closed = {}
  BY <1>2 DEF OInv, Roles
<1>4. Applies(Monitor) /\ Lifts(Monitor)
  BY ThreadsHere DEF OInv, Doing
<1> DEFINE k == chan.key
           relaxed == [registry[k] EXCEPT !.partial = NextPartial(@)]
<1>5. k \in Keys /\ chan.parts = registry[k].parts /\ registry[k] \in Entry
  BY <1>2, <1>4 DEF Lifts, Typed, EntriesOK
<1>6. /\ \/ chan.next = "write" /\ Goto(Monitor, "write") /\ UNCHANGED <<op, oplock>>
         \/ Return(Monitor)
      /\ \/ registry[k].parts = {} /\ Pop({k})
         \/ PutLast(k, registry[k]) \/ PutLast(k, relaxed)
  BY <1>5 DEF Account
<1>7. /\ Keys' \subseteq Keys
      /\ \A j \in Keys' : /\ registry'[j].cgroups = registry[j].cgroups
                          /\ registry'[j].source = registry[j].source
                          /\ registry'[j].app = registry[j].app
                          /\ registry'[j].parts = registry[j].parts
      /\ \A c, p : Recorded(c, p) => Recorded(c, p)'
  <2>1. CASE registry[k].parts = {} /\ Pop({k})
    <3>1. /\ Keys' = Keys \ {k} /\ \A j \in Keys \ {k} : registry'[j] = registry[j]
      BY <2>1, PopEntries DEF OInv
    <3> QED
      BY <2>1, <3>1 DEF Recorded
  <2>2. CASE PutLast(k, registry[k])
    <3>1. registry' = registry
      BY <1>5, <2>2 DEF PutLast, Keys, Typed, EntriesOK
    <3> QED
      BY <3>1 DEF Recorded, Keys
  <2>3. CASE PutLast(k, relaxed)
    <3>1. /\ relaxed.cgroups = registry[k].cgroups /\ relaxed.source = registry[k].source
          /\ relaxed.app = registry[k].app /\ relaxed.parts = registry[k].parts
      BY <1>5 DEF Entry
    <3> HIDE DEF relaxed
    <3>2. Keys' = Keys /\ \A j \in Keys : registry'[j] = IF j = k THEN relaxed ELSE registry[j]
      BY <1>5, <2>3 DEF PutLast, Keys, Typed, EntriesOK
    <3> QED
      BY <3>1, <3>2 DEF Recorded
  <2> QED
    BY <1>6, <2>1, <2>2, <2>3
<1>8. EntriesSound'
  BY <1>7 DEF OInv, EntriesSound, EntrySound
<1>9. Doing(Monitor)' /\ \E label : Goto(Monitor, label)
  <2>1. CASE chan.next = "write" /\ Goto(Monitor, "write") /\ UNCHANGED <<op, oplock>>
    <3>1. pc'[Monitor] = "write"
      BY <2>1, ThreadsHere DEF Goto, Typed, ThreadsOK
    <3> QED
      BY <1>2, <1>4, <1>7, <2>1, <3>1 DEF Doing, Applies, Lifts, Installs, Defers, Relieves, Aims, worldVars
  <2>2. CASE Return(Monitor)
    BY <2>2, ThreadsHere DEF Return, Continue, Goto, Typed, ThreadsOK, Doing, Applies, Lifts,
       Installs, Defers, Relieves
  <2> QED
    BY <1>6, <2>1, <2>2
<1>10. GoneIsUncapped'
  BY <1>2 DEF OInv, GoneIsUncapped, worldVars
<1>11. ASSUME NEW c \in Cgroups, NEW p \in Parts, cap'[c][p] # "none"
       PROVE  Claimed(c, p)'
  <2>1. Recorded(c, p)
    BY <1>1, <1>2, <1>3, <1>11, MyClaim, ThreadsHere DEF OInv, Covered, Mine, InHand
  <2> QED
    BY <1>7, <2>1 DEF Claimed
<1> QED
  BY <1>1, <1>2, <1>3, <1>8, <1>9, <1>10, <1>11, StepCovered, ThreadsHere, LifecycleAssumption
     DEF worldVars

\* Looking for closed cgroups loses no cap.
LEMMA ReapCovered ==
    ASSUME Sequential, Typed, OInv, Reap
    PROVE  OInv'
<1>1. \A u \in Threads : pc[u] = "idle"
  BY StartAlone DEF Reap, MayStart, OInv
<1>2. running /\ closed = {}
  BY StartAlone DEF Reap, MayStart, OInv
<1>3. UNCHANGED <<worldVars, cap, oplock, op, chan>> /\ Goto(Monitor, "reap")
  BY DEF Reap
<1> DEFINE gone == {k \in Keys : registry[k].cgroups \cap live = {}}
<1>4. closed' = {registry[k] : k \in gone} /\ Pop(gone)
  BY DEF Reap
<1> HIDE DEF gone
<1>5. pc'[Monitor] = "reap"
  BY <1>3, ThreadsHere DEF Goto, Typed, ThreadsOK
<1>6. Doing(Monitor)'
  BY <1>5 DEF Doing, Applies, Lifts, Installs, Defers, Relieves
<1>7. GoneIsUncapped'
  BY <1>3 DEF OInv, GoneIsUncapped, worldVars
<1>8. EntriesSound'
  BY <1>4, PopEntries DEF OInv
<1>9. ASSUME NEW c \in Cgroups, NEW p \in Parts, cap'[c][p] # "none"
      PROVE  Claimed(c, p)'
  <2>1. Recorded(c, p)
    BY <1>1, <1>2, <1>3, <1>9, MyClaim, ThreadsHere DEF OInv, Covered, Mine, InHand
  <2>2. \/ Recorded(c, p)'
        \/ \E k \in gone : c \in registry[k].cgroups /\ p \in registry[k].parts
    BY <1>4, <2>1, PopEntries DEF OInv
  <2> QED
    BY <1>4, <2>2 DEF Claimed, InHand
<1> QED
  BY <1>1, <1>3, <1>5, <1>6, <1>7, <1>8, <1>9, StepCovered, ThreadsHere, LifecycleAssumption
     DEF worldVars

\* Reaping one entry loses no cap.
LEMMA ReapOneCovered ==
    ASSUME Sequential, Typed, OInv, ReapOne
    PROVE  OInv'
<1>1. \A u \in Threads \ {Monitor} : pc[u] = "idle"
  BY MiddleAlone, ThreadsHere DEF ReapOne, OInv
<1>2. UNCHANGED <<registryVars, worldVars, oplock, op, chan>> /\ pc[Monitor] = "reap"
  BY DEF ReapOne
<1>3. PICK e \in closed :
         /\ \E W \in Succeed(e.cgroups) : Write(W, e.parts, "none")
         /\ closed' = closed \ {e}
         /\ Goto(Monitor, IF closed = {e} THEN "idle" ELSE "reap")
  BY DEF ReapOne
<1>4. Write(e.cgroups \cap exists, e.parts, "none")
  BY <1>3, AllSucceed
<1>5. pc'[Monitor] \in {"idle", "reap"} /\ (closed' # {} => pc'[Monitor] = "reap")
  BY <1>3, ThreadsHere DEF Goto, Typed, ThreadsOK
<1>6. Doing(Monitor)'
  BY <1>5 DEF Doing, Applies, Lifts, Installs, Defers, Relieves
<1>7. GoneIsUncapped'
  BY <1>2, <1>4, WriteGone DEF OInv, Typed, worldVars
<1>8. EntriesSound'
  BY <1>2 DEF OInv, EntriesSound, Keys, registryVars
<1>9. ASSUME NEW c \in Cgroups, NEW p \in Parts, cap'[c][p] # "none"
      PROVE  Claimed(c, p)'
  <2>1. ~(c \in e.cgroups \cap exists /\ p \in e.parts) /\ cap[c][p] # "none"
    BY <1>4, <1>9, Written
  <2>2. c \in exists
    BY <2>1 DEF OInv, GoneIsUncapped
  <2>3. Recorded(c, p) \/ InHand(c, p)
    BY <1>1, <1>2, <2>1, MyClaim, ThreadsHere DEF OInv, Covered, Mine
  <2>4. InHand(c, p) => InHand(c, p)'
    BY <1>3, <2>1, <2>2 DEF InHand
  <2>5. Recorded(c, p) => Recorded(c, p)'
    BY <1>2 DEF Recorded, Keys, registryVars
  <2> QED
    BY <2>3, <2>4, <2>5 DEF Claimed
<1> QED
  BY <1>1, <1>2, <1>3, <1>5, <1>6, <1>7, <1>8, <1>9, StepCovered, ThreadsHere, LifecycleAssumption
     DEF worldVars

\* The locals a thread goes on with.
LEMMA GoesOn ==
    ASSUME Typed, NEW t \in Threads, NEW label, NEW l, Continue(t, label, l)
    PROVE  pc'[t] = label /\ op'[t] = l /\ Goto(t, label)
  BY DEF Continue, Goto, Typed, ThreadsOK

\* Where a thread goes.
LEMMA Goes ==
    ASSUME Typed, NEW t \in Threads, NEW label, Goto(t, label)
    PROVE  pc'[t] = label
  BY DEF Goto, Typed, ThreadsOK

\* A thread that is done claims nothing.
LEMMA IdleDoes == ASSUME NEW t, pc'[t] \in {"idle", "lift_manual"} PROVE Doing(t)'
  BY DEF Doing, Applies, Lifts, Installs, Defers, Relieves

\* An app under no manual limit has no entry under one of its cgroups, if the
\* cgroup is under no auto limit.
LEMMA KeyIsFree ==
    ASSUME Typed, OInv, NEW app \in Apps, by_public_id(app, "manual") = NoKey,
           NEW T, ~AnyOwned(T, "auto"), NEW k \in T, Owner[k] = app
    PROVE  k \notin Keys
<1> SUFFICES ASSUME k \in Keys PROVE FALSE
  OBVIOUS
<1>1. registry[k].source = "manual"
  BY NotOwned DEF Typed, EntriesOK, Entry, Sources
<1>2. registry[k].app = app
  BY <1>1 DEF OInv, EntriesSound, EntrySound
<1> DEFINE M == {j \in Keys : registry[j].app = app /\ registry[j].source = "manual"}
<1>3. M # {} /\ Oldest(M) = NoKey
  BY <1>1, <1>2 DEF by_public_id
<1>4. Oldest(M) \in M
  BY <1>3, OldestIsOne DEF Typed
<1> QED
  BY <1>3, <1>4, LifecycleAssumption DEF Typed, EntriesOK

\* Entering _install_resource_limit loses no cap.
LEMMA LimitCovered ==
    ASSUME Sequential, Typed, OInv, NEW t \in Rest, NEW app \in Apps, NEW T \in SUBSET Cgroups,
           NEW want \in SUBSET Parts, Limit(t, app, T, want)
    PROVE  OInv'
<1> DEFINE l == [NoOp EXCEPT !.app = app, !.key = Min(T), !.targets = T, !.parts = want,
                             !.controlled = TRUE]
<1>1. \A u \in Threads : pc[u] = "idle"
  BY StartAlone DEF Limit, MayStart, OInv
<1>2. running /\ closed = {}
  BY StartAlone DEF Limit, MayStart, OInv
<1>3. UNCHANGED <<registryVars, worldVars, cap, chan, closed>>
      /\ Continue(t, IF "sys" \in want THEN "write_sys" ELSE "write_io", l)
  BY DEF Limit
<1>4. T # {} /\ T \subseteq exists /\ T \subseteq CgroupsOf(app)
  BY DEF Limit, LiveOf, Typed, WorldOK
<1>5. Min(T) \in T /\ Owner[Min(T)] = app
  BY <1>4, CgroupsAssumption, MinIsOne DEF CgroupsOf
<1>6. by_public_id(app, "manual") = NoKey
  BY DEF Limit, MayStart, Enabled, Sequential
<1>7. Min(T) \notin Keys
  BY <1>5, <1>6, KeyIsFree DEF Limit
<1>8. l.key = Min(T) /\ l.targets = T /\ l.app = app
  BY DEF NoOp
<1> HIDE DEF l
<1>9. pc'[t] \in {"write_sys", "write_io"} /\ op'[t] = l /\ \E label : Goto(t, label)
  BY <1>3, ThreadsHere, GoesOn
<1>10. Doing(t)'
  BY <1>3, <1>4, <1>5, <1>7, <1>8, <1>9
     DEF Doing, Applies, Lifts, Installs, Defers, Relieves, Aims, Keys, registryVars, worldVars
<1>11. \A d, p : ~Mine(t, d, p)
  BY <1>1, ThreadsHere DEF Mine
<1> QED
  BY <1>1, <1>2, <1>3, <1>9, <1>10, <1>11, QuietStep, ThreadsHere, LifecycleAssumption
     DEF registryVars, worldVars

\* An installing operation that wrote the channel part to all its targets, and
\* goes on to write or record with it among the channels done.
LEMMA InstallWrites ==
    ASSUME Sequential, Typed, OInv, NEW t \in Rest, pc[t] \in {"write_sys", "write_io", "defer_write"},
           NEW part \in Parts, Write(op[t].targets, {part}, "full"),
           NEW label \in {"write_io", "record", "defer_record"}, NEW l, Continue(t, label, l),
           l.key = op[t].key, l.targets = op[t].targets, l.app = op[t].app, part \in l.done,
           pc[t] = "write_io" => op[t].done \subseteq l.done,
           pc[t] = "defer_write" <=> label = "defer_record",
           label = "defer_record" => l.done = {"io"},
           UNCHANGED <<registryVars, worldVars, oplock, chan, closed>>
    PROVE  OInv'
<1>1. \A u \in Threads \ {t} : pc[u] = "idle"
  BY MiddleAlone, ThreadsHere DEF OInv
<1>2. closed = {} /\ t # Main
  BY <1>1, ThreadsHere, MiddleAlone, LifecycleAssumption DEF OInv
<1>3. Installs(t) /\ Defers(t)
  BY ThreadsHere DEF OInv, Doing
<1>4. op[t].targets \subseteq exists
  BY <1>3 DEF Installs, Defers, Aims
<1>5. pc'[t] = label /\ op'[t] = l /\ Goto(t, label)
  BY ThreadsHere, GoesOn
<1>6. Doing(t)'
  BY <1>3, <1>5
     DEF Doing, Applies, Lifts, Installs, Defers, Relieves, Aims, Keys, registryVars, worldVars
<1>7. GoneIsUncapped'
  BY <1>4, WriteGone DEF OInv, Typed, worldVars
<1>8. ASSUME NEW c \in Cgroups, NEW p \in Parts, cap'[c][p] # "none"
      PROVE  Claimed(c, p)'
  <2>1. CASE c \in op[t].targets /\ p = part
    BY <1>5, <2>1, ThreadsHere DEF Claimed, Mine
  <2>2. CASE ~(c \in op[t].targets /\ p = part)
    <3>1. cap[c][p] # "none"
      BY <1>8, <2>2, Written
    <3>2. Recorded(c, p) \/ Mine(t, c, p)
      BY <1>1, <1>2, <3>1, MyClaim, ThreadsHere DEF OInv, Covered, InHand
    <3>3. CASE Recorded(c, p)
      BY <3>3 DEF Claimed, Recorded, Keys, registryVars
    <3>4. CASE Mine(t, c, p)
      BY <1>5, <3>4, ThreadsHere DEF Claimed, Mine
    <3> QED
      BY <3>2, <3>3, <3>4
  <2> QED
    BY <2>1, <2>2
<1>9. EntriesSound'
  BY DEF OInv, EntriesSound, Keys, registryVars
<1> QED
  BY <1>1, <1>2, <1>5, <1>6, <1>7, <1>8, <1>9, StepCovered, ThreadsHere DEF worldVars

\* The CPU and memory write of a manual limit loses no cap.
LEMMA WriteSysCovered ==
    ASSUME Sequential, Typed, OInv, NEW t \in Rest, WriteSys(t)
    PROVE  OInv'
<1>1. pc[t] = "write_sys" /\ UNCHANGED <<registryVars, worldVars, oplock, chan, closed>>
  BY DEF WriteSys
<1>2. running
  BY <1>1, MiddleAlone, ThreadsHere, LifecycleAssumption DEF OInv
<1>3. Installs(t)
  BY ThreadsHere DEF OInv, Doing
<1>4. op[t].targets \subseteq exists /\ op[t].key \in op[t].targets
  BY <1>1, <1>3 DEF Installs, Aims
<1>5. PICK W \in Succeed(op[t].targets), mem \in BOOLEAN :
         /\ Write(W, {"sys"}, "full")
         /\ LET landed == Landed(op[t], W)
                defer == landed /\ mem /\ "io" \in op[t].parts
            IN  Continue(t, IF "io" \in op[t].parts /\ ~defer THEN "write_io" ELSE "record",
                   [op[t] EXCEPT !.done = IF landed THEN {"sys"} ELSE {}, !.defer = defer])
  BY <1>2 DEF WriteSys
<1>6. W = op[t].targets
  BY <1>4, <1>5, AllSucceed
<1> DEFINE defer == mem /\ "io" \in op[t].parts
           label == IF "io" \in op[t].parts /\ ~defer THEN "write_io" ELSE "record"
           l == [op[t] EXCEPT !.done = {"sys"}, !.defer = defer]
<1>7. Landed(op[t], W)
  BY <1>4, <1>6 DEF Landed
<1>8. Continue(t, label, l)
  BY <1>5, <1>7
<1>9. label \in {"write_io", "record", "defer_record"} /\ label # "defer_record"
  OBVIOUS
<1> HIDE DEF label, defer
<1>10. l.key = op[t].key /\ l.targets = op[t].targets /\ l.app = op[t].app /\ l.done = {"sys"}
  BY ThreadsHere DEF Typed, ThreadsOK, Local
<1> HIDE DEF l
<1>11. Write(op[t].targets, {"sys"}, "full") /\ "sys" \in Parts
  BY <1>5, <1>6 DEF Parts
<1> QED
  BY <1>1, <1>8, <1>9, <1>10, <1>11, InstallWrites

\* The IO write of a manual limit loses no cap.
LEMMA WriteIoCovered ==
    ASSUME Sequential, Typed, OInv, NEW t \in Rest, WriteIo(t)
    PROVE  OInv'
<1>1. pc[t] = "write_io" /\ UNCHANGED <<registryVars, worldVars, oplock, chan, closed>>
  BY DEF WriteIo
<1>2. running
  BY <1>1, MiddleAlone, ThreadsHere, LifecycleAssumption DEF OInv
<1>3. Installs(t)
  BY ThreadsHere DEF OInv, Doing
<1>4. op[t].targets \subseteq exists /\ op[t].key \in op[t].targets
  BY <1>1, <1>3 DEF Installs, Aims
<1>5. PICK W \in Succeed(op[t].targets) :
         /\ Write(W, {"io"}, "full")
         /\ Continue(t, "record",
               [op[t] EXCEPT !.done = IF Landed(op[t], W) THEN @ \cup {"io"} ELSE @])
  BY <1>2 DEF WriteIo
<1>6. W = op[t].targets
  BY <1>4, <1>5, AllSucceed
<1> DEFINE l == [op[t] EXCEPT !.done = op[t].done \cup {"io"}]
<1>7. Landed(op[t], W)
  BY <1>4, <1>6 DEF Landed
<1>8. Continue(t, "record", l)
  BY <1>5, <1>7
<1>9. l.key = op[t].key /\ l.targets = op[t].targets /\ l.app = op[t].app
      /\ l.done = op[t].done \cup {"io"}
  BY ThreadsHere DEF Typed, ThreadsOK, Local
<1> HIDE DEF l
<1>10. Write(op[t].targets, {"io"}, "full") /\ "io" \in Parts
  BY <1>5, <1>6 DEF Parts
<1> QED
  BY <1>1, <1>8, <1>9, <1>10, InstallWrites

\* The deferred IO write loses no cap.
LEMMA DeferWriteCovered ==
    ASSUME Sequential, Typed, OInv, NEW t \in Rest, DeferWrite(t)
    PROVE  OInv'
<1>1. pc[t] = "defer_write" /\ UNCHANGED <<registryVars, worldVars, oplock, chan, closed>>
  BY DEF DeferWrite
<1>3. Defers(t)
  BY ThreadsHere DEF OInv, Doing
<1>4. op[t].targets \subseteq exists /\ op[t].key \in op[t].targets
  BY <1>1, <1>3 DEF Defers, Aims
<1>5. PICK W \in Succeed(op[t].targets) :
         /\ Write(W, {"io"}, "full")
         /\ Continue(t, "defer_record",
               [op[t] EXCEPT !.done = IF Landed(op[t], W) THEN {"io"} ELSE {}])
  BY DEF DeferWrite
<1>6. W = op[t].targets
  BY <1>4, <1>5, AllSucceed
<1> DEFINE l == [op[t] EXCEPT !.done = {"io"}]
<1>7. Landed(op[t], W)
  BY <1>4, <1>6 DEF Landed
<1>8. Continue(t, "defer_record", l)
  BY <1>5, <1>7
<1>9. l.key = op[t].key /\ l.targets = op[t].targets /\ l.app = op[t].app /\ l.done = {"io"}
  BY ThreadsHere DEF Typed, ThreadsOK, Local
<1> HIDE DEF l
<1>10. Write(op[t].targets, {"io"}, "full") /\ "io" \in Parts
  BY <1>5, <1>6 DEF Parts
<1> QED
  BY <1>1, <1>8, <1>9, <1>10, InstallWrites

\* Recording a manual limit loses no cap.
LEMMA RecordCovered ==
    ASSUME Sequential, Typed, OInv, NEW t \in Rest, Record(t)
    PROVE  OInv'
<1> DEFINE l == op[t]
           entry == [id |-> FreshId, app |-> l.app, source |-> "manual", adopted |-> FALSE,
                     controlled |-> TRUE, parts |-> l.done, partial |-> {},
                     cgroups |-> l.targets]
<1>1. \A u \in Threads \ {t} : pc[u] = "idle"
  BY MiddleAlone, ThreadsHere DEF Record, OInv
<1>2. UNCHANGED <<worldVars, cap, chan, closed>> /\ pc[t] = "record"
  BY DEF Record
<1>3. closed = {} /\ t # Main
  BY <1>2, ThreadsHere, MiddleAlone, LifecycleAssumption DEF OInv
<1>4. Installs(t)
  BY ThreadsHere DEF OInv, Doing
<1>5. /\ IF l.done # {} THEN Put(l.key, entry) ELSE UNCHANGED registryVars
      /\ IF l.defer THEN Goto(t, "deferred") /\ UNCHANGED op ELSE Return(t)
  BY DEF Record
<1>6. /\ entry.app = l.app /\ entry.source = "manual" /\ entry.parts = l.done
      /\ entry.cgroups = l.targets
  OBVIOUS
<1>7. EntrySound(l.key, entry) /\ l.key \notin Keys
  BY <1>2, <1>4 DEF Installs, Aims, EntrySound
<1> HIDE DEF entry
<1>8. /\ EntriesSound'
      /\ l.done # {} => l.key \in Keys' /\ registry'[l.key].cgroups = l.targets
      /\ \A c, p : Recorded(c, p) => Recorded(c, p)'
      /\ \A c, p : c \in l.targets /\ p \in l.done => Recorded(c, p)'
  <2>1. CASE l.done # {}
    BY <1>5, <1>6, <1>7, <2>1, PutEntries DEF OInv
  <2>2. CASE l.done = {}
    BY <1>5, <2>2 DEF OInv, EntriesSound, Keys, Recorded, registryVars
  <2> QED
    BY <2>1, <2>2
<1>9. Doing(t)' /\ \E label : Goto(t, label)
  <2>1. CASE l.defer
    <3>1. pc'[t] = "deferred" /\ UNCHANGED op
      BY <1>5, <2>1, ThreadsHere, Goes
    <3>2. l.done # {}
      BY <1>2, <1>4, <2>1 DEF Installs
    <3> QED
      BY <1>2, <1>4, <1>5, <1>8, <2>1, <3>1, <3>2
         DEF Doing, Applies, Lifts, Installs, Defers, Relieves, Aims, worldVars
  <2>2. CASE ~l.defer
    BY <1>5, <2>2, ThreadsHere, GoesOn, IdleDoes DEF Return
  <2> QED
    BY <2>1, <2>2
<1>10. GoneIsUncapped'
  BY <1>2 DEF OInv, GoneIsUncapped, worldVars
<1>11. ASSUME NEW c \in Cgroups, NEW p \in Parts, cap'[c][p] # "none"
       PROVE  Claimed(c, p)'
  <2>1. Recorded(c, p) \/ Mine(t, c, p)
    BY <1>1, <1>2, <1>3, <1>11, MyClaim, ThreadsHere DEF OInv, Covered, InHand
  <2> QED
    BY <1>2, <1>8, <2>1 DEF Claimed, Mine
<1> QED
  BY <1>1, <1>2, <1>3, <1>8, <1>9, <1>10, <1>11, StepCovered, ThreadsHere DEF worldVars

\* Deciding on the deferred IO cap loses no cap.
LEMMA DeferredCovered ==
    ASSUME Sequential, Typed, OInv, NEW t \in Rest, Deferred(t)
    PROVE  OInv'
<1>1. \A u \in Threads \ {t} : pc[u] = "idle"
  BY MiddleAlone, ThreadsHere DEF Deferred, OInv
<1>2. UNCHANGED <<registryVars, worldVars, cap, chan, closed>> /\ pc[t] = "deferred"
  BY DEF Deferred
<1>3. closed = {} /\ t # Main
  BY <1>2, ThreadsHere, MiddleAlone, LifecycleAssumption DEF OInv
<1>4. Defers(t)
  BY ThreadsHere DEF OInv, Doing
<1>5. Goto(t, "defer_write") /\ UNCHANGED op
  BY <1>2, <1>4 DEF Deferred, Defers
<1>6. pc'[t] = "defer_write"
  BY <1>5, ThreadsHere, Goes
<1>7. Doing(t)'
  BY <1>2, <1>4, <1>5, <1>6
     DEF Doing, Applies, Lifts, Installs, Defers, Relieves, Aims, Keys, registryVars, worldVars
<1>8. \A d, p : ~Mine(t, d, p)
  BY <1>2 DEF Mine
<1> QED
  BY <1>1, <1>2, <1>3, <1>5, <1>7, <1>8, QuietStep, ThreadsHere DEF registryVars, worldVars

\* Recording the deferred IO cap loses no cap.
LEMMA DeferRecordCovered ==
    ASSUME Sequential, Typed, OInv, NEW t \in Rest, DeferRecord(t)
    PROVE  OInv'
<1> DEFINE k == op[t].key
           P == (registry[k].parts \ {"io"}) \cup op[t].done
<1>1. \A u \in Threads \ {t} : pc[u] = "idle"
  BY MiddleAlone, ThreadsHere DEF DeferRecord, OInv
<1>2. UNCHANGED <<order, exclusions, worldVars, cap, closed>> /\ pc[t] = "defer_record"
  BY DEF DeferRecord
<1>3. closed = {} /\ t # Main
  BY <1>2, ThreadsHere, MiddleAlone, LifecycleAssumption DEF OInv
<1>4. Defers(t)
  BY ThreadsHere DEF OInv, Doing
<1>5. k \in Keys /\ registry[k].cgroups = op[t].targets /\ op[t].done = {"io"}
  BY <1>2, <1>4 DEF Defers
<1>6. SetParts(k, P, {t}) /\ Goto(t, "idle")
  BY <1>5 DEF DeferRecord
<1>7. registry[k].parts \subseteq P /\ op[t].done \subseteq P
  BY <1>5
<1> HIDE DEF P
<1>8. /\ EntriesSound' /\ Keys' = Keys
      /\ \A j \in Keys : /\ registry'[j].cgroups = registry[j].cgroups
                         /\ j # k => registry'[j].parts = registry[j].parts
      /\ registry'[k].parts = P
  BY <1>5, <1>6, SetPartsEntries DEF OInv
<1>9. Doing(t)'
  BY <1>6, ThreadsHere, Goes, IdleDoes
<1>10. GoneIsUncapped'
  BY <1>2 DEF OInv, GoneIsUncapped, worldVars
<1>11. ASSUME NEW c \in Cgroups, NEW p \in Parts, cap'[c][p] # "none"
       PROVE  Claimed(c, p)'
  <2>1. Recorded(c, p) \/ Mine(t, c, p)
    BY <1>1, <1>2, <1>3, <1>11, MyClaim, ThreadsHere DEF OInv, Covered, InHand
  <2>2. Recorded(c, p)'
    BY <1>2, <1>5, <1>7, <1>8, <2>1 DEF Recorded, Mine
  <2> QED
    BY <2>2 DEF Claimed
<1> QED
  BY <1>1, <1>2, <1>3, <1>6, <1>8, <1>9, <1>10, <1>11, StepCovered, ThreadsHere DEF worldVars

\* Starting a restore by the user loses no cap.
LEMMA RestoreCovered ==
    ASSUME Sequential, Typed, OInv, NEW t \in Rest, NEW app, Restore(t, app)
    PROVE  OInv'
<1> DEFINE k == by_public_id(app, "manual")
           l == [NoOp EXCEPT !.app = app, !.key = k, !.targets = registry[k].cgroups,
                             !.parts = registry[k].parts]
<1>1. \A u \in Threads : pc[u] = "idle"
  BY StartAlone DEF Restore, MayStart, OInv
<1>2. running /\ closed = {} /\ t # Main
  BY StartAlone, LifecycleAssumption DEF Restore, MayStart, OInv
<1>3. UNCHANGED <<worldVars, cap, oplock, chan, closed>> /\ Pop({k}) /\ Continue(t, "lift_manual", l)
  BY DEF Restore
<1>4. l.targets = registry[k].cgroups /\ l.parts = registry[k].parts
  BY DEF NoOp
<1> HIDE DEF l, k
<1>5. pc'[t] = "lift_manual" /\ op'[t] = l /\ Goto(t, "lift_manual")
  BY <1>3, ThreadsHere, GoesOn
<1>6. Doing(t)'
  BY <1>5, IdleDoes
<1>7. GoneIsUncapped'
  BY <1>3 DEF OInv, GoneIsUncapped, worldVars
<1>8. EntriesSound'
  BY <1>3, PopEntries DEF OInv
<1>9. ASSUME NEW c \in Cgroups, NEW p \in Parts, cap'[c][p] # "none"
      PROVE  Claimed(c, p)'
  <2>1. Recorded(c, p)
    BY <1>1, <1>2, <1>3, <1>9, MyClaim, ThreadsHere DEF OInv, Covered, Mine, InHand
  <2>2. Recorded(c, p)' \/ (c \in registry[k].cgroups /\ p \in registry[k].parts)
    BY <1>3, <2>1, PopEntries DEF OInv
  <2> QED
    BY <1>4, <1>5, <2>2, ThreadsHere DEF Claimed, Mine
<1> QED
  BY <1>1, <1>2, <1>3, <1>5, <1>6, <1>7, <1>8, <1>9, StepCovered, ThreadsHere DEF worldVars

\* Caps are lifted from cgroups that t acts on.
LEMMA LiftsCaps ==
    ASSUME Sequential, Typed, OInv, NEW t \in Rest, pc[t] \in {"lift_manual", "lift_user"},
           NEW W \in Succeed(op[t].targets), Write(W, op[t].parts, "none"),
           UNCHANGED <<registryVars, worldVars, chan, closed>>
    PROVE  /\ EntriesSound' /\ GoneIsUncapped'
           /\ \A c \in Cgroups, p \in Parts : cap'[c][p] # "none" => Claimed(c, p)'
           /\ \A c \in op[t].targets \cap Cgroups, p \in op[t].parts \cap Parts : cap'[c][p] = "none"
<1>1. \A u \in Threads \ {t} : pc[u] = "idle"
  BY MiddleAlone, ThreadsHere DEF OInv
<1>2. closed = {}
  BY ThreadsHere, MiddleAlone, LifecycleAssumption DEF OInv
<1>3. W = op[t].targets \cap exists
  BY AllSucceed
<1>4. GoneIsUncapped'
  BY <1>3, WriteGone DEF OInv, Typed, worldVars
<1>5. EntriesSound'
  BY DEF OInv, EntriesSound, Keys, registryVars
<1>6. ASSUME NEW c \in Cgroups, NEW p \in Parts, c \in op[t].targets, p \in op[t].parts
      PROVE  cap'[c][p] = "none"
  BY <1>3, <1>6, Written DEF OInv, GoneIsUncapped
<1>7. ASSUME NEW c \in Cgroups, NEW p \in Parts, cap'[c][p] # "none"
      PROVE  Claimed(c, p)'
  <2>1. ~(c \in op[t].targets /\ p \in op[t].parts)
    BY <1>6, <1>7
  <2>2. cap[c][p] # "none"
    BY <1>3, <1>7, <2>1, Written
  <2>3. Recorded(c, p)
    BY <1>1, <1>2, <2>1, <2>2, MyClaim, ThreadsHere DEF OInv, Covered, Mine, InHand
  <2> QED
    BY <2>3 DEF Claimed, Recorded, Keys, registryVars
<1> QED
  BY <1>4, <1>5, <1>6, <1>7

\* Lifting a manual limit loses no cap.
LEMMA LiftManualCovered ==
    ASSUME Sequential, Typed, OInv, NEW t \in Rest, LiftManual(t)
    PROVE  OInv'
<1>1. \A u \in Threads \ {t} : pc[u] = "idle"
  BY MiddleAlone, ThreadsHere DEF LiftManual, OInv
<1>2. UNCHANGED <<registryVars, worldVars, chan, closed>> /\ pc[t] = "lift_manual" /\ Return(t)
  BY DEF LiftManual
<1>3. closed = {} /\ t # Main
  BY <1>2, ThreadsHere, MiddleAlone, LifecycleAssumption DEF OInv
<1>4. PICK W \in Succeed(op[t].targets) : Write(W, op[t].parts, "none")
  BY DEF LiftManual
<1>5. /\ EntriesSound' /\ GoneIsUncapped'
      /\ \A c \in Cgroups, p \in Parts : cap'[c][p] # "none" => Claimed(c, p)'
  BY <1>2, <1>4, LiftsCaps
<1>6. Doing(t)' /\ \E label : Goto(t, label)
  BY <1>2, ThreadsHere, GoesOn, IdleDoes DEF Return
<1> QED
  BY <1>1, <1>2, <1>3, <1>5, <1>6, StepCovered, ThreadsHere DEF worldVars

\* Starting a restore of an auto limit by the user loses no cap.
LEMMA UserRestoreCovered ==
    ASSUME Sequential, Typed, OInv, NEW t \in Rest, NEW app, UserRestore(t, app)
    PROVE  OInv'
<1> DEFINE public == by_public_id(app, "auto")
           k == IF public # NoKey THEN public ELSE by_any_id(app, "auto")
           l == [NoOp EXCEPT !.app = registry[k].app, !.key = k, !.id = registry[k].id,
                             !.targets = registry[k].cgroups, !.parts = registry[k].parts,
                             !.controlled = registry[k].controlled]
<1>1. \A u \in Threads : pc[u] = "idle"
  BY StartAlone DEF UserRestore, MayStart, OInv
<1>2. running /\ closed = {} /\ t # Main
  BY StartAlone, LifecycleAssumption DEF UserRestore, MayStart, OInv
<1>3. /\ Continue(t, "lift_user", l)
      /\ UNCHANGED <<registryVars, worldVars, cap, oplock, chan, closed>>
  BY DEF UserRestore
<1>4. k \in Keys
  BY ByPublicIdFinds, ByAnyIdFinds DEF UserRestore, Typed
<1>5. l.key = k /\ l.targets = registry[k].cgroups /\ l.parts = registry[k].parts
  BY DEF NoOp
<1> HIDE DEF l, k
<1>6. pc'[t] = "lift_user" /\ op'[t] = l /\ Goto(t, "lift_user")
  BY <1>3, ThreadsHere, GoesOn
<1>7. Doing(t)'
  BY <1>3, <1>4, <1>5, <1>6
     DEF Doing, Applies, Lifts, Installs, Defers, Relieves, Keys, registryVars
<1>8. \A d, p : ~Mine(t, d, p)
  BY <1>1, ThreadsHere DEF Mine
<1> QED
  BY <1>1, <1>2, <1>3, <1>6, <1>7, <1>8, QuietStep, ThreadsHere DEF registryVars, worldVars

\* Lifting the caps of an auto limit loses none.
LEMMA LiftUserCovered ==
    ASSUME Sequential, Typed, OInv, NEW t \in Rest, LiftUser(t)
    PROVE  OInv'
<1>1. \A u \in Threads \ {t} : pc[u] = "idle"
  BY MiddleAlone, ThreadsHere DEF LiftUser, OInv
<1>2. UNCHANGED <<registryVars, worldVars, chan, closed>> /\ pc[t] = "lift_user"
  BY DEF LiftUser
<1>3. closed = {} /\ t # Main
  BY <1>2, ThreadsHere, MiddleAlone, LifecycleAssumption DEF OInv
<1>4. PICK W \in Succeed(op[t].targets) :
         /\ Write(W, op[t].parts, "none")
         /\ IF Lifted(op[t], W) THEN Goto(t, "pop_user") /\ UNCHANGED <<op, oplock>> ELSE Return(t)
  BY DEF LiftUser
<1>5. /\ EntriesSound' /\ GoneIsUncapped'
      /\ \A c \in Cgroups, p \in Parts : cap'[c][p] # "none" => Claimed(c, p)'
      /\ \A c \in op[t].targets \cap Cgroups, p \in op[t].parts \cap Parts : cap'[c][p] = "none"
  BY <1>2, <1>4, LiftsCaps
<1>6. Doing(t)' /\ \E label : Goto(t, label)
  <2>1. CASE Return(t)
    BY <2>1, ThreadsHere, GoesOn, IdleDoes DEF Return
  <2>2. CASE Goto(t, "pop_user") /\ UNCHANGED op
    <3>1. pc'[t] = "pop_user"
      BY <2>2, ThreadsHere, Goes
    <3>2. Relieves(t) /\ op[t].targets \subseteq Cgroups /\ op[t].parts \subseteq Parts
      BY ThreadsHere DEF OInv, Doing, Typed, ThreadsOK, Local
    <3>3. Relieves(t)'
      BY <1>2, <1>5, <2>2, <3>1, <3>2 DEF Relieves, Keys, registryVars
    <3> QED
      BY <2>2, <3>1, <3>3 DEF Doing, Applies, Lifts, Installs, Defers
  <2> QED
    BY <1>4, <2>1, <2>2
<1> QED
  BY <1>1, <1>2, <1>3, <1>5, <1>6, StepCovered, ThreadsHere DEF worldVars

\* Dropping the record of an auto limit loses no cap.
LEMMA PopUserCovered ==
    ASSUME Sequential, Typed, OInv, NEW t \in Rest, PopUser(t)
    PROVE  OInv'
<1>1. \A u \in Threads \ {t} : pc[u] = "idle"
  BY MiddleAlone, ThreadsHere DEF PopUser, OInv
<1>2. UNCHANGED <<worldVars, cap, chan, closed>> /\ pc[t] = "pop_user" /\ Return(t)
  BY DEF PopUser
<1>3. closed = {} /\ t # Main
  BY <1>2, ThreadsHere, MiddleAlone, LifecycleAssumption DEF OInv
<1>4. Pop({op[t].key}) \/ UNCHANGED <<registry, order>>
  BY DEF PopUser
<1>5. Relieves(t)
  BY ThreadsHere DEF OInv, Doing
<1>6. EntriesSound'
  BY <1>4, PopEntries DEF OInv, EntriesSound, Keys
<1>7. Doing(t)' /\ \E label : Goto(t, label)
  BY <1>2, ThreadsHere, GoesOn, IdleDoes DEF Return
<1>8. GoneIsUncapped'
  BY <1>2 DEF OInv, GoneIsUncapped, worldVars
<1>9. ASSUME NEW c \in Cgroups, NEW p \in Parts, cap'[c][p] # "none"
      PROVE  Claimed(c, p)'
  <2>1. Recorded(c, p) /\ cap[c][p] # "none"
    BY <1>1, <1>2, <1>3, <1>9, MyClaim, ThreadsHere DEF OInv, Covered, Mine, InHand
  <2>2. ~(c \in registry[op[t].key].cgroups /\ p \in registry[op[t].key].parts)
    BY <1>2, <1>5, <2>1 DEF Relieves
  <2>3. Recorded(c, p)'
    <3>1. CASE Pop({op[t].key})
      BY <2>1, <2>2, <3>1, PopEntries DEF OInv
    <3>2. CASE UNCHANGED registry
      BY <2>1, <3>2 DEF Recorded, Keys
    <3> QED
      BY <1>4, <3>1, <3>2
  <2> QED
    BY <2>3 DEF Claimed
<1> QED
  BY <1>1, <1>2, <1>3, <1>6, <1>7, <1>8, <1>9, StepCovered, ThreadsHere DEF worldVars

\* A limit changes hands.
LEMMA HandoffCovered ==
    ASSUME Sequential, Typed, OInv, NEW t \in Threads, NEW ident,
           LockToManual(t, ident) \/ (ident \in Cgroups /\ AdoptAutoLimit(t, ident))
    PROVE  OInv'
<1>1. UNCHANGED <<order, running, live, exists, cap, oplock, pc, chan, closed>>
  BY DEF LockToManual, AdoptAutoLimit, worldVars
<1>2. \A u \in Threads : pc[u] = "idle"
  BY StartAlone DEF LockToManual, AdoptAutoLimit, MayStart, OInv
<1>3. running /\ closed = {}
  BY StartAlone DEF LockToManual, AdoptAutoLimit, MayStart, OInv
<1>4. PICK k \in Keys : FlipToManual(k, Owner[k])
  BY HandoffFlips
<1> DEFINE entry == [registry[k] EXCEPT !.source = "manual", !.adopted = TRUE,
                                        !.controlled = TRUE, !.app = Owner[k]]
<1>5. registry' = [registry EXCEPT ![k] = entry]
  BY <1>4 DEF FlipToManual
<1>6. entry.app = Owner[k] /\ entry.cgroups = registry[k].cgroups /\ entry.parts = registry[k].parts
  BY DEF Typed, EntriesOK, Entry
<1> HIDE DEF entry
<1>7. Keys' = Keys /\ \A j \in Keys : registry'[j] = IF j = k THEN entry ELSE registry[j]
  BY <1>5 DEF Keys, Typed, EntriesOK
<1>8. EntriesSound'
  BY <1>6, <1>7 DEF OInv, EntriesSound, EntrySound
<1>9. Doing(t)'
  BY <1>1, <1>2, IdleDoes
<1>10. Alone' /\ \A u \in Threads : Doing(u)'
  BY <1>1, <1>2, <1>9, OnlyMine
<1>11. Roles' /\ GoneIsUncapped'
  BY <1>1, <1>2, <1>3, ThreadsHere DEF OInv, Roles, GoneIsUncapped
<1>12. Covered'
  <2> SUFFICES ASSUME NEW c \in Cgroups, NEW p \in Parts, cap'[c][p] # "none" PROVE Claimed(c, p)'
    BY DEF Covered
  <2>1. Recorded(c, p)
    BY <1>1, <1>2, <1>3 DEF OInv, Covered, Claimed, Mine, InHand
  <2> QED
    BY <1>6, <1>7, <2>1 DEF Claimed, Recorded
<1> QED
  BY <1>8, <1>10, <1>11, <1>12 DEF OInv

\* The steps of the user, the main thread and the apps.
LEMMA UnexcludeCovered ==
    ASSUME OInv, NEW t \in Rest, Unexclude(t)
    PROVE  OInv'
  BY DEF Unexclude, worldVars, OInv, Alone, Roles, Keys, EntriesSound, GoneIsUncapped,
     Doing, Applies, Aims, Lifts, Installs, Defers, Relieves, Covered, Claimed, Recorded, Mine, InHand

\* Apps that start and stop lose no cap.
LEMMA WorldCovered ==
    ASSUME Sequential, Typed, OInv, NEW c \in Cgroups, Exit(c) \/ Launch(c)
    PROVE  OInv'
<1>1. \A u \in Threads : pc[u] = "idle"
  BY StartAlone DEF Exit, Launch, OInv
<1>2. UNCHANGED <<registryVars, running, controlled, oplock, pc, op, chan, closed>>
  BY DEF Exit, Launch
<1>3. Alone' /\ \A u \in Threads : Doing(u)'
  BY <1>1, <1>2, IdleDoes DEF Alone
<1>4. Roles' /\ EntriesSound'
  BY <1>2 DEF OInv, Roles, EntriesSound, Keys, registryVars
<1>5. /\ \A d \in Cgroups, p \in Parts : cap'[d][p] # "none" => cap[d][p] # "none"
      /\ GoneIsUncapped'
  <2>1. CASE Exit(c) /\ UNCHANGED <<exists, cap>>
    BY <2>1 DEF OInv, GoneIsUncapped
  <2>2. CASE exists' = exists \ {c} /\ Write({c}, Parts, "none")
    BY <2>2, Written DEF OInv, GoneIsUncapped
  <2>3. CASE exists' = exists \cup {c} /\ UNCHANGED cap
    BY <2>3 DEF OInv, GoneIsUncapped
  <2> QED
    BY <2>1, <2>2, <2>3 DEF Exit, Launch
<1>6. Covered'
  BY <1>2, <1>5 DEF OInv, Covered, Claimed, Recorded, Mine, InHand, Keys, registryVars
<1> QED
  BY <1>3, <1>4, <1>5, <1>6 DEF OInv

\* The shutdown's sweep loses no cap.
LEMMA ShutdownCovered ==
    ASSUME Sequential, Typed, OInv, StopRunning \/ Sweep
    PROVE  OInv'
<1>1. \A u \in Threads \ {Main} : pc[u] = "idle"
  BY StartAlone, MiddleAlone, ThreadsHere DEF StopRunning, Sweep, MayStart, OInv
<1>2. closed = {} /\ pc'[Main] \in {"sweep", "stopped"} /\ (\E label : Goto(Main, label))
      /\ UNCHANGED <<exclusions, live, exists, controlled, oplock, op, chan, closed>>
  <2>1. UNCHANGED <<exclusions, live, exists, controlled, oplock, op, chan, closed>>
        /\ (Goto(Main, "sweep") \/ Goto(Main, "stopped"))
    BY DEF StopRunning, Sweep, registryVars, worldVars
  <2>2. pc[Monitor] = "idle"
    BY <1>1, ThreadsHere, LifecycleAssumption
  <2> QED
    BY <2>1, <2>2, ThreadsHere, Goes DEF OInv, Roles
<1>3. Doing(Main)'
  BY <1>2 DEF Doing, Applies, Lifts, Installs, Defers, Relieves
<1>4. Alone' /\ \A u \in Threads : Doing(u)'
  BY <1>1, <1>2, <1>3, OnlyMine, ThreadsHere
<1>5. \A c \in Cgroups, p \in Parts : cap[c][p] # "none" => Recorded(c, p)
  BY <1>1, <1>2, MyClaim, ThreadsHere DEF OInv, Roles, Covered, Mine, InHand
<1>6. CASE StopRunning
  <2>1. UNCHANGED <<registryVars, cap>> /\ pc'[Main] = "sweep"
    BY <1>6, ThreadsHere, Goes DEF StopRunning
  <2>2. Roles' /\ EntriesSound' /\ GoneIsUncapped' /\ Covered'
    BY <1>2, <1>5, <2>1 DEF OInv, Roles, EntriesSound, GoneIsUncapped, Covered, Claimed, Recorded,
       Keys, registryVars
  <2> QED
    BY <1>4, <2>2 DEF OInv
<1>7. CASE Sweep
  <2>1. PICK W \in Succeed(Cgroups) : cap' = [c \in Cgroups |-> [p \in Parts |->
            IF c \in W /\ \E k \in Swept : c \in registry[k].cgroups /\ p \in registry[k].parts
            THEN "none" ELSE cap[c][p]]]
    BY <1>7 DEF Sweep
  <2>2. W = Cgroups \cap exists
    BY <2>1, AllSucceed
  <2>3. \A c \in Cgroups, p \in Parts : cap'[c][p] = "none"
    BY <1>5, <2>1, <2>2 DEF Swept, Recorded, OInv, GoneIsUncapped
  <2>4. Keys' = {} /\ EntriesSound'
    BY <1>7, PopEntries DEF Sweep, Swept, OInv
  <2>5. Roles' /\ GoneIsUncapped' /\ Covered'
    BY <1>2, <2>3, <2>4 DEF Roles, GoneIsUncapped, Covered
  <2> QED
    BY <1>4, <2>4, <2>5 DEF OInv
<1> QED
  BY <1>6, <1>7

\* A step that changes nothing loses no cap.
LEMMA StutterCovered == ASSUME OInv, UNCHANGED vars PROVE OInv'
  BY DEF vars, OInv, Alone, Roles, Keys, EntriesSound, GoneIsUncapped,
     Doing, Applies, Aims, Lifts, Installs, Defers, Relieves, Covered, Claimed, Recorded, Mine, InHand

\* No step loses a cap.
LEMMA StepCovers == Sequential /\ Typed /\ Named /\ OInv /\ [Next]_vars => OInv'
<1> SUFFICES ASSUME Sequential, Typed, Named, OInv, [Next]_vars PROVE OInv'
  OBVIOUS
<1>1. CASE MonitorNext
  BY <1>1, SelectCovered, BeginCovered, YieldCovered, WriteAutoCovered, UpsertCovered,
     StartCovered, LiftCovered, AccountCovered, ReapCovered, ReapOneCovered, HandoffCovered,
     ThreadsHere DEF MonitorNext
<1>2. ASSUME NEW t \in Rest, RestNext(t)
      PROVE  OInv'
  BY <1>2, LimitCovered, WriteSysCovered, WriteIoCovered, RecordCovered, DeferredCovered,
     DeferWriteCovered, DeferRecordCovered, RestoreCovered, LiftManualCovered,
     UserRestoreCovered, LiftUserCovered, PopUserCovered, HandoffCovered, UnexcludeCovered,
     ThreadsHere DEF RestNext
<1>3. CASE StopRunning \/ Sweep \/ \E c \in Cgroups : Exit(c) \/ Launch(c)
  BY <1>3, ShutdownCovered, WorldCovered
<1>4. CASE UNCHANGED vars
  BY <1>4, StutterCovered
<1> QED
  BY <1>1, <1>2, <1>3, <1>4 DEF Next

\* Initially there is no cap.
LEMMA InitCovers == Init => OInv
<1> SUFFICES ASSUME Init PROVE OInv
  OBVIOUS
<1>1. Keys = {} /\ closed = {} /\ exists = Cgroups /\ running
  BY DEF Init, RegistryInit, Keys
<1>2. (\A t \in Threads : pc[t] = "idle") /\ \A c \in Cgroups, p \in Parts : cap[c][p] = "none"
  BY DEF Init
<1>3. Alone /\ Roles /\ EntriesSound /\ GoneIsUncapped /\ Covered
  BY <1>1, <1>2, ThreadsHere DEF Alone, Roles, EntriesSound, GoneIsUncapped, Covered
<1>4. \A t \in Threads : Doing(t)
  BY <1>2 DEF Doing, Applies, Lifts, Installs, Defers, Relieves
<1> QED
  BY <1>3, <1>4 DEF OInv

\* The invariant says what the two properties say.
LEMMA Uncovered == OInv => NoOrphanCap /\ StoppedClean
<1> SUFFICES ASSUME OInv PROVE NoOrphanCap /\ StoppedClean
  OBVIOUS
<1>1. ASSUME Quiet, NEW c \in Cgroups, NEW p \in Parts, cap[c][p] # "none"
      PROVE  Recorded(c, p)
  <2>1. closed = {} /\ \A t \in Threads : ~Mine(t, c, p)
    BY <1>1, ThreadsHere DEF Quiet, OInv, Roles, Mine
  <2> QED
    BY <1>1, <2>1 DEF OInv, Covered, Claimed, InHand
<1>2. NoOrphanCap
  BY <1>1 DEF NoOrphanCap, Recorded
<1>3. StoppedClean
  BY <1>1 DEF StoppedClean, Recorded, OInv, Roles
<1> QED
  BY <1>2, <1>3

\* The invariant holds throughout.
LEMMA CoveredKept == ASSUME Sequential PROVE Spec => []OInv
<1>1. Init => OInv
  BY InitCovers
<1>2. Typed /\ Named /\ OInv /\ [Next]_vars => OInv'
  BY StepCovers
<1> QED
  BY <1>1, <1>2, TypedKept, PTL DEF Spec

\* A written cap is on record, or the thread that wrote it is about to record or
\* to lift it: nothing that balancer.py throttles is left out of reach of its restores.
THEOREM NoCapIsForgotten ==
    ASSUME Serial = TRUE, WritesMayFail = FALSE, "edit" \notin Ops
    PROVE  Spec => []NoOrphanCap
<1>1. Sequential
  BY DEF Sequential
<1>2. Spec => []OInv
  BY <1>1, CoveredKept
<1>3. OInv => NoOrphanCap
  BY Uncovered
<1> QED
  BY <1>2, <1>3, PTL

\* Once the shutdown of the balancer has swept the registry and every thread has ended,
\* no cgroup carries a cap.
THEOREM ShutdownLeavesNoCap ==
    ASSUME Serial = TRUE, WritesMayFail = FALSE, "edit" \notin Ops
    PROVE  Spec => []StoppedClean
<1>1. Sequential
  BY DEF Sequential
<1>2. Spec => []OInv
  BY <1>1, CoveredKept
<1>3. OInv => StoppedClean
  BY Uncovered
<1> QED
  BY <1>2, <1>3, PTL

-----------------------------------------------------------------------------
(***************************************************************************)
(* No cap is imagined, and the stages agree                                *)
(***************************************************************************)
\* One operation at a time, on apps that go on running, and a manual limit stays.
Lasting ==
    /\ Serial
    /\ Ops \subseteq {"auto", "staged", "limit", "user_restore", "handoff"}

\* A write succeeds for all the cgroups of an app or for none.
Whole == WritesMayFail => \A c, d \in Cgroups : Owner[c] = Owner[d] => c = d

Still == running /\ live = Cgroups /\ exists = Cgroups /\ closed = {} /\ pc[Main] = "idle"

\* No two entries share a cgroup.
Apart == \A j, k \in Keys : j # k => registry[j].cgroups \cap registry[k].cgroups = {}

\* The pressure loop limits all the cgroups of a controlled app, and one of
\* any other app.
Fits(k, C) ==
    IF Owner[k] \in controlled THEN C = CgroupsOf(Owner[k]) /\ k = Min(CgroupsOf(Owner[k]))
    ELSE C = {k}
UserHas(app) == \E k \in Keys : registry[k].source = "manual" /\ Owner[k] = app
Fitting == \A k \in Keys : UserHas(Owner[k]) \/ Fits(k, registry[k].cgroups)
UserControls == \A k \in Keys : registry[k].source = "manual" => Owner[k] \in controlled

Settled == Alone /\ Still /\ EntriesSound /\ Apart /\ Fitting /\ UserControls

\* No entry has a cgroup of C.
Free(C) == \A k \in Keys : registry[k].cgroups \cap C = {}
Full(k, P) == \A p \in P : cap[k][p] = "full"

\* The entry at k and the kernel agree on channel p of its primary cgroup.
Agree(k, p) ==
    /\ p \in registry[k].parts => cap[k][p] # "none"
    /\ Whole => (p \in registry[k].partial <=> cap[k][p] = "half")

\* What the operation of t relies on, and what it has reached.
Places(t) ==
    (pc[t] \in {"begin_apply", "yield", "write", "upsert"}
       \/ (pc[t] \in {"lift", "account"} /\ chan.next = "write")) =>
        /\ op[t].key \in op[t].targets
        /\ op[t].targets \subseteq CgroupsOf(Owner[op[t].key])
        /\ op[t].id = 0
        /\ op[t].app \in {Owner[op[t].key], op[t].key}
        /\ Fits(op[t].key, op[t].targets)
        /\ pc[t] # "begin_apply" => ~UserHas(Owner[op[t].key])
        /\ pc[t] = "upsert" => Full(op[t].key, op[t].done)
Eases(t) ==
    pc[t] \in {"lift", "account"} =>
        /\ chan.key \in Keys
        /\ registry[chan.key].source = "auto"
        /\ chan.id = registry[chan.key].id
        /\ chan.parts = registry[chan.key].parts
        /\ pc[t] = "lift" => chan.part \in chan.parts /\ chan.ok
        /\ pc[t] = "account" =>
              IF ~chan.ok THEN Agree(chan.key, chan.part)
              ELSE IF chan.stage = "partial" THEN cap[chan.key][chan.part] = "half"
              ELSE cap[chan.key][chan.part] = "none" /\ chan.part \notin chan.parts
Puts(t) ==
    pc[t] \in {"write_sys", "write_io", "record"} =>
        /\ op[t].key \in op[t].targets
        /\ op[t].targets \subseteq CgroupsOf(Owner[op[t].key])
        /\ op[t].app = Owner[op[t].key]
        /\ op[t].app \in controlled
        /\ Free(op[t].targets)
        /\ pc[t] = "write_sys" => op[t].done = {}
        /\ Full(op[t].key, op[t].done)
        /\ op[t].defer => op[t].done = {"sys"} /\ pc[t] = "record"
Awaits(t) ==
    pc[t] \in {"deferred", "defer_write", "defer_record"} =>
        /\ op[t].key \in Keys
        /\ registry[op[t].key].cgroups = op[t].targets
        /\ registry[op[t].key].partial = {}
        /\ registry[op[t].key].parts = {"sys"}
        /\ pc[t] = "defer_record" => Full(op[t].key, op[t].done)
Returns(t) ==
    pc[t] \in {"lift_user", "pop_user"} =>
        /\ op[t].key \in Keys
        /\ registry[op[t].key].source = "auto"
        /\ registry[op[t].key].id = op[t].id
        /\ registry[op[t].key].cgroups = op[t].targets
        /\ registry[op[t].key].parts = op[t].parts
        /\ pc[t] = "pop_user" =>
              (Whole => \A c \in op[t].targets, p \in op[t].parts : cap[c][p] # "half")
Underway(t) == pc[t] # "lift_manual" /\ Places(t) /\ Eases(t) /\ Puts(t) /\ Awaits(t) /\ Returns(t)

\* t is about to settle channel p of the entry at k.
InFlux(t, k, p) ==
    \/ pc[t] = "pop_user" /\ op[t].key = k
    \/ pc[t] = "account" /\ chan.key = k /\ chan.part = p
    \/ pc[t] = "upsert" /\ op[t].key = k /\ p \in op[t].done

Agreed == \A k \in Keys, p \in Parts : (\E t \in Threads : InFlux(t, k, p)) \/ Agree(k, p)
HalfRecorded == Whole => \A c \in Cgroups, p \in Parts : cap[c][p] = "half" => Recorded(c, p)

AInv == Settled /\ (\A t \in Threads : Underway(t)) /\ Agreed /\ HalfRecorded

-----------------------------------------------------------------------------
\* Who begins an operation finds everybody idle.
LEMMA BeginAlone ==
    ASSUME Lasting, NEW o, Enabled(o)
    PROVE  /\ \A u \in Threads : pc[u] = "idle"
           /\ o \in {"auto", "staged", "limit", "user_restore", "handoff"}
  BY DEF Lasting, Enabled

\* Who is in the middle of an operation is alone.
LEMMA OthersIdle ==
    ASSUME AInv, NEW t \in Threads, pc[t] # "idle"
    PROVE  \A u \in Threads \ {t} : pc[u] = "idle"
  BY DEF AInv, Settled, Alone

\* An agreement is on the way only for what t is doing.
LEMMA MyFlux ==
    ASSUME NEW t \in Threads, \A u \in Threads \ {t} : pc[u] = "idle", AInv,
           NEW k \in Keys, NEW p \in Parts, ~InFlux(t, k, p)
    PROVE  Agree(k, p)
  BY DEF AInv, Agreed, InFlux

\* A step of t alone.
LEMMA AloneAgrees ==
    ASSUME NEW t \in Threads, Typed, AInv, \A u \in Threads \ {t} : pc[u] = "idle",
           \E label : Goto(t, label), t # Main, UNCHANGED <<running, live, exists, closed>>,
           EntriesSound', Apart', Fitting', UserControls', Underway(t)',
           \A k \in Keys', p \in Parts : InFlux(t, k, p)' \/ Agree(k, p)',
           HalfRecorded'
    PROVE  AInv'
<1>1. \A u \in Threads \ {t} : pc'[u] = "idle"
  BY DEF Goto, Typed, ThreadsOK
<1>2. Alone'
  BY <1>1 DEF Alone
<1>3. \A u \in Threads \ {t} : Underway(u)'
  BY <1>1 DEF Underway, Places, Eases, Puts, Awaits, Returns
<1>4. Still'
  BY <1>1, ThreadsHere DEF AInv, Settled, Still
<1> QED
  BY <1>2, <1>3, <1>4 DEF AInv, Settled, Agreed

\* Entries stay what they are to the pressure loop and the user, except that
\* automatic ones may go.
CoreKept ==
    /\ Keys' \subseteq Keys
    /\ \A k \in Keys' : /\ registry'[k].source = registry[k].source
                        /\ registry'[k].cgroups = registry[k].cgroups
                        /\ registry'[k].app = registry[k].app
    /\ \A k \in Keys : registry[k].source = "manual" => k \in Keys'

\* What is said of the entries stays true while the entries stay.
LEMMA CoreSettled ==
    ASSUME AInv, CoreKept, UNCHANGED controlled
    PROVE  /\ EntriesSound' /\ Apart' /\ Fitting' /\ UserControls'
           /\ \A app : UserHas(app)' <=> UserHas(app)
           /\ \A k, C : Fits(k, C)' <=> Fits(k, C)
           /\ \A C : Free(C) => Free(C)'
<1>1. \A app : UserHas(app)' <=> UserHas(app)
  BY DEF CoreKept, UserHas
<1>2. \A k, C : Fits(k, C)' <=> Fits(k, C)
  BY DEF Fits
<1>3. EntriesSound'
  BY DEF AInv, Settled, CoreKept, EntriesSound, EntrySound
<1>4. Apart'
  BY DEF AInv, Settled, CoreKept, Apart
<1>5. Fitting'
  BY <1>1, <1>2 DEF AInv, Settled, CoreKept, Fitting
<1>6. UserControls'
  BY DEF AInv, Settled, CoreKept, UserControls
<1>7. \A C : Free(C) => Free(C)'
  BY DEF Free, CoreKept
<1> QED
  BY <1>1, <1>2, <1>3, <1>4, <1>5, <1>6, <1>7

\* An untouched registry keeps them.
LEMMA SameCore == ASSUME UNCHANGED registry PROVE CoreKept /\ Keys' = Keys
  BY DEF CoreKept, Keys

\* A step that leaves the registry and the caps alone.
LEMMA QuietAgrees ==
    ASSUME NEW t \in Threads, Typed, AInv, \A u \in Threads \ {t} : pc[u] = "idle",
           \E label : Goto(t, label), t # Main, UNCHANGED <<running, live, exists, closed>>,
           UNCHANGED <<registry, cap, controlled>>, Underway(t)',
           \A k, p : ~InFlux(t, k, p)
    PROVE  AInv'
<1>1. EntriesSound' /\ Apart' /\ Fitting' /\ UserControls' /\ Keys' = Keys
  BY SameCore, CoreSettled
<1>2. \A k \in Keys', p \in Parts : Agree(k, p)'
  BY <1>1, MyFlux DEF Agree
<1>3. HalfRecorded'
  BY <1>1 DEF AInv, HalfRecorded, Recorded
<1> QED
  BY <1>1, <1>2, <1>3, AloneAgrees

\* A thread that is done is in the middle of nothing.
LEMMA IdleWorks == ASSUME NEW t, pc'[t] = "idle" PROVE Underway(t)'
  BY DEF Underway, Places, Eases, Puts, Awaits, Returns

-----------------------------------------------------------------------------
\* The monitor's target selection.
LEMMA SelectAgrees ==
    ASSUME Lasting, Typed, AInv, NEW app \in Apps, NEW c \in Cgroups, NEW part \in Parts,
           SelectTarget(app, c, part)
    PROVE  AInv'
<1>1. \A u \in Threads : pc[u] = "idle"
  BY BeginAlone DEF SelectTarget, MayStart
<1>2. PICK T : T = IF app \in controlled THEN LiveOf(app) ELSE {c}
  OBVIOUS
<1>3. PICK l : /\ l = [NoOp EXCEPT !.app = IF app \in controlled \/ part = "sys" THEN app ELSE c,
                                   !.key = Min(T), !.targets = T, !.parts = {part},
                                   !.controlled = app \in controlled]
               /\ Continue(Monitor, "begin_apply", l)
               /\ UNCHANGED <<registryVars, worldVars, cap, oplock, chan, closed>>
  BY <1>2 DEF SelectTarget
<1>4. T \in SUBSET Cgroups /\ c \in T /\ c \in CgroupsOf(app)
      /\ T = IF app \in controlled THEN CgroupsOf(app) ELSE {c}
  BY <1>2 DEF SelectTarget, LiveOf, CgroupsOf, AInv, Settled, Still
<1>5. Min(T) \in T
  BY <1>4, CgroupsAssumption, MinIsOne
<1>6. l.key = Min(T) /\ l.targets = T /\ l.id = 0
      /\ l.app = IF app \in controlled \/ part = "sys" THEN app ELSE c
  BY <1>3 DEF NoOp
<1>7. /\ Owner[Min(T)] = app /\ T \subseteq CgroupsOf(app)
      /\ app \notin controlled => Min(T) = c
  BY <1>4, <1>5 DEF CgroupsOf
<1>8. l.app \in {Owner[Min(T)], Min(T)}
  BY <1>6, <1>7
<1>9. Fits(Min(T), T)
  BY <1>4, <1>7 DEF Fits
<1>10. Fits(Min(T), T)'
  BY <1>3, <1>9 DEF Fits, worldVars
<1>11. pc'[Monitor] = "begin_apply" /\ op'[Monitor] = l /\ Goto(Monitor, "begin_apply")
  BY <1>3, ThreadsHere, GoesOn
<1>12. Underway(Monitor)'
  BY <1>5, <1>6, <1>7, <1>8, <1>10, <1>11
     DEF Underway, Places, Eases, Puts, Awaits, Returns
<1>13. \A k, p : ~InFlux(Monitor, k, p)
  BY <1>1, ThreadsHere DEF InFlux
<1> QED
  BY <1>1, <1>3, <1>11, <1>12, <1>13, QuietAgrees, ThreadsHere, LifecycleAssumption
     DEF registryVars, worldVars

\* Entering _apply_resource_limits.
LEMMA BeginAgrees ==
    ASSUME Lasting, Typed, AInv, BeginApply
    PROVE  AInv'
<1>1. \A u \in Threads \ {Monitor} : pc[u] = "idle"
  BY OthersIdle, ThreadsHere DEF BeginApply
<1>2. UNCHANGED <<registryVars, worldVars, cap, chan, closed>> /\ pc[Monitor] = "begin_apply"
  BY DEF BeginApply
<1>3. Places(Monitor)
  BY ThreadsHere DEF AInv, Underway
<1>4. Underway(Monitor)' /\ \E label : Goto(Monitor, label)
  <2>1. CASE ManuallyLimited(op[Monitor].targets)
    <3>1. Return(Monitor)
      BY <2>1 DEF BeginApply
    <3> QED
      BY <3>1, ThreadsHere, GoesOn, IdleWorks DEF Return
  <2>2. CASE ~ManuallyLimited(op[Monitor].targets)
    <3>1. /\ pc'[Monitor] \in {"yield", "write"} /\ UNCHANGED op
          /\ \E label : Goto(Monitor, label)
      BY <2>2, ThreadsHere DEF BeginApply, Goto, Typed, ThreadsOK
    <3>2. ~UserHas(Owner[op[Monitor].key])
      <4> SUFFICES ASSUME NEW k \in Keys, registry[k].source = "manual",
                          Owner[k] = Owner[op[Monitor].key]
                   PROVE  FALSE
        BY DEF UserHas
      <4>1. Owner[k] \in controlled
        BY DEF AInv, Settled, UserControls
      <4>2. k \in op[Monitor].targets
        BY <1>2, <1>3, <4>1 DEF Places, Fits, CgroupsOf, Typed, EntriesOK
      <4> QED
        BY <2>2, <4>2 DEF ManuallyLimited, AnyOwned
    <3>3. \A app : UserHas(app)' <=> UserHas(app)
      BY <1>2, SameCore, CoreSettled DEF registryVars, worldVars
    <3>4. Fits(op[Monitor].key, op[Monitor].targets)'
      BY <1>2, <1>3, <3>1 DEF Places, Fits, worldVars
    <3> QED
      BY <1>2, <1>3, <3>1, <3>2, <3>3, <3>4 DEF Underway, Places, Eases, Puts, Awaits, Returns
  <2> QED
    BY <2>1, <2>2
<1>5. \A k, p : ~InFlux(Monitor, k, p)
  BY <1>2 DEF InFlux
<1> QED
  BY <1>1, <1>2, <1>4, <1>5, QuietAgrees, ThreadsHere, LifecycleAssumption DEF registryVars, worldVars

\* Lifting the user's IO cap before an auto limit.
LEMMA YieldAgrees ==
    ASSUME Lasting, Typed, AInv, YieldIo
    PROVE  AInv'
<1>1. \A u \in Threads \ {Monitor} : pc[u] = "idle"
  BY OthersIdle, ThreadsHere DEF YieldIo
<1>2. UNCHANGED <<registryVars, worldVars, cap, oplock, op, closed>> /\ pc[Monitor] = "yield"
  BY DEF YieldIo
<1>3. Places(Monitor)
  BY ThreadsHere DEF AInv, Underway
<1>4. /\ \A app : UserHas(app)' <=> UserHas(app)
      /\ Keys' = Keys
      /\ Fits(op[Monitor].key, op[Monitor].targets) => Fits(op[Monitor].key, op[Monitor].targets)'
  BY <1>2, SameCore, CoreSettled DEF registryVars, worldVars, Fits
<1> DEFINE k == by_any_id(op[Monitor].key, "auto")
           yields == k # NoKey /\ "io" \in registry[k].parts
<1>5. Underway(Monitor)' /\ \E label : Goto(Monitor, label)
  <2>1. CASE yields
    <3>1. k \in Keys /\ registry[k].source = "auto"
      BY <2>1, ByAnyIdFinds DEF Typed
    <3>2. /\ chan' = [key |-> k, id |-> registry[k].id, parts |-> registry[k].parts,
                     part |-> "io", stage |-> "full", ok |-> TRUE, next |-> "write"]
          /\ Goto(Monitor, "lift")
      BY <2>1 DEF YieldIo
    <3>3. pc'[Monitor] = "lift"
      BY <3>2, ThreadsHere, Goes
    <3>4. "io" \in registry[k].parts
      BY <2>1
    <3> HIDE DEF k
    <3> QED
      BY <1>2, <1>3, <1>4, <3>1, <3>2, <3>3, <3>4
         DEF Underway, Places, Eases, Puts, Awaits, Returns, registryVars
  <2>2. CASE ~yields
    <3>1. pc'[Monitor] = "write" /\ Goto(Monitor, "write")
      BY <2>2, ThreadsHere, Goes DEF YieldIo
    <3> QED
      BY <1>2, <1>3, <1>4, <3>1 DEF Underway, Places, Eases, Puts, Awaits, Returns
  <2> QED
    BY <2>1, <2>2
<1>6. \A j, p : ~InFlux(Monitor, j, p)
  BY <1>2 DEF InFlux
<1> QED
  BY <1>1, <1>2, <1>5, <1>6, QuietAgrees, ThreadsHere, LifecycleAssumption DEF registryVars, worldVars

\* Starting a staged restore.
LEMMA StartAgrees ==
    ASSUME Lasting, Typed, AInv, NEW part \in Parts, NEW stage, StartRestore(part, stage)
    PROVE  AInv'
<1>1. \A u \in Threads : pc[u] = "idle"
  BY BeginAlone DEF StartRestore, MayStart
<1>2. UNCHANGED <<registryVars, worldVars, cap, oplock, op, closed>> /\ Goto(Monitor, "lift")
  BY DEF StartRestore
<1> DEFINE k == first_auto_with_part(part, stage = "partial")
<1>3. /\ k \in Keys /\ part \in registry[k].parts /\ registry[k].source = "auto"
      /\ chan' = [key |-> k, id |-> registry[k].id, parts |-> registry[k].parts,
                  part |-> part, stage |-> stage, ok |-> TRUE, next |-> "idle"]
  BY FirstAutoFinds DEF StartRestore, Typed
<1> HIDE DEF k
<1>4. pc'[Monitor] = "lift"
  BY <1>2, ThreadsHere, Goes
<1>5. Underway(Monitor)'
  BY <1>2, <1>3, <1>4 DEF Underway, Places, Eases, Puts, Awaits, Returns, Keys, registryVars
<1>6. \A j, p : ~InFlux(Monitor, j, p)
  BY <1>1, ThreadsHere DEF InFlux
<1> QED
  BY <1>1, <1>2, <1>5, <1>6, QuietAgrees, ThreadsHere, LifecycleAssumption DEF registryVars, worldVars

\* A write to cgroups that an entry does not have leaves its primary alone.
LEMMA OthersKeepCaps ==
    ASSUME Typed, AInv, NEW C, NEW W \in Succeed(C), NEW P, NEW v, Write(W, P, v),
           NEW k \in Keys, registry[k].cgroups \cap C = {}, NEW p \in Parts
    PROVE  cap'[k][p] = cap[k][p]
<1>1. k \in registry[k].cgroups /\ k \in Cgroups
  BY DEF AInv, Settled, EntriesSound, EntrySound, Typed, EntriesOK
<1>2. W \subseteq C
  BY DEF Succeed
<1>3. k \notin W
  BY <1>1, <1>2
<1> QED
  BY <1>1, <1>3, Written

\* An entry's cgroups are only its own.
LEMMA EntryApart ==
    ASSUME AInv, NEW k \in Keys
    PROVE  \A j \in Keys \ {k} : registry[j].cgroups \cap registry[k].cgroups = {}
  BY DEF AInv, Settled, Apart

\* A write to all the cgroups of one app reaches all or none.
LEMMA AllOrNone ==
    ASSUME AInv, Whole, NEW k \in Cgroups, NEW C, k \in C, C \subseteq CgroupsOf(Owner[k]),
           NEW W \in Succeed(C)
    PROVE  W = IF k \in W THEN C ELSE {}
<1>1. CASE WritesMayFail
  <2>1. C = {k}
    BY <1>1 DEF Whole, CgroupsOf
  <2>2. W \subseteq {k}
    BY <2>1 DEF Succeed
  <2> QED
    BY <2>1, <2>2
<1>2. CASE ~WritesMayFail
  BY <1>2 DEF Succeed, AInv, Settled, Still, CgroupsOf
<1> QED
  BY <1>1, <1>2

\* Where the primary's write lands.
LEMMA WrittenAt ==
    ASSUME NEW W, NEW P, NEW v, Write(W, P, v), NEW k \in Cgroups
    PROVE  /\ \A p \in P \cap Parts : k \in W => cap'[k][p] = v
           /\ \A p \in Parts : k \notin W \/ p \notin P => cap'[k][p] = cap[k][p]
  BY Written

\* A cgroup under no key and of no entry.
LEMMA FreshCgroup ==
    ASSUME AInv, Typed, NEW k, NEW C, k \in C, Free(C), NEW p
    PROVE  ~Recorded(k, p) /\ k \notin Keys
  BY DEF Free, Recorded, AInv, Settled, EntriesSound, EntrySound

\* The entries other than the one under a key are apart from what is placed there.
LEMMA PlacedApart ==
    ASSUME AInv, Typed, NEW k \in Cgroups, NEW C, k \in C, C \subseteq CgroupsOf(Owner[k]),
           Fits(k, C), ~UserHas(Owner[k])
    PROVE  /\ \A j \in Keys \ {k} : registry[j].cgroups \cap C = {}
           /\ k \in Keys => registry[k].cgroups = C /\ registry[k].source = "auto"
<1>1. ASSUME NEW j \in Keys, registry[j].cgroups \cap C # {}
      PROVE  j = k
  <2>1. Owner[j] = Owner[k]
    BY <1>1 DEF AInv, Settled, EntriesSound, EntrySound, CgroupsOf
  <2>2. Fits(j, registry[j].cgroups)
    BY <2>1 DEF AInv, Settled, Fitting
  <2> QED
    BY <1>1, <2>1, <2>2 DEF Fits
<1>2. ASSUME k \in Keys
      PROVE  registry[k].cgroups = C /\ registry[k].source = "auto"
  <2>1. Fits(k, registry[k].cgroups)
    BY <1>2 DEF AInv, Settled, Fitting
  <2>2. registry[k].source # "manual"
    BY <1>2 DEF UserHas
  <2> QED
    BY <1>2, <2>1, <2>2 DEF Fits, Typed, EntriesOK, Entry, Sources
<1> QED
  BY <1>1, <1>2

\* The write of an auto limit.
LEMMA WriteAutoAgrees ==
    ASSUME Lasting, Typed, Named, AInv, WriteAuto
    PROVE  AInv'
<1>1. \A u \in Threads \ {Monitor} : pc[u] = "idle"
  BY OthersIdle, ThreadsHere DEF WriteAuto
<1>2. UNCHANGED <<registryVars, worldVars, chan, closed>> /\ pc[Monitor] = "write"
  BY DEF WriteAuto
<1>3. Places(Monitor) /\ running
  BY ThreadsHere DEF AInv, Underway, Settled, Still
<1>4. PICK k, C, P : k = op[Monitor].key /\ C = op[Monitor].targets /\ P = op[Monitor].parts
  OBVIOUS
<1>5. /\ k \in C /\ C \subseteq CgroupsOf(Owner[k]) /\ op[Monitor].id = 0
      /\ op[Monitor].app \in {Owner[k], k} /\ Fits(k, C) /\ ~UserHas(Owner[k])
      /\ k \in Cgroups /\ P \subseteq Parts
  BY <1>2, <1>3, <1>4, ThreadsHere DEF Places, Named, Working, Typed, ThreadsOK, Local
<1>6. PICK W \in Succeed(C) :
         /\ Write(W, P, "full")
         /\ IF k \in W
            THEN Continue(Monitor, "upsert", [op[Monitor] EXCEPT !.done = P])
            ELSE Return(Monitor)
  BY <1>3, <1>4 DEF WriteAuto, Landed
<1>7. /\ EntriesSound' /\ Apart' /\ Fitting' /\ UserControls' /\ Keys' = Keys
      /\ \A app : UserHas(app)' <=> UserHas(app)
      /\ \A j, D : Fits(j, D)' <=> Fits(j, D)
  BY <1>2, SameCore, CoreSettled DEF registryVars, worldVars
<1>8. ASSUME NEW j \in Keys, j # k, NEW p \in Parts
      PROVE  cap'[j][p] = cap[j][p]
  <2>1. registry[j].cgroups \cap C = {}
    BY <1>5, <1>8, PlacedApart
  <2>2. Write(W, P, "full")
    BY <1>6
  <2> QED
    BY <1>8, <2>1, <2>2, OthersKeepCaps
<1>9. /\ \A p \in P : k \in W => cap'[k][p] = "full"
      /\ \A p \in Parts : k \notin W \/ p \notin P => cap'[k][p] = cap[k][p]
  BY <1>5, <1>6, WrittenAt
<1>10. HalfRecorded'
  <2> SUFFICES ASSUME Whole, NEW c \in Cgroups, NEW p \in Parts, cap'[c][p] = "half"
               PROVE  Recorded(c, p)'
    BY DEF HalfRecorded
  <2>1. cap[c][p] = "half"
    BY <1>6, Written
  <2> QED
    BY <1>2, <2>1 DEF AInv, HalfRecorded, Recorded, Keys, registryVars
<1>11. \A j \in Keys, p \in Parts : Agree(j, p)
  BY <1>1, <1>2, MyFlux, ThreadsHere DEF InFlux
<1>12. CASE k \in W
  <2>1. PICK l : l = [op[Monitor] EXCEPT !.done = P]
    OBVIOUS
  <2>2. l.key = k /\ l.targets = C /\ l.done = P /\ l.id = 0 /\ l.app = op[Monitor].app
    BY <1>4, <1>5, <2>1, ThreadsHere DEF Typed, ThreadsOK, Local
  <2>3. pc'[Monitor] = "upsert" /\ op'[Monitor] = l /\ Goto(Monitor, "upsert")
    BY <1>6, <1>12, <2>1, ThreadsHere, GoesOn
  <2>4. Underway(Monitor)'
    BY <1>5, <1>7, <1>9, <1>12, <2>2, <2>3
       DEF Underway, Places, Eases, Puts, Awaits, Returns, Full
  <2>5. ASSUME NEW j \in Keys', NEW p \in Parts
        PROVE  InFlux(Monitor, j, p)' \/ Agree(j, p)'
    <3>1. CASE j = k /\ p \in P
      BY <2>2, <2>3, <3>1 DEF InFlux
    <3>2. CASE ~(j = k /\ p \in P)
      <4>1. cap'[j][p] = cap[j][p] /\ j \in Keys
        BY <1>7, <1>8, <1>9, <3>2
      <4> QED
        BY <1>2, <1>11, <4>1 DEF Agree, registryVars
    <3> QED
      BY <3>1, <3>2
  <2> QED
    BY <1>1, <1>2, <1>7, <1>10, <2>3, <2>4, <2>5, AloneAgrees, ThreadsHere, LifecycleAssumption DEF worldVars
<1>13. CASE k \notin W
  <2>1. Return(Monitor)
    BY <1>6, <1>13
  <2>2. Underway(Monitor)' /\ \E label : Goto(Monitor, label)
    BY <2>1, ThreadsHere, GoesOn, IdleWorks DEF Return
  <2>3. ASSUME NEW j \in Keys', NEW p \in Parts
        PROVE  Agree(j, p)'
    <3>1. cap'[j][p] = cap[j][p] /\ j \in Keys
      BY <1>7, <1>8, <1>9, <1>13
    <3> QED
      BY <1>2, <1>11, <3>1 DEF Agree, registryVars
  <2> QED
    BY <1>1, <1>2, <1>7, <1>10, <2>2, <2>3, AloneAgrees, ThreadsHere, LifecycleAssumption DEF worldVars
<1> QED
  BY <1>12, <1>13

\* The registry after an entry was put under a key.
LEMMA PutSettled ==
    ASSUME Typed, AInv, NEW key \in Cgroups, NEW entry, Put(key, entry), UNCHANGED controlled,
           EntrySound(key, entry),
           \A j \in Keys \ {key} : registry[j].cgroups \cap entry.cgroups = {},
           entry.source \in Sources,
           key \in Keys => registry[key].source = "auto",
           IF entry.source = "manual" THEN Owner[key] \in controlled ELSE Fits(key, entry.cgroups)
    PROVE  /\ EntriesSound' /\ Apart' /\ Fitting' /\ UserControls'
           /\ Keys' = Keys \cup {key} /\ registry'[key] = entry
           /\ \A j \in Keys \ {key} : registry'[j] = registry[j]
<1>1. /\ Keys' = Keys \cup {key} /\ registry'[key] = entry
      /\ \A j \in Keys \ {key} : registry'[j] = registry[j]
  BY DEF Put, Keys
<1>2. EntriesSound'
  BY <1>1 DEF AInv, Settled, EntriesSound, EntrySound
<1>3. Apart'
  BY <1>1 DEF AInv, Settled, Apart
<1>4. Fitting'
  <2> SUFFICES ASSUME NEW k \in Keys', ~UserHas(Owner[k])' PROVE Fits(k, registry[k].cgroups)'
    BY DEF Fitting
  <2>1. \A j \in Keys : registry[j].source = "manual" => j # key
    BY DEF Sources
  <2>2. ~UserHas(Owner[k])
    BY <1>1, <2>1 DEF UserHas
  <2>3. CASE k = key
    <3>1. entry.source # "manual"
      BY <1>1, <2>3 DEF UserHas
    <3> QED
      BY <1>1, <2>3, <3>1 DEF Fits
  <2>4. CASE k # key
    <3>1. Fits(k, registry[k].cgroups)
      BY <1>1, <2>2, <2>4 DEF AInv, Settled, Fitting
    <3> QED
      BY <1>1, <2>4, <3>1 DEF Fits
  <2> QED
    BY <2>3, <2>4
<1>5. UserControls'
  BY <1>1 DEF AInv, Settled, UserControls
<1> QED
  BY <1>1, <1>2, <1>3, <1>4, <1>5

\* Recording an auto limit.
LEMMA UpsertAgrees ==
    ASSUME Lasting, Typed, Named, AInv, Upsert
    PROVE  AInv'
<1>1. \A u \in Threads \ {Monitor} : pc[u] = "idle"
  BY OthersIdle, ThreadsHere DEF Upsert
<1>2. UNCHANGED <<exclusions, worldVars, cap, chan, closed>> /\ pc[Monitor] = "upsert"
  BY DEF Upsert
<1>3. Places(Monitor)
  BY ThreadsHere DEF AInv, Underway
<1>4. PICK k, C, D : k = op[Monitor].key /\ C = op[Monitor].targets /\ D = op[Monitor].done
  OBVIOUS
<1>5. /\ k \in C /\ C \subseteq CgroupsOf(Owner[k])
      /\ op[Monitor].app \in {Owner[k], k} /\ Fits(k, C) /\ ~UserHas(Owner[k])
      /\ k \in Cgroups /\ D \subseteq Parts /\ Full(k, D)
  BY <1>2, <1>3, <1>4, ThreadsHere DEF Places, Named, Working, Typed, ThreadsOK, Local
<1>6. /\ \A j \in Keys \ {k} : registry[j].cgroups \cap C = {}
      /\ k \in Keys => registry[k].cgroups = C /\ registry[k].source = "auto" /\ registry[k] \in Entry
  BY <1>5, PlacedApart DEF Typed, EntriesOK
<1>7. PICK entry : /\ Put(k, entry) /\ Return(Monitor)
                   /\ entry.app = op[Monitor].app /\ entry.source = "auto" /\ entry.cgroups = C
                   /\ entry.parts = D \cup IF k \in Keys THEN registry[k].parts ELSE {}
                   /\ entry.partial = IF k \in Keys THEN registry[k].partial \ D ELSE {}
  <2>1. PICK fresh : fresh = [id |-> FreshId, app |-> op[Monitor].app, source |-> "auto",
                    adopted |-> FALSE, controlled |-> op[Monitor].controlled, parts |-> D,
                    partial |-> {}, cgroups |-> C]
    OBVIOUS
  <2>2. Put(k, IF k \in Keys THEN Merge(registry[k], fresh) ELSE fresh) /\ Return(Monitor)
    BY <1>4, <1>6, <2>1 DEF Upsert
  <2>3. CASE k \in Keys
    <3>1. PICK entry : entry = Merge(registry[k], fresh)
      OBVIOUS
    <3>2. /\ entry.app = op[Monitor].app /\ entry.source = "auto" /\ entry.cgroups = C \cup C
          /\ entry.parts = D \cup registry[k].parts
          /\ entry.partial = registry[k].partial \ D
      BY <1>6, <2>1, <2>3, <3>1 DEF Merge, Entry
    <3> QED
      BY <2>2, <2>3, <3>1, <3>2
  <2>4. CASE k \notin Keys
    BY <2>1, <2>2, <2>4
  <2> QED
    BY <2>3, <2>4
<1>8. EntrySound(k, entry)
  BY <1>5, <1>7 DEF EntrySound
<1>9. /\ EntriesSound' /\ Apart' /\ Fitting' /\ UserControls'
      /\ Keys' = Keys \cup {k} /\ registry'[k] = entry
      /\ \A j \in Keys \ {k} : registry'[j] = registry[j]
  BY <1>2, <1>5, <1>6, <1>7, <1>8, PutSettled DEF Sources, worldVars
<1>10. Underway(Monitor)' /\ \E label : Goto(Monitor, label)
  BY <1>7, ThreadsHere, GoesOn, IdleWorks DEF Return
<1>11. HalfRecorded'
  <2> SUFFICES ASSUME Whole, NEW c \in Cgroups, NEW p \in Parts, cap'[c][p] = "half"
               PROVE  Recorded(c, p)'
    BY DEF HalfRecorded
  <2>1. Recorded(c, p)
    BY <1>2 DEF AInv, HalfRecorded
  <2> QED
    BY <1>6, <1>7, <1>9, <2>1 DEF Recorded
<1>12. ASSUME NEW j \in Keys', NEW p \in Parts
       PROVE  Agree(j, p)'
  <2>1. CASE j # k
    <3>1. Agree(j, p)
      BY <1>1, <1>2, <1>4, <1>9, <2>1, MyFlux, ThreadsHere DEF InFlux
    <3> QED
      BY <1>2, <1>9, <2>1, <3>1 DEF Agree
  <2>2. CASE j = k /\ p \in D
    <3>1. cap[k][p] = "full"
      BY <1>5, <2>2 DEF Full
    <3> QED
      BY <1>2, <1>7, <1>9, <2>2, <3>1 DEF Agree
  <2>3. CASE j = k /\ p \notin D /\ k \in Keys
    <3>1. Agree(k, p)
      BY <1>1, <1>2, <1>4, <2>3, MyFlux, ThreadsHere DEF InFlux
    <3> QED
      BY <1>2, <1>7, <1>9, <2>3, <3>1 DEF Agree
  <2>4. CASE j = k /\ p \notin D /\ k \notin Keys
    <3>1. ~Recorded(k, p)
      BY <1>5, <1>6, <2>4 DEF Recorded
    <3>2. Whole => cap[k][p] # "half"
      BY <1>5, <3>1 DEF AInv, HalfRecorded
    <3> QED
      BY <1>2, <1>7, <1>9, <2>4, <3>2 DEF Agree
  <2> QED
    BY <2>1, <2>2, <2>3, <2>4
<1> QED
  BY <1>1, <1>2, <1>9, <1>10, <1>11, <1>12, AloneAgrees, ThreadsHere, LifecycleAssumption DEF worldVars

\* What setting the limit_parts of an entry leaves alone.
LEMMA SetPartsFields ==
    ASSUME NEW k \in Keys, NEW P, NEW done, SetParts(k, P, done), Typed
    PROVE  /\ Keys' = Keys /\ CoreKept
           /\ \A j \in Keys : /\ registry'[j].partial = registry[j].partial
                              /\ registry'[j].id = registry[j].id
                              /\ registry'[j].parts = IF j = k THEN P ELSE registry[j].parts
<1>1. registry' = [registry EXCEPT ![k].parts = P]
  BY DEF SetParts
<1>2. registry \in [Keys -> Entry]
  BY DEF Typed, EntriesOK
<1> QED
  BY <1>1, <1>2 DEF Keys, Entry, CoreKept

\* Lifting one stage.
LEMMA LiftAgrees ==
    ASSUME Lasting, Typed, AInv, Lift
    PROVE  AInv'
<1>1. \A u \in Threads \ {Monitor} : pc[u] = "idle"
  BY OthersIdle, ThreadsHere DEF Lift
<1>2. UNCHANGED <<order, exclusions, worldVars, oplock, closed>> /\ pc[Monitor] = "lift"
      /\ Goto(Monitor, "account") /\ running
  BY DEF Lift, AInv, Settled, Still
<1>3. Places(Monitor) /\ Eases(Monitor)
  BY ThreadsHere DEF AInv, Underway
<1>4. PICK k, part, C, stage : k = chan.key /\ part = chan.part /\ C = registry[chan.key].cgroups
                               /\ stage = chan.stage
  OBVIOUS
<1>5. /\ k \in Keys /\ registry[k].source = "auto" /\ chan.id = registry[k].id
      /\ chan.parts = registry[k].parts /\ part \in registry[k].parts /\ part \in Parts /\ chan.ok
      /\ k \in C /\ C \subseteq CgroupsOf(Owner[k]) /\ k \in Cgroups
      /\ stage \in {"partial", "full"}
  BY <1>2, <1>3, <1>4 DEF Eases, AInv, Settled, EntriesSound, EntrySound, Typed, EntriesOK,
     ThreadsOK, Channel
<1>6. PICK W \in Succeed(C) :
         /\ Write(W, {part}, IF stage = "partial" THEN "half" ELSE "none")
         /\ IF stage = "full" /\ k \in W
            THEN SetParts(k, registry[k].parts \ {part}, {})
            ELSE /\ chan' = [chan EXCEPT !.ok = ~running \/ k \in W]
                 /\ UNCHANGED <<registry, op>>
  <2>1. {k} \cup C = C
    BY <1>5
  <2>2. PICK V \in Succeed({chan.key} \cup registry[chan.key].cgroups) :
           /\ Write(V, {chan.part}, IF chan.stage = "partial" THEN "half" ELSE "none")
           /\ IF chan.stage = "full" /\ chan.key \in V
              THEN SetParts(chan.key, registry[chan.key].parts \ {chan.part}, {})
              ELSE /\ chan' = [chan EXCEPT !.ok = ~running \/ chan.key \in V]
                   /\ UNCHANGED <<registry, op>>
    BY <1>2, <1>4, <1>5 DEF Lift
  <2> QED
    BY <1>4, <2>1, <2>2
<1>7. pc'[Monitor] = "account"
  BY <1>2, ThreadsHere, Goes
<1>8. /\ Keys' = Keys /\ CoreKept
      /\ \A j \in Keys : /\ registry'[j].partial = registry[j].partial
                         /\ registry'[j].id = registry[j].id
                         /\ registry'[j].parts =
                              IF j = k /\ stage = "full" /\ k \in W THEN registry[j].parts \ {part}
                              ELSE registry[j].parts
  <2>1. CASE stage = "full" /\ k \in W
    <3>1. PICK P : P = registry[k].parts \ {part}
      OBVIOUS
    <3>2. SetParts(k, P, {})
      BY <1>6, <2>1, <3>1
    <3>3. /\ Keys' = Keys /\ CoreKept
          /\ \A j \in Keys : /\ registry'[j].partial = registry[j].partial
                             /\ registry'[j].id = registry[j].id
                             /\ registry'[j].parts = IF j = k THEN P ELSE registry[j].parts
      BY <1>5, <3>2, SetPartsFields
    <3> QED
      BY <2>1, <3>1, <3>3
  <2>2. CASE ~(stage = "full" /\ k \in W)
    BY <1>6, <2>2, SameCore
  <2> QED
    BY <2>1, <2>2
<1>9. /\ EntriesSound' /\ Apart' /\ Fitting' /\ UserControls'
      /\ \A app : UserHas(app)' <=> UserHas(app)
      /\ \A j, D : Fits(j, D)' <=> Fits(j, D)
  BY <1>2, <1>8, CoreSettled DEF worldVars
<1>10. ASSUME NEW j \in Keys, j # k, NEW p \in Parts
       PROVE  cap'[j][p] = cap[j][p]
  <2>1. registry[j].cgroups \cap C = {}
    BY <1>4, <1>5, <1>10, EntryApart
  <2> QED
    BY <1>6, <1>10, <2>1, OthersKeepCaps
<1>11. /\ k \in W => cap'[k][part] = IF stage = "partial" THEN "half" ELSE "none"
       /\ \A p \in Parts : k \notin W \/ p # part => cap'[k][p] = cap[k][p]
  BY <1>5, <1>6, WrittenAt
<1>12. \A j \in Keys, p \in Parts : Agree(j, p)
  BY <1>1, <1>2, MyFlux, ThreadsHere DEF InFlux
<1>13. ASSUME NEW j \in Keys, NEW p \in Parts, ~(j = k /\ p = part /\ k \in W)
       PROVE  Agree(j, p)'
  <2>1. cap'[j][p] = cap[j][p]
    BY <1>10, <1>11, <1>13
  <2>2. p \in registry'[j].parts <=> p \in registry[j].parts
    BY <1>8, <1>13
  <2> QED
    BY <1>8, <1>12, <1>13, <2>1, <2>2 DEF Agree
<1>14. /\ chan'.key = k /\ chan'.id = registry[k].id /\ chan'.part = part /\ chan'.stage = stage
       /\ chan'.next = chan.next /\ chan'.ok = (k \in W)
       /\ chan'.parts = registry'[k].parts
       /\ chan.next = "write" => op'[Monitor] = op[Monitor]
  <2>1. CASE stage = "full" /\ k \in W
    <3>1. chan' = [chan EXCEPT !.parts = registry[k].parts \ {part}]
      BY <1>5, <1>6, <2>1 DEF SetParts, Shared
    <3>2. chan.next = "write" => op[Monitor].id = 0
      BY <1>2, <1>3 DEF Places
    <3>3. registry[k].id # 0
      BY <1>5 DEF Typed, EntriesOK, Entry
    <3>4. chan.next = "write" => op'[Monitor] = op[Monitor]
      BY <1>6, <2>1, <3>2, <3>3, ThreadsHere DEF SetParts, Shared
    <3> QED
      BY <1>4, <1>5, <1>8, <2>1, <3>1, <3>4 DEF Typed, ThreadsOK, Channel
  <2>2. CASE ~(stage = "full" /\ k \in W)
    BY <1>2, <1>4, <1>5, <1>6, <1>8, <2>2 DEF Typed, ThreadsOK, Channel
  <2> QED
    BY <2>1, <2>2
<1>15. Underway(Monitor)'
  <2>1. Places(Monitor)'
    BY <1>2, <1>3, <1>7, <1>9, <1>14 DEF Places
  <2>2. Eases(Monitor)'
    <3>1. registry'[k].source = "auto" /\ k \in Keys' /\ registry'[k].id = registry[k].id
      BY <1>5, <1>8 DEF CoreKept
    <3>2. k \notin W => Agree(k, part)'
      BY <1>5, <1>13
    <3>3. k \in W /\ stage = "full" => part \notin registry'[k].parts
      BY <1>5, <1>8
    <3> QED
      BY <1>5, <1>7, <1>11, <1>14, <3>1, <3>2, <3>3 DEF Eases
  <2> QED
    BY <1>7, <2>1, <2>2 DEF Underway, Puts, Awaits, Returns
<1>16. ASSUME NEW j \in Keys', NEW p \in Parts
       PROVE  InFlux(Monitor, j, p)' \/ Agree(j, p)'
  BY <1>7, <1>8, <1>13, <1>14 DEF InFlux
<1>17. HalfRecorded'
  <2> SUFFICES ASSUME Whole, NEW c \in Cgroups, NEW p \in Parts, cap'[c][p] = "half"
               PROVE  Recorded(c, p)'
    BY DEF HalfRecorded
  <2>1. CASE c \in W /\ p = part
    <3>1. stage = "partial"
      BY <1>6, <2>1, Written
    <3>2. c \in C
      BY <2>1 DEF Succeed
    <3> QED
      BY <1>4, <1>5, <1>8, <2>1, <3>1, <3>2 DEF Recorded, CoreKept
  <2>2. CASE ~(c \in W /\ p = part)
    <3>1. cap[c][p] = "half"
      BY <1>6, <2>2, Written
    <3>2. PICK j \in Keys : c \in registry[j].cgroups /\ p \in registry[j].parts
      BY <3>1 DEF AInv, HalfRecorded, Recorded
    <3>3. ~(j = k /\ p = part /\ stage = "full" /\ k \in W)
      <4> SUFFICES ASSUME j = k, p = part, k \in W PROVE FALSE
        OBVIOUS
      <4>1. W = C
        BY <1>5, AllOrNone
      <4> QED
        BY <1>4, <2>2, <3>2, <4>1
    <3>4. p \in registry'[j].parts /\ registry'[j].cgroups = registry[j].cgroups /\ j \in Keys'
      BY <1>8, <3>2, <3>3 DEF CoreKept
    <3> QED
      BY <3>2, <3>4 DEF Recorded
  <2> QED
    BY <2>1, <2>2
<1> QED
  BY <1>1, <1>2, <1>9, <1>15, <1>16, <1>17, AloneAgrees, ThreadsHere, LifecycleAssumption DEF worldVars

\* Recording a lifted stage.
LEMMA AccountAgrees ==
    ASSUME Lasting, Typed, AInv, Account
    PROVE  AInv'
<1>1. \A u \in Threads \ {Monitor} : pc[u] = "idle"
  BY OthersIdle, ThreadsHere DEF Account
<1>2. UNCHANGED <<exclusions, worldVars, cap, closed>> /\ pc[Monitor] = "account"
      /\ chan' = NoChannel
  BY DEF Account
<1>3. Places(Monitor) /\ Eases(Monitor)
  BY ThreadsHere DEF AInv, Underway
<1>4. PICK k : k = chan.key
  OBVIOUS
<1>5. /\ k \in Keys /\ registry[k].source = "auto" /\ chan.id = registry[k].id
      /\ chan.parts = registry[k].parts /\ chan.part \in Parts /\ k \in Cgroups
      /\ registry[k] \in Entry /\ chan.stage \in {"partial", "full"}
  BY <1>2, <1>3, <1>4 DEF Eases, Typed, EntriesOK, ThreadsOK, Channel
<1>6. PICK gone \in BOOLEAN : gone <=> (chan.ok /\ chan.stage = "full" /\ chan.parts = {})
  OBVIOUS
<1>7. IF gone THEN Pop({k})
      ELSE PutLast(k, IF ~chan.ok THEN registry[k]
                      ELSE [registry[k] EXCEPT !.partial = NextPartial(@)])
  BY <1>4, <1>5, <1>6 DEF Account
<1>8. /\ CoreKept /\ Keys' = IF gone THEN Keys \ {k} ELSE Keys
      /\ \A j \in Keys' : registry'[j].parts = registry[j].parts
      /\ \A j \in Keys' \ {k} : registry'[j].partial = registry[j].partial
      /\ ~gone => registry'[k].partial =
                    IF chan.ok THEN NextPartial(registry[k].partial) ELSE registry[k].partial
  <2>1. CASE gone
    <3>1. Keys' = Keys \ {k} /\ \A j \in Keys \ {k} : registry'[j] = registry[j]
      BY <1>7, <2>1, PopEntries DEF AInv, Settled
    <3> QED
      BY <1>5, <2>1, <3>1 DEF CoreKept
  <2>2. CASE ~gone
    <3>1. PICK e : /\ e = IF ~chan.ok THEN registry[k]
                          ELSE [registry[k] EXCEPT !.partial = NextPartial(@)]
                   /\ registry' = [registry EXCEPT ![k] = e]
      BY <1>7, <2>2 DEF PutLast
    <3>2. /\ e.source = registry[k].source /\ e.cgroups = registry[k].cgroups
          /\ e.app = registry[k].app /\ e.parts = registry[k].parts
          /\ e.partial = IF chan.ok THEN NextPartial(registry[k].partial) ELSE registry[k].partial
      BY <1>5, <3>1 DEF Entry
    <3>3. Keys' = Keys /\ registry'[k] = e /\ \A j \in Keys \ {k} : registry'[j] = registry[j]
      BY <1>5, <3>1 DEF Keys
    <3> QED
      BY <2>2, <3>2, <3>3 DEF CoreKept
  <2> QED
    BY <2>1, <2>2
<1>9. /\ EntriesSound' /\ Apart' /\ Fitting' /\ UserControls'
      /\ \A app : UserHas(app)' <=> UserHas(app)
      /\ \A j, D : Fits(j, D)' <=> Fits(j, D)
  BY <1>2, <1>8, CoreSettled DEF worldVars
<1>10. \/ Goto(Monitor, "write") /\ UNCHANGED op /\ chan.next = "write"
       \/ Return(Monitor)
  BY DEF Account
<1>11. Underway(Monitor)' /\ pc'[Monitor] \in {"write", "idle"} /\ \E label : Goto(Monitor, label)
  <2>1. CASE Goto(Monitor, "write") /\ UNCHANGED op /\ chan.next = "write"
    <3>1. pc'[Monitor] = "write"
      BY <2>1, ThreadsHere, Goes
    <3> QED
      BY <1>2, <1>3, <1>9, <2>1, <3>1 DEF Underway, Places, Eases, Puts, Awaits, Returns
  <2>2. CASE Return(Monitor)
    BY <2>2, ThreadsHere, GoesOn, IdleWorks DEF Return
  <2> QED
    BY <1>10, <2>1, <2>2
<1>12. ASSUME NEW j \in Keys', NEW p \in Parts
       PROVE  Agree(j, p)'
  <2>1. j \in Keys /\ registry'[j].parts = registry[j].parts /\ cap'[j][p] = cap[j][p]
    BY <1>2, <1>8 DEF CoreKept
  <2>2. CASE ~(j = k /\ p = chan.part)
    <3>1. Agree(j, p)
      BY <1>1, <1>2, <1>4, <2>1, <2>2, MyFlux, ThreadsHere DEF InFlux
    <3>2. p \in registry'[j].partial <=> p \in registry[j].partial
      BY <1>8, <2>2 DEF NextPartial
    <3> QED
      BY <2>1, <3>1, <3>2 DEF Agree
  <2>3. CASE j = k /\ p = chan.part /\ ~chan.ok
    <3>1. Agree(j, p)
      BY <1>2, <1>3, <1>4, <2>3 DEF Eases
    <3>2. registry'[j].partial = registry[j].partial
      BY <1>6, <1>8, <2>3
    <3> QED
      BY <2>1, <3>1, <3>2 DEF Agree
  <2>4. CASE j = k /\ p = chan.part /\ chan.ok
    <3>1. ~gone
      BY <1>8, <2>4
    <3>2. registry'[j].partial = NextPartial(registry[j].partial)
      BY <1>8, <2>4, <3>1
    <3>3. IF chan.stage = "partial" THEN cap[j][p] = "half"
          ELSE cap[j][p] = "none" /\ p \notin registry[j].parts
      BY <1>2, <1>3, <1>4, <1>5, <2>4 DEF Eases
    <3> QED
      BY <2>1, <2>4, <3>2, <3>3 DEF Agree, NextPartial
  <2> QED
    BY <2>2, <2>3, <2>4
<1>13. HalfRecorded'
  <2> SUFFICES ASSUME Whole, NEW c \in Cgroups, NEW p \in Parts, cap'[c][p] = "half"
               PROVE  Recorded(c, p)'
    BY DEF HalfRecorded
  <2>1. PICK j \in Keys : c \in registry[j].cgroups /\ p \in registry[j].parts
    BY <1>2 DEF AInv, HalfRecorded, Recorded
  <2>2. j \in Keys'
    BY <1>5, <1>6, <1>8, <2>1
  <2> QED
    BY <1>8, <2>1, <2>2 DEF Recorded, CoreKept
<1> QED
  BY <1>1, <1>2, <1>9, <1>11, <1>12, <1>13, AloneAgrees, ThreadsHere, LifecycleAssumption DEF worldVars

-----------------------------------------------------------------------------
\* An app with no manual entry by its public id has none at all.
LEMMA NoUserEntry ==
    ASSUME Typed, AInv, NEW app \in Apps, by_public_id(app, "manual") = NoKey
    PROVE  ~UserHas(app)
<1> SUFFICES ASSUME NEW k \in Keys, registry[k].source = "manual", Owner[k] = app PROVE FALSE
  BY DEF UserHas
<1>1. registry[k].app = app
  BY DEF AInv, Settled, EntriesSound, EntrySound
<1> DEFINE M == {j \in Keys : registry[j].app = app /\ registry[j].source = "manual"}
<1>2. M # {} /\ Oldest(M) = NoKey
  BY <1>1 DEF by_public_id
<1>3. Oldest(M) \in M
  BY <1>2, OldestIsOne DEF Typed
<1> QED
  BY <1>2, <1>3, LifecycleAssumption DEF Typed, EntriesOK

\* Entering _install_resource_limit.
LEMMA LimitAgrees ==
    ASSUME Lasting, Typed, AInv, NEW t \in Rest, NEW app \in Apps, NEW T \in SUBSET Cgroups,
           NEW want \in SUBSET Parts, Limit(t, app, T, want)
    PROVE  AInv'
<1>1. (\A u \in Threads : pc[u] = "idle") /\ by_public_id(app, "manual") = NoKey
  BY BeginAlone DEF Limit, MayStart
<1>2. PICK l : l = [NoOp EXCEPT !.app = app, !.key = Min(T), !.targets = T, !.parts = want,
                                !.controlled = TRUE]
  OBVIOUS
<1>3. /\ UNCHANGED <<registryVars, worldVars, cap, chan, closed>>
      /\ Continue(t, IF "sys" \in want THEN "write_sys" ELSE "write_io", l)
      /\ T # {} /\ T \subseteq CgroupsOf(app) /\ app \in controlled /\ ~AnyOwned(T, "auto")
  BY <1>2 DEF Limit, LiveOf
<1>4. Min(T) \in T /\ Owner[Min(T)] = app
  BY <1>3, CgroupsAssumption, MinIsOne DEF CgroupsOf
<1>5. l.key = Min(T) /\ l.targets = T /\ l.app = app /\ l.done = {} /\ l.defer = FALSE
  BY <1>2 DEF NoOp
<1>6. Free(T)
  <2> SUFFICES ASSUME NEW j \in Keys, NEW c \in registry[j].cgroups \cap T PROVE FALSE
    BY DEF Free
  <2>1. Owner[j] = app
    BY <1>3 DEF AInv, Settled, EntriesSound, EntrySound, CgroupsOf
  <2>2. registry[j].source # "manual"
    BY <1>1, <2>1, NoUserEntry DEF UserHas
  <2>3. registry[j].source # "auto"
    BY <1>3 DEF AnyOwned
  <2> QED
    BY <2>2, <2>3 DEF Typed, EntriesOK, Entry, Sources
<1>7. Free(T)'
  BY <1>3, <1>6, SameCore, CoreSettled DEF registryVars, worldVars
<1>8. pc'[t] \in {"write_sys", "write_io"} /\ op'[t] = l /\ \E label : Goto(t, label)
  BY <1>3, ThreadsHere, GoesOn
<1>9. Underway(t)'
  BY <1>3, <1>4, <1>5, <1>7, <1>8
     DEF Underway, Places, Eases, Puts, Awaits, Returns, Full, worldVars
<1>10. \A j, p : ~InFlux(t, j, p)
  BY <1>1, ThreadsHere DEF InFlux
<1> QED
  BY <1>1, <1>3, <1>8, <1>9, <1>10, QuietAgrees, ThreadsHere, LifecycleAssumption
     DEF registryVars, worldVars

\* A write of t to cgroups that no entry has.
LEMMA WriteFreeAgrees ==
    ASSUME NEW t \in Threads, Typed, AInv, \A u \in Threads \ {t} : pc[u] = "idle",
           \E label : Goto(t, label), t # Main,
           UNCHANGED <<registryVars, worldVars, closed>>, Underway(t)',
           \A k, p : ~InFlux(t, k, p),
           NEW C, Free(C), NEW W \in Succeed(C), NEW P, Write(W, P, "full")
    PROVE  AInv'
<1>1. EntriesSound' /\ Apart' /\ Fitting' /\ UserControls' /\ Keys' = Keys
  BY SameCore, CoreSettled DEF registryVars, worldVars
<1>2. ASSUME NEW k \in Keys', NEW p \in Parts
      PROVE  Agree(k, p)'
  <2>1. k \in Keys /\ Agree(k, p)
    BY <1>1, MyFlux
  <2>2. cap'[k][p] = cap[k][p]
    BY <2>1, OthersKeepCaps DEF Free
  <2> QED
    BY <2>1, <2>2 DEF Agree, registryVars
<1>3. HalfRecorded'
  <2> SUFFICES ASSUME Whole, NEW c \in Cgroups, NEW p \in Parts, cap'[c][p] = "half"
               PROVE  Recorded(c, p)'
    BY DEF HalfRecorded
  <2>1. cap[c][p] = "half"
    BY Written
  <2> QED
    BY <1>1, <2>1 DEF AInv, HalfRecorded, Recorded, registryVars
<1> QED
  BY <1>1, <1>2, <1>3, AloneAgrees DEF worldVars

\* The CPU and memory write of a manual limit.
LEMMA WriteSysAgrees ==
    ASSUME Lasting, Typed, AInv, NEW t \in Rest, WriteSys(t)
    PROVE  AInv'
<1>1. \A u \in Threads \ {t} : pc[u] = "idle"
  BY OthersIdle, ThreadsHere DEF WriteSys
<1>2. UNCHANGED <<registryVars, worldVars, oplock, chan, closed>> /\ pc[t] = "write_sys"
  BY DEF WriteSys
<1>3. Puts(t) /\ running
  BY ThreadsHere DEF AInv, Underway, Settled, Still
<1>4. PICK k, C : k = op[t].key /\ C = op[t].targets
  OBVIOUS
<1>5. PICK W \in Succeed(C), defer \in BOOLEAN :
         /\ Write(W, {"sys"}, "full")
         /\ defer => Landed(op[t], W)
         /\ Continue(t, IF "io" \in op[t].parts /\ ~defer THEN "write_io" ELSE "record",
               [op[t] EXCEPT !.done = IF Landed(op[t], W) THEN {"sys"} ELSE {}, !.defer = defer])
         /\ defer => "io" \in op[t].parts
  BY <1>3, <1>4 DEF WriteSys
<1>6. PICK l : l = [op[t] EXCEPT !.done = IF Landed(op[t], W) THEN {"sys"} ELSE {}, !.defer = defer]
  OBVIOUS
<1>7. /\ l.key = k /\ l.targets = C /\ l.app = op[t].app
      /\ l.done = (IF k \in W THEN {"sys"} ELSE {}) /\ l.defer = defer
  BY <1>4, <1>6, ThreadsHere DEF Typed, ThreadsOK, Local, Landed
<1>8. /\ pc'[t] = IF "io" \in op[t].parts /\ ~defer THEN "write_io" ELSE "record"
      /\ op'[t] = l /\ \E label : Goto(t, label)
  BY <1>5, <1>6, ThreadsHere, GoesOn
<1>9. k \in C /\ C \subseteq Cgroups /\ k \in Cgroups
  BY <1>2, <1>3, <1>4, ThreadsHere DEF Puts, Typed, ThreadsOK, Local
<1>10. Full(k, l.done)'
  BY <1>5, <1>7, <1>9, WrittenAt DEF Full, Parts
<1>11. Free(C) /\ Free(C)'
  BY <1>2, <1>3, <1>4, SameCore, CoreSettled DEF Puts, registryVars, worldVars
<1>12. Puts(t)'
  BY <1>2, <1>3, <1>4, <1>5, <1>7, <1>8, <1>10, <1>11 DEF Puts, worldVars, Landed
<1>13. Underway(t)'
  BY <1>8, <1>12 DEF Underway, Places, Eases, Awaits, Returns
<1>14. \A j, p : ~InFlux(t, j, p)
  BY <1>2 DEF InFlux
<1> QED
  BY <1>1, <1>2, <1>5, <1>8, <1>11, <1>13, <1>14, WriteFreeAgrees, ThreadsHere, LifecycleAssumption

\* The IO write of a manual limit.
LEMMA WriteIoAgrees ==
    ASSUME Lasting, Typed, AInv, NEW t \in Rest, WriteIo(t)
    PROVE  AInv'
<1>1. \A u \in Threads \ {t} : pc[u] = "idle"
  BY OthersIdle, ThreadsHere DEF WriteIo
<1>2. UNCHANGED <<registryVars, worldVars, oplock, chan, closed>> /\ pc[t] = "write_io"
  BY DEF WriteIo
<1>3. Puts(t) /\ running
  BY ThreadsHere DEF AInv, Underway, Settled, Still
<1>4. PICK k, C : k = op[t].key /\ C = op[t].targets
  OBVIOUS
<1>5. PICK W \in Succeed(C) :
         /\ Write(W, {"io"}, "full")
         /\ Continue(t, "record",
               [op[t] EXCEPT !.done = IF Landed(op[t], W) THEN @ \cup {"io"} ELSE @])
  BY <1>3, <1>4 DEF WriteIo
<1>6. PICK l : l = [op[t] EXCEPT !.done = IF Landed(op[t], W) THEN @ \cup {"io"} ELSE @]
  OBVIOUS
<1>7. /\ l.key = k /\ l.targets = C /\ l.app = op[t].app
      /\ l.done = (op[t].done \cup IF k \in W THEN {"io"} ELSE {}) /\ l.defer = op[t].defer
  BY <1>4, <1>6, ThreadsHere DEF Typed, ThreadsOK, Local, Landed
<1>8. pc'[t] = "record" /\ op'[t] = l /\ \E label : Goto(t, label)
  BY <1>5, <1>6, ThreadsHere, GoesOn
<1>9. k \in C /\ C \subseteq Cgroups /\ k \in Cgroups /\ op[t].done \subseteq Parts
  BY <1>2, <1>3, <1>4, ThreadsHere DEF Puts, Typed, ThreadsOK, Local
<1>10. Full(k, l.done)'
  <2> SUFFICES ASSUME NEW p \in l.done PROVE cap'[k][p] = "full"
    BY <1>7 DEF Full
  <2>1. CASE p = "io" /\ k \in W
    BY <1>5, <1>9, <2>1, WrittenAt DEF Parts
  <2>2. CASE p \in op[t].done
    <3>1. cap[k][p] = "full"
      BY <1>2, <1>3, <1>4, <2>2 DEF Puts, Full
    <3> QED
      BY <1>5, <1>9, <2>2, <3>1, Written
  <2> QED
    BY <1>7, <2>1, <2>2
<1>11. Free(C) /\ Free(C)' /\ ~op[t].defer
  BY <1>2, <1>3, <1>4, SameCore, CoreSettled DEF Puts, registryVars, worldVars
<1>12. Puts(t)'
  BY <1>2, <1>3, <1>4, <1>7, <1>8, <1>10, <1>11 DEF Puts, worldVars
<1>13. Underway(t)'
  BY <1>8, <1>12 DEF Underway, Places, Eases, Awaits, Returns
<1>14. \A j, p : ~InFlux(t, j, p)
  BY <1>2 DEF InFlux
<1> QED
  BY <1>1, <1>2, <1>5, <1>8, <1>11, <1>13, <1>14, WriteFreeAgrees, ThreadsHere, LifecycleAssumption

\* Recording a manual limit.
LEMMA RecordAgrees ==
    ASSUME Lasting, Typed, AInv, NEW t \in Rest, Record(t)
    PROVE  AInv'
<1>1. \A u \in Threads \ {t} : pc[u] = "idle"
  BY OthersIdle, ThreadsHere DEF Record
<1>2. UNCHANGED <<worldVars, cap, chan, closed>> /\ pc[t] = "record"
  BY DEF Record
<1>3. Puts(t)
  BY ThreadsHere DEF AInv, Underway
<1>4. PICK k, C, D : k = op[t].key /\ C = op[t].targets /\ D = op[t].done
  OBVIOUS
<1>5. /\ k \in C /\ C \subseteq CgroupsOf(Owner[k]) /\ op[t].app = Owner[k] /\ Owner[k] \in controlled
      /\ Free(C) /\ k \in Cgroups /\ C \subseteq Cgroups /\ D \subseteq Parts /\ Full(k, D)
      /\ op[t].defer => D = {"sys"}
  BY <1>2, <1>3, <1>4, ThreadsHere DEF Puts, Typed, ThreadsOK, Local
<1>6. k \notin Keys /\ \A p : ~Recorded(k, p)
  BY <1>5, FreshCgroup
<1>7. \A j, p : ~InFlux(t, j, p)
  BY <1>2 DEF InFlux
<1>8. CASE D = {}
  <2>1. Return(t) /\ UNCHANGED registryVars
    BY <1>4, <1>5, <1>8 DEF Record
  <2>2. Underway(t)' /\ \E label : Goto(t, label)
    BY <2>1, ThreadsHere, GoesOn, IdleWorks DEF Return
  <2> QED
    BY <1>1, <1>2, <1>7, <2>1, <2>2, QuietAgrees, ThreadsHere, LifecycleAssumption
       DEF registryVars, worldVars
<1>9. CASE D # {}
  <2>1. PICK entry : /\ entry = [id |-> FreshId, app |-> op[t].app, source |-> "manual",
                                 adopted |-> FALSE, controlled |-> TRUE, parts |-> D,
                                 partial |-> {}, cgroups |-> C]
                     /\ Put(k, entry)
    BY <1>4, <1>9 DEF Record
  <2>2. /\ entry.app = Owner[k] /\ entry.source = "manual" /\ entry.parts = D
        /\ entry.partial = {} /\ entry.cgroups = C
    BY <1>5, <2>1
  <2> HIDE <2>1
  <2>3. EntrySound(k, entry) /\ Put(k, entry)
    BY <1>5, <2>1, <2>2 DEF EntrySound
  <2>4. /\ EntriesSound' /\ Apart' /\ Fitting' /\ UserControls'
        /\ Keys' = Keys \cup {k} /\ registry'[k] = entry
        /\ \A j \in Keys \ {k} : registry'[j] = registry[j]
    BY <1>2, <1>5, <1>6, <2>2, <2>3, PutSettled DEF Sources, Free, worldVars
  <2>5. \/ op[t].defer /\ Goto(t, "deferred") /\ UNCHANGED op
        \/ Return(t)
    BY DEF Record
  <2>6. Underway(t)' /\ \E label : Goto(t, label)
    <3>1. CASE op[t].defer /\ Goto(t, "deferred") /\ UNCHANGED op
      <4>1. pc'[t] = "deferred"
        BY <3>1, ThreadsHere, Goes
      <4> QED
        BY <1>4, <1>5, <2>2, <2>4, <3>1, <4>1 DEF Underway, Places, Eases, Puts, Awaits, Returns
    <3>2. CASE Return(t)
      BY <3>2, ThreadsHere, GoesOn, IdleWorks DEF Return
    <3> QED
      BY <2>5, <3>1, <3>2
  <2>7. ASSUME NEW j \in Keys', NEW p \in Parts
        PROVE  Agree(j, p)'
    <3>1. CASE j = k
      <4>1. Whole => cap[k][p] # "half"
        BY <1>5, <1>6 DEF AInv, HalfRecorded
      <4> QED
        BY <1>2, <1>5, <2>2, <2>4, <3>1, <4>1 DEF Agree, Full
    <3>2. CASE j # k
      <4>1. Agree(j, p)
        BY <1>1, <1>7, <2>4, <3>2, MyFlux, ThreadsHere
      <4> QED
        BY <1>2, <2>4, <3>2, <4>1 DEF Agree
    <3> QED
      BY <3>1, <3>2
  <2>8. HalfRecorded'
    <3> SUFFICES ASSUME Whole, NEW c \in Cgroups, NEW p \in Parts, cap'[c][p] = "half"
                 PROVE  Recorded(c, p)'
      BY DEF HalfRecorded
    <3>1. Recorded(c, p)
      BY <1>2 DEF AInv, HalfRecorded
    <3> QED
      BY <1>6, <2>4, <3>1 DEF Recorded
  <2> QED
    BY <1>1, <1>2, <2>4, <2>6, <2>7, <2>8, AloneAgrees, ThreadsHere, LifecycleAssumption DEF worldVars
<1> QED
  BY <1>8, <1>9

\* Deciding on the deferred IO cap.
LEMMA DeferredAgrees ==
    ASSUME Lasting, Typed, AInv, NEW t \in Rest, Deferred(t)
    PROVE  AInv'
<1>1. \A u \in Threads \ {t} : pc[u] = "idle"
  BY OthersIdle, ThreadsHere DEF Deferred
<1>2. UNCHANGED <<registryVars, worldVars, cap, chan, closed>> /\ pc[t] = "deferred"
  BY DEF Deferred
<1>3. Awaits(t)
  BY ThreadsHere DEF AInv, Underway
<1>4. Goto(t, "defer_write") /\ UNCHANGED op
  BY <1>2, <1>3 DEF Deferred, Awaits
<1>5. pc'[t] = "defer_write"
  BY <1>4, ThreadsHere, Goes
<1>6. Underway(t)'
  BY <1>2, <1>3, <1>4, <1>5
     DEF Underway, Places, Eases, Puts, Awaits, Returns, Keys, registryVars
<1>7. \A j, p : ~InFlux(t, j, p)
  BY <1>2 DEF InFlux
<1> QED
  BY <1>1, <1>2, <1>4, <1>6, <1>7, QuietAgrees, ThreadsHere, LifecycleAssumption
     DEF registryVars, worldVars

\* The deferred IO write.
LEMMA DeferWriteAgrees ==
    ASSUME Lasting, Typed, AInv, NEW t \in Rest, DeferWrite(t)
    PROVE  AInv'
<1>1. \A u \in Threads \ {t} : pc[u] = "idle"
  BY OthersIdle, ThreadsHere DEF DeferWrite
<1>2. UNCHANGED <<registryVars, worldVars, oplock, chan, closed>> /\ pc[t] = "defer_write"
  BY DEF DeferWrite
<1>3. Awaits(t)
  BY ThreadsHere DEF AInv, Underway
<1>4. PICK k, C : k = op[t].key /\ C = op[t].targets
  OBVIOUS
<1>5. /\ k \in Keys /\ registry[k].cgroups = C /\ registry[k].partial = {}
      /\ registry[k].parts = {"sys"} /\ k \in Cgroups
  BY <1>2, <1>3, <1>4 DEF Awaits, Typed, EntriesOK
<1>6. PICK W \in Succeed(C) :
         /\ Write(W, {"io"}, "full")
         /\ Continue(t, "defer_record",
               [op[t] EXCEPT !.done = IF Landed(op[t], W) THEN {"io"} ELSE {}])
  BY <1>4 DEF DeferWrite
<1>7. PICK l : l = [op[t] EXCEPT !.done = IF Landed(op[t], W) THEN {"io"} ELSE {}]
  OBVIOUS
<1>8. l.key = k /\ l.targets = C /\ l.done = IF k \in W THEN {"io"} ELSE {}
  BY <1>4, <1>7, ThreadsHere DEF Typed, ThreadsOK, Local, Landed
<1>9. pc'[t] = "defer_record" /\ op'[t] = l /\ \E label : Goto(t, label)
  BY <1>6, <1>7, ThreadsHere, GoesOn
<1>10. /\ k \in W => cap'[k]["io"] = "full"
       /\ \A p \in Parts : k \notin W \/ p # "io" => cap'[k][p] = cap[k][p]
  BY <1>5, <1>6, WrittenAt DEF Parts
<1>11. Full(k, l.done)'
  BY <1>8, <1>10 DEF Full
<1>12. Underway(t)'
  BY <1>2, <1>5, <1>8, <1>9, <1>11
     DEF Underway, Places, Eases, Puts, Awaits, Returns, Keys, registryVars
<1>13. EntriesSound' /\ Apart' /\ Fitting' /\ UserControls' /\ Keys' = Keys
  BY <1>2, SameCore, CoreSettled DEF registryVars, worldVars
<1>14. ASSUME NEW j \in Keys', NEW p \in Parts
       PROVE  Agree(j, p)'
  <2>1. j \in Keys /\ Agree(j, p)
    BY <1>1, <1>2, <1>13, MyFlux, ThreadsHere DEF InFlux
  <2>2. CASE j # k
    <3>1. registry[j].cgroups \cap C = {}
      BY <1>5, <2>1, <2>2, EntryApart
    <3>2. cap'[j][p] = cap[j][p]
      BY <1>6, <2>1, <3>1, OthersKeepCaps
    <3> QED
      BY <1>2, <2>1, <3>2 DEF Agree, registryVars
  <2>3. CASE j = k /\ (k \notin W \/ p # "io")
    <3>1. cap'[j][p] = cap[j][p]
      BY <1>10, <2>3
    <3> QED
      BY <1>2, <2>1, <3>1 DEF Agree, registryVars
  <2>4. CASE j = k /\ k \in W /\ p = "io"
    BY <1>2, <1>5, <1>10, <2>4 DEF Agree, registryVars
  <2> QED
    BY <2>2, <2>3, <2>4
<1>15. HalfRecorded'
  <2> SUFFICES ASSUME Whole, NEW c \in Cgroups, NEW p \in Parts, cap'[c][p] = "half"
               PROVE  Recorded(c, p)'
    BY DEF HalfRecorded
  <2>1. cap[c][p] = "half"
    BY <1>6, Written
  <2> QED
    BY <1>2, <1>13, <2>1 DEF AInv, HalfRecorded, Recorded, registryVars
<1> QED
  BY <1>1, <1>2, <1>9, <1>12, <1>13, <1>14, <1>15, AloneAgrees, ThreadsHere, LifecycleAssumption DEF worldVars

\* Recording the deferred IO cap.
LEMMA DeferRecordAgrees ==
    ASSUME Lasting, Typed, AInv, NEW t \in Rest, DeferRecord(t)
    PROVE  AInv'
<1>1. \A u \in Threads \ {t} : pc[u] = "idle"
  BY OthersIdle, ThreadsHere DEF DeferRecord
<1>2. UNCHANGED <<order, exclusions, worldVars, cap, closed>> /\ pc[t] = "defer_record"
  BY DEF DeferRecord
<1>3. Awaits(t)
  BY ThreadsHere DEF AInv, Underway
<1>4. PICK k, D : k = op[t].key /\ D = op[t].done
  OBVIOUS
<1>5. /\ k \in Keys /\ registry[k].partial = {} /\ registry[k].parts = {"sys"} /\ Full(k, D)
      /\ k \in Cgroups
  BY <1>2, <1>3, <1>4 DEF Awaits, Typed, EntriesOK
<1>6. SetParts(k, (registry[k].parts \ {"io"}) \cup D, {t}) /\ Goto(t, "idle")
  BY <1>4, <1>5 DEF DeferRecord
<1>7. /\ Keys' = Keys /\ CoreKept
      /\ \A j \in Keys : /\ registry'[j].partial = registry[j].partial
                         /\ registry'[j].parts = IF j = k THEN {"sys"} \cup D ELSE registry[j].parts
  <2>1. PICK P : P = (registry[k].parts \ {"io"}) \cup D
    OBVIOUS
  <2>2. SetParts(k, P, {t}) /\ P = {"sys"} \cup D
    <3>1. {"sys"} \ {"io"} = {"sys"}
      OBVIOUS
    <3> QED
      BY <1>5, <1>6, <2>1, <3>1
  <2> QED
    BY <1>5, <2>2, SetPartsFields
<1>8. EntriesSound' /\ Apart' /\ Fitting' /\ UserControls'
  BY <1>2, <1>7, CoreSettled DEF worldVars
<1>9. Underway(t)'
  BY <1>6, ThreadsHere, Goes, IdleWorks
<1>10. ASSUME NEW j \in Keys', NEW p \in Parts
       PROVE  Agree(j, p)'
  <2>1. Agree(j, p)
    BY <1>1, <1>2, <1>7, MyFlux, ThreadsHere DEF InFlux
  <2>2. p \in registry'[j].parts => p \in registry[j].parts \/ (j = k /\ p \in D)
    BY <1>5, <1>7
  <2> QED
    BY <1>2, <1>5, <1>7, <2>1, <2>2 DEF Agree, Full
<1>11. HalfRecorded'
  <2> SUFFICES ASSUME Whole, NEW c \in Cgroups, NEW p \in Parts, cap'[c][p] = "half"
               PROVE  Recorded(c, p)'
    BY DEF HalfRecorded
  <2>1. PICK j \in Keys : c \in registry[j].cgroups /\ p \in registry[j].parts
    BY <1>2 DEF AInv, HalfRecorded, Recorded
  <2> QED
    BY <1>5, <1>7, <2>1 DEF Recorded, CoreKept
<1> QED
  BY <1>1, <1>2, <1>6, <1>8, <1>9, <1>10, <1>11, AloneAgrees, ThreadsHere, LifecycleAssumption DEF worldVars

\* Starting a restore of an auto limit by the user.
LEMMA UserRestoreAgrees ==
    ASSUME Lasting, Typed, AInv, NEW t \in Rest, NEW ident, UserRestore(t, ident)
    PROVE  AInv'
<1>1. \A u \in Threads : pc[u] = "idle"
  BY BeginAlone DEF UserRestore, MayStart
<1>2. UNCHANGED <<registryVars, worldVars, cap, oplock, chan, closed>>
  BY DEF UserRestore
<1>3. PICK k : /\ k = IF by_public_id(ident, "auto") # NoKey THEN by_public_id(ident, "auto")
                      ELSE by_any_id(ident, "auto")
               /\ k # NoKey
  BY DEF UserRestore
<1>4. k \in Keys /\ registry[k].source = "auto"
  BY <1>3, ByPublicIdFinds, ByAnyIdFinds DEF Typed
<1>5. PICK l : l = [NoOp EXCEPT !.app = registry[k].app, !.key = k, !.id = registry[k].id,
                                !.targets = registry[k].cgroups, !.parts = registry[k].parts,
                                !.controlled = registry[k].controlled]
  OBVIOUS
<1>6. Continue(t, "lift_user", l)
  BY <1>3, <1>5 DEF UserRestore
<1>7. /\ l.key = k /\ l.id = registry[k].id /\ l.targets = registry[k].cgroups
      /\ l.parts = registry[k].parts
  BY <1>5 DEF NoOp
<1>8. pc'[t] = "lift_user" /\ op'[t] = l /\ Goto(t, "lift_user")
  BY <1>6, ThreadsHere, GoesOn
<1>9. Underway(t)'
  BY <1>2, <1>4, <1>7, <1>8
     DEF Underway, Places, Eases, Puts, Awaits, Returns, Keys, registryVars
<1>10. \A j, p : ~InFlux(t, j, p)
  BY <1>1, ThreadsHere DEF InFlux
<1> QED
  BY <1>1, <1>2, <1>8, <1>9, <1>10, QuietAgrees, ThreadsHere, LifecycleAssumption
     DEF registryVars, worldVars

\* Lifting the caps of an auto limit.
LEMMA LiftUserAgrees ==
    ASSUME Lasting, Typed, AInv, NEW t \in Rest, LiftUser(t)
    PROVE  AInv'
<1>1. \A u \in Threads \ {t} : pc[u] = "idle"
  BY OthersIdle, ThreadsHere DEF LiftUser
<1>2. UNCHANGED <<registryVars, worldVars, chan, closed>> /\ pc[t] = "lift_user"
  BY DEF LiftUser
<1>3. Returns(t) /\ exists = Cgroups
  BY ThreadsHere DEF AInv, Underway, Settled, Still
<1>4. PICK k, C, P : k = op[t].key /\ C = op[t].targets /\ P = op[t].parts
  OBVIOUS
<1>5. /\ k \in Keys /\ registry[k].source = "auto" /\ registry[k].cgroups = C /\ k \in C
      /\ C \subseteq CgroupsOf(Owner[k]) /\ k \in Cgroups /\ C \subseteq Cgroups /\ P \subseteq Parts
  BY <1>2, <1>3, <1>4, ThreadsHere DEF Returns, AInv, Settled, EntriesSound, EntrySound, CgroupsOf,
     Typed, EntriesOK, ThreadsOK, Local
<1>6. PICK W \in Succeed(C) :
         /\ Write(W, P, "none")
         /\ IF k \in W THEN Goto(t, "pop_user") /\ UNCHANGED op ELSE Return(t)
  BY <1>3, <1>4 DEF LiftUser, Lifted
<1>7. EntriesSound' /\ Apart' /\ Fitting' /\ UserControls' /\ Keys' = Keys
  BY <1>2, SameCore, CoreSettled DEF registryVars, worldVars
<1>8. ASSUME NEW j \in Keys', NEW p \in Parts, j # k \/ k \notin W
      PROVE  Agree(j, p)'
  <2>1. j \in Keys /\ Agree(j, p)
    BY <1>1, <1>2, <1>7, MyFlux, ThreadsHere DEF InFlux
  <2>2. cap'[j][p] = cap[j][p]
    <3>1. CASE j # k
      <4>1. registry[j].cgroups \cap C = {}
        BY <1>5, <2>1, <3>1, EntryApart
      <4> QED
        BY <1>6, <2>1, <4>1, OthersKeepCaps
    <3>2. CASE j = k /\ k \notin W
      BY <1>5, <1>6, <3>2, WrittenAt
    <3> QED
      BY <1>8, <3>1, <3>2
  <2> QED
    BY <1>2, <2>1, <2>2 DEF Agree, registryVars
<1>9. HalfRecorded'
  <2> SUFFICES ASSUME Whole, NEW c \in Cgroups, NEW p \in Parts, cap'[c][p] = "half"
               PROVE  Recorded(c, p)'
    BY DEF HalfRecorded
  <2>1. cap[c][p] = "half"
    BY <1>6, Written
  <2> QED
    BY <1>2, <1>7, <2>1 DEF AInv, HalfRecorded, Recorded, registryVars
<1>10. CASE k \in W
  <2>1. pc'[t] = "pop_user" /\ UNCHANGED op /\ \E label : Goto(t, label)
    BY <1>6, <1>10, ThreadsHere, Goes
  <2>2. Whole => \A c \in C, p \in P : cap'[c][p] # "half"
    <3> SUFFICES ASSUME Whole, NEW c \in C, NEW p \in P PROVE cap'[c][p] # "half"
      OBVIOUS
    <3>1. c \in W
      BY <1>5, <1>10, AllOrNone
    <3> QED
      BY <1>5, <1>6, <3>1, Written
  <2>3. Underway(t)'
    <3>1. Returns(t)'
      BY <1>2, <1>3, <1>4, <1>7, <2>1, <2>2 DEF Returns, registryVars
    <3> QED
      BY <2>1, <3>1 DEF Underway, Places, Eases, Puts, Awaits
  <2>4. ASSUME NEW j \in Keys', NEW p \in Parts
        PROVE  InFlux(t, j, p)' \/ Agree(j, p)'
    BY <1>4, <1>8, <2>1 DEF InFlux
  <2> QED
    BY <1>1, <1>2, <1>7, <1>9, <2>1, <2>3, <2>4, AloneAgrees, ThreadsHere, LifecycleAssumption DEF worldVars
<1>11. CASE k \notin W
  <2>1. Underway(t)' /\ \E label : Goto(t, label)
    BY <1>6, <1>11, ThreadsHere, GoesOn, IdleWorks DEF Return
  <2> QED
    BY <1>1, <1>2, <1>7, <1>8, <1>9, <1>11, <2>1, AloneAgrees, ThreadsHere, LifecycleAssumption DEF worldVars
<1> QED
  BY <1>10, <1>11

\* Dropping the record of an auto limit.
LEMMA PopUserAgrees ==
    ASSUME Lasting, Typed, AInv, NEW t \in Rest, PopUser(t)
    PROVE  AInv'
<1>1. \A u \in Threads \ {t} : pc[u] = "idle"
  BY OthersIdle, ThreadsHere DEF PopUser
<1>2. UNCHANGED <<worldVars, cap, chan, closed>> /\ pc[t] = "pop_user" /\ Return(t)
  BY DEF PopUser
<1>3. Returns(t)
  BY ThreadsHere DEF AInv, Underway
<1>4. PICK k : k = op[t].key
  OBVIOUS
<1>5. k \in Keys /\ registry[k].source = "auto" /\ Pop({k})
  BY <1>2, <1>3, <1>4 DEF PopUser, Returns
<1>6. Keys' = Keys \ {k} /\ \A j \in Keys \ {k} : registry'[j] = registry[j]
  BY <1>5, PopEntries DEF AInv, Settled
<1>7. CoreKept
  BY <1>5, <1>6 DEF CoreKept
<1>8. EntriesSound' /\ Apart' /\ Fitting' /\ UserControls'
  BY <1>2, <1>7, CoreSettled DEF worldVars
<1>9. Underway(t)' /\ \E label : Goto(t, label)
  BY <1>2, ThreadsHere, GoesOn, IdleWorks DEF Return
<1>10. ASSUME NEW j \in Keys', NEW p \in Parts
       PROVE  Agree(j, p)'
  <2>1. Agree(j, p)
    BY <1>1, <1>2, <1>4, <1>6, MyFlux, ThreadsHere DEF InFlux
  <2> QED
    BY <1>2, <1>6, <2>1 DEF Agree
<1>11. HalfRecorded'
  <2> SUFFICES ASSUME Whole, NEW c \in Cgroups, NEW p \in Parts, cap'[c][p] = "half"
               PROVE  Recorded(c, p)'
    BY DEF HalfRecorded
  <2>1. PICK j \in Keys : c \in registry[j].cgroups /\ p \in registry[j].parts
    BY <1>2 DEF AInv, HalfRecorded, Recorded
  <2>2. j # k
    BY <1>2, <1>3, <1>4, <2>1 DEF Returns
  <2> QED
    BY <1>6, <2>1, <2>2 DEF Recorded
<1> QED
  BY <1>1, <1>2, <1>8, <1>9, <1>10, <1>11, AloneAgrees, ThreadsHere, LifecycleAssumption DEF worldVars

\* A limit changes hands.
LEMMA HandoffAgrees ==
    ASSUME Lasting, Typed, AInv, NEW t \in Threads \ {Main}, NEW ident,
           LockToManual(t, ident) \/ (ident \in Cgroups /\ AdoptAutoLimit(t, ident))
    PROVE  AInv'
<1>1. UNCHANGED <<order, running, live, exists, cap, oplock, pc, chan, closed>>
  BY DEF LockToManual, AdoptAutoLimit, worldVars
<1>2. \A u \in Threads : pc[u] = "idle"
  BY BeginAlone DEF LockToManual, AdoptAutoLimit, MayStart
<1>3. PICK k \in Keys : FlipToManual(k, Owner[k]) /\ controlled' = controlled \cup {Owner[k]}
  BY HandoffFlips
<1>4. PICK entry : /\ entry = [registry[k] EXCEPT !.source = "manual", !.adopted = TRUE,
                                                  !.controlled = TRUE, !.app = Owner[k]]
                   /\ registry' = [registry EXCEPT ![k] = entry]
  BY <1>3 DEF FlipToManual
<1>5. /\ entry.app = Owner[k] /\ entry.source = "manual" /\ entry.cgroups = registry[k].cgroups
      /\ entry.parts = registry[k].parts /\ entry.partial = registry[k].partial
  BY <1>4 DEF Typed, EntriesOK, Entry
<1>6. Keys' = Keys /\ registry'[k] = entry /\ \A j \in Keys \ {k} : registry'[j] = registry[j]
  BY <1>4 DEF Keys
<1>7. EntriesSound'
  BY <1>5, <1>6 DEF AInv, Settled, EntriesSound, EntrySound
<1>8. Apart'
  BY <1>5, <1>6 DEF AInv, Settled, Apart
<1>9. UserControls'
  BY <1>3, <1>5, <1>6 DEF AInv, Settled, UserControls
<1>10. Fitting'
  <2> SUFFICES ASSUME NEW j \in Keys', ~UserHas(Owner[j])' PROVE Fits(j, registry[j].cgroups)'
    BY DEF Fitting
  <2>1. Owner[j] # Owner[k]
    BY <1>5, <1>6 DEF UserHas
  <2>2. ~UserHas(Owner[j])
    BY <1>5, <1>6 DEF UserHas
  <2>3. Fits(j, registry[j].cgroups)
    BY <1>6, <2>2 DEF AInv, Settled, Fitting
  <2>4. Owner[j] \in controlled' <=> Owner[j] \in controlled
    BY <1>3, <2>1
  <2> QED
    BY <1>6, <2>1, <2>3, <2>4 DEF Fits
<1>11. Goto(t, pc[t]) /\ Underway(t)'
  <2>1. Goto(t, pc[t])
    BY <1>1 DEF Goto, Typed, ThreadsOK
  <2> QED
    BY <1>1, <1>2, <2>1, IdleWorks
<1>12. ASSUME NEW j \in Keys', NEW p \in Parts
       PROVE  Agree(j, p)'
  <2>1. Agree(j, p)
    BY <1>2, <1>6, MyFlux DEF InFlux
  <2> QED
    BY <1>1, <1>5, <1>6, <2>1 DEF Agree
<1>13. HalfRecorded'
  BY <1>1, <1>5, <1>6 DEF AInv, HalfRecorded, Recorded
<1> QED
  BY <1>1, <1>2, <1>7, <1>8, <1>9, <1>10, <1>11, <1>12, <1>13, AloneAgrees

-----------------------------------------------------------------------------
\* No step ends the agreement.
LEMMA StepAgrees == Lasting /\ Typed /\ Named /\ AInv /\ [Next]_vars => AInv'
<1> SUFFICES ASSUME Lasting, Typed, Named, AInv, [Next]_vars PROVE AInv'
  OBVIOUS
<1>1. CASE UNCHANGED vars
  BY <1>1 DEF vars, AInv, Settled, Alone, Still, EntriesSound, Keys, Apart, Fitting, UserHas, Fits,
     UserControls, Underway, Places, Eases, Puts, Free, Full, Awaits, Returns, Agree, Agreed, InFlux,
     HalfRecorded, Recorded
<1>2. CASE MonitorNext
  <2>1. ~Reap
    BY BeginAlone DEF Reap, MayStart
  <2>2. ~ReapOne
    BY DEF ReapOne, AInv, Settled, Still
  <2>3. \A app \in Apps : LockToManual(Monitor, app) => AInv'
    BY HandoffAgrees, ThreadsHere, LifecycleAssumption
  <2> QED
    BY <1>2, <2>1, <2>2, <2>3, SelectAgrees, BeginAgrees, YieldAgrees, WriteAutoAgrees, UpsertAgrees, StartAgrees, LiftAgrees, AccountAgrees
       DEF MonitorNext
<1>3. ASSUME NEW t \in Rest, RestNext(t)
      PROVE  AInv'
  <2>1. \A app \in Apps : ~Restore(t, app)
    BY BeginAlone DEF Restore, MayStart
  <2>2. ~Unexclude(t)
    BY BeginAlone DEF Unexclude, MayStart
  <2>3. ~LiftManual(t)
    BY ThreadsHere DEF LiftManual, AInv, Underway
  <2>4. /\ \A ident \in Ids : LockToManual(t, ident) => AInv'
        /\ \A k \in Cgroups : AdoptAutoLimit(t, k) => AInv'
    BY HandoffAgrees, ThreadsHere, LifecycleAssumption
  <2> QED
    BY <1>3, <2>1, <2>2, <2>3, <2>4, LimitAgrees, WriteSysAgrees, WriteIoAgrees, RecordAgrees, DeferredAgrees, DeferWriteAgrees,
       DeferRecordAgrees, UserRestoreAgrees, LiftUserAgrees, PopUserAgrees DEF RestNext
<1>4. ~StopRunning
  BY BeginAlone DEF StopRunning, MayStart
<1>5. ~Sweep
  BY DEF Sweep, AInv, Settled, Still
<1>6. \A c \in Cgroups : ~Exit(c) /\ ~Launch(c)
  BY BeginAlone DEF Exit, Launch
<1> QED
  BY <1>1, <1>2, <1>3, <1>4, <1>5, <1>6 DEF Next

\* Initially there is nothing to agree on.
LEMMA InitAgrees == Init => AInv
<1> SUFFICES ASSUME Init PROVE AInv
  OBVIOUS
<1>1. Keys = {} /\ (\A t \in Threads : pc[t] = "idle") /\ Still
  BY ThreadsHere DEF Init, RegistryInit, Keys, Still
<1>2. Settled
  BY <1>1 DEF Settled, Alone, EntriesSound, Apart, Fitting, UserControls
<1>3. \A t \in Threads : Underway(t)
  BY <1>1 DEF Underway, Places, Eases, Puts, Awaits, Returns
<1>4. Agreed /\ HalfRecorded
  BY <1>1 DEF Agreed, HalfRecorded, Init
<1> QED
  BY <1>2, <1>3, <1>4 DEF AInv

\* Between operations the invariant says what the two properties say.
LEMMA Agreements == Typed /\ AInv => NoPhantomCap /\ (Whole => StageMatchesCap)
<1> SUFFICES ASSUME Typed, AInv, Quiet, NEW k \in Keys, NEW p \in Parts
             PROVE  /\ p \in registry[k].parts => cap[k][p] # "none"
                    /\ Whole => (p \in registry[k].partial <=> cap[k][p] = "half")
  BY DEF NoPhantomCap, StageMatchesCap, Typed, EntriesOK, Entry
<1>1. \A t \in Threads : ~InFlux(t, k, p)
  BY DEF Quiet, InFlux
<1> QED
  BY <1>1 DEF AInv, Agreed, Agree

\* The invariant holds throughout.
LEMMA AgreementKept == ASSUME Lasting PROVE Spec => []AInv
<1>1. Init => AInv
  BY InitAgrees
<1>2. Typed /\ Named /\ AInv /\ [Next]_vars => AInv'
  BY StepAgrees
<1>3. Spec => [](Typed /\ Named)
  BY TypedKept
<1> QED
  BY <1>1, <1>2, <1>3, PTL DEF Spec

\* An entry's primary cgroup carries every cap the entry claims, whichever writes
\* fail: an applier records only what landed on the primary, and a restore clears
\* a flag only when the primary's write succeeded.
THEOREM NoCapIsImagined ==
    ASSUME Serial = TRUE, Ops \subseteq {"auto", "staged", "limit", "user_restore", "handoff"}
    PROVE  Spec => []NoPhantomCap
<1>1. Lasting
  BY DEF Lasting
<1>2. Spec => [](Typed /\ Named) /\ []AInv
  BY <1>1, AgreementKept, TypedKept
<1>3. Typed /\ AInv => NoPhantomCap
  BY Agreements
<1> QED
  BY <1>2, <1>3, PTL

\* partial_parts tells which caps of the primary are the relaxed ones: the staged
\* restore neither skips a full cap nor relaxes one twice.  A write that fails for
\* one cgroup of an app and not for another would leave a relaxed cap that no
\* entry knows, so writes fail only where an app is one cgroup.
THEOREM StagesAgree ==
    ASSUME Serial = TRUE, Ops \subseteq {"auto", "staged", "limit", "user_restore", "handoff"},
           WritesMayFail => \A c, d \in Cgroups : Owner[c] = Owner[d] => c = d
    PROVE  Spec => []StageMatchesCap
<1>1. Lasting /\ Whole
  BY DEF Lasting, Whole
<1>2. Spec => [](Typed /\ Named) /\ []AInv
  BY <1>1, AgreementKept, TypedKept
<1>3. Typed /\ AInv => StageMatchesCap
  BY <1>1, Agreements
<1> QED
  BY <1>2, <1>3, PTL

-----------------------------------------------------------------------------
(***************************************************************************)
(* An exemption ends with the limit that it is for                         *)
(***************************************************************************)

\* One operation at a time, and every app is controlled.
Exclusive == Serial /\ Controlled = Apps

\* An entry is the user's.
Users(k) == k \in Keys /\ registry[k].source = "manual"

\* Entries, locals and exclusions each name an app and cgroups of that app only, an
\* exclusion is the app's, and an entry or an operation covers its key.
HomedEntries ==
    \A k \in Keys : /\ registry[k].app = Owner[k] /\ registry[k].controlled
                    /\ registry[k].cgroups \subseteq CgroupsOf(Owner[k]) /\ k \in registry[k].cgroups
HomedLocal(l) ==
    /\ l.app \in Apps
    /\ l.targets \subseteq CgroupsOf(l.app)
    /\ l.key # NoKey => l.key \in l.targets
HomedLocals == \A t \in Threads : HomedLocal(op[t])
HomedRecord(r) == r.app \in Apps /\ r.cgroups \subseteq CgroupsOf(r.app)
HomedRecords(excl) ==
    \A x \in Excluded(excl) : HomedRecord(excl.rec[x]) /\ x = <<"app", excl.rec[x].app>>

\* An exemption for a limit names the key of a limit of the user's.
Backed ==
    running => \A x \in Excluded(exclusions) :
        exclusions.rec[x].reason = "manual_limit" => \E k \in exclusions.rec[x].cgroups : Users(k)

Books == HomedEntries /\ HomedRecords(exclusions) /\ Backed

\* A thread that relieves an app, a controlled one, holds on to its entry; no other does.
Detached ==
    \A t \in Threads : IF pc[t] \in {"lift_user", "pop_user"} THEN op[t].controlled ELSE op[t].id = 0

\* The monitor is on its way from a target's selection to the record of its limit,
Capping ==
    \/ pc[Monitor] \in {"begin_apply", "yield", "write", "upsert"}
    \/ pc[Monitor] \in {"lift", "account"} /\ chan.next = "write"
\* and has seen that no limit of the user's is in the way; nor does it lift one.
Careful ==
    /\ Capping => op[Monitor].controlled /\ op[Monitor].key # NoKey
    /\ Capping /\ pc[Monitor] # "begin_apply" => ~Users(op[Monitor].key)
    /\ pc[Monitor] \in {"lift", "account"} => ~Users(chan.key)

\* Main sweeps once the service no longer runs.
Ended == pc[Main] = "sweep" => ~running

XInv == Alone /\ controlled = Apps /\ Books /\ HomedLocals /\ Detached /\ Careful /\ Ended

-----------------------------------------------------------------------------
\* When an operation starts nothing else is under way.
LEMMA StartsAlone ==
    ASSUME Exclusive, NEW o, Enabled(o)
    PROVE  \A u \in Threads : pc[u] = "idle"
  BY DEF Exclusive, Enabled

\* Nor in the middle of one.
LEMMA MiddleOfOne ==
    ASSUME XInv, NEW t \in Threads, pc[t] # "idle"
    PROVE  \A u \in Threads \ {t} : pc[u] = "idle"
  BY DEF XInv, Alone

\* A key's app is an app.
LEMMA OwnerIsApp ==
    ASSUME Typed, NEW k \in Keys
    PROVE  k \in Cgroups /\ Owner[k] \in Apps /\ k \in CgroupsOf(Owner[k]) /\ k # NoKey
  BY LifecycleAssumption DEF Typed, EntriesOK, CgroupsOf

\* A step of t alone, that says where t goes on, what it still holds and, if t is
\* the monitor, that it is careful.
LEMMA StepKeeps ==
    ASSUME NEW t \in Threads, Typed, XInv, \A u \in Threads \ {t} : pc[u] = "idle",
           \E label : Goto(t, label), UNCHANGED controlled, Books', HomedLocals',
           IF pc'[t] \in {"lift_user", "pop_user"} THEN op'[t].controlled ELSE op'[t].id = 0,
           \A u \in Threads \ {t} : op'[u].id = op[u].id,
           t = Monitor => Careful', t = Main => Ended'
    PROVE  XInv'
<1>1. \A u \in Threads \ {t} : pc'[u] = "idle"
  BY DEF Goto, Typed, ThreadsOK
<1>2. Alone'
  BY <1>1 DEF Alone
<1>3. Detached'
  BY <1>1 DEF XInv, Detached
<1>4. Careful'
  BY <1>1, ThreadsHere DEF Careful, Capping
<1>5. Ended'
  BY <1>1, ThreadsHere DEF Ended
<1>6. controlled' = Apps
  BY DEF XInv
<1> QED
  BY <1>2, <1>3, <1>4, <1>5, <1>6 DEF XInv

\* No locals name nothing.
LEMMA NoOpHomed == HomedLocal(NoOp) /\ NoOp.id = 0
<1>1. NoOp.app \in Apps
  BY LifecycleAssumption DEF NoOp
<1> QED
  BY <1>1 DEF HomedLocal, NoOp

\* A step that goes on with new locals.
LEMMA ContinueKeeps ==
    ASSUME NEW t \in Threads \ {Main}, Typed, XInv, \A u \in Threads \ {t} : pc[u] = "idle",
           NEW label, NEW l, Continue(t, label, l), HomedLocal(l),
           IF label \in {"lift_user", "pop_user"} THEN l.controlled ELSE l.id = 0,
           UNCHANGED controlled, Books', t = Monitor => Careful'
    PROVE  XInv'
<1>1. /\ op'[t] = l /\ pc'[t] = label /\ Goto(t, label)
      /\ \A u \in Threads \ {t} : op'[u] = op[u]
  BY DEF Continue, Goto, Typed, ThreadsOK
<1>2. HomedLocals'
  BY <1>1 DEF XInv, HomedLocals, HomedLocal
<1> QED
  BY <1>1, <1>2, StepKeeps

\* A step that returns.
LEMMA ReturnKeeps ==
    ASSUME NEW t \in Threads \ {Main}, Typed, XInv, \A u \in Threads \ {t} : pc[u] = "idle",
           Return(t), UNCHANGED controlled, Books'
    PROVE  XInv'
<1>1. pc'[t] = "idle"
  BY DEF Return, Continue, Goto, Typed, ThreadsOK
<1>2. t = Monitor => Careful'
  BY <1>1 DEF Careful, Capping
<1> QED
  BY <1>2, NoOpHomed, ContinueKeeps DEF Return

\* A step that leaves the locals alone.
LEMMA GotoKeeps ==
    ASSUME NEW t \in Threads, Typed, XInv, \A u \in Threads \ {t} : pc[u] = "idle",
           NEW label, Goto(t, label), UNCHANGED <<op, controlled>>,
           label \in {"lift_user", "pop_user"} <=> pc[t] \in {"lift_user", "pop_user"},
           Books', t = Monitor => Careful', t = Main => Ended'
    PROVE  XInv'
<1>1. pc'[t] = label
  BY DEF Goto, Typed, ThreadsOK
<1>2. HomedLocals'
  BY DEF XInv, HomedLocals
<1>3. IF pc'[t] \in {"lift_user", "pop_user"} THEN op'[t].controlled ELSE op'[t].id = 0
  BY <1>1 DEF XInv, Detached
<1> QED
  BY <1>2, <1>3, StepKeeps

-----------------------------------------------------------------------------
\* An app's only exclusion is the one that names any of its cgroups.
LEMMA NamedOnce ==
    ASSUME NEW excl, HomedRecords(excl), NEW k \in Cgroups, NEW x \in Naming(excl, k)
    PROVE  x = <<"app", Owner[k]>> /\ x \in Excluded(excl)
<1> DEFINE r == excl.rec[x]
<1>1. x \in Excluded(excl) /\ (k = r.app \/ k \in r.cgroups)
  BY DEF Naming
<1>2. r.app \in Apps /\ r.cgroups \subseteq CgroupsOf(r.app) /\ x = <<"app", r.app>>
  BY <1>1 DEF HomedRecords, HomedRecord
<1> HIDE DEF r
<1>3. Owner[k] = r.app
  BY <1>1, <1>2, LifecycleAssumption DEF CgroupsOf
<1> QED
  BY <1>1, <1>2, <1>3

\* The first of one.
LEMMA FirstOfOne ==
    ASSUME NEW x, NEW r
    PROVE  First({x}, r) = x
BY DEF First

\* So remove_exclusion drops whatever names the key,
LEMMA RemoveIs ==
    ASSUME NEW excl, HomedRecords(excl), NEW k \in Cgroups
    PROVE  \E xs : remove_exclusion(excl, k) = DropExclusions(excl, xs) /\ Naming(excl, k) \subseteq xs
<1> DEFINE named == Naming(excl, k)
<1>1. CASE named = {}
  BY <1>1 DEF remove_exclusion
<1>2. CASE named # {}
  <2>1. named = {<<"app", Owner[k]>>}
    BY <1>2, NamedOnce
  <2>2. First(named, excl.order) = <<"app", Owner[k]>>
    BY <2>1, FirstOfOne
  <2>3. remove_exclusion(excl, k) = DropExclusions(excl, {First(named, excl.order)})
    BY <1>2 DEF remove_exclusion
  <2> QED
    BY <2>1, <2>2, <2>3
<1> QED
  BY <1>1, <1>2

\* and so does the loop over several keys: what one of them takes, a later one does
\* not find.  The recursion has a solution: a key takes what names it, and none before it.
LEMMA RemovesAre ==
    ASSUME EntriesOK, NEW excl, HomedRecords(excl), NEW ks \in SUBSET Keys
    PROVE  \E xs : /\ remove_exclusions(excl, ks) = DropExclusions(excl, xs)
                   /\ \A k \in ks : Naming(excl, k) \subseteq xs
<1> DEFINE Left(f, k) == Naming(excl, k) \ UNION {f[j] : j \in Before(k, ks, order)}
           Taken(f) == [k \in ks |-> IF Left(f, k) = {} THEN {} ELSE {First(Left(f, k), excl.order)}]
           taken == CHOOSE f : f = Taken(f)
           mine == [k \in ks |-> {x \in Naming(excl, k) : \A j \in Before(k, ks, order) : x \notin Naming(excl, j)}]
<1>1. \A k \in ks : k \in Cgroups
  BY DEF EntriesOK
<1>2. ASSUME NEW k \in ks
      PROVE  Left(mine, k) = mine[k]
  <2>1. ASSUME NEW x \in Naming(excl, k), NEW j \in Before(k, ks, order), x \in Naming(excl, j)
        PROVE  x \in UNION {mine[i] : i \in Before(k, ks, order)}
    <3> DEFINE M == {i \in ks : x \in Naming(excl, i)}
    <3>1. j \in M /\ k \in M /\ <<j, k>> \in order
      BY <2>1 DEF Before
    <3>2. PICK m \in M : \A i \in M \ {m} : <<m, i>> \in order /\ <<i, m>> \notin order
      <4>1. M \in SUBSET Keys /\ M # {} /\ IsOrder(order, Keys)
        BY <3>1 DEF EntriesOK
      <4> HIDE DEF M
      <4> QED
        BY <4>1 DEF IsOrder
    <3>3. m # k
      <4>1. CASE j = k
        BY <3>1, <4>1 DEF EntriesOK, IsOrder
      <4>2. CASE j # k
        BY <3>1, <3>2, <4>2
      <4> QED BY <4>1, <4>2
    <3>4. m \in Before(k, ks, order) /\ m \in ks
      BY <3>1, <3>2, <3>3 DEF Before
    <3>5. \A i \in Before(m, ks, order) : x \notin Naming(excl, i)
      BY <3>2 DEF Before, EntriesOK, IsOrder
    <3>6. x \in mine[m]
      BY <3>2, <3>4, <3>5
    <3> HIDE DEF mine
    <3> QED
      BY <3>4, <3>6
  <2>2. \A i \in Before(k, ks, order) : i \in ks
    BY DEF Before
  <2>3. \A i \in ks : mine[i] \subseteq Naming(excl, i)
    OBVIOUS
  <2>4. mine[k] = {x \in Naming(excl, k) : \A j \in Before(k, ks, order) : x \notin Naming(excl, j)}
    OBVIOUS
  <2> HIDE DEF mine
  <2> QED
    BY <2>1, <2>2, <2>3, <2>4
<1>3. mine = Taken(mine)
  <2>1. ASSUME NEW k \in ks
        PROVE  mine[k] = Taken(mine)[k]
    <3>1. CASE Left(mine, k) = {}
      BY <1>2, <3>1
    <3>2. CASE Left(mine, k) # {}
      <4>1. Left(mine, k) \subseteq Naming(excl, k)
        OBVIOUS
      <4>2. Left(mine, k) = {<<"app", Owner[k]>>}
        BY <1>1, <3>2, <4>1, NamedOnce
      <4>3. Taken(mine)[k] = {First(Left(mine, k), excl.order)}
        BY <3>2
      <4>4. mine[k] = Left(mine, k)
        BY <1>2
      <4> HIDE DEF mine, Left, Taken
      <4> QED
        BY <4>2, <4>3, <4>4, FirstOfOne
    <3> QED
      BY <3>1, <3>2
  <2>2. mine = [k \in ks |-> mine[k]] /\ Taken(mine) = [k \in ks |-> Taken(mine)[k]]
    OBVIOUS
  <2> HIDE DEF mine, Taken
  <2> QED
    BY <2>1, <2>2
<1>4. taken = Taken(taken)
  <2> HIDE DEF mine, Taken
  <2> QED
    BY <1>3
<1>5. remove_exclusions(excl, ks) = DropExclusions(excl, UNION {taken[k] : k \in ks})
  BY DEF remove_exclusions
<1>6. ASSUME NEW k \in ks, NEW x \in Naming(excl, k)
      PROVE  x \in UNION {taken[j] : j \in ks}
  <2> HIDE DEF taken
  <2>1. CASE x \in UNION {taken[j] : j \in Before(k, ks, order)}
    BY <2>1 DEF Before
  <2>2. CASE x \in Left(taken, k)
    <3>1. Left(taken, k) = {x}
      BY <1>1, <2>2, NamedOnce
    <3>2. Taken(taken)[k] = {First(Left(taken, k), excl.order)}
      BY <3>1
    <3>3. taken[k] = {x}
      BY <1>4, <3>1, <3>2, FirstOfOne
    <3> QED
      BY <3>3
  <2> QED
    BY <2>1, <2>2
<1> HIDE DEF taken
<1> QED
  BY <1>5, <1>6

-----------------------------------------------------------------------------
\* The registry and the exclusions go on as they were, but for a shutdown.
LEMMA SameBooks ==
    ASSUME XInv, UNCHANGED <<registry, exclusions>>, running' => running
    PROVE  Books'
  BY DEF XInv, Books, HomedEntries, HomedRecords, Backed, Users, Keys, Excluded

\* Some exclusions are dropped, and those of the entries popped are among them.
LEMMA DropBooks ==
    ASSUME XInv, NEW ks, NEW xs, Pop(ks), exclusions' = DropExclusions(exclusions, xs),
           \A k \in ks : Users(k) => Naming(exclusions, k) \subseteq xs, running' => running
    PROVE  Books'
<1>1. HomedEntries'
  BY DEF XInv, Books, HomedEntries, Keys, Pop, Restrict
<1>2. /\ Excluded(exclusions') = Excluded(exclusions) \ xs
      /\ \A x \in Excluded(exclusions') : exclusions'.rec[x] = exclusions.rec[x]
  BY DEF DropExclusions, Excluded, Restrict
<1>3. HomedRecords(exclusions')
  BY <1>2 DEF XInv, Books, HomedRecords
<1>4. \A k : Users(k) /\ k \notin ks => Users(k)'
  BY DEF Users, Keys, Pop, Restrict
<1>5. Backed'
  <2> SUFFICES ASSUME running', NEW x \in Excluded(exclusions'),
                      exclusions'.rec[x].reason = "manual_limit"
               PROVE  \E k \in exclusions'.rec[x].cgroups : Users(k)'
    BY DEF Backed
  <2>1. PICK k \in exclusions.rec[x].cgroups : Users(k)
    BY <1>2 DEF XInv, Books, Backed
  <2>2. k \notin ks
    BY <1>2, <2>1 DEF Naming
  <2> QED
    BY <1>2, <1>4, <2>1, <2>2
<1> QED
  BY <1>1, <1>3, <1>5 DEF Books

\* An entry that is not the user's is popped.
LEMMA PopBooks ==
    ASSUME XInv, NEW ks, Pop(ks), UNCHANGED exclusions, \A k \in ks : ~Users(k), running' => running
    PROVE  Books'
<1>1. HomedEntries'
  BY DEF XInv, Books, HomedEntries, Keys, Pop, Restrict
<1>2. \A k : Users(k) => Users(k)'
  BY DEF Users, Keys, Pop, Restrict
<1> QED
  BY <1>1, <1>2 DEF XInv, Books, HomedRecords, Backed, Excluded

\* An entry is put where none is the user's.
LEMMA PutBooks ==
    ASSUME XInv, NEW k, NEW e, Put(k, e), ~Users(k), UNCHANGED exclusions, running' => running,
           e.app = Owner[k], e.controlled, e.cgroups \subseteq CgroupsOf(Owner[k]), k \in e.cgroups
    PROVE  Books'
<1> DEFINE R == [j \in Keys \cup {k} |-> IF j = k THEN e ELSE registry[j]]
<1>1. registry' = R
  BY DEF Put
<1>2. DOMAIN R = Keys \cup {k} /\ R[k] = e /\ \A j \in Keys \ {k} : R[j] = registry[j]
  OBVIOUS
<1> HIDE DEF R
<1>3. HomedEntries'
  BY <1>1, <1>2 DEF XInv, Books, HomedEntries, Keys
<1>4. \A j : Users(j) => Users(j)'
  BY <1>1, <1>2 DEF Users, Keys
<1> QED
  BY <1>3, <1>4 DEF XInv, Books, HomedRecords, Backed, Excluded

\* An exclusion is added for a controlled app, by a limit of the user's or without one;
\* the limits of other apps stay.
LEMMA AddBooks ==
    ASSUME XInv, HomedEntries', NEW k \in Cgroups, NEW e, NEW reason, HomedRecord(e), e.controlled,
           exclusions' = add_exclusion(exclusions, k, e, reason), running' => running,
           \A j : Users(j) /\ j \notin CgroupsOf(e.app) => Users(j)',
           reason = "manual_limit" => \E j \in e.cgroups : Users(j)'
    PROVE  Books'
<1> DEFINE x == <<"app", e.app>>
           record == [app |-> e.app, reason |-> reason, cgroups |-> e.cgroups]
           R == [y \in Excluded(exclusions) \cup {x} |-> IF y = x THEN record ELSE exclusions.rec[y]]
<1>1. exclusions'.rec = R
  BY DEF add_exclusion, exclusion_key
<1>2. HomedRecord(record) /\ record.app = e.app /\ record.cgroups = e.cgroups /\ record.reason = reason
  BY DEF HomedRecord
<1> HIDE DEF record
<1>3. /\ DOMAIN R = Excluded(exclusions) \cup {x} /\ R[x] = record
      /\ \A y \in Excluded(exclusions) \ {x} : R[y] = exclusions.rec[y]
  OBVIOUS
<1> HIDE DEF R
<1>4. Excluded(exclusions') = Excluded(exclusions) \cup {x}
  BY <1>1, <1>3 DEF Excluded
<1>5. HomedRecords(exclusions')
  BY <1>1, <1>2, <1>3, <1>4 DEF XInv, Books, HomedRecords
<1>6. Backed'
  <2> SUFFICES ASSUME running', NEW y \in Excluded(exclusions'),
                      exclusions'.rec[y].reason = "manual_limit"
               PROVE  \E j \in exclusions'.rec[y].cgroups : Users(j)'
    BY DEF Backed
  <2>1. CASE y = x
    BY <1>1, <1>2, <1>3, <2>1
  <2>2. CASE y # x
    <3> DEFINE r == exclusions.rec[y]
    <3>1. y \in Excluded(exclusions) /\ exclusions'.rec[y] = r
      BY <1>1, <1>3, <1>4, <2>2
    <3>2. r.app \in Apps /\ r.cgroups \subseteq CgroupsOf(r.app) /\ y = <<"app", r.app>>
      BY <3>1 DEF XInv, Books, HomedRecords, HomedRecord
    <3>3. PICK j \in r.cgroups : Users(j)
      BY <3>1 DEF XInv, Books, Backed
    <3> HIDE DEF r
    <3>4. j \notin CgroupsOf(e.app)
      BY <2>2, <3>2, <3>3 DEF CgroupsOf
    <3> QED
      BY <3>1, <3>3, <3>4
  <2> QED
    BY <2>1, <2>2
<1> QED
  BY <1>5, <1>6 DEF Books

-----------------------------------------------------------------------------
\* The tick picks a target.
LEMMA SelectKeeps ==
    ASSUME Exclusive, Typed, XInv, NEW app \in Apps, NEW c \in Cgroups, NEW part \in Parts,
           SelectTarget(app, c, part)
    PROVE  XInv'
<1> DEFINE T == LiveOf(app)
<1>1. \A u \in Threads : pc[u] = "idle"
  BY StartsAlone DEF SelectTarget, MayStart
<1>2. app \in controlled /\ c \in T
  BY DEF SelectTarget, XInv, Exclusive
<1>3. PICK l : l = [NoOp EXCEPT !.app = app, !.key = Min(T), !.targets = T, !.parts = {part},
                                !.controlled = app \in controlled]
  OBVIOUS
<1>4. Continue(Monitor, "begin_apply", l)
  BY <1>2, <1>3 DEF SelectTarget
<1>5. l.app = app /\ l.key = Min(T) /\ l.targets = T /\ l.id = 0 /\ l.controlled
  BY <1>2, <1>3 DEF NoOp
<1>6. T \subseteq CgroupsOf(app) /\ T \in SUBSET Nat
  BY CgroupsAssumption DEF LiveOf, CgroupsOf
<1>7. HomedLocal(l) /\ l.key # NoKey
  BY <1>2, <1>5, <1>6, MinIsOne, LifecycleAssumption DEF HomedLocal, CgroupsOf
<1> HIDE DEF T
<1>8. UNCHANGED <<registryVars, worldVars, cap, oplock, chan, closed>>
  BY DEF SelectTarget
<1>9. op'[Monitor] = l /\ pc'[Monitor] = "begin_apply"
  BY <1>4, ThreadsHere, GoesOn
<1>10. Careful'
  BY <1>5, <1>7, <1>9 DEF Careful, Capping
<1>11. Books'
  BY <1>8, SameBooks DEF registryVars, worldVars
<1> QED
  BY <1>1, <1>4, <1>5, <1>7, <1>8, <1>10, <1>11, ContinueKeeps, ThreadsHere, LifecycleAssumption DEF worldVars

\* On the way to the record nothing is recorded.
LEMMA StillCareful ==
    ASSUME Capping, XInv, UNCHANGED registry, pc[Monitor] # "begin_apply", pc'[Monitor] \notin {"lift", "account"},
           op'[Monitor].key = op[Monitor].key, op'[Monitor].controlled = op[Monitor].controlled
    PROVE  Careful'
  BY DEF XInv, Careful, Users, Keys

\* The steps of the applier before its record.
LEMMA ApplyKeeps ==
    ASSUME Typed, XInv, BeginApply \/ YieldIo \/ WriteAuto
    PROVE  XInv'
<1>1. \A u \in Threads \ {Monitor} : pc[u] = "idle"
  BY MiddleOfOne, ThreadsHere DEF BeginApply, YieldIo, WriteAuto
<1>2. UNCHANGED <<registryVars, worldVars>> /\ pc[Monitor] \in {"begin_apply", "yield", "write"}
  BY DEF BeginApply, YieldIo, WriteAuto
<1>3. Books' /\ UNCHANGED <<controlled, registry>> /\ Capping
  BY <1>2, SameBooks DEF registryVars, worldVars, Capping
<1>4. CASE Return(Monitor)
  BY <1>1, <1>3, <1>4, ReturnKeeps, ThreadsHere, LifecycleAssumption
<1>5. CASE BeginApply /\ ~Return(Monitor)
  <2>1. PICK label \in {"yield", "write"} :
          Goto(Monitor, label) /\ UNCHANGED op /\ ~ManuallyLimited(op[Monitor].targets)
    BY <1>5 DEF BeginApply
  <2>2. pc'[Monitor] = label
    BY <2>1, ThreadsHere, Goes
  <2>3. op[Monitor].key \in op[Monitor].targets
    BY <1>3, ThreadsHere DEF XInv, HomedLocals, HomedLocal, Careful
  <2>4. ~Users(op[Monitor].key)
    BY <2>1, <2>3 DEF ManuallyLimited, AnyOwned, Users
  <2>5. Careful'
    BY <1>3, <2>1, <2>2, <2>4 DEF XInv, Careful, Capping, Users, Keys
  <2>6. pc[Monitor] = "begin_apply"
    BY <1>5 DEF BeginApply
  <2> QED
    BY <1>1, <1>3, <2>1, <2>5, <2>6, GotoKeeps, ThreadsHere, LifecycleAssumption
<1>6. CASE YieldIo
  <2>1. PICK label \in {"lift", "write"} :
          /\ Goto(Monitor, label) /\ UNCHANGED op
          /\ label = "lift" => ~Users(chan'.key)
    <3>1. PICK k : k = by_any_id(op[Monitor].key, "auto")
      OBVIOUS
    <3>2. CASE k # NoKey /\ "io" \in registry[k].parts
      <4>1. Goto(Monitor, "lift") /\ UNCHANGED op /\ chan'.key = k
        BY <1>6, <3>1, <3>2 DEF YieldIo
      <4>2. registry[k].source = "auto"
        BY <3>1, <3>2, ByAnyIdFinds DEF Typed
      <4> QED
        BY <1>3, <4>1, <4>2 DEF Users
    <3>3. CASE ~(k # NoKey /\ "io" \in registry[k].parts)
      <4>1. Goto(Monitor, "write") /\ UNCHANGED op
        BY <1>6, <3>1, <3>3 DEF YieldIo
      <4> QED
        BY <4>1
    <3> QED
      BY <3>2, <3>3
  <2>2. pc'[Monitor] = label /\ pc[Monitor] = "yield"
    BY <1>6, <2>1, ThreadsHere, Goes DEF YieldIo
  <2>3. Careful'
    BY <1>3, <2>1, <2>2 DEF XInv, Careful, Capping, Users, Keys
  <2> QED
    BY <1>1, <1>3, <2>1, <2>2, <2>3, GotoKeeps, ThreadsHere, LifecycleAssumption
<1>7. CASE WriteAuto /\ ~Return(Monitor)
  <2>1. PICK P, l : Continue(Monitor, "upsert", l) /\ l = [op[Monitor] EXCEPT !.done = P]
    BY <1>7 DEF WriteAuto
  <2>2. op[Monitor] \in Local
    BY ThreadsHere DEF Typed, ThreadsOK
  <2>3. l.app = op[Monitor].app /\ l.targets = op[Monitor].targets /\ l.key = op[Monitor].key
        /\ l.id = op[Monitor].id /\ l.controlled = op[Monitor].controlled
    BY <2>1, <2>2 DEF Local
  <2>4. HomedLocal(l) /\ l.id = 0
    BY <1>2, <2>3, ThreadsHere DEF XInv, HomedLocals, HomedLocal, Detached
  <2>5. op'[Monitor] = l /\ pc'[Monitor] = "upsert" /\ pc[Monitor] = "write"
    BY <1>7, <2>1, ThreadsHere, GoesOn DEF WriteAuto
  <2>6. Careful'
    BY <1>3, <2>3, <2>5, StillCareful
  <2> QED
    BY <1>1, <1>3, <2>1, <2>4, <2>6, ContinueKeeps, ThreadsHere, LifecycleAssumption
<1> QED
  BY <1>4, <1>5, <1>6, <1>7

\* The record replaces no entry of the user's.
LEMMA UpsertKeeps ==
    ASSUME Typed, Named, XInv, Upsert
    PROVE  XInv'
<1>1. \A u \in Threads \ {Monitor} : pc[u] = "idle"
  BY MiddleOfOne, ThreadsHere DEF Upsert
<1>2. UNCHANGED <<exclusions, worldVars>> /\ Return(Monitor) /\ pc[Monitor] = "upsert"
  BY DEF Upsert
<1>3. PICK l, k : l = op[Monitor] /\ k = l.key
  OBVIOUS
<1>4. /\ k \in Cgroups /\ l.app = Owner[k] /\ l.targets \subseteq CgroupsOf(Owner[k]) /\ k \in l.targets
      /\ l.controlled /\ ~Users(k)
  <2>1. k \in Cgroups /\ k # NoKey
    BY <1>2, <1>3, ThreadsHere, LifecycleAssumption DEF Named, Working
  <2>2. HomedLocal(l)
    BY <1>3, ThreadsHere DEF XInv, HomedLocals
  <2>3. l.controlled /\ ~Users(k)
    BY <1>2, <1>3 DEF XInv, Careful, Capping
  <2> QED
    BY <1>3, <2>1, <2>2, <2>3 DEF HomedLocal, CgroupsOf
<1>5. PICK fresh, e :
         /\ fresh = [id |-> FreshId, app |-> l.app, source |-> "auto", adopted |-> FALSE,
                     controlled |-> l.controlled, parts |-> l.done, partial |-> {},
                     cgroups |-> l.targets]
         /\ e = IF k \in Keys /\ registry[k].source = "auto" THEN Merge(registry[k], fresh) ELSE fresh
         /\ Put(k, e)
  BY <1>3 DEF Upsert
<1>6. e.app = Owner[k] /\ e.controlled /\ e.cgroups \subseteq CgroupsOf(Owner[k]) /\ k \in e.cgroups
  <2>1. fresh.app = Owner[k] /\ fresh.cgroups = l.targets /\ fresh.controlled
    BY <1>4, <1>5
  <2>2. CASE k \in Keys /\ registry[k].source = "auto"
    <3>1. Merge(registry[k], fresh).app = fresh.app
          /\ Merge(registry[k], fresh).controlled = fresh.controlled
          /\ Merge(registry[k], fresh).cgroups = fresh.cgroups \cup registry[k].cgroups
      BY <1>5 DEF Merge
    <3> QED
      BY <1>4, <1>5, <2>1, <2>2, <3>1 DEF XInv, Books, HomedEntries
  <2>3. CASE ~(k \in Keys /\ registry[k].source = "auto")
    BY <1>4, <1>5, <2>1, <2>3
  <2> QED
    BY <2>2, <2>3
<1>7. Books'
  BY <1>2, <1>4, <1>5, <1>6, PutBooks DEF worldVars
<1> QED
  BY <1>1, <1>2, <1>7, ReturnKeeps, ThreadsHere, LifecycleAssumption DEF worldVars

\* The staged restore, and the lift of an IO cap before a CPU and memory limit.
LEMMA StartKeeps ==
    ASSUME Exclusive, Typed, XInv, NEW part, NEW stage, StartRestore(part, stage)
    PROVE  XInv'
<1>1. \A u \in Threads : pc[u] = "idle"
  BY StartsAlone DEF StartRestore, MayStart
<1>2. PICK k : k = first_auto_with_part(part, stage = "partial")
  OBVIOUS
<1>3. /\ UNCHANGED <<registryVars, worldVars, op>> /\ Goto(Monitor, "lift")
      /\ chan'.next = "idle" /\ chan'.key = k /\ k # NoKey
  BY <1>2 DEF StartRestore
<1>4. ~Users(k)
  BY <1>2, <1>3, FirstAutoFinds DEF Typed, Users
<1>5. pc'[Monitor] = "lift"
  BY <1>3, ThreadsHere, Goes
<1>6. Careful'
  BY <1>3, <1>4, <1>5 DEF Careful, Capping, Users, Keys, registryVars
<1>7. Books'
  BY <1>3, SameBooks DEF registryVars, worldVars
<1> QED
  BY <1>1, <1>3, <1>6, <1>7, GotoKeeps, ThreadsHere, LifecycleAssumption DEF worldVars

\* Setting the parts of an entry names nothing new.
LEMMA SetPartsBooks ==
    ASSUME Typed, XInv, NEW k \in Keys, NEW P, NEW done, SetParts(k, P, done),
           UNCHANGED exclusions, running' => running
    PROVE  /\ Books' /\ HomedLocals' /\ chan'.next = chan.next /\ chan'.key = chan.key
           /\ \A j : Users(j)' <=> Users(j)
           /\ \A t \in Threads : op'[t].id = IF t \in done THEN 0 ELSE op[t].id
           /\ \A t \in Threads \ done : op'[t].key = op[t].key /\ op'[t].controlled = op[t].controlled
<1>1. /\ Keys' = Keys
      /\ \A j \in Keys : /\ registry'[j].source = registry[j].source /\ registry'[j].app = registry[j].app
                         /\ registry'[j].cgroups = registry[j].cgroups
                         /\ registry'[j].controlled = registry[j].controlled
  <2>1. registry' = [registry EXCEPT ![k].parts = P]
    BY DEF SetParts
  <2>2. registry \in [Keys -> Entry]
    BY DEF Typed, EntriesOK
  <2> QED
    BY <2>1, <2>2 DEF Keys, Entry
<1>2. \A j : Users(j)' <=> Users(j)
  BY <1>1 DEF Users
<1>3. Books'
  BY <1>1, <1>2 DEF XInv, Books, HomedEntries, HomedRecords, Backed, Excluded
<1>4. op' = [t \in Threads |-> IF t \in done THEN NoOp
                               ELSE Shared(k, op[t], [op[t] EXCEPT !.parts = P])]
  BY DEF SetParts
<1>5. \A t \in Threads :
         LET l == [op[t] EXCEPT !.parts = P]
         IN  l.app = op[t].app /\ l.targets = op[t].targets /\ l.key = op[t].key /\ l.id = op[t].id
             /\ l.controlled = op[t].controlled
  BY DEF Typed, ThreadsOK, Local
<1>6. \A t \in Threads \ done : /\ op'[t].app = op[t].app /\ op'[t].targets = op[t].targets
                                /\ op'[t].key = op[t].key /\ op'[t].id = op[t].id
                                /\ op'[t].controlled = op[t].controlled
  BY <1>4, <1>5 DEF Shared
<1>7. \A t \in Threads : t \in done => op'[t] = NoOp
  BY <1>4
<1>8. HomedLocals'
  BY <1>6, <1>7, NoOpHomed DEF XInv, HomedLocals, HomedLocal
<1>9. chan'.next = chan.next /\ chan'.key = chan.key
  BY DEF SetParts, Shared, Typed, ThreadsOK, Channel
<1> QED
  BY <1>2, <1>3, <1>6, <1>7, <1>8, <1>9, NoOpHomed

LEMMA LiftKeeps ==
    ASSUME Typed, XInv, Lift
    PROVE  XInv'
<1>1. \A u \in Threads \ {Monitor} : pc[u] = "idle"
  BY MiddleOfOne, ThreadsHere DEF Lift
<1>2. UNCHANGED <<exclusions, worldVars>> /\ pc[Monitor] = "lift" /\ Goto(Monitor, "account")
  BY DEF Lift
<1>3. pc'[Monitor] = "account"
  BY <1>2, ThreadsHere, Goes
<1>4. /\ Books' /\ HomedLocals' /\ chan'.next = chan.next /\ chan'.key = chan.key
      /\ \A j : Users(j)' <=> Users(j)
      /\ \A t \in Threads : op'[t].id = op[t].id
      /\ \A t \in Threads : op'[t].key = op[t].key /\ op'[t].controlled = op[t].controlled
  <2>1. CASE \E k \in Keys : \E P : SetParts(k, P, {})
    BY <1>2, <2>1, SetPartsBooks DEF worldVars
  <2>2. CASE UNCHANGED <<registry, op>> /\ \E ok : chan' = [chan EXCEPT !.ok = ok]
    BY <1>2, <2>2, SameBooks DEF XInv, HomedLocals, Typed, ThreadsOK, Channel, worldVars, Users, Keys
  <2> QED
    BY <2>1, <2>2 DEF Lift
<1>5. Careful'
  BY <1>2, <1>3, <1>4, ThreadsHere DEF XInv, Careful, Capping
<1>6. op'[Monitor].id = 0
  BY <1>2, <1>4, ThreadsHere DEF XInv, Detached
<1> QED
  BY <1>1, <1>2, <1>3, <1>4, <1>5, <1>6, StepKeeps, ThreadsHere, LifecycleAssumption DEF worldVars

LEMMA AccountKeeps ==
    ASSUME Typed, XInv, Account
    PROVE  XInv'
<1>1. \A u \in Threads \ {Monitor} : pc[u] = "idle"
  BY MiddleOfOne, ThreadsHere DEF Account
<1>2. UNCHANGED <<exclusions, worldVars>> /\ pc[Monitor] = "account"
  BY DEF Account
<1>3. PICK k : k = chan.key
  OBVIOUS
<1>4. ~Users(k)
  BY <1>2, <1>3 DEF XInv, Careful
<1>5. Books' /\ \A j : Users(j)' => Users(j)
  <2>1. \/ Pop({k})
        \/ k \in Keys /\ PutLast(k, registry[k])
        \/ k \in Keys /\ \E P : PutLast(k, [registry[k] EXCEPT !.partial = P])
        \/ UNCHANGED registry
    BY <1>3 DEF Account
  <2>2. ASSUME NEW e, k \in Keys, PutLast(k, e), e.app = registry[k].app, e.source = registry[k].source,
               e.cgroups = registry[k].cgroups, e.controlled = registry[k].controlled
        PROVE  Books' /\ \A j : Users(j)' => Users(j)
    <3>1. Keys' = Keys /\ registry'[k] = e /\ \A j \in Keys \ {k} : registry'[j] = registry[j]
      BY <2>2 DEF PutLast, Keys
    <3>2. HomedEntries'
      BY <2>2, <3>1 DEF XInv, Books, HomedEntries
    <3>3. \A j : Users(j)' <=> Users(j)
      BY <2>2, <3>1 DEF Users
    <3> QED
      BY <1>2, <3>2, <3>3 DEF XInv, Books, HomedRecords, Backed, Excluded, worldVars
  <2>3. CASE k \in Keys /\ PutLast(k, registry[k])
    BY <2>2, <2>3
  <2>4. ASSUME k \in Keys, NEW P, PutLast(k, [registry[k] EXCEPT !.partial = P])
        PROVE  Books' /\ \A j : Users(j)' => Users(j)
    <3>1. PICK e : e = [registry[k] EXCEPT !.partial = P]
      OBVIOUS
    <3>2. /\ e.app = registry[k].app /\ e.cgroups = registry[k].cgroups
          /\ e.source = registry[k].source /\ e.controlled = registry[k].controlled
      BY <2>4, <3>1 DEF Typed, EntriesOK, Entry
    <3> QED
      BY <2>2, <2>4, <3>1, <3>2
  <2>5. CASE Pop({k})
    <3>1. \A j : Users(j)' => Users(j)
      BY <2>5 DEF Users, Keys, Pop, Restrict
    <3> QED
      BY <1>2, <1>4, <2>5, <3>1, PopBooks DEF worldVars
  <2>6. CASE UNCHANGED registry
    BY <1>2, <2>6, SameBooks DEF worldVars, Users, Keys
  <2> QED
    BY <2>1, <2>3, <2>4, <2>5, <2>6
<1>6. \/ Goto(Monitor, "write") /\ UNCHANGED op /\ chan.next = "write"
      \/ Return(Monitor)
  BY DEF Account
<1>7. CASE Return(Monitor)
  BY <1>1, <1>2, <1>5, <1>7, ReturnKeeps, ThreadsHere, LifecycleAssumption DEF worldVars
<1>8. CASE Goto(Monitor, "write") /\ UNCHANGED op /\ chan.next = "write"
  <2>1. pc'[Monitor] = "write"
    BY <1>8, ThreadsHere, Goes
  <2>2. Careful'
    BY <1>2, <1>5, <1>8, <2>1 DEF XInv, Careful, Capping
  <2> QED
    BY <1>1, <1>2, <1>5, <1>8, <2>2, GotoKeeps, ThreadsHere, LifecycleAssumption DEF worldVars
<1> QED
  BY <1>6, <1>7, <1>8

\* The reaper drops what exempts the apps it reaps, and adds nothing.
LEMMA ReapKeeps ==
    ASSUME Exclusive, Typed, XInv, Reap \/ ReapOne
    PROVE  XInv'
<1>1. \A u \in Threads \ {Monitor} : pc[u] = "idle"
  BY StartsAlone, MiddleOfOne, ThreadsHere DEF Reap, ReapOne, MayStart
<1>2. PICK label \in {"idle", "reap"} : Goto(Monitor, label)
  BY DEF Reap, ReapOne
<1>3. UNCHANGED <<op, worldVars>> /\ pc[Monitor] \in {"idle", "reap"}
  BY DEF Reap, ReapOne, MayStart
<1>4. Books'
  <2>1. CASE Reap
    <3>1. PICK ks \in SUBSET Keys : Pop(ks) /\ exclusions' = remove_exclusions(exclusions, ks)
      BY <2>1 DEF Reap
    <3>2. PICK xs : /\ exclusions' = DropExclusions(exclusions, xs)
                    /\ \A k \in ks : Naming(exclusions, k) \subseteq xs
      BY <3>1, RemovesAre DEF Typed, XInv, Books
    <3> QED
      BY <1>3, <3>1, <3>2, DropBooks DEF worldVars
  <2>2. CASE ReapOne
    BY <1>3, <2>2, SameBooks DEF ReapOne, registryVars, worldVars
  <2> QED
    BY <2>1, <2>2
<1>5. Careful'
  BY <1>2, ThreadsHere, Goes DEF Careful, Capping
<1> QED
  BY <1>1, <1>2, <1>3, <1>4, <1>5, GotoKeeps, ThreadsHere, LifecycleAssumption DEF worldVars

\* A limit that changes hands is the user's, and exempts its app.
LEMMA HandoffKeeps ==
    ASSUME Exclusive, Typed, XInv, NEW t \in Threads, NEW ident,
           LockToManual(t, ident) \/ (ident \in Cgroups /\ AdoptAutoLimit(t, ident))
    PROVE  XInv'
<1>1. \A u \in Threads : pc[u] = "idle"
  BY StartsAlone DEF LockToManual, AdoptAutoLimit, MayStart
<1>2. PICK k \in Keys : FlipToManual(k, Owner[k]) /\ controlled' = controlled \cup {Owner[k]}
  BY HandoffFlips
<1>3. UNCHANGED <<controlled, pc, running>>
  BY <1>2, OwnerIsApp DEF XInv, LockToManual, AdoptAutoLimit, worldVars
<1>4. PICK entry : /\ entry = [registry[k] EXCEPT !.source = "manual", !.adopted = TRUE,
                                                  !.controlled = TRUE, !.app = Owner[k]]
                   /\ registry' = [registry EXCEPT ![k] = entry]
                   /\ exclusions' = add_exclusion(exclusions, k, entry, "manual_limit")
  BY <1>2 DEF FlipToManual
<1>5. /\ entry.app = Owner[k] /\ entry.cgroups = registry[k].cgroups
      /\ entry.controlled /\ entry.source = "manual"
  BY <1>4 DEF Typed, EntriesOK, Entry
<1>6. Keys' = Keys /\ registry'[k] = entry /\ \A j \in Keys \ {k} : registry'[j] = registry[j]
  BY <1>4 DEF Keys
<1>7. HomedEntries'
  BY <1>5, <1>6 DEF XInv, Books, HomedEntries
<1>8. HomedRecord(entry) /\ k \in entry.cgroups /\ k \in Cgroups
  BY <1>5, OwnerIsApp DEF XInv, Books, HomedEntries, HomedRecord
<1>9. Users(k)' /\ \A j : Users(j) => Users(j)'
  BY <1>5, <1>6 DEF Users
<1>10. Books'
  BY <1>3, <1>4, <1>5, <1>7, <1>8, <1>9, AddBooks
<1>11. UNCHANGED op
  <2>1. op' = [u \in Threads |-> Shared(k, op[u], [op[u] EXCEPT !.app = Owner[k], !.controlled = TRUE])]
    BY <1>2 DEF FlipToManual
  <2>2. \A u \in Threads : op[u].id = 0 /\ registry[k].id # 0
    BY <1>1 DEF XInv, Detached, Typed, EntriesOK, Entry
  <2> QED
    BY <2>1, <2>2 DEF Shared, Typed, ThreadsOK
<1>12. Goto(t, pc[t]) /\ Careful' /\ Ended'
  BY <1>1, <1>3, ThreadsHere DEF Goto, Typed, ThreadsOK, Careful, Capping, Ended
<1> QED
  BY <1>1, <1>3, <1>10, <1>11, <1>12, GotoKeeps

-----------------------------------------------------------------------------
\* A REST thread starts.
LEMMA RequestKeeps ==
    ASSUME Exclusive, Typed, XInv, NEW t \in Rest,
           \/ \E app \in Apps, T \in SUBSET Cgroups, want \in SUBSET Parts : Limit(t, app, T, want)
           \/ \E app \in Apps : Restore(t, app)
           \/ \E ident \in Ids : UserRestore(t, ident)
    PROVE  XInv'
<1>t. t \in Threads /\ t # Monitor /\ t # Main
  BY ThreadsHere, LifecycleAssumption
<1>1. ASSUME NEW app \in Apps, NEW T \in SUBSET Cgroups, NEW want \in SUBSET Parts,
             Limit(t, app, T, want)
      PROVE  XInv'
  <2>1. \A u \in Threads : pc[u] = "idle"
    BY <1>1, StartsAlone DEF Limit, MayStart
  <2> DEFINE label == IF "sys" \in want THEN "write_sys" ELSE "write_io"
             l == [NoOp EXCEPT !.app = app, !.key = Min(T), !.targets = T, !.parts = want,
                               !.controlled = TRUE]
  <2>2. Continue(t, label, l) /\ label \notin {"lift_user", "pop_user"}
    BY <1>1 DEF Limit
  <2>3. l.app = app /\ l.key = Min(T) /\ l.targets = T /\ l.id = 0
    BY DEF NoOp
  <2> HIDE DEF label, l
  <2>4. T \subseteq CgroupsOf(app) /\ Min(T) \in T
    BY <1>1, CgroupsAssumption, MinIsOne DEF Limit, LiveOf
  <2>5. HomedLocal(l)
    BY <2>3, <2>4 DEF HomedLocal
  <2>6. Books' /\ UNCHANGED controlled
    BY <1>1, SameBooks DEF Limit, registryVars, worldVars
  <2> QED
    BY <1>t, <2>1, <2>2, <2>3, <2>5, <2>6, ContinueKeeps
<1>2. ASSUME NEW app \in Apps, Restore(t, app)
      PROVE  XInv'
  <2>1. \A u \in Threads : pc[u] = "idle"
    BY <1>2, StartsAlone DEF Restore, MayStart
  <2>2. PICK k : k = by_public_id(app, "manual")
    OBVIOUS
  <2>3. k \in Keys /\ registry[k].app = app
    BY <1>2, <2>2, ByPublicIdFinds DEF Restore, Typed
  <2>4. PICK l : /\ Continue(t, "lift_manual", l)
                 /\ l = [NoOp EXCEPT !.app = app, !.key = k, !.targets = registry[k].cgroups,
                                     !.parts = registry[k].parts]
    BY <1>2, <2>2 DEF Restore
  <2>5. l.app = app /\ l.key = k /\ l.targets = registry[k].cgroups /\ l.id = 0
    BY <2>4 DEF NoOp
  <2>6. HomedLocal(l)
    BY <2>3, <2>5, OwnerIsApp DEF HomedLocal, XInv, Books, HomedEntries
  <2>7. Pop({k}) /\ exclusions' = remove_exclusion(exclusions, k)
    BY <1>2, <2>2 DEF Restore
  <2>8. Books'
    <3>1. PICK xs : /\ exclusions' = DropExclusions(exclusions, xs)
                    /\ Naming(exclusions, k) \subseteq xs
      BY <2>3, <2>7, OwnerIsApp, RemoveIs DEF XInv, Books
    <3> QED
      BY <1>2, <2>7, <3>1, DropBooks DEF Restore, worldVars
  <2> QED
    BY <1>2, <1>t, <2>1, <2>4, <2>5, <2>6, <2>8, ContinueKeeps DEF Restore, worldVars
<1>3. ASSUME NEW ident \in Ids, UserRestore(t, ident)
      PROVE  XInv'
  <2>1. \A u \in Threads : pc[u] = "idle"
    BY <1>3, StartsAlone DEF UserRestore, MayStart
  <2>2. PICK k : /\ k = IF by_public_id(ident, "auto") # NoKey THEN by_public_id(ident, "auto")
                        ELSE by_any_id(ident, "auto")
                 /\ k # NoKey
    BY <1>3 DEF UserRestore
  <2>3. k \in Keys
    BY <2>2, ByPublicIdFinds, ByAnyIdFinds DEF Typed
  <2>4. PICK l : l = [NoOp EXCEPT !.app = registry[k].app, !.key = k, !.id = registry[k].id,
                                  !.targets = registry[k].cgroups, !.parts = registry[k].parts,
                                  !.controlled = registry[k].controlled]
    OBVIOUS
  <2>5. Continue(t, "lift_user", l)
    BY <1>3, <2>2, <2>4 DEF UserRestore
  <2>6. /\ l.app = registry[k].app /\ l.key = k /\ l.targets = registry[k].cgroups
        /\ l.controlled = registry[k].controlled
    BY <2>4 DEF NoOp
  <2>7. HomedLocal(l) /\ l.controlled
    BY <2>3, <2>6, OwnerIsApp DEF HomedLocal, XInv, Books, HomedEntries
  <2>8. Books' /\ UNCHANGED controlled
    BY <1>3, SameBooks DEF UserRestore, registryVars, worldVars
  <2> QED
    BY <1>t, <2>1, <2>5, <2>7, <2>8, ContinueKeeps
<1> QED
  BY <1>1, <1>2, <1>3

\* A REST thread writes, or looks up, and goes on with its locals or returns.
LEMMA GoingOnKeeps ==
    ASSUME Typed, XInv, NEW t \in Rest,
           \/ WriteSys(t) \/ WriteIo(t) \/ Deferred(t) \/ DeferWrite(t)
           \/ LiftManual(t) \/ LiftUser(t)
    PROVE  XInv'
<1>t. t \in Threads /\ t # Monitor /\ t # Main
  BY ThreadsHere, LifecycleAssumption
<1>1. \A u \in Threads \ {t} : pc[u] = "idle"
  BY <1>t, MiddleOfOne
     DEF WriteSys, WriteIo, Deferred, DeferWrite, LiftManual, LiftUser
<1>2. Books' /\ UNCHANGED controlled
  <2>1. UNCHANGED <<registryVars, worldVars>>
    BY DEF WriteSys, WriteIo, Deferred, DeferWrite, LiftManual, LiftUser
  <2> QED
    BY <2>1, SameBooks DEF registryVars, worldVars
<1>3. CASE Return(t)
  BY <1>t, <1>1, <1>2, <1>3, ReturnKeeps
<1>4. CASE LiftUser(t) /\ ~Return(t)
  <2>1. Goto(t, "pop_user") /\ UNCHANGED op /\ pc[t] = "lift_user"
    BY <1>4 DEF LiftUser
  <2> QED
    BY <1>t, <1>1, <1>2, <2>1, GotoKeeps
<1>5. CASE Deferred(t) /\ ~Return(t)
  <2>1. Goto(t, "defer_write") /\ UNCHANGED op /\ pc[t] = "deferred"
    BY <1>5 DEF Deferred
  <2> QED
    BY <1>t, <1>1, <1>2, <2>1, GotoKeeps
<1>6. CASE WriteSys(t) \/ WriteIo(t) \/ DeferWrite(t)
  <2>1. op[t] \in Local
    BY <1>t DEF Typed, ThreadsOK
  <2>2. \A D, d : \A l \in {[op[t] EXCEPT !.done = D, !.defer = d], [op[t] EXCEPT !.done = D]} :
           l.app = op[t].app /\ l.targets = op[t].targets /\ l.key = op[t].key /\ l.id = op[t].id
    BY <2>1 DEF Local
  <2>3. PICK label, l :
           /\ label \in {"write_io", "record", "defer_record"}
           /\ Continue(t, label, l)
           /\ l.app = op[t].app /\ l.targets = op[t].targets /\ l.key = op[t].key /\ l.id = op[t].id
    <3>1. CASE WriteSys(t)
      <4>1. PICK W \in IF running THEN Succeed(op[t].targets) ELSE {{}}, mem \in BOOLEAN :
               LET landed == Landed(op[t], W)
                   defer == landed /\ mem /\ "io" \in op[t].parts
               IN  Continue(t, IF "io" \in op[t].parts /\ ~defer THEN "write_io" ELSE "record",
                     [op[t] EXCEPT !.done = IF landed THEN {"sys"} ELSE {}, !.defer = defer])
        BY <3>1, Zenon DEF WriteSys
      <4> DEFINE landed == Landed(op[t], W)
                 held == landed /\ mem /\ "io" \in op[t].parts
                 D == IF landed THEN {"sys"} ELSE {}
                 label == IF "io" \in op[t].parts /\ ~held THEN "write_io" ELSE "record"
                 next == [op[t] EXCEPT !.done = D, !.defer = held]
      <4>2. Continue(t, label, next)
        BY <4>1
      <4>3. /\ next.app = op[t].app /\ next.targets = op[t].targets
            /\ next.key = op[t].key /\ next.id = op[t].id
        BY <2>2
      <4>4. label \in {"write_io", "record", "defer_record"}
        OBVIOUS
      <4> HIDE DEF next, label
      <4> QED
        BY <4>2, <4>3, <4>4
    <3>2. CASE WriteIo(t)
      <4>1. PICK D : Continue(t, "record", [op[t] EXCEPT !.done = D])
        BY <3>2 DEF WriteIo
      <4> DEFINE next == [op[t] EXCEPT !.done = D]
      <4>2. /\ next.app = op[t].app /\ next.targets = op[t].targets
            /\ next.key = op[t].key /\ next.id = op[t].id
        BY <2>2
      <4>3. Continue(t, "record", next)
        BY <4>1
      <4> HIDE DEF next
      <4> QED
        BY <4>2, <4>3
    <3>3. CASE DeferWrite(t)
      <4>1. PICK D : Continue(t, "defer_record", [op[t] EXCEPT !.done = D])
        BY <3>3 DEF DeferWrite
      <4> DEFINE next == [op[t] EXCEPT !.done = D]
      <4>2. /\ next.app = op[t].app /\ next.targets = op[t].targets
            /\ next.key = op[t].key /\ next.id = op[t].id
        BY <2>2
      <4>3. Continue(t, "defer_record", next)
        BY <4>1
      <4> HIDE DEF next
      <4> QED
        BY <4>2, <4>3
    <3> QED
      BY <1>6, <3>1, <3>2, <3>3
  <2>4. op[t].id = 0
    BY <1>t, <1>6 DEF WriteSys, WriteIo, DeferWrite, XInv, Detached
  <2>5. HomedLocal(l)
    BY <1>t, <2>3 DEF XInv, HomedLocals, HomedLocal
  <2> QED
    BY <1>t, <1>1, <1>2, <2>3, <2>4, <2>5, ContinueKeeps
<1> QED
  BY <1>3, <1>4, <1>5, <1>6 DEF LiftManual

\* The user's own limit is recorded, and exempts the app.
LEMMA RecordKeeps ==
    ASSUME Typed, Named, XInv, NEW t \in Rest, Record(t)
    PROVE  XInv'
<1>t. t \in Threads /\ t # Monitor /\ t # Main
  BY ThreadsHere, LifecycleAssumption
<1>1. \A u \in Threads \ {t} : pc[u] = "idle"
  BY <1>t, MiddleOfOne DEF Record
<1>2. pc[t] = "record" /\ UNCHANGED worldVars
  BY DEF Record
<1>3. PICK l, k : l = op[t] /\ k = l.key
  OBVIOUS
<1>4. /\ k \in Cgroups /\ l.app = Owner[k] /\ l.app \in Apps
      /\ l.targets \subseteq CgroupsOf(l.app) /\ k \in l.targets
  <2>1. k \in Cgroups /\ k # NoKey
    BY <1>t, <1>2, <1>3, LifecycleAssumption DEF Named, Working
  <2>2. HomedLocal(l)
    BY <1>t, <1>3 DEF XInv, HomedLocals
  <2> QED
    BY <1>3, <2>1, <2>2 DEF HomedLocal, CgroupsOf
<1>5. Books'
  <2>1. CASE UNCHANGED registryVars
    BY <1>2, <2>1, SameBooks DEF registryVars, worldVars
  <2>2. CASE ~UNCHANGED registryVars
    <3>1. PICK e : /\ e = [id |-> FreshId, app |-> l.app, source |-> "manual", adopted |-> FALSE,
                           controlled |-> TRUE, parts |-> l.done, partial |-> {},
                           cgroups |-> l.targets]
                   /\ Put(k, e)
                   /\ exclusions' = add_exclusion(exclusions, k, e, "manual_limit")
      BY <1>3, <2>2 DEF Record
    <3>2. e.app = l.app /\ e.cgroups = l.targets /\ e.controlled /\ e.source = "manual"
      BY <3>1
    <3>3. HomedRecord(e)
      BY <1>4, <3>2 DEF HomedRecord
    <3>4. /\ DOMAIN registry' = Keys \cup {k} /\ registry'[k] = e
          /\ \A j \in Keys \ {k} : registry'[j] = registry[j]
      <4>1. registry' = [j \in Keys \cup {k} |-> IF j = k THEN e ELSE registry[j]]
        BY <3>1 DEF Put
      <4> QED
        BY <4>1
    <3>5. HomedEntries'
      BY <1>4, <3>2, <3>4 DEF XInv, Books, HomedEntries, Keys
    <3>6. Users(k)' /\ \A j : Users(j) => Users(j)'
      BY <3>2, <3>4 DEF Users, Keys
    <3> QED
      BY <1>2, <1>4, <3>1, <3>2, <3>3, <3>5, <3>6, AddBooks DEF worldVars
  <2> QED
    BY <2>1, <2>2
<1>6. Return(t) \/ (Goto(t, "deferred") /\ UNCHANGED op)
  BY DEF Record
<1> QED
  BY <1>t, <1>1, <1>2, <1>5, <1>6, ReturnKeeps, GotoKeeps DEF worldVars

LEMMA DeferRecordKeeps ==
    ASSUME Typed, XInv, NEW t \in Rest, DeferRecord(t)
    PROVE  XInv'
<1>t. t \in Threads /\ t # Monitor /\ t # Main
  BY ThreadsHere, LifecycleAssumption
<1>1. \A u \in Threads \ {t} : pc[u] = "idle"
  BY <1>t, MiddleOfOne DEF DeferRecord
<1>2. UNCHANGED <<exclusions, controlled, running>>
  BY DEF DeferRecord, worldVars
<1>3. CASE Return(t) /\ UNCHANGED registry
  BY <1>t, <1>1, <1>2, <1>3, SameBooks, ReturnKeeps
<1>4. CASE Goto(t, "idle") /\ \E k \in Keys : \E P : SetParts(k, P, {t})
  <2>1. pc'[t] = "idle"
    BY <1>t, <1>4, Goes
  <2> QED
    BY <1>t, <1>1, <1>2, <1>4, <2>1, SetPartsBooks, StepKeeps
<1> QED
  BY <1>3, <1>4 DEF DeferRecord

\* An app given back by the user is exempt for that; its other exemption, if there was
\* one, is over, and no other app's limit is popped.
LEMMA PopUserKeeps ==
    ASSUME Typed, Named, XInv, NEW t \in Rest, PopUser(t)
    PROVE  XInv'
<1>t. t \in Threads /\ t # Monitor /\ t # Main
  BY ThreadsHere, LifecycleAssumption
<1>1. \A u \in Threads \ {t} : pc[u] = "idle"
  BY <1>t, MiddleOfOne DEF PopUser
<1>2. Return(t) /\ UNCHANGED worldVars /\ pc[t] = "pop_user"
  BY DEF PopUser
<1>3. PICK l, k : l = op[t] /\ k = l.key
  OBVIOUS
<1>4. /\ k \in Cgroups /\ k \in CgroupsOf(l.app) /\ l.app \in Apps
      /\ l.targets \subseteq CgroupsOf(l.app) /\ l.controlled
  <2>1. k \in Cgroups /\ k # NoKey
    BY <1>t, <1>2, <1>3, LifecycleAssumption DEF Named, Working
  <2>2. HomedLocal(l) /\ l.controlled
    BY <1>t, <1>2, <1>3 DEF XInv, HomedLocals, Detached
  <2> QED
    BY <1>3, <2>1, <2>2 DEF HomedLocal
<1>5. PICK e : /\ e = [app |-> l.app, controlled |-> l.controlled, cgroups |-> l.targets]
               /\ exclusions' = add_exclusion(exclusions, k, e, "user_restore")
               /\ Pop({k}) \/ UNCHANGED registry
  BY <1>3 DEF PopUser
<1>6. HomedRecord(e) /\ e.app = l.app /\ e.controlled
  BY <1>4, <1>5 DEF HomedRecord
<1>7. HomedEntries'
  BY <1>5 DEF XInv, Books, HomedEntries, Keys, Pop, Restrict
<1>8. \A j : Users(j) /\ j # k => Users(j)'
  BY <1>5 DEF Users, Keys, Pop, Restrict
<1>9. Books'
  BY <1>2, <1>4, <1>5, <1>6, <1>7, <1>8, AddBooks DEF worldVars
<1> QED
  BY <1>t, <1>1, <1>2, <1>9, ReturnKeeps DEF worldVars

\* The other steps: an exemption may be dropped, and the sweep takes every limit once the
\* service no longer runs.
LEMMA OtherKeeps ==
    ASSUME Exclusive, Typed, XInv,
           \/ \E t \in Rest : Unexclude(t)
           \/ StopRunning \/ Sweep \/ \E c \in Cgroups : Exit(c) \/ Launch(c)
           \/ UNCHANGED vars
    PROVE  XInv'
<1>1. ASSUME NEW t \in Rest, Unexclude(t)
      PROVE  XInv'
  <2>1. \A u \in Threads : pc[u] = "idle"
    BY <1>1, StartsAlone DEF Unexclude, MayStart
  <2>2. Books' /\ UNCHANGED <<op, controlled, pc>>
    <3>1. PICK xs : exclusions' = DropExclusions(exclusions, xs)
      BY <1>1 DEF Unexclude
    <3>2. Excluded(exclusions') \subseteq Excluded(exclusions)
          /\ \A x \in Excluded(exclusions') : exclusions'.rec[x] = exclusions.rec[x]
      BY <3>1 DEF DropExclusions, Excluded, Restrict
    <3>3. UNCHANGED <<registry, worldVars, op, pc>>
      BY <1>1 DEF Unexclude
    <3> QED
      BY <3>2, <3>3 DEF worldVars, XInv, Books, HomedEntries, HomedRecords, Backed, Users, Keys
  <2>3. Goto(t, pc[t])
    BY <2>2, ThreadsHere DEF Goto, Typed, ThreadsOK
  <2> QED
    BY <2>1, <2>2, <2>3, GotoKeeps, ThreadsHere, LifecycleAssumption
<1>2. CASE StopRunning \/ Sweep
  <2>1. /\ \A u \in Threads \ {Main} : pc[u] = "idle"
        /\ pc[Main] \in {"idle", "sweep"}
    BY <1>2, StartsAlone, MiddleOfOne, ThreadsHere DEF StopRunning, Sweep, MayStart
  <2>2. PICK label \in {"sweep", "stopped"} : Goto(Main, label)
    BY <1>2 DEF StopRunning, Sweep
  <2>4. pc'[Main] = "sweep" => ~running'
    BY <1>2, <2>1, ThreadsHere, Goes DEF StopRunning, Sweep
  <2>3. Books' /\ UNCHANGED <<op, controlled>>
    <3>1. CASE StopRunning
      BY <3>1, SameBooks DEF StopRunning, registryVars
    <3>2. CASE Sweep
      <4>1. Pop(Swept) /\ UNCHANGED <<exclusions, worldVars, op>> /\ ~running
        BY <3>2 DEF Sweep, XInv, Ended
      <4>2. HomedEntries'
        BY <4>1 DEF XInv, Books, HomedEntries, Keys, Pop, Restrict
      <4> QED
        BY <4>1, <4>2 DEF XInv, Books, HomedRecords, Backed, Excluded, worldVars
    <3> QED
      BY <1>2, <3>1, <3>2 DEF StopRunning
  <2>5. pc'[Main] = label /\ label \notin {"lift_user", "pop_user"}
    BY <1>2, <2>2, ThreadsHere, Goes DEF StopRunning, Sweep
  <2> QED
    BY <2>1, <2>2, <2>3, <2>4, <2>5, GotoKeeps, ThreadsHere, LifecycleAssumption DEF Ended
<1>3. CASE (\E c \in Cgroups : Exit(c) \/ Launch(c)) \/ UNCHANGED vars
  <2>1. UNCHANGED <<registry, exclusions, running, controlled, pc, op, chan>>
    BY <1>3 DEF Exit, Launch, vars, registryVars
  <2>2. Books'
    BY <2>1, SameBooks
  <2> QED
    BY <2>1, <2>2 DEF XInv, Alone, HomedLocals, Detached, Careful, Capping, Users, Keys, Ended
<1> QED
  BY <1>1, <1>2, <1>3

-----------------------------------------------------------------------------
\* Every step keeps the books.
LEMMA StepsKeep == Exclusive /\ Typed /\ Named /\ XInv /\ [Next]_vars => XInv'
<1> SUFFICES ASSUME Exclusive, Typed, Named, XInv, [Next]_vars PROVE XInv'
  OBVIOUS
<1>1. CASE MonitorNext
  BY <1>1, SelectKeeps, ApplyKeeps, UpsertKeeps, StartKeeps, LiftKeeps, AccountKeeps,
     ReapKeeps, HandoffKeeps, ThreadsHere DEF MonitorNext
<1>2. ASSUME NEW t \in Rest, RestNext(t)
      PROVE  XInv'
  BY <1>2, RequestKeeps, GoingOnKeeps, RecordKeeps, DeferRecordKeeps, PopUserKeeps,
     OtherKeeps, HandoffKeeps, ThreadsHere DEF RestNext
<1> QED
  BY <1>1, <1>2, OtherKeeps DEF Next

\* Initially nothing is limited and nothing excluded.
LEMMA InitKeeps == Exclusive /\ Init => XInv
<1> SUFFICES ASSUME Exclusive, Init PROVE XInv
  OBVIOUS
<1>1. /\ Keys = {} /\ Excluded(exclusions) = {} /\ controlled = Apps
      /\ \A t \in Threads : pc[t] = "idle" /\ op[t] = NoOp
  BY DEF Init, RegistryInit, Keys, Excluded, Exclusive
<1> QED
  BY <1>1, NoOpHomed, ThreadsHere
     DEF XInv, Alone, Books, Backed, HomedEntries, HomedLocals, HomedRecords, Detached, Careful, Capping, Ended

\* An app that is passed over because the user has limited it is under a limit of the
\* user's, whatever limits, edits, hand-overs, restores and exits came before: each of
\* them finds the app's record by a key of its own (remove_exclusion).  It takes one
\* operation at a time, and apps that are controlled from the start, as one that is
\* taken over later may keep the exclusion of a single cgroup, which is dropped instead.
THEOREM ExemptionsEnd ==
    ASSUME Serial = TRUE, Controlled = Apps
    PROVE  Spec => []ExemptionEndsWithLimit
<1>1. Exclusive
  BY DEF Exclusive
<1>2. Init => XInv
  BY <1>1, InitKeeps
<1>3. Typed /\ Named /\ XInv /\ [Next]_vars => XInv'
  BY <1>1, StepsKeep
<1>4. Typed /\ XInv => ExemptionEndsWithLimit
  <2> SUFFICES ASSUME Typed, XInv, running, NEW x \in Excluded(exclusions),
                      exclusions.rec[x].reason = "manual_limit"
               PROVE  \E k \in Keys : registry[k].source = "manual" /\ registry[k].app = exclusions.rec[x].app
    BY DEF ExemptionEndsWithLimit
  <2> DEFINE r == exclusions.rec[x]
  <2>1. r.cgroups \subseteq CgroupsOf(r.app)
    BY DEF XInv, Books, HomedRecords, HomedRecord
  <2>2. PICK k \in r.cgroups : Users(k)
    BY DEF XInv, Books, Backed
  <2> HIDE DEF r
  <2>3. registry[k].app = r.app
    BY <2>1, <2>2 DEF XInv, Books, HomedEntries, Users, CgroupsOf
  <2> QED
    BY <2>2, <2>3 DEF Users, r
<1>5. Spec => [](Typed /\ Named)
  BY TypedKept
<1> QED
  BY <1>2, <1>3, <1>4, <1>5, PTL DEF Spec
=============================================================================
