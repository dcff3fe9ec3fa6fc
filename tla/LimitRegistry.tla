---------------------------- MODULE LimitRegistry ----------------------------
(***************************************************************************)
(* The registry of the apps under a resource limit: the classes LimitedApp *)
(* and LimitRegistry of balancer/balancer/balancer.py.                     *)
(*                                                                         *)
(* An app is a set of cgroups.  Its entry is keyed by one of them, the     *)
(* primary, and records who owns the limit (the pressure loop, "auto", or  *)
(* the user, "manual"), which channels were capped ("sys" stands for the   *)
(* cpu_mem_limited flag, "io" for io_limited), which of them have had      *)
(* their staged 2x relaxation, and every cgroup the caps were written to.  *)
(* The exclusion list names the apps the pressure loop must leave alone.   *)
(*                                                                         *)
(* This module holds the state and the queries and updates on it; the      *)
(* operations of the service are the actions of LimitLifecycle.  Rates,    *)
(* names, PIDs, priorities and timestamps are abstracted away.             *)
(***************************************************************************)
EXTENDS Naturals, FiniteSets, FiniteSetsExt, Functions, InsertionOrder

CONSTANTS
    Apps,       \* public app ids
    Cgroups     \* cgroup basenames; numbers, so that "lexicographically first" is Min

ASSUME CgroupsAssumption == Cgroups \subseteq Nat

\* No cgroup of a model; stands for None.
NoKey == 0

\* What an app answers to.  An unmanaged app limited for disk pressure is known
\* only by its cgroup.
Ids == Apps \cup Cgroups

VARIABLES
    registry,   \* LimitRegistry.apps: a function from the keys in use to entries
    order,      \* the order of its keys, oldest first (the OrderedDict's order)
    exclusions  \* auto_limit_exclusions: the records by their keys, and the keys' order

registryVars == <<registry, order, exclusions>>

Parts == {"sys", "io"}
Sources == {"auto", "manual"}

\* One LimitedApp.  The field id stands for the identity of the Python object.
Entry == [id : Nat \ {0}, app : Ids, source : Sources, adopted : BOOLEAN,
          controlled : BOOLEAN, parts : SUBSET Parts, partial : SUBSET Parts,
          cgroups : SUBSET Cgroups]

\* What an exclusion is stored under: the app, or one cgroup.
ExclusionKeys == {"app", "instance"} \X Ids

\* One exclusion.
Exclusion == [app : Ids, reason : {"user_restore", "manual_limit"}, cgroups : SUBSET Cgroups]

Keys == DOMAIN registry

EntriesOK ==
    /\ Keys \subseteq Cgroups
    /\ registry \in [Keys -> Entry]
    /\ IsOrder(order, Keys)

ExclusionsOK(excl) ==
    /\ excl = [rec |-> excl.rec, order |-> excl.order]
    /\ DOMAIN excl.rec \subseteq ExclusionKeys
    /\ excl.rec \in [DOMAIN excl.rec -> Exclusion]
    /\ IsOrder(excl.order, DOMAIN excl.rec)

RegistryTypeOK == EntriesOK /\ ExclusionsOK(exclusions)

RegistryInit ==
    /\ registry = [k \in {} |-> NoKey]
    /\ order = {}
    /\ exclusions = [rec |-> [x \in {} |-> NoKey], order |-> {}]

-----------------------------------------------------------------------------
(***************************************************************************)
(* Queries.  Each finds the oldest entry that passes a test.               *)
(***************************************************************************)
\* The oldest of the keys M, or None.
Oldest(M) == IF M = {} THEN NoKey ELSE First(M, order)

first_auto_with_part(part, skipPartial) ==
    Oldest({k \in Keys : /\ registry[k].source = "auto"
                         /\ part \in registry[k].parts
                         /\ skipPartial => part \notin registry[k].partial})

by_public_id(app, source) ==
    Oldest({k \in Keys : registry[k].app = app /\ registry[k].source = source})

\* The public id, the key or any cgroup of the entry.
by_any_id(ident, source) ==
    Oldest({k \in Keys : /\ registry[k].source = source
                         /\ ident \in {k, registry[k].app} \cup registry[k].cgroups})

\* by_any_id finds an entry of the given source for some cgroup of C.
AnyOwned(C, source) ==
    \E k \in Keys : /\ registry[k].source = source
                  /\ C \cap ({k, registry[k].app} \cup registry[k].cgroups) # {}

-----------------------------------------------------------------------------
(***************************************************************************)
(* Updates of apps: pop, item assignment (a new key goes to the end, an    *)
(* old one keeps its place) and move_to_end.                               *)
(***************************************************************************)
Pop(ks) ==
    /\ registry' = Restrict(registry, Keys \ ks)
    /\ order' = Kept(order, Keys \ ks)

Put(key, entry) ==
    /\ registry' = [k \in Keys \cup {key} |-> IF k = key THEN entry ELSE registry[k]]
    /\ order' = IF key \in Keys THEN order ELSE ToEnd(order, Keys, key)

PutLast(key, entry) ==
    /\ registry' = [registry EXCEPT ![key] = entry]
    /\ order' = ToEnd(order, Keys, key)

-----------------------------------------------------------------------------
(***************************************************************************)
(* Exclusions.                                                             *)
(***************************************************************************)
Excluded(excl) == DOMAIN excl.rec

\* The exclusions without those at the keys xs.
DropExclusions(excl, xs) ==
    [rec |-> Restrict(excl.rec, Excluded(excl) \ xs),
     order |-> Kept(excl.order, Excluded(excl) \ xs)]

\* A controlled app is excluded as a whole, any other one by its primary cgroup.
exclusion_key(key, entry) ==
    IF entry.controlled THEN <<"app", entry.app>> ELSE <<"instance", key>>

\* The exclusions after add_exclusion(entry, reason): a new record goes to the
\* end, one under the same key is replaced where it stands.
add_exclusion(excl, key, entry, reason) ==
    LET x == exclusion_key(key, entry)
        record == [app |-> entry.app, reason |-> reason, cgroups |-> entry.cgroups]
    IN  [rec |-> [y \in Excluded(excl) \cup {x} |-> IF y = x THEN record ELSE excl.rec[y]],
         order |-> IF x \in Excluded(excl) THEN excl.order
                   ELSE ToEnd(excl.order, Excluded(excl), x)]

\* The exclusions that refer to a cgroup.
Naming(excl, cgroup) ==
    {x \in Excluded(excl) : cgroup \in {excl.rec[x].app} \cup excl.rec[x].cgroups}

\* Mutant: only the record that is stored under the cgroup itself.
remove_exclusion_exact(excl, cgroup) ==
    DropExclusions(excl, {<<"instance", cgroup>>} \cap Excluded(excl))

\* The exclusions after remove_exclusion(ident) for a cgroup: the oldest record
\* that refers to it goes.
remove_exclusion(excl, cgroup) ==
    LET named == Naming(excl, cgroup)
    IN  DropExclusions(excl, IF named = {} THEN {} ELSE {First(named, excl.order)})

\* The exclusions after remove_exclusion for the keys ks in turn, oldest first:
\* each takes the oldest record that refers to it and is still there.
remove_exclusions(excl, ks) ==
    LET taken[k \in ks] ==
            LET left == Naming(excl, k) \ UNION {taken[j] : j \in Before(k, ks, order)}
            IN  IF left = {} THEN {} ELSE {First(left, excl.order)}
    IN  DropExclusions(excl, UNION {taken[k] : k \in ks})

\* is_excluded for a candidate sampled as one of the cgroups C of app.
is_excluded(app, C) ==
    \E x \in Excluded(exclusions) :
        ({app} \cup C) \cap ({exclusions.rec[x].app} \cup exclusions.rec[x].cgroups) # {}

=============================================================================
