--------------------------- MODULE NetworkShaping ---------------------------
(***************************************************************************)
(* NetworkController on one NIC: an application is marked by iptables and  *)
(* classified by a tc filter that matches its mark; under pressure the low *)
(* and then the high class are throttled in four stages, a packet flood is *)
(* policed per mark, and the receive side spreads its interrupts.  All of  *)
(* it runs on the monitor thread except the clean-up at exit; the API only *)
(* asks for a reload.                                                      *)
(*                                                                         *)
(* A rate is "max", "half" or "min" of its class.  What traffic is seen is *)
(* left open.  Commands and writes to sysfs run unchecked (check=False, a  *)
(* warning): any of them may fail by itself, and what the controller       *)
(* records of it is recorded all the same.                                 *)
(***************************************************************************)
EXTENDS Naturals, FiniteSets, SequencesExt

CONSTANTS Apps,
          Tiers,     \* of "low", "high" and "system", those that applications may have
          PoolSize,  \* marks that are not handed out by the fallback (4096 in the code)
          MaxFaults, \* bound: steps in which commands fail
          Ops        \* what may happen: "apps", "pressure", "reload", "exit"

VARIABLES
  listed,   \* get_controlled_apps_net(): a sequence of [app, tier]
  config,   \* enable_network_control in config.yaml
  pending,  \* _reload_pending
  control,  \* self.enable_network_control
  shaped,   \* self.shapers is not empty
  info,     \* app_filter_info
  pool,     \* mark_pool
  caps,     \* app_pps_caps: the priority each policed app's filter was given
  stage,    \* tx_limit_stage and rx_limit_stage
  cool,     \* how far both cooldowns of a direction are: "hot", "warm" (10 s), "cold" (30 s)
  saved,    \* _rx_escalation_state: the RPS mask that was read, or "none"
  kernel,   \* what iptables, tc and sysfs hold
  cycle,    \* where process_network_cycle is, with the list it read
  gone,     \* clear_network_rules_on_exit has run
  faults,   \* how many steps have had commands that failed
  left,     \* history: entries of the kernel that a failed command should have deleted
  astray,   \* history: classes for which the last command has failed, by direction
  unsure    \* history: reading the RPS mask, or writing it back, has failed

vars == <<listed, config, pending, control, shaped, info, pool, caps, stage, cool,
          saved, kernel, cycle, gone, faults, left, astray, unsure>>
apps  == <<info, pool, caps>>
rates == <<stage, cool, astray>>
rps   == <<saved, unsure>>
env   == <<listed, config, pending, gone>>

Dirs   == {"tx", "rx"}
Full   == [low |-> "max", high |-> "max"]
Marks  == 1 .. PoolSize
NoMark == 0   \* a "system" application is classified by port
Empty  == [x \in {} |-> x]
Nothing == [rules |-> {}, filters |-> {}, police |-> {}]
Without(f, a) == [x \in DOMAIN f \ {a} |-> f[x]]
With(f, a, v) == [x \in DOMAIN f \cup {a} |-> IF x = a THEN v ELSE f[x]]

Init ==
    /\ listed = <<>> /\ pending = FALSE /\ gone = FALSE
    /\ config = TRUE /\ control = TRUE /\ shaped = TRUE
    /\ info = Empty /\ pool = Marks /\ caps = Empty
    /\ stage = [d \in Dirs |-> 0] /\ cool = [d \in Dirs |-> "cold"]
    /\ saved = "none"
    /\ kernel = [tree |-> TRUE, rules |-> {}, filters |-> {}, police |-> {},
                 rate |-> [d \in Dirs |-> Full], rps |-> "own"]
    /\ cycle = [pc |-> "start", seen |-> <<>>, next |-> 0]
    /\ faults = 0 /\ left = Nothing /\ astray = {} /\ unsure = FALSE

\* The shape of the state.
TypeOK ==
    /\ \A i \in DOMAIN listed : listed[i].app \in Apps /\ listed[i].tier \in Tiers
    /\ DOMAIN info \cup DOMAIN caps \subseteq Apps
    /\ {config, pending, control, shaped, gone} \subseteq BOOLEAN
    /\ \A a \in DOMAIN info : info[a].mark \in Nat
    /\ pool \subseteq Nat
    /\ stage \in [Dirs -> 0 .. 4] /\ cool \in [Dirs -> {"hot", "warm", "cold"}]
    /\ saved \in {"none", "own", "mask", "zero"} /\ faults \in Nat
    /\ kernel.rps \in {"own", "mask", "zero"}
    /\ left.rules \subseteq kernel.rules /\ left.filters \subseteq kernel.filters
    /\ left.police \subseteq kernel.police /\ astray \subseteq Dirs \X {"low", "high"}
    /\ kernel.rate \in [Dirs -> [{"low", "high"} -> {"max", "half", "min"}]]
    /\ cycle.pc \in {"start", "gone", "each", "shape", "rx"}

Enter(pc) == cycle' = [cycle EXCEPT !.pc = pc]

-----------------------------------------------------------------------------
(* Commands that delete *)

\* What goes of what should go: one of a step's commands may fail (bound).
Outcomes(doomed) ==
    {doomed} \cup {[doomed EXCEPT !.rules = @ \ {r}] : r \in doomed.rules}
             \cup {[doomed EXCEPT !.filters = @ \ {f}] : f \in doomed.filters}
             \cup {[doomed EXCEPT !.police = @ \ {f}] : f \in doomed.police}

Deleted(k, g) == [k EXCEPT !.rules = @ \ g.rules, !.filters = @ \ g.filters, !.police = @ \ g.police]

Missed(doomed, g) == [rules   |-> (left.rules \cup doomed.rules) \ g.rules,
                      filters |-> (left.filters \cup doomed.filters) \ g.filters,
                      police  |-> (left.police \cup doomed.police) \ g.police]

\* The bound on the steps in which something fails.
Faulty(failed) ==
    /\ failed => faults < MaxFaults
    /\ faults' = IF failed THEN faults + 1 ELSE faults

-----------------------------------------------------------------------------
(* Configuration *)

\* What is found for the configured or detected names: no usable interface, one that can only
\* be monitored as its link speed is unknown, or one that can be shaped.
Detected == {"none", "no speed", "speed"}

\* The API writes config.yaml and asks for a reload.
RequestReload ==
    /\ "reload" \in Ops
    /\ \E on \in BOOLEAN : config' = on
    /\ pending' = TRUE
    /\ UNCHANGED <<listed, control, shaped, apps, rates, rps, kernel, cycle, gone, left>>

\* The rules of the applications on record.
Ruled == {r \in kernel.rules : r.app \in DOMAIN info /\ r.mark = info[r.app].mark}

\* _teardown_all: a tree goes with its filters and rates, or stays with all of them.
\* built says whether there is a new one then.
Torn(down, built, failed) ==
    LET doomed == [rules |-> Ruled, filters |-> kernel.filters, police |-> kernel.police]
    IN \E g \in Outcomes(doomed) :
         /\ IF down THEN g.filters = kernel.filters /\ g.police = kernel.police
            ELSE kernel.tree /\ g.filters = {} /\ g.police = {}
         /\ kernel' = [Deleted(kernel, g) EXCEPT !.tree = built \/ ~down,
                                                 !.rate = IF down THEN [d \in Dirs |-> Full] ELSE @]
         /\ left' = Missed(doomed, g)
         /\ failed <=> (~down \/ g.rules # Ruled)

\* reload(): everything is torn down and forgotten, except the RPS masks that were saved;
\* new shapers are built at stage 0, their classes only where control is on.
ReloadForgets(failed) ==  \* a plausible bug: the saved masks are forgotten with the rest
    /\ cycle.pc = "start" /\ pending /\ ~gone
    /\ ~failed /\ pending' = FALSE /\ saved' = "none"
    /\ UNCHANGED <<listed, config, control, shaped, apps, rates, unsure, kernel, cycle, gone, left>>

Reload(failed) ==
    /\ cycle.pc = "start" /\ pending /\ ~gone
    /\ pending' = FALSE
    /\ info' = Empty /\ caps' = Empty /\ pool' = Marks
    /\ stage' = [d \in Dirs |-> 0] /\ cool' = [d \in Dirs |-> "cold"]
    /\ \E nics \in Detected, down \in BOOLEAN, built \in BOOLEAN :
          /\ shaped' = (nics = "speed")
          /\ control' = (config /\ nics # "none")
          /\ built => down /\ config /\ nics = "speed"
          /\ \E torn \in BOOLEAN :
               /\ Torn(down, built, torn)
               /\ failed <=> (torn \/ (down /\ ~built /\ config /\ nics = "speed"))
          /\ astray' = IF down THEN {} ELSE Dirs \X {"low", "high"}
    /\ UNCHANGED <<listed, config, rps, cycle, gone>>

\* The cycle reads the list of applications, if it controls any interface.
StartCycle ==
    /\ cycle.pc = "start" /\ ~pending /\ ~gone /\ shaped
    /\ cycle' = IF control THEN [pc |-> "gone", seen |-> listed, next |-> 1]
                ELSE [pc |-> "shape", seen |-> <<>>, next |-> 1]
    /\ UNCHANGED <<env, control, shaped, apps, rates, rps, kernel, left>>

-----------------------------------------------------------------------------
(* Marks and filters *)

UncappedNever(a) == {}  \* a plausible bug: the police filter is not deleted

\* _clear_app_pps_cap: a filter is deleted by its priority alone.
Uncapped(a) == IF a \in DOMAIN caps THEN {f \in kernel.police : f.prio = caps[a]} ELSE {}

\* _remove_app_network_rules: what its commands are to delete.
Removed(a) ==
    IF info[a].mark = NoMark THEN [Nothing EXCEPT !.police = Uncapped(a)]
    ELSE [rules   |-> kernel.rules \cap {[app |-> a, mark |-> info[a].mark]},
          filters |-> {f \in kernel.filters : f.prio = info[a].prio},
          police  |-> Uncapped(a)]

Released(a) == pool \cup ({info[a].mark} \ {NoMark})

\* _allocate_mark: any mark of the pool, else one past those that are in use.
Allocated(free, used) == IF free # {} THEN free ELSE {PoolSize + 1 + Cardinality(used)}

\* The applications that hold a mark: app_mark_map.
Marked(f) == {a \in DOMAIN f : f[a].mark # NoMark}

\* _add_app_network_rules: the filter's priority comes from the app's place in the list.
\* `with` and `free` are the records and the pool that a removal just before has left; `landed` is
\* what comes of the two commands, which are on record in any case.
Add(k, with, free, e, idx, landed) ==
    IF e.tier = "system"
    THEN /\ info' = With(with, e.app, [mark |-> NoMark, tier |-> e.tier, prio |-> 0])
         /\ kernel' = k /\ pool' = free
    ELSE \E m \in Allocated(free, Marked(with)) :
         /\ info' = With(with, e.app, [mark |-> m, tier |-> e.tier, prio |-> idx])
         /\ pool' = free \ {m}
         /\ kernel' = [k EXCEPT
                !.rules = IF "rule" \in landed THEN @ \cup {[app |-> e.app, mark |-> m]} ELSE @,
                !.filters = IF "filter" \in landed /\ k.tree THEN @ \cup {[prio |-> idx, mark |-> m]} ELSE @]

\* Applications that are no longer listed are removed, one after the other.
RemoveGone(failed) ==
    /\ cycle.pc = "gone"
    /\ LET here == {cycle.seen[i].app : i \in DOMAIN cycle.seen}
       IN  IF DOMAIN info \subseteq here
           THEN /\ ~failed /\ Enter("each") /\ UNCHANGED <<apps, kernel, left>>
           ELSE \E a \in DOMAIN info \ here : \E g \in Outcomes(Removed(a)) :
                   /\ info' = Without(info, a) /\ caps' = Without(caps, a)
                   /\ pool' = Released(a) /\ kernel' = Deleted(kernel, g)
                   /\ left' = Missed(Removed(a), g) /\ (failed <=> g # Removed(a))
                   /\ UNCHANGED cycle
    /\ UNCHANGED <<env, control, shaped, rates, rps>>

\* An application that is new gets its rules; one whose tier or cgroups (which are not kept
\* here, so that they may always have changed) are no longer the same gets them again.
Refresh(failed) ==
    /\ cycle.pc = "each"
    /\ IF cycle.next > Len(cycle.seen)
       THEN ~failed /\ Enter("shape") /\ UNCHANGED <<apps, kernel, left>>
       ELSE /\ cycle' = [cycle EXCEPT !.next = @ + 1]
            /\ \E landed \in SUBSET {"rule", "filter"} :
               LET e == cycle.seen[cycle.next]
                   added == e.tier = "system" \/ landed = {"rule", "filter"}
               IN  \/ /\ e.app \notin DOMAIN info
                      /\ Add(kernel, info, pool, e, cycle.next, landed)
                      /\ failed <=> ~added
                      /\ UNCHANGED <<caps, left>>
                   \/ /\ e.app \in DOMAIN info
                      /\ \E g \in Outcomes(Removed(e.app)) :
                           /\ Add(Deleted(kernel, g), Without(info, e.app), Released(e.app),
                                  e, cycle.next, landed)
                           /\ left' = Missed(Removed(e.app), g)
                           /\ failed <=> (g # Removed(e.app) \/ ~added)
                      /\ caps' = Without(caps, e.app)
                   \/ /\ e.app \in DOMAIN info /\ info[e.app].tier = e.tier
                      /\ ~failed /\ UNCHANGED <<apps, kernel, left>>
    /\ UNCHANGED <<env, control, shaped, rates, rps>>

-----------------------------------------------------------------------------
(* Pressure *)

\* Throttling and escalation, as opposed to policing, are in this instance.
Bytes == control /\ "pressure" \in Ops

\* The class a stage works on, and the rate it is left at; _limit_network_class does not say
\* whether tc has obeyed, and the stage moves on.
Throttle(d, class, rate, to, failed) ==
    /\ IF failed \/ ~kernel.tree
       THEN astray' = astray \cup {<<d, class>>} /\ UNCHANGED kernel
       ELSE /\ astray' = astray \ {<<d, class>>}
            /\ kernel' = [kernel EXCEPT !.rate[d][class] = rate]
    /\ stage' = [stage EXCEPT ![d] = to]
    /\ cool' = [cool EXCEPT ![d] = "hot"]

\* _apply_bandwidth_limit: the low class goes to half or straight to its minimum, by what it
\* uses, and the high class follows; at stage 4 there is nothing left to take.
Limit(d, failed) ==
    \/ stage[d] = 0 /\ (Throttle(d, "low", "min", 2, failed) \/ Throttle(d, "low", "half", 1, failed))
    \/ stage[d] = 1 /\ Throttle(d, "low", "min", 2, failed)
    \/ stage[d] = 2 /\ (Throttle(d, "high", "min", 4, failed) \/ Throttle(d, "high", "half", 3, failed))
    \/ stage[d] = 3 /\ Throttle(d, "high", "min", 4, failed)
    \/ stage[d] = 4 /\ ~failed /\ cool' = [cool EXCEPT ![d] = "hot"] /\ UNCHANGED <<stage, kernel, astray>>

RecoverLowFirst(d, failed) ==  \* a plausible bug: the class is chosen the wrong way round
    \/ stage[d] = 4 /\ Throttle(d, "low", "max", 2, failed)
    \/ stage[d] # 4 /\ ~failed /\ cool' = [cool EXCEPT ![d] = "hot"] /\ UNCHANGED <<stage, kernel, astray>>

\* _recover_network_pressure: back by halves, all at once if the class is hardly used, or
\* not at all if the total would become critical again.
Recover(d, failed) ==
    \/ stage[d] = 4 /\ (Throttle(d, "high", "max", 2, failed) \/ Throttle(d, "high", "half", 3, failed))
    \/ stage[d] = 3 /\ Throttle(d, "high", "max", 2, failed)
    \/ stage[d] = 2 /\ (Throttle(d, "low", "max", 0, failed) \/ Throttle(d, "low", "half", 1, failed))
    \/ stage[d] = 1 /\ Throttle(d, "low", "max", 0, failed)
    \/ ~failed /\ cool' = [cool EXCEPT ![d] = "hot"] /\ UNCHANGED <<stage, kernel, astray>>

Rank(tier) == CASE tier = "low" -> 1 [] tier = "high" -> 2 [] OTHER -> 4

\* _evaluate_tx_pps_gate and _apply_app_pps_cap: the policed applications rank below the
\* highest that is marked; the filter's priority counts the policed ones.
Police(failed) ==
    \E a \in Marked(info) \ DOMAIN caps :
        LET prio == Cardinality(DOMAIN caps \cup {a})
        IN  /\ \E b \in Marked(info) : Rank(info[a].tier) < Rank(info[b].tier)
            /\ caps' = With(caps, a, prio)
            /\ kernel' = IF failed \/ ~kernel.tree THEN kernel
                         ELSE [kernel EXCEPT !.police = @ \cup {[prio |-> prio, mark |-> info[a].mark]}]
            /\ cool' = IF Bytes THEN [cool EXCEPT !["tx"] = "hot"] ELSE cool

\* _clear_app_pps_cap() of every policed application.
ClearCaps(failed) ==
    LET doomed == [Nothing EXCEPT !.police = UNION {Uncapped(a) : a \in DOMAIN caps}]
    IN /\ caps' = Empty
       /\ \E g \in Outcomes(doomed) :
            kernel' = Deleted(kernel, g) /\ left' = Missed(doomed, g) /\ (failed <=> g # doomed)

\* handle_network_pressure, the sending direction.
ShapeTx(failed) ==
    /\ cycle.pc = "shape"
    /\ Enter("rx")
    /\ \/ control /\ Police(failed) /\ UNCHANGED <<stage, astray, left>>
       \/ Bytes /\ cool["tx"] # "hot" /\ Limit("tx", failed) /\ UNCHANGED <<caps, left>>
       \/ control /\ ClearCaps(failed) /\ UNCHANGED rates
       \/ /\ Bytes /\ caps = Empty /\ stage["tx"] > 0 /\ cool["tx"] = "cold"
          /\ Recover("tx", failed) /\ UNCHANGED <<caps, left>>
       \/ ~failed /\ UNCHANGED <<caps, rates, kernel, left>>
    /\ UNCHANGED <<env, control, shaped, info, pool, rps>>

\* _escalate_rx: once per activation; the mask is read before it is widened.  One that cannot
\* be read is taken for zero.
Escalate(failed) ==
    /\ cool' = [cool EXCEPT !["rx"] = "hot"]
    /\ \/ saved # "none" /\ ~failed /\ UNCHANGED <<rps, kernel>>
       \/ /\ saved = "none" /\ saved' \in {kernel.rps, "zero"}
          /\ unsure' = (unsure \/ saved' # kernel.rps)
          /\ kernel' \in {kernel, [kernel EXCEPT !.rps = "mask"]}
          /\ failed <=> (saved' # kernel.rps \/ kernel'.rps # "mask")
    /\ UNCHANGED <<stage, astray>>

\* _restore_rx forgets the mask before it writes it; by setting the clock it puts the classes
\* off for another cooldown.
RestoreRx(failed) ==
    /\ saved # "none" /\ cool["rx"] = "cold"
    /\ kernel' = IF failed THEN kernel ELSE [kernel EXCEPT !.rps = saved]
    /\ saved' = "none" /\ unsure' = (unsure \/ kernel'.rps # saved)
    /\ cool' = [cool EXCEPT !["rx"] = "hot"]
    /\ UNCHANGED <<stage, astray>>

\* handle_network_pressure, the receiving direction.
ShapeRx(failed) ==
    /\ cycle.pc = "rx"
    /\ Enter("start")
    /\ \/ Bytes /\ Escalate(failed)
       \/ Bytes /\ cool["rx"] # "hot" /\ Limit("rx", failed) /\ UNCHANGED rps
       \/ Bytes /\ RestoreRx(failed)
       \/ /\ Bytes /\ saved = "none" /\ stage["rx"] > 0 /\ cool["rx"] = "cold"
          /\ Recover("rx", failed) /\ UNCHANGED rps
       \/ ~failed /\ UNCHANGED <<rates, rps, kernel>>
    /\ UNCHANGED <<env, control, shaped, apps, left>>

-----------------------------------------------------------------------------
(* The world, and the end *)

\* An application starts, changes its tier or ends; its place in the list follows.
Relist ==
    /\ "apps" \in Ops /\ cycle.pc = "start"
    /\ \/ \E a \in Apps, t \in Tiers :
             /\ \A i \in DOMAIN listed : listed[i].app # a
             /\ listed' = Append(listed, [app |-> a, tier |-> t])
       \/ \E i \in DOMAIN listed : listed' = RemoveAt(listed, i)
       \/ \E i \in DOMAIN listed, t \in Tiers : listed' = [listed EXCEPT ![i].tier = t]
    /\ UNCHANGED <<config, pending, control, shaped, apps, rates, rps, kernel, cycle, gone, left>>

Wait ==
    /\ "pressure" \in Ops
    /\ \E d \in Dirs : cool' = [cool EXCEPT ![d] = IF @ = "hot" THEN "warm" ELSE "cold"]
    /\ UNCHANGED <<env, control, shaped, apps, stage, astray, rps, kernel, cycle, left>>

\* clear_network_rules_on_exit, on the thread that stops the balancer: the monitor thread
\* may be inside a cycle, which it finishes.
Exit(failed) ==
    /\ "exit" \in Ops /\ ~gone
    /\ gone' = TRUE
    /\ IF control THEN \E down \in BOOLEAN : Torn(down, FALSE, failed)
       ELSE ~failed /\ UNCHANGED <<kernel, left>>
    /\ UNCHANGED <<listed, config, pending, control, shaped, apps, rates, rps, cycle>>

\* The steps that run commands, some of which may fail.
Commands(failed) ==
    \/ Reload(failed) \/ RemoveGone(failed) \/ Refresh(failed) \/ ShapeTx(failed) \/ ShapeRx(failed)
    \/ Exit(failed)

Next ==
    \/ (RequestReload \/ StartCycle \/ Relist \/ Wait) /\ UNCHANGED faults
    \/ \E failed \in BOOLEAN : Faulty(failed) /\ Commands(failed)

Spec == Init /\ [][Next]_vars

-----------------------------------------------------------------------------
(* Properties *)

\* A mark in the kernel means one application, through every change of the list, every
\* policing and every reload: whatever rule or filter matches it, exactly one recorded
\* application holds it, and an iptables rule that sets it is for that application; except for
\* what a failed command has left behind.  A filter left otherwise would throttle or police
\* whoever is given the mark next.  (_add_app_network_rules, _remove_app_network_rules.)
MarksIdentifyApps ==
    LET holders(m) == {a \in DOMAIN info : info[a].mark = m}
    IN  /\ \A r \in kernel.rules \ left.rules : holders(r.mark) = {r.app}
        /\ \A f \in (kernel.filters \ left.filters) \cup (kernel.police \ left.police) :
             Cardinality(holders(f.mark)) = 1

\* What a stage means for a class.
RateOf(n, class) ==
    CASE class = "low" -> IF n = 0 THEN "max" ELSE IF n = 1 THEN "half" ELSE "min"
      [] class = "high" -> IF n <= 2 THEN "max" ELSE IF n = 3 THEN "half" ELSE "min"

\* The rates that tc enforces are those of the stage the controller believes in, in both
\* directions, and at stage 0 nothing is throttled; a command that fails puts one class out of
\* step, and the next one for the class, or a new tree, puts it right although the stage has
\* moved on.  (handle_network_pressure, _limit_network_class, reload.)
RatesFollowStage ==
    (kernel.tree /\ ~gone) => \A d \in Dirs, class \in {"low", "high"} :
        <<d, class>> \notin astray => kernel.rate[d][class] = RateOf(stage[d], class)

\* While the process runs, an RPS mask that was changed can be put back: the one that was there
\* is remembered, also across a reload, which forgets everything else, and when the widening
\* fails; unless reading it or writing it back has failed once.  (_escalate_rx, _restore_rx.)
BumpCanBeUndone == ~unsure /\ kernel.rps # "own" => saved = "own"
=============================================================================
