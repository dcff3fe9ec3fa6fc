---------------------------- MODULE SectionCache ----------------------------
(***************************************************************************)
(* The dynamic-info endpoints of the monitor API.  A collector refreshes   *)
(* the monitored sections into one cache; a request takes those from it    *)
(* and collects the others itself, at most once per TTL.  The set of       *)
(* monitored sections may change and quiet mode may come and go at any     *)
(* step, also between two reads of one request.                            *)
(*                                                                         *)
(* Values are abstracted to their age.  A collection and a request take    *)
(* less than a unit of time.                                               *)
(***************************************************************************)
EXTENDS Naturals

CONSTANTS Sections,  \* DYNAMIC_INFO_SECTIONS
          Clients,
          Interval,  \* _DYNAMIC_INFO_REFRESH_INTERVAL_SEC
          TTL        \* _DYNAMIC_SECTION_TTL_SEC

VARIABLES
  quiet,      \* quiet_mode.is_active()
  monitored,  \* the configured sections
  coll,       \* the collector: "none", "wait" or "collect", what it collects, what is left of its wait
  cache,      \* _DYNAMIC_INFO_CACHE: ages by section, or none at all
  probe,      \* _DYNAMIC_SECTION_CACHE
  req,        \* per client: where its request is, what it still needs, what it has got; and
              \* (history) whether the cache has been unsettled since it began
  unsettled   \* history: the cache is not yet that of the sections now monitored

vars == <<quiet, monitored, coll, cache, probe, req, unsettled>>

Old == Interval + 1
Ages == 0 .. Old
Nothing == [s \in {} |-> 0]
Idle == [pc |-> "idle", all |-> FALSE, want |-> {}, set |-> {}, got |-> Nothing, late |-> FALSE]

Init ==
    /\ quiet \in BOOLEAN /\ monitored \in SUBSET Sections
    /\ coll = [pc |-> IF monitored = {} THEN "none" ELSE "wait", secs |-> {}, left |-> 0]
    /\ cache = Nothing /\ probe = Nothing
    /\ req = [c \in Clients |-> Idle]
    /\ unsettled = TRUE

\* The shape of the state; whatever a request still needs it has not got.
TypeOK ==
    /\ quiet \in BOOLEAN /\ monitored \subseteq Sections
    /\ coll.pc \in {"none", "wait", "collect"} /\ coll.left \in 0 .. Interval
    /\ coll.pc = "collect" => coll.secs # {}
    /\ \A t \in {cache, probe} : DOMAIN t \subseteq Sections /\ \A s \in DOMAIN t : t[s] \in Ages
    /\ \A c \in Clients :
         /\ req[c].pc \in {"idle", "full", "choose", "cold", "probe", "sections", "demand", "collect", "answered"}
         /\ req[c].pc \in {"demand", "collect"} => req[c].want \cap DOMAIN req[c].got = {}

Fresh(ss) == [s \in ss |-> 0]
Join(t, u) == [s \in DOMAIN t \cup DOMAIN u |-> IF s \in DOMAIN u THEN u[s] ELSE t[s]]
Pick(t, ss) == [s \in DOMAIN t \cap ss |-> t[s]]

Free(c) == req[c].pc \in {"idle", "answered"}
Overtake == req' = [c \in Clients |-> [req[c] EXCEPT !.late = (@ \/ (unsettled' /\ ~Free(c)))]]

-----------------------------------------------------------------------------
(* The collector *)

\* _start_dynamic_info_auto_refresh
Started(ss) == IF coll.pc = "none" /\ ss # {} THEN [coll EXCEPT !.pc = "wait", !.left = 0] ELSE coll

Begin ==
    /\ coll.pc = "wait" /\ coll.left = 0
    /\ coll' = IF quiet \/ monitored = {} THEN [coll EXCEPT !.left = Interval]
               ELSE [coll EXCEPT !.pc = "collect", !.secs = monitored]
    /\ UNCHANGED <<quiet, monitored, cache, probe, req, unsettled>>

\* the new snapshot replaces the old one; after an error the old one stays
Collected(ok) ==
    /\ coll.pc = "collect"
    /\ coll' = [pc |-> "wait", secs |-> {}, left |-> Interval]
    /\ cache' = IF ok THEN Fresh(coll.secs) ELSE cache
    /\ unsettled' = ~(ok /\ coll.secs = monitored)
    /\ Overtake
    /\ UNCHANGED <<quiet, monitored, probe>>

\* update_monitored_sections_config, after the checks that SharedSettings models
Configure(ss) ==
    /\ ss # monitored
    /\ monitored' = ss
    /\ coll' = Started(ss)
    /\ unsettled' = (ss # {})
    /\ Overtake
    /\ UNCHANGED <<quiet, cache, probe>>

Quiet ==
    /\ quiet' = ~quiet
    /\ unsettled' = (unsettled \/ (quiet /\ monitored # {}))
    /\ Overtake
    /\ UNCHANGED <<monitored, coll, cache, probe>>

-----------------------------------------------------------------------------
(* A request *)

Become(c, r) == req' = [req EXCEPT ![c] = r] /\ UNCHANGED <<quiet, monitored, unsettled>>

\* _respond_dynamic_info_quiet: the cache as it is, labelled as stale
AskQuiet(c) ==
    /\ Free(c) /\ quiet
    /\ coll' \in {coll, Started(monitored)}
    /\ Become(c, Idle)
    /\ UNCHANGED <<cache, probe>>

\* /dynamic_info without a choice of sections starts the collector
AskAll(c) ==
    /\ Free(c) /\ ~quiet
    /\ coll' = Started(monitored)
    /\ Become(c, [Idle EXCEPT !.pc = "full", !.all = TRUE, !.want = Sections, !.late = unsettled])
    /\ UNCHANGED <<cache, probe>>

AskSome(c, ss) ==
    /\ Free(c) /\ ~quiet
    /\ Become(c, [Idle EXCEPT !.pc = "sections", !.want = ss, !.set = monitored, !.late = unsettled])
    /\ UNCHANGED <<coll, cache, probe>>

\* a plausible bug: the snapshot is taken for complete
FullVerbatim(c) ==
    /\ req[c].pc = "full"
    /\ IF cache # Nothing THEN Become(c, [req[c] EXCEPT !.pc = "answered", !.got = cache])
       ELSE Become(c, [req[c] EXCEPT !.pc = "cold"])
    /\ UNCHANGED <<coll, cache, probe>>

\* _respond_dynamic_info_full: verbatim if everything is monitored.  The set and the cache
\* are read one after the other, here and below.
Full(c) ==
    /\ req[c].pc = "full"
    /\ \/ /\ monitored # Sections
          /\ Become(c, [req[c] EXCEPT !.pc = "choose"])
       \/ /\ monitored = Sections
          /\ Become(c, [req[c] EXCEPT !.pc = "cold"])
    /\ UNCHANGED <<coll, cache, probe>>

\* or else put together, by the set as it is then
Choose(c) ==
    /\ req[c].pc = "choose"
    /\ Become(c, [req[c] EXCEPT !.pc = IF quiet THEN "idle" ELSE "sections", !.set = monitored])
    /\ UNCHANGED <<coll, cache, probe>>

Snapshot(c) ==
    /\ req[c].pc = "cold"
    /\ Become(c, IF cache = Nothing THEN [req[c] EXCEPT !.pc = "probe"]
                 ELSE [req[c] EXCEPT !.pc = "answered", !.got = cache])
    /\ UNCHANGED <<coll, cache, probe>>

\* there was none yet; the collection may fail
Cold(c, ok) ==
    /\ req[c].pc = "probe"
    /\ IF ok THEN /\ cache' = Fresh(Sections)
                  /\ Become(c, [req[c] EXCEPT !.pc = "answered", !.got = Fresh(Sections)])
       ELSE Become(c, Idle) /\ UNCHANGED cache
    /\ UNCHANGED <<coll, probe>>

\* a plausible bug: whatever is cached is served
SliceAny(c) == Pick(cache, req[c].want)

\* _respond_dynamic_sections: the monitored ones from the snapshot
Slice(c) == Pick(cache, req[c].want \cap req[c].set)

Serve(c) ==
    /\ req[c].pc = "sections"
    /\ LET got == Slice(c)
           left == req[c].want \ DOMAIN got
       IN  Become(c, [req[c] EXCEPT !.pc = IF left = {} THEN "answered" ELSE "demand",
                                    !.got = got, !.want = left, !.set = {}])
    /\ UNCHANGED <<coll, cache, probe>>

\* the others from the last probe while its TTL lasts
Lookup(c) ==
    /\ req[c].pc = "demand"
    /\ LET hit == Pick(probe, {s \in req[c].want \cap DOMAIN probe : probe[s] < TTL})
           left == req[c].want \ DOMAIN hit
       IN  Become(c, [req[c] EXCEPT !.pc = IF left = {} THEN "answered" ELSE "collect",
                                    !.got = Join(@, hit), !.want = left])
    /\ UNCHANGED <<coll, cache, probe>>

\* and from the hardware
Collect(c, ok) ==
    /\ req[c].pc = "collect"
    /\ IF ok THEN /\ probe' = Join(probe, Fresh(req[c].want))
                  /\ Become(c, [req[c] EXCEPT !.pc = "answered", !.got = Join(@, Fresh(req[c].want)), !.want = {}])
       ELSE Become(c, Idle) /\ UNCHANGED probe
    /\ UNCHANGED <<coll, cache>>

-----------------------------------------------------------------------------
Older(t) == [s \in DOMAIN t |-> IF t[s] = Old THEN Old ELSE t[s] + 1]

Tick ==
    /\ coll.pc = "none" \/ (coll.pc = "wait" /\ coll.left > 0)
    /\ \A c \in Clients : Free(c)
    /\ coll' = [coll EXCEPT !.left = IF @ = 0 THEN 0 ELSE @ - 1]
    /\ cache' = Older(cache) /\ probe' = Older(probe)
    /\ req' = [c \in Clients |-> Idle]
    /\ UNCHANGED <<quiet, monitored, unsettled>>

Next ==
    \/ Begin \/ Quiet \/ Tick \/ \E ss \in SUBSET Sections : Configure(ss)
    \/ \E ok \in BOOLEAN : Collected(ok)
    \/ \E c \in Clients :
         \/ AskQuiet(c) \/ AskAll(c) \/ Full(c) \/ Choose(c) \/ Snapshot(c) \/ Serve(c) \/ Lookup(c)
         \/ \E ss \in SUBSET Sections \ {{}} : AskSome(c, ss)
         \/ \E ok \in BOOLEAN : Cold(c, ok) \/ Collect(c, ok)

Spec == Init /\ [][Next]_vars

-----------------------------------------------------------------------------
\* An answer is finished while the collector keeps up with what is monitored.
Answered(c) == ~Free(c) /\ req'[c].pc = "answered" /\ ~req[c].late

\* Outside quiet mode an answer holds nothing older than the collector's period, wherever its
\* parts come from; except for the cycle in which the collector follows a change of the
\* monitored sections, the end of quiet mode or a collection that failed, and for a request
\* that such a change overtakes.  (_respond_dynamic_sections, _dynamic_info_collector_loop.)
AnswerFresh == \A c \in Clients : Answered(c) => \A s \in DOMAIN req'[c].got : req'[c].got[s] <= Interval

\* With the same exception an answer for all sections has them all ("always returns all
\* sections regardless of config").
AnswerComplete == \A c \in Clients : Answered(c) /\ req[c].all => DOMAIN req'[c].got = Sections
=============================================================================
