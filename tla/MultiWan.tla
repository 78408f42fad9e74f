-------------------------------- MODULE MultiWan --------------------------------
(***************************************************************************)
(* Several WAN links (k-firewalld/src/multiwan.rs).  One task ticks for    *)
(* ever: it probes the members of each group, moves the default route to   *)
(* the heaviest that answers, and keeps the policy rules in place.  Links  *)
(* fail and come back meanwhile, rules are removed by others, and the      *)
(* daemon is restarted.                                                    *)
(*                                                                         *)
(* A probe leaves by whatever default route the kernel has: the policy     *)
(* rules are taken to be about the traffic of others (they have a src_net) *)
(* and the targets of the probes to be beyond the gateways, as in          *)
(* test-multiwan.yaml.                                                     *)
(***************************************************************************)
EXTENDS Integers, Sequences, FiniteSets

CONSTANTS
    Wans,      \* the WAN interfaces with a gateway (wan_gateways)
    Groups,    \* wan_groups: for each group the sequence of its members [name, weight]
    PbrRules,  \* pbr_rules: of each the interface or the number of the group it uses
    Spares,    \* what another program may have left as default route of higher metric
    NoWan,     \* stands for no interface
    IpMayFail, \* whether a command (ip) or a probe may fail by itself
    Faults     \* bound: how often a link changes, a rule is removed, a command fails
               \* or the daemon restarts

ASSUME BoundsAssumption ==
    /\ NoWan \notin Wans
    /\ Groups # <<>>
    /\ \A g \in DOMAIN Groups : Len(Groups[g]) \in Nat \ {0}
                                /\ DOMAIN Groups[g] = 1 .. Len(Groups[g])
    /\ IpMayFail \in BOOLEAN
    /\ Spares \subseteq Wans \cup {NoWan}
    /\ Faults \in Nat

LinkState == {"ok",     \* traffic passes
              "dark",   \* up, with its address, but nothing beyond it answers
              "down",   \* taken down; the address stays
              "gone"}   \* without an address

\* A rule an earlier configuration has left behind.
Stray == 0

VARIABLES
    link,     \* the state of each link
    main,     \* the default route of metric 0
    spare,    \* a default route of higher metric
    tables,   \* for each policy rule the default route of its table
    rules,    \* ip rule: the policy rules in place, by number, and perhaps a Stray
    at,       \* where the tick is: the group, and its members still to be probed
    status,   \* the members of the group that have answered
    active,   \* state.active: the interface chosen for each group
    applied,  \* pbr_applied
    faults,   \* the number of faults so far
    worked,   \* history: the default route carried traffic at some time in this tick
    missed    \* history: the clean-up of the daemon's first tick missed the Stray

vars == <<link, main, spare, tables, rules, at, status, active, applied, faults, worked, missed>>

\* The kernel withdraws the routes over an interface that is down or has no address,
\* and refuses new ones.
HasRoutes(w) == w # NoWan /\ link[w] \in {"ok", "dark"}

DefaultRoute ==
    IF main # NoWan THEN main ELSE IF HasRoutes(spare) THEN spare ELSE NoWan

Online == DefaultRoute # NoWan /\ link[DefaultRoute] = "ok"

Fault == faults < Faults /\ faults' = faults + 1

\* No result of a command is looked at.
CommandFails == IpMayFail /\ Fault

ToProbe(g) == IF g \in DOMAIN Groups THEN [i \in DOMAIN Groups[g] |-> Groups[g][i].name] ELSE <<>>
Group(g)   == [group |-> g, left |-> ToProbe(g)]

Init ==
    /\ link \in [Wans -> LinkState]
    /\ main \in {w \in Wans : HasRoutes(w)} \cup {NoWan}
    /\ spare \in Spares
    /\ tables \in {[i \in DOMAIN PbrRules |-> w] : w \in {x \in Wans : HasRoutes(x)} \cup {NoWan}}
    /\ rules \in SUBSET {Stray}
    /\ at = Group(1)
    /\ status = {}
    /\ active = [g \in DOMAIN Groups |-> NoWan]
    /\ applied = FALSE
    /\ faults = 0
    /\ worked = Online
    /\ missed = FALSE

-----------------------------------------------------------------------------
(***************************************************************************)
(* The task.                                                               *)
(***************************************************************************)
\* Mutant: the probe is bound to the interface it is about.
Answers_Bound(m) == m \in Wans /\ link[m] = "ok"

\* probe_wan: the interface has an address, and the target is reached by some route.
Answers(m) == m \in Wans /\ link[m] # "gone" /\ Online

Probe ==
    /\ at.left # <<>>
    /\ \/ /\ status' = status \cup {m \in {Head(at.left)} : Answers(m)}
          /\ UNCHANGED faults
       \/ CommandFails /\ UNCHANGED status
    /\ at' = [at EXCEPT !.left = Tail(@)]
    /\ UNCHANGED <<link, main, spare, tables, rules, active, applied, missed>>

\* The first of the heaviest members that have answered.
Choice(g) ==
    LET members == Groups[g]
        up      == {i \in DOMAIN members : members[i].name \in status}
        best    == CHOOSE i \in up : \A j \in up :
                       \/ members[i].weight > members[j].weight
                       \/ members[i].weight = members[j].weight /\ i <= j
    IN  IF up = {} THEN NoWan ELSE members[best].name

\* The route is moved only when the choice has changed, and the choice is recorded
\* whether or not the move succeeds.  All groups move the same route.
Switch ==
    LET w == Choice(at.group)
    IN  /\ at.left = <<>> /\ at.group \in DOMAIN Groups
        /\ IF w \notin {NoWan, active[at.group]}
           THEN /\ active' = [active EXCEPT ![at.group] = w]
                /\ \/ main' = (IF HasRoutes(w) THEN w ELSE main) /\ UNCHANGED faults
                   \/ CommandFails /\ UNCHANGED main
           ELSE UNCHANGED <<main, active, faults>>
        /\ at' = Group(at.group + 1)
        /\ status' = {}
        /\ UNCHANGED <<link, spare, tables, rules, applied, missed>>

\* A group is represented by its first member with a gateway, whether it answers or not.
Target(rule) ==
    LET names == IF rule.kind = "wan" THEN <<rule.wan>> ELSE ToProbe(rule.group)
        fit   == SelectSeq(names, LAMBDA n : n \in Wans)
    IN  IF fit = <<>> THEN NoWan ELSE Head(fit)

Resolved == {i \in DOMAIN PbrRules : Target(PbrRules[i]) # NoWan}

\* The commands of a tick that may fail: the listing of the rules, the deletion of
\* one, the flush of a table; the route and the rule of each resolved policy rule.
CleanUp    == {<<"list", 0>>} \cup {<<"del", i>> : i \in rules}
                              \cup {<<"flush", i>> : i \in DOMAIN PbrRules}
Rebuilding == {<<"route", i>> : i \in Resolved} \cup {<<"add", i>> : i \in Resolved}

Failing(commands) ==
    IF IpMayFail THEN {f \in SUBSET commands : faults + Cardinality(f) <= Faults} ELSE {{}}

\* Mutant: only what is missing from the rules is looked at.
Rebuild_RulesOnly(oldRules, oldTables, failing) ==
    /\ rules' = oldRules \cup {i \in Resolved : <<"add", i>> \notin failing}
    /\ tables' = [i \in DOMAIN PbrRules |->
                     LET w == Target(PbrRules[i])
                     IN  IF i \notin oldRules /\ HasRoutes(w) /\ <<"route", i>> \notin failing
                         THEN w ELSE oldTables[i]]

\* Of each resolved rule the route is replaced, and the rule added if it is missing.
Rebuild(oldRules, oldTables, failing) ==
    /\ rules' = oldRules \cup {i \in Resolved : <<"add", i>> \notin failing}
    /\ tables' = [i \in DOMAIN PbrRules |->
                     LET w == Target(PbrRules[i])
                     IN  IF HasRoutes(w) /\ <<"route", i>> \notin failing THEN w
                         ELSE oldTables[i]]

\* ensure_pbr, on every tick but the first.
EnsurePbr ==
    \E failing \in Failing(Rebuilding) :
        /\ applied
        /\ Rebuild(rules, tables, failing)
        /\ faults' = faults + Cardinality(failing)
        /\ UNCHANGED missed

\* apply_pbr, on the first tick: whatever uses the tables goes first, as far as the
\* commands succeed.  What they leave is not looked for again.
ApplyPbr ==
    \E failing \in Failing(CleanUp \cup Rebuilding) :
        LET kept    == {i \in rules : {<<"list", 0>>, <<"del", i>>} \cap failing # {}}
            flushed == [i \in DOMAIN PbrRules |->
                           IF <<"flush", i>> \in failing THEN tables[i] ELSE NoWan]
        IN  /\ ~applied
            /\ Rebuild(kept, flushed, failing)
            /\ faults' = faults + Cardinality(failing)
            /\ missed' = (Stray \in kept)

KeepPbr ==
    /\ at.group \notin DOMAIN Groups
    /\ ApplyPbr \/ EnsurePbr
    /\ applied' = TRUE
    /\ at' = Group(1)
    /\ UNCHANGED <<link, main, spare, status, active>>

Task == Probe \/ Switch \/ KeepPbr

-----------------------------------------------------------------------------
(***************************************************************************)
(* What happens to it.                                                     *)
(***************************************************************************)
Without(w, route) == IF route = w THEN NoWan ELSE route

LinkChanges(w, state) ==
    /\ Fault
    /\ link[w] # state
    /\ link' = [link EXCEPT ![w] = state]
    /\ IF state \in {"ok", "dark"} THEN UNCHANGED <<main, tables>>
       ELSE /\ main' = Without(w, main)
            /\ tables' = [i \in DOMAIN tables |-> Without(w, tables[i])]
    /\ UNCHANGED <<spare, rules, at, status, active, applied, missed>>

RuleRemoved(i) ==
    /\ Fault
    /\ rules' = rules \ {i}
    /\ UNCHANGED <<link, main, spare, tables, at, status, active, applied, missed>>

\* The routes and rules of the kernel outlive the daemon.
Restart ==
    /\ Fault
    /\ at' = Group(1)
    /\ status' = {}
    /\ active' = [g \in DOMAIN Groups |-> NoWan]
    /\ applied' = FALSE
    /\ UNCHANGED <<link, main, spare, tables, rules, missed>>

TickBegins == at # Group(1) /\ at' = Group(1)

Next ==
    /\ \/ Task
       \/ \E w \in Wans, state \in LinkState : LinkChanges(w, state)
       \/ \E i \in rules : RuleRemoved(i)
       \/ Restart
    /\ worked' = ((worked /\ ~TickBegins) \/ Online')

\* The interval ticks for ever, and every probe ends within its timeout.
Fairness == WF_vars(Task /\ worked' = ((worked /\ ~TickBegins) \/ Online'))

Spec == Init /\ [][Next]_vars /\ Fairness

-----------------------------------------------------------------------------
(***************************************************************************)
(* Properties.                                                             *)
(***************************************************************************)
\* The daemon moves the default route only in a tick in which the route there was
\* carried traffic: probes take that route themselves ("探测走系统路由"), so that a dead
\* one makes every member look down and is left alone, however many links work.
MovesOnlyWhileOnline ==
    [][main' \notin {main, NoWan} => worked]_vars

\* Policy routing repairs itself: a policy rule that was removed, and the route of its
\* table that the kernel withdrew with the link, come back once the link has routes
\* again, after restarts and failed commands too (ensure_pbr).  What an earlier
\* configuration left goes for good unless a command of the one clean-up failed on it
\* (apply_pbr): that is never made up for.
PbrSettles ==
    /\ \A i \in Resolved :
          LET w == Target(PbrRules[i])
          IN  []<>(i \in rules /\ (HasRoutes(w) => tables[i] = w))
    /\ <>[](Stray \in rules => missed)

\* Failover: if the default route worked at the start and, after the faults there are, the
\* links stay as they are and a member of some group works, the default route comes to
\* work again ("人为 down wan0 后切 wan1").
FailsOver ==
    Online /\ <>[][UNCHANGED link]_vars
        => (<>[](\E g \in DOMAIN Groups, w \in Wans :
                    link[w] = "ok" /\ \E i \in DOMAIN Groups[g] : Groups[g][i].name = w)
                => []<>Online)
=============================================================================
