----------------------------- MODULE MultiWanProofs -----------------------------
(***************************************************************************)
(* Proof that the default route is moved only in a tick in which the route *)
(* there was carried traffic: a member can have answered only through it,  *)
(* and the answers of a tick are forgotten before the next one begins.     *)
(***************************************************************************)
EXTENDS MultiWan, TLAPS

\* Where the tick is: no group has more members left to be probed than it has.
Within ==
    /\ at.group \in Nat \ {0}
    /\ \E S : at.left \in Seq(S)
    /\ Len(at.left) <= Len(ToProbe(at.group))
    /\ at = [group |-> at.group, left |-> at.left]

\* Whoever has answered in this tick has shown that the route worked in it.
Witnessed ==
    /\ status # {} => worked
    /\ at.group \notin DOMAIN Groups => status = {}

WInv == Within /\ Witnessed

-----------------------------------------------------------------------------
\* The members of a group are a sequence.
LEMMA GroupIs ==
    ASSUME NEW g \in Nat \ {0}
    PROVE  /\ \E S : ToProbe(g) \in Seq(S)
           /\ Group(g).group = g /\ Group(g).left = ToProbe(g)
           /\ Group(g) = [group |-> Group(g).group, left |-> Group(g).left]
<1>1. \E S : ToProbe(g) \in Seq(S)
  <2>1. CASE g \in DOMAIN Groups
    <3> DEFINE S == {Groups[g][i].name : i \in DOMAIN Groups[g]}
               n == Len(Groups[g])
    <3>1. n \in Nat /\ DOMAIN Groups[g] = 1 .. n
      BY <2>1, BoundsAssumption
    <3>2. ToProbe(g) = [i \in 1 .. n |-> Groups[g][i].name]
      BY <2>1, <3>1 DEF ToProbe
    <3>3. \A i \in 1 .. n : Groups[g][i].name \in S
      BY <3>1
    <3> HIDE DEF S, n
    <3>4. ToProbe(g) \in Seq(S)
      BY <3>1, <3>2, <3>3
    <3> QED  BY <3>4
  <2>2. CASE g \notin DOMAIN Groups
    <3>1. ToProbe(g) = <<>>  BY <2>2 DEF ToProbe
    <3>2. ToProbe(g) \in Seq({})  BY <3>1
    <3> QED  BY <3>2
  <2> QED  BY <2>1, <2>2
<1> QED  BY <1>1 DEF Group

\* Once a tick is on the way it does not come back to its beginning by probing.
LEMMA ProbeStaysWithin ==
    ASSUME Within, Probe
    PROVE  /\ ~TickBegins
           /\ Within' /\ at'.group = at.group
<1>1. PICK S : at.left \in Seq(S)
  BY DEF Within
<1>2. /\ at.left # <<>> /\ at' = [at EXCEPT !.left = Tail(at.left)]
  BY DEF Probe
<1>3. /\ at.group \in Nat \ {0} /\ Len(at.left) <= Len(ToProbe(at.group))
      /\ at = [group |-> at.group, left |-> at.left]
  BY DEF Within
<1>4. /\ Tail(at.left) \in Seq(S) /\ Len(Tail(at.left)) = Len(at.left) - 1
      /\ Len(at.left) \in Nat
  BY <1>1, <1>2
<1>5. /\ at'.group = at.group /\ at'.left = Tail(at.left)
      /\ at' = [group |-> at'.group, left |-> at'.left]
  BY <1>2, <1>3
<1>6. Len(ToProbe(at.group)) \in Nat
  <2>1. PICK T : ToProbe(at.group) \in Seq(T)  BY <1>3, GroupIs
  <2> QED  BY <2>1
<1>7. ~TickBegins
  <2> SUFFICES ASSUME at' = Group(1) PROVE FALSE
    BY DEF TickBegins
  <2>1. at'.group = 1 /\ at'.left = ToProbe(1)  BY GroupIs
  <2> QED  BY <2>1, <1>3, <1>4, <1>5, <1>6
<1>8. Within'
  <2>1. ToProbe(at.group)' = ToProbe(at.group)  BY <1>5 DEF ToProbe
  <2>2. Len(at'.left) <= Len(ToProbe(at.group))  BY <1>3, <1>4, <1>5, <1>6
  <2>3. \E T : at'.left \in Seq(T)  BY <1>4, <1>5
  <2> QED  BY <1>3, <1>5, <2>1, <2>2, <2>3 DEF Within
<1> QED  BY <1>5, <1>7, <1>8

\* A group that is entered is entered with all its members.
LEMMA EntersWithin ==
    ASSUME NEW g \in Nat \ {0}, at' = Group(g)
    PROVE  Within' /\ at'.group = g
<1>1. PICK S : ToProbe(g) \in Seq(S)  BY GroupIs
<1>2. at'.group = g /\ at'.left = ToProbe(g) /\ at' = [group |-> at'.group, left |-> at'.left]
  BY GroupIs
<1>3. Len(ToProbe(g)) \in Nat  BY <1>1
<1>4. ToProbe(at.group)' = ToProbe(g)  BY <1>2 DEF ToProbe
<1>5. Len(at'.left) <= Len(ToProbe(g))  BY <1>2, <1>3
<1> QED  BY <1>1, <1>2, <1>4, <1>5 DEF Within

\* A choice is one of those that have answered.
LEMMA ChoiceAnswered ==
    ASSUME NEW g, Choice(g) # NoWan
    PROVE  status # {}
BY DEF Choice

\* Every step keeps the invariant.
LEMMA WStep ==
    ASSUME WInv, [Next]_vars
    PROVE  WInv'
<1>0. Within /\ Witnessed  BY DEF WInv
<1>1. CASE UNCHANGED vars
  BY <1>1 DEF vars, WInv, Within, Witnessed, ToProbe
<1>w. ASSUME Next PROVE worked' = ((worked /\ ~TickBegins) \/ Online')
  BY <1>w DEF Next
<1>2. CASE Next /\ Probe
  <2>1. ~TickBegins /\ Within' /\ at'.group = at.group
    BY <1>0, <1>2, ProbeStaysWithin
  <2>2. UNCHANGED <<link, main, spare>> /\ at.left # <<>>
        /\ status' \in {status, status \cup {m \in {Head(at.left)} : Answers(m)}}
    BY <1>2 DEF Probe
  <2>3. Online' = Online
    BY <2>2 DEF Online, DefaultRoute, HasRoutes
  <2>4. ASSUME status' # {} PROVE worked'
    <3>1. CASE status # {}  BY <3>1, <2>1, <1>0, <1>2, <1>w DEF Witnessed
    <3>2. CASE \E m : Answers(m)
      <4>1. Online  BY <3>2 DEF Answers
      <4> QED  BY <4>1, <2>3, <1>2, <1>w
    <3> QED  BY <3>1, <3>2, <2>2, <2>4
  <2>5. ASSUME at.group \notin DOMAIN Groups PROVE FALSE
    <3>1. ToProbe(at.group) = <<>>  BY <2>5 DEF ToProbe
    <3>2. PICK S : at.left \in Seq(S)  BY <1>0 DEF Within
    <3>3. Len(at.left) <= 0  BY <3>1, <1>0 DEF Within
    <3> QED  BY <3>2, <3>3, <2>2
  <2> QED  BY <2>1, <2>4, <2>5 DEF WInv, Witnessed
<1>3. CASE Next /\ Switch
  <2>1. status' = {} /\ at' = Group(at.group + 1)  BY <1>3 DEF Switch
  <2>2. at.group + 1 \in Nat \ {0}  BY <1>0 DEF Within
  <2>3. Within'  BY <2>1, <2>2, EntersWithin
  <2> QED  BY <2>1, <2>3 DEF WInv, Witnessed
<1>4. CASE Next /\ KeepPbr
  <2>1. status' = {} /\ at' = Group(1)  BY <1>0, <1>4 DEF KeepPbr, Witnessed
  <2>2. Within'  BY <2>1, EntersWithin
  <2> QED  BY <2>1, <2>2 DEF WInv, Witnessed
<1>5. CASE Next /\ UNCHANGED <<at, status>>
  <2>1. ~TickBegins  BY <1>5 DEF TickBegins
  <2>2. Within'  BY <1>0, <1>5 DEF Within, ToProbe
  <2> QED  BY <2>1, <2>2, <1>0, <1>5, <1>w DEF WInv, Witnessed
<1>6. CASE Next /\ Restart
  <2>1. status' = {} /\ at' = Group(1)  BY <1>6 DEF Restart
  <2>2. Within'  BY <2>1, EntersWithin
  <2> QED  BY <2>1, <2>2 DEF WInv, Witnessed
<1> QED
  <2>1. ASSUME NEW w \in Wans, NEW state \in LinkState, LinkChanges(w, state)
        PROVE  UNCHANGED <<at, status>>
    BY <2>1 DEF LinkChanges
  <2>2. ASSUME NEW i \in rules, RuleRemoved(i) PROVE UNCHANGED <<at, status>>
    BY <2>2 DEF RuleRemoved
  <2> QED  BY <2>1, <2>2, <1>1, <1>2, <1>3, <1>4, <1>5, <1>6 DEF Next, Task

\* A step that moves the default route is a switch, to a member that has answered.
LEMMA MovesWhenAnswered ==
    ASSUME WInv, Next, main' \notin {main, NoWan}
    PROVE  worked
<1>1. CASE Switch
  <2>1. Choice(at.group) # NoWan  BY <1>1 DEF Switch
  <2>2. status # {}  BY <2>1, ChoiceAnswered
  <2> QED  BY <2>2 DEF WInv, Witnessed
<1>2. ASSUME NEW w \in Wans, NEW state \in LinkState, LinkChanges(w, state) PROVE FALSE
  BY <1>2 DEF LinkChanges, Without
<1>3. ASSUME NEW i \in rules, RuleRemoved(i) PROVE FALSE
  BY <1>3 DEF RuleRemoved
<1>4. CASE Probe \/ KeepPbr \/ Restart
  BY <1>4 DEF Probe, KeepPbr, Restart
<1> QED  BY <1>1, <1>2, <1>3, <1>4 DEF Next, Task

\* The default route is moved only in a tick in which the route there was worked.
THEOREM MovesCorrect ==
    Spec => MovesOnlyWhileOnline
<1>1. Init => WInv
  <2> SUFFICES ASSUME Init PROVE WInv
    OBVIOUS
  <2>1. at = Group(1) /\ status = {}  BY DEF Init
  <2>2. PICK S : ToProbe(1) \in Seq(S)  BY GroupIs
  <2>3. at.group = 1 /\ at.left = ToProbe(1) /\ at = [group |-> at.group, left |-> at.left]
    BY <2>1, GroupIs
  <2>4. Len(ToProbe(1)) \in Nat  BY <2>2
  <2>5. Within  BY <2>2, <2>3, <2>4 DEF Within
  <2> QED  BY <2>1, <2>5 DEF WInv, Witnessed
<1>2. WInv /\ [Next]_vars => WInv'
  BY WStep
<1>3. WInv /\ [Next]_vars => [main' \notin {main, NoWan} => worked]_vars
  BY MovesWhenAnswered
<1> QED  BY <1>1, <1>2, <1>3, PTL DEF Spec, MovesOnlyWhileOnline
=============================================================================
