------------------------------ MODULE MCRefresh ------------------------------
(* Small instances of RefreshRun on a host whose clock runs forward: a day  *)
(* of DayLength ticks, and two scenes.  In the race, sweeps of the whole    *)
(* list and backfills of the one watched player overtake each other, the    *)
(* roster at rest.  In the crowd, every player starts out watched, joins    *)
(* and leaves whatever he likes, and sweeps of every scope come one at a    *)
(* time, each to its end or to its death.                                   *)
EXTENDS RefreshRun, FiniteSets, TLC

CONSTANTS
    DayLength,  \* clock ticks in a day
    CrowdTime   \* bound: the last instant of the crowd's clock

VARIABLE scene

mcVars == <<vars, scene>>

MCHostDate == [t \in 0..MaxTime |-> t \div DayLength]
LanesOnly  == {{l} : l \in Lane}
AllScopes  == {WholeList} \cup (SUBSET Lane \ {{}})

RaceInit ==
    /\ Init
    /\ scene = "race"
    /\ Cardinality({p \in Player : IsActive(p)}) = 1
    /\ \A p \in Player, l \in Lane : ~IsMember(p, l)

CrowdInit ==
    /\ Init
    /\ scene = "crowd"
    /\ \A p \in Player : IsActive(p)

(* Nobody asks for a lane's sweep, or for a player who is not watched.      *)
Race ==
    /\ \A s \in Sweep : sweep[s].scope = WholeList
    /\ \A b \in Backfill, p \in Player : backfill[b].player = p => IsActive(p)

Crowd ==
    /\ now <= CrowdTime
    /\ \A b \in Backfill : pc[b] = "idle"
    /\ \A r, s \in Sweep : r # s => "idle" \in {pc[r], pc[s]}

MCNext ==
    /\ ForwardNext
    /\ IF scene = "race" THEN Race' /\ UNCHANGED roster ELSE Crowd'
    /\ UNCHANGED scene

MCSpec    == (RaceInit \/ CrowdInit) /\ [][MCNext]_mcVars
CrowdSpec == CrowdInit /\ [][MCNext]_mcVars

MCSymmetry == Permutations(Sweep) \cup Permutations(Player)
=============================================================================
