-------------------------- MODULE IncidentRegistry --------------------------
(***************************************************************************)
(* What the Control plane's Signal path promises of the Incidents it       *)
(* keeps, with no lock, transaction, ticketing service or audit log: one   *)
(* step opens an Incident for a problem that has none, complete with its   *)
(* first episode and a ticket of its own, or adds an episode to the one    *)
(* Incident about that problem.  Nothing is ever taken back.               *)
(***************************************************************************)
EXTENDS Integers

CONSTANTS Keys, Starts, Targets, NoTarget, NoKey

VARIABLES registry,  \* Incidents: [id, target, key, ticket]
          episodes   \* members: [incident, key, startsAt]

registryVars == <<registry, episodes>>

\* A problem is a Target, or a key when no Target is known.
Problems == {p \in [target: Targets \cup {NoTarget}, key: Keys \cup {NoKey}] :
               p.target = NoTarget <=> p.key # NoKey}

About(p) == {inc \in registry : inc.target = p.target /\ inc.key = p.key}

RegistryInit == registry = {} /\ episodes = {}

\* The id and the ticket are new; which ones the store and the ticketing
\* service choose is left open, so the new Incident is named by what was added.
OpenIncident(p, k, t) ==
  /\ About(p) = {}
  /\ \E new \in registry' :
       /\ new.target = p.target /\ new.key = p.key
       /\ new.id > 0 /\ new.ticket > 0
       /\ \A inc \in registry : inc.id # new.id /\ inc.ticket # new.ticket
       /\ registry' = registry \cup {new}
       /\ episodes' = episodes \cup {[incident |-> new.id, key |-> k, startsAt |-> t]}

JoinIncident(p, k, t) ==
  \E inc \in About(p) :
    /\ episodes' = episodes \cup {[incident |-> inc.id, key |-> k, startsAt |-> t]}
    /\ UNCHANGED registry

RegistryNext ==
  \E p \in Problems, k \in Keys, t \in Starts :
    \/ OpenIncident(p, k, t)
    \/ JoinIncident(p, k, t)

RegistrySpec == RegistryInit /\ [][RegistryNext]_registryVars
=============================================================================
