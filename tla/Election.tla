------------------------------ MODULE Election ------------------------------
(***************************************************************************)
(* Who is a workspace's primary and secondary device                       *)
(* (sapphire-framework-bridge: election.rs, hello.rs).                     *)
(*                                                                         *)
(* Every bridge that hosts the workspace runs one round an interval: it    *)
(* elects among the Hellos it has heard and itself, updates its own claims *)
(* and publishes its Hello, which every open link carries to its peer.     *)
(* Links break and come back, bridges restart, app servers come and go,    *)
(* and devices are retired in the ledger, which hosts learn at different   *)
(* times.                                                                  *)
(*                                                                         *)
(* One workspace.  A Hello that a link has not delivered yet is the one    *)
(* that is published now: the writer sends the latest, and again every     *)
(* interval.  Priority, availability tier and id are one rank.             *)
(***************************************************************************)
EXTENDS Naturals, FiniteSets

CONSTANTS
  AllDevices,   \* numbered by their ids
  Rank,         \* what rank() compares: unlike for unlike devices
  NoDevice,     \* a role nobody has
  Silent,       \* no Hello
  Setups        \* the instances a behaviour may be of: a function from their names

\* One instance.
IsSetup(x) ==
  /\ x.devices \subseteq AllDevices
  /\ x.ineligible \subseteq x.devices   \* the devices with priority 0
  /\ x.start \subseteq x.devices        \* those that host the workspace at the start
  /\ x.faults \in Nat  \* bound: links lost, bridges restarted, servers gone, devices retired

ASSUME ElectionAssumption ==
  /\ IsFiniteSet(AllDevices) /\ AllDevices \subseteq Nat /\ NoDevice \notin AllDevices
  /\ Rank \in [AllDevices -> Nat]
  /\ \A d, e \in AllDevices : Rank[d] = Rank[e] => d = e
  /\ \A n \in DOMAIN Setups : IsSetup(Setups[n])

Claims == SUBSET {"primary", "secondary"}
Roles == [primary : AllDevices \cup {NoDevice}, secondary : AllDevices \cup {NoDevice}]
Mesh == [primary |-> NoDevice, secondary |-> NoDevice]
Hellos == [hosting : BOOLEAN, claims : Claims]

VARIABLES
  setup,     \* the instance this behaviour is of
  hosting,   \* the devices whose app server is online with the workspace
  waited,    \* those for which the wait before claiming is over
  claims,    \* per device: the roles it claims
  seen,      \* the devices that have seen a primary claim
  roles,     \* per device: the roles it reports
  hello,     \* per device: the Hello it publishes
  heard,     \* per device: the last Hello of each peer that counts
  down,      \* the pairs without a link
  retired,   \* the retired devices
  knows,     \* per device: the retirements its ledger has
  faults     \* how many faults there have been

electionVars == <<setup, hosting, waited, claims, seen, roles, hello, heard, down, retired, knows, faults>>
elector == <<waited, claims, seen, roles, hello>>
ledger == <<retired, knows>>

Devices == Setups[setup].devices
Ineligible == Setups[setup].ineligible

Pair(d, e) == {d, e}

ElectionInit ==
  /\ setup \in DOMAIN Setups /\ hosting = Setups[setup].start /\ waited = {} /\ claims = [d \in Devices |-> {}] /\ seen = {}
  /\ roles = [d \in Devices |-> Mesh] /\ hello = [d \in Devices |-> Silent]
  /\ heard = [d \in Devices |-> [e \in Devices |-> Silent]]
  /\ down = {} /\ retired = {} /\ knows = [d \in Devices |-> {}] /\ faults = 0
-----------------------------------------------------------------------------
\* elect: candidates are devices with the roles they claim.

Best(pool) == IF pool = {} THEN NoDevice ELSE CHOOSE d \in pool : \A e \in pool : Rank[e] <= Rank[d]

Claimants(pool, claimed, role) == {d \in pool : role \in claimed[d]}

FirstOf(a, b) == IF a # {} THEN Best(a) ELSE Best(b)

\* A mutant of ElectPrimary: the best candidate, whoever claims the role.
ElectPrimaryAnew(pool, claimed, promote) == Best(pool)

\* The best claimant; the best secondary claimant if the primary is known to be gone; the best.
ElectPrimary(pool, claimed, promote) ==
  LET primaries == Claimants(pool, claimed, "primary")
      secondaries == IF promote THEN Claimants(pool, claimed, "secondary") ELSE {}
  IN IF primaries # {} THEN Best(primaries) ELSE FirstOf(secondaries, pool)

ElectSecondary(pool, claimed, primary) ==
  FirstOf(Claimants(pool \ {primary}, claimed, "secondary"), pool \ {primary})

Elect(candidates, claimed, promote) ==
  LET pool == candidates \ Ineligible
      primary == ElectPrimary(pool, claimed, promote)
  IN [primary |-> primary, secondary |-> ElectSecondary(pool, claimed, primary)]
-----------------------------------------------------------------------------
\* The links.

Linked(d, e) == d # e /\ Pair(d, e) \notin down /\ hello[e] # Silent

\* electable: heard, and not retired in this host's ledger.
Electable(d) == {e \in Devices \ {d} : heard[d][e] # Silent /\ e \notin knows[d]}

\* exchange: the peer's current Hello is read.  A link opens to a device that is not known to
\* be retired.
Hear(d, e) ==
  /\ Linked(d, e) /\ e \notin knows[d] /\ d \notin knows[e]
  /\ heard' = [heard EXCEPT ![d][e] = hello[e]]
  /\ UNCHANGED <<setup, hosting, elector, down, ledger, faults>>

\* Forget: the end of a link, like silence, makes both ends forget each other.
Forgotten(S) == [d \in Devices |-> [e \in Devices |-> IF Pair(d, e) \in S THEN Silent ELSE heard[d][e]]]

Fault == faults < Setups[setup].faults /\ faults' = faults + 1

LinkLost(d, e) ==
  /\ Fault /\ d < e /\ Pair(d, e) \notin down
  /\ down' = down \cup {Pair(d, e)} /\ heard' = Forgotten({Pair(d, e)})
  /\ UNCHANGED <<setup, hosting, elector, ledger>>

LinkBack(d, e) ==
  /\ d < e /\ Pair(d, e) \in down /\ down' = down \ {Pair(d, e)}
  /\ UNCHANGED <<setup, hosting, elector, heard, ledger, faults>>
-----------------------------------------------------------------------------
\* One round.

\* No star before a primary claim has been seen.
Reported(s, elected) == IF s THEN elected ELSE Mesh

\* A mutant of Won: a claim is never given up.
WonForGood(d, elected) ==
  {r \in {"primary", "secondary"} : elected[r] = d} \cup claims[d]

\* set: a role that is elected is claimed, and one that is not any more is given up.
Won(d, elected) ==
  {r \in {"primary", "secondary"} : elected[r] = d}

Round(d) ==
  /\ d \in hosting
  /\ LET peers == {e \in Electable(d) : heard[d][e].hosting}
         mine == IF d \in waited THEN {d} ELSE {}
         claimed == [e \in peers \cup mine |-> IF e = d THEN claims[d] ELSE heard[d][e].claims]
         told == d \in seen \/ \E e \in peers \cup mine : "primary" \in claimed[e]
         elected == Elect(peers \cup mine, claimed, told)
         won == IF d \in waited THEN Won(d, elected) ELSE claims[d]
         s == told \/ "primary" \in won
     IN /\ heard' = Forgotten({Pair(d, e) : e \in knows[d]})
        /\ claims' = [claims EXCEPT ![d] = won]
        /\ seen' = IF s THEN seen \cup {d} ELSE seen \ {d}
        /\ roles' = [roles EXCEPT ![d] = Reported(s, elected)]
        /\ hello' = [hello EXCEPT ![d] = [hosting |-> TRUE, claims |-> won]]
  /\ UNCHANGED <<setup, hosting, waited, down, ledger, faults>>

\* A host without the workspace forgets its claims and says that it does not host it.
RoundWithout(d) ==
  /\ d \notin hosting
  /\ waited' = waited \ {d} /\ claims' = [claims EXCEPT ![d] = {}] /\ seen' = seen \ {d}
  /\ roles' = [roles EXCEPT ![d] = Mesh]
  /\ hello' = [hello EXCEPT ![d] = [hosting |-> FALSE, claims |-> {}]]
  /\ UNCHANGED <<setup, hosting, heard, down, ledger, faults>>

\* Dead intervals after it began to host, a device may stand; the links that are up have
\* carried a Hello by then.
WaitOver(d) ==
  /\ d \in hosting \ waited /\ hello[d] # Silent
  /\ \A e \in Devices : Linked(d, e) /\ e \notin knows[d] /\ d \notin knows[e] => heard[d][e] # Silent
  /\ waited' = waited \cup {d}
  /\ UNCHANGED <<setup, hosting, claims, seen, roles, hello, heard, down, ledger, faults>>
-----------------------------------------------------------------------------
\* App servers, restarts and retirements.

ServerOnline(d) ==
  /\ d \notin hosting /\ hosting' = hosting \cup {d}
  /\ UNCHANGED <<setup, elector, heard, down, ledger, faults>>

ServerOffline(d) ==
  /\ Fault /\ d \in hosting /\ hosting' = hosting \ {d}
  /\ UNCHANGED <<setup, elector, heard, down, ledger>>

Restart(d) ==
  /\ Fault /\ hello[d] # Silent
  /\ waited' = waited \ {d} /\ claims' = [claims EXCEPT ![d] = {}] /\ seen' = seen \ {d}
  /\ roles' = [roles EXCEPT ![d] = Mesh] /\ hello' = [hello EXCEPT ![d] = Silent]
  /\ heard' = Forgotten({Pair(d, e) : e \in Devices})
  /\ UNCHANGED <<setup, hosting, down, ledger>>

Retire(d) ==
  /\ Fault /\ d \notin retired /\ retired' = retired \cup {d}
  /\ UNCHANGED <<setup, hosting, elector, heard, down, knows>>

Learn(d) ==
  /\ knows[d] # retired /\ knows' = [knows EXCEPT ![d] = retired]
  /\ UNCHANGED <<setup, hosting, elector, heard, down, retired, faults>>

ElectionNext ==
  \/ \E d \in Devices : Round(d) \/ RoundWithout(d) \/ WaitOver(d) \/ ServerOnline(d)
                        \/ ServerOffline(d) \/ Restart(d) \/ Retire(d) \/ Learn(d)
  \/ \E d, e \in Devices : Hear(d, e) \/ LinkLost(d, e) \/ LinkBack(d, e)

ElectionSpec == ElectionInit /\ [][ElectionNext]_electionVars

\* Every interval there is a round and a Hello on every link; links are dialled again.
FairElection ==
  /\ ElectionSpec
  /\ \A d \in AllDevices :
       /\ WF_electionVars(d \in Devices /\ (Round(d) \/ RoundWithout(d)))
       /\ WF_electionVars(d \in Devices /\ Learn(d))
       /\ WF_electionVars(d \in Devices /\ (WaitOver(d) \/ ServerOnline(d)))
       /\ \A e \in AllDevices \ {d} : WF_electionVars({d, e} \subseteq Devices /\ (Hear(d, e) \/ LinkBack(d, e)))
-----------------------------------------------------------------------------
ElectionTypeOK ==
  /\ hosting \subseteq Devices /\ waited \subseteq Devices /\ seen \subseteq Devices
  /\ claims \in [Devices -> Claims] /\ roles \in [Devices -> Roles]
  /\ hello \in [Devices -> Hellos \cup {Silent}]
  /\ heard \in [Devices -> [Devices -> Hellos \cup {Silent}]]
  /\ retired \subseteq Devices /\ faults \in 0..Setups[setup].faults
  /\ \A d \in Devices : knows[d] \subseteq retired /\ (d \notin Ineligible \/ claims[d] = {})

Members == Devices \ retired

\* Once faults stop, every member reports the same roles, and the devices it names claim
\* them, one each (step, elect).
Agreement ==
  <>[](\A d, e \in Members :
         /\ roles[d] = roles[e]
         /\ \A r \in {"primary", "secondary"} : r \in claims[d] <=> roles[e][r] = d)

\* A primary that everybody has heard.
Settled(p) ==
  /\ "primary" \in claims[p] /\ hello[p] # Silent
  /\ \A d \in Devices : /\ d # p => "primary" \notin claims[d] /\ heard[d][p] = hello[p]
                        /\ d # p => heard[d][p] # Silent /\ "primary" \in heard[d][p].claims
                        /\ p \notin knows[d]
                        /\ d # p /\ heard[p][d] # Silent => "primary" \notin heard[p][d].claims

\* Whoever turns up, a device that holds the primary role keeps it while it is heard: only a
\* fault takes it away (elect's claims).
RoleIsKept ==
  [][\A p \in hosting : Settled(p) /\ faults' = faults /\ hosting \subseteq hosting' /\ knows' = knows
       => \A d \in Devices : "primary" \in claims'[d] <=> d = p]_electionVars

\* The first star a host reports follows some device's claim to be its hub: hosts that are all
\* still waiting, each leaving itself out, close no session (step, seen_primary).
StarNeedsClaim ==
  [][\A d \in Devices : d \notin seen /\ roles'[d] # Mesh
       => \E e \in Devices : \/ "primary" \in claims'[e]
                             \/ heard[d][e] # Silent /\ "primary" \in heard[d][e].claims]_electionVars
=============================================================================
