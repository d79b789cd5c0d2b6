---------------------------- MODULE BridgeProofs -----------------------------
(* What the bridge promises, for any devices, connections and bounds: no     *)
(* stream is announced to a connection that is gone, and a device that holds *)
(* the primary role keeps it while it is heard.                              *)
EXTENDS DataPlane, Election, FiniteSetTheorems, NaturalsInduction, WellFoundedInduction, TLAPS

\* Registrations.  What is announced to has a list that names it, and a connection that is
\* attended to: serve_connection is still at work for it, and has not looked at that list.
ListedInv ==
  /\ conn \in [Conns -> {"none", "open", "ended", "gone"}] /\ recorded \subseteq Conns
  /\ \A c \in recorded : conn[c] \in {"open", "ended"}
  /\ owner # 0 => owner \in recorded

RegistrationInv == "late_handler" \notin Faults => ListedInv

LEMMA RegistrationStarts == Init => RegistrationInv
  BY DEF Init, RegistrationInv, ListedInv

\* What neither connections nor registrations take part in.
LEMMA ElsewhereKeeps ==
  ASSUME ListedInv, UNCHANGED <<conn, recorded, owner>>
  PROVE  ListedInv'
  BY DEF ListedInv

LEMMA ConnectKeeps ==
  ASSUME ListedInv, NEW c \in Conns, Connect(c)
  PROVE  ListedInv'
  BY DEF ListedInv, Connect

\* The connections of a server that stops or loses one have ended, and are still attended.
LEMMA EndKeeps ==
  ASSUME ListedInv, conn' = Ended, UNCHANGED <<recorded, owner>>
  PROVE  ListedInv'
  BY DEF ListedInv, Ended

\* A handler that registers runs for a connection that is attended.
LEMMA HandlerKeeps ==
  ASSUME ListedInv, "late_handler" \notin Faults, NEW c \in Conns, Handler(c)
  PROVE  ListedInv'
  <1>1. CASE OwnerConnect(c)
    <2>1. conn[c] \in {"open", "ended"} /\ conn' = conn /\ owner' = c /\ recorded' = recorded \cup {c}
      BY <1>1 DEF OwnerConnect, At, Runs, Recorded
    <2> QED
      BY <2>1 DEF ListedInv
  <1>2. CASE ~OwnerConnect(c)
    BY <1>2, ElsewhereKeeps DEF Handler, Check, Publish, Drain, AnnounceHeld
  <1> QED
    BY <1>1, <1>2

\* The owner's own end takes it away; another's end takes it away too, or had nothing to take.
LEMMA GoneKeeps ==
  ASSUME ListedInv, NEW c \in Conns, ConnectionGone(c)
  PROVE  ListedInv'
  BY DEF ListedInv, ConnectionGone, Disconnected

LEMMA RegistrationKeeps == RegistrationInv /\ [Next]_vars => RegistrationInv'
  <1> SUFFICES ASSUME RegistrationInv, [Next]_vars, ("late_handler" \notin Faults)' PROVE ListedInv'
    BY DEF RegistrationInv
  <1>1. instance' = instance
    BY DEF Next, vars, app, Inbound, FindOwner, Announce, Hold, NobodyHome, Park, WakeIntervalEnds, Started,
           Stop, Break, Dial, Expire, Connect, Handler, Check, Publish, OwnerConnect, Drain, AnnounceHeld,
           ConnectionGone, Claim
  <1>2. "late_handler" \notin Faults /\ ListedInv
    BY <1>1 DEF Faults, RegistrationInv
  <1>3. CASE Inbound
    BY <1>2, <1>3, ElsewhereKeeps DEF Inbound, FindOwner, Announce, Hold, NobodyHome, Park, control
  <1>4. CASE WakeIntervalEnds \/ Started
    BY <1>2, <1>4, ElsewhereKeeps DEF WakeIntervalEnds, Started, control
  <1>5. CASE Stop \/ Break
    BY <1>2, <1>5, EndKeeps DEF Stop, Break
  <1>6. ASSUME NEW p \in Peers, Dial(p) \/ Expire(p) PROVE ListedInv'
    BY <1>2, <1>6, ElsewhereKeeps DEF Dial, Expire, control
  <1>7. ASSUME NEW c \in Conns, Connect(c) \/ Handler(c) \/ ConnectionGone(c) PROVE ListedInv'
    BY <1>2, <1>7, ConnectKeeps, HandlerKeeps, GoneKeeps
  <1>8. ASSUME NEW c \in Conns, NEW p \in Peers, Claim(c, p) PROVE ListedInv'
    BY <1>2, <1>8, ElsewhereKeeps DEF Claim, control
  <1>9. CASE UNCHANGED vars
    BY <1>2, <1>9, ElsewhereKeeps DEF vars
  <1> QED
    BY <1>3, <1>4, <1>5, <1>6, <1>7, <1>8, <1>9 DEF Next

\* However often a server stops, reconnects and registers again, and however late the bridge
\* notices that its connections ended, streams are announced to none that is gone, where no
\* handler outlives its connection (Owners::connect, Session::take, serve_connection).
THEOREM EndedOwnersLeave == Spec => []EndedOwnerLeaves
  <1>1. RegistrationInv => EndedOwnerLeaves
    BY DEF RegistrationInv, ListedInv, EndedOwnerLeaves, OwnerIsConnected
  <1> QED
    BY <1>1, RegistrationStarts, RegistrationKeeps, PTL DEF Spec

-----------------------------------------------------------------------------
\* The election.

LEMMA LeastNat ==
  ASSUME NEW S \in SUBSET Nat, S # {}
  PROVE  \E n \in S : \A m \in S : n <= m
  <1>1. PICK x \in S : \A y \in S : ~(<<y, x>> \in OpToRel(<, Nat))
    BY NatLessThanWellFounded, WFMin
  <1>2. \A y \in S : y < x => <<y, x>> \in OpToRel(<, Nat)
    <2>1. SUFFICES ASSUME NEW y \in S, y < x PROVE <<y, x>> \in OpToRel(<, Nat)
      OBVIOUS
    <2>2. <<y, x>> \in Nat \X Nat /\ <<y, x>>[1] = y /\ <<y, x>>[2] = x
      OBVIOUS
    <2> QED
      BY <2>1, <2>2, Zenon DEF OpToRel
  <1>3. \A y \in S : ~(y < x)
    BY <1>1, <1>2, Zenon
  <1> QED
    BY <1>3

\* Of some candidates one is the best, so the CHOOSE of Best has one to take.
LEMMA BestIsOne ==
  ASSUME NEW pool \in SUBSET AllDevices, pool # {}
  PROVE  Best(pool) \in pool
  <1> DEFINE Top(T) == \E d \in T : \A e \in T : Rank[e] <= Rank[d]
             Bad == {n \in Nat : \E T \in SUBSET pool : T # {} /\ Cardinality(T) = n /\ ~Top(T)}
  <1>1. \A d \in AllDevices : Rank[d] \in Nat
    BY ElectionAssumption
  <1>2. ASSUME Bad # {} PROVE FALSE
    <2>1. PICK n \in Bad : \A m \in Bad : n <= m
      BY <1>2, LeastNat
    <2>2. PICK T \in SUBSET pool : T # {} /\ Cardinality(T) = n /\ ~Top(T)
      BY <2>1
    <2>3. PICK x \in T : TRUE
      BY <2>2
    <2>4. IsFiniteSet(T) /\ T \subseteq AllDevices
      BY ElectionAssumption, FS_Subset
    <2>5. Cardinality(T \ {x}) = n - 1 /\ Cardinality(T \ {x}) \in Nat /\ T \ {x} \in SUBSET pool
      BY <2>2, <2>3, <2>4, FS_RemoveElement, FS_CardinalityType
    <2>6. CASE T \ {x} = {}
      <3>1. \A e \in T : e = x
        BY <2>6
      <3> QED
        BY <1>1, <2>2, <2>3, <2>4, <3>1
    <2>7. CASE T \ {x} # {}
      <3>1. Cardinality(T \ {x}) \notin Bad
        <4>1. n \in Nat /\ ~(n <= Cardinality(T \ {x}))
          BY <2>1, <2>5
        <4> QED
          BY <2>1, <4>1, Zenon
      <3>2. Top(T \ {x})
        BY <2>5, <2>7, <3>1, Zenon
      <3>3. PICK d \in T \ {x} : \A e \in T \ {x} : Rank[e] <= Rank[d]
        BY <3>2
      <3>4. CASE Rank[x] <= Rank[d]
        BY <2>2, <3>3, <3>4
      <3>5. CASE ~(Rank[x] <= Rank[d])
        <4>1. Rank[x] \in Nat /\ Rank[d] \in Nat /\ \A e \in T : Rank[e] \in Nat
          BY <1>1, <2>3, <2>4, <3>3
        <4>2. \A e \in T : Rank[e] <= Rank[x]
          BY <3>3, <3>5, <4>1
        <4> QED
          BY <2>2, <2>3, <4>2
      <3> QED
        BY <3>4, <3>5
    <2> QED
      BY <2>6, <2>7
  <1>3. Top(pool)
    <2>1. IsFiniteSet(pool) /\ Cardinality(pool) \in Nat /\ pool \in SUBSET pool
      BY ElectionAssumption, FS_Subset, FS_CardinalityType
    <2> QED
      BY <1>2, <2>1, Zenon
  <1> QED
    BY <1>3 DEF Best

\* A device that claims a role says that it hosts the workspace.
Hosts(h) == h = Silent \/ (h.claims # {} => h.hosting)

ElectionTyped ==
  /\ setup \in DOMAIN Setups /\ hosting \subseteq Devices /\ faults \in Nat
  /\ claims \in [Devices -> Claims]
  /\ DOMAIN roles = Devices /\ DOMAIN hello = Devices /\ DOMAIN heard = Devices
  /\ \A d \in Devices : DOMAIN heard[d] = Devices

ElectionInv ==
  /\ ElectionTyped
  /\ \A d \in Ineligible : claims[d] = {}
  /\ \A d \in Devices \ seen : roles[d] = Mesh
  /\ \A d \in Devices : Hosts(hello[d]) /\ \A e \in Devices : Hosts(heard[d][e])

LEMMA ElectionSets ==
  ASSUME ElectionTyped
  PROVE  /\ Devices \subseteq AllDevices /\ Ineligible \subseteq Devices
         /\ NoDevice \notin AllDevices /\ \A d, e \in Devices : d < e \/ d = e \/ e < d
  <1>1. IsSetup(Setups[setup]) /\ NoDevice \notin AllDevices /\ AllDevices \subseteq Nat
    BY ElectionAssumption DEF ElectionTyped
  <1>2. Devices \subseteq AllDevices /\ Ineligible \subseteq Devices
    BY <1>1 DEF IsSetup, Devices, Ineligible
  <1>3. \A d, e \in Devices : d \in Nat /\ e \in Nat
    BY <1>1, <1>2
  <1> QED
    BY <1>1, <1>2, <1>3

LEMMA ElectionStarts == ElectionInit => ElectionInv
  BY ElectionAssumption
  DEF ElectionInit, ElectionInv, ElectionTyped, Devices, Ineligible, IsSetup, Claims, Hosts

\* Nobody without priority is elected.
LEMMA ElectedAreEligible ==
  ASSUME ElectionTyped, NEW candidates \in SUBSET Devices, NEW claimed, NEW promote \in BOOLEAN
  PROVE  LET elected == Elect(candidates, claimed, promote)
         IN  \A d \in Ineligible : elected.primary # d /\ elected.secondary # d
  <1> DEFINE pool == candidates \ Ineligible
             first == ElectPrimary(pool, claimed, promote)
             second == ElectSecondary(pool, claimed, first)
  <1>1. pool \in SUBSET AllDevices /\ NoDevice \notin Ineligible
    BY ElectionSets
  <1>2. \A S \in SUBSET pool : Best(S) \in pool \cup {NoDevice}
    <2> SUFFICES ASSUME NEW S \in SUBSET pool PROVE Best(S) \in pool \cup {NoDevice}
      OBVIOUS
    <2>1. CASE S = {}
      BY <2>1 DEF Best
    <2>2. CASE S # {}
      BY <1>1, <2>2, BestIsOne
    <2> QED
      BY <2>1, <2>2
  <1>3. first \in pool \cup {NoDevice}
    <2>1. \A role : Claimants(pool, claimed, role) \in SUBSET pool
      BY DEF Claimants
    <2> QED
      BY <1>2, <2>1 DEF ElectPrimary, FirstOf
  <1>4. second \in pool \cup {NoDevice}
    <2>1. Claimants(pool \ {first}, claimed, "secondary") \in SUBSET pool /\ pool \ {first} \in SUBSET pool
      BY DEF Claimants
    <2> QED
      BY <1>2, <2>1 DEF ElectSecondary, FirstOf
  <1>5. Elect(candidates, claimed, promote) = [primary |-> first, secondary |-> second]
    BY DEF Elect
  <1> QED
    BY <1>1, <1>3, <1>4, <1>5

\* What Forget leaves of what was heard.
LEMMA ForgottenHosts ==
  ASSUME ElectionInv, NEW S
  PROVE  /\ DOMAIN Forgotten(S) = Devices /\ \A d \in Devices : DOMAIN Forgotten(S)[d] = Devices
         /\ \A d, e \in Devices : Hosts(Forgotten(S)[d][e])
  BY DEF Forgotten, Hosts, ElectionInv, ElectionTyped

LEMMA RoundKeeps ==
  ASSUME ElectionInv, NEW d \in Devices, Round(d)
  PROVE  ElectionInv'
  <1> DEFINE peers == {e \in Electable(d) : heard[d][e].hosting}
             mine == IF d \in waited THEN {d} ELSE {}
             claimed == [e \in peers \cup mine |-> IF e = d THEN claims[d] ELSE heard[d][e].claims]
             told == d \in seen \/ \E e \in peers \cup mine : "primary" \in claimed[e]
             elected == Elect(peers \cup mine, claimed, told)
             won == IF d \in waited THEN Won(d, elected) ELSE claims[d]
             s == told \/ "primary" \in won
  <1>1. /\ claims' = [claims EXCEPT ![d] = won] /\ heard' = Forgotten({Pair(d, e) : e \in knows[d]})
        /\ hello' = [hello EXCEPT ![d] = [hosting |-> TRUE, claims |-> won]]
        /\ seen' = (IF s THEN seen \cup {d} ELSE seen \ {d}) /\ roles' = [roles EXCEPT ![d] = Reported(s, elected)]
        /\ UNCHANGED <<setup, hosting, faults>>
    BY DEF Round
  <1>2. won \in Claims
    BY DEF Won, ElectionInv, ElectionTyped, Claims
  <1>3. d \in Ineligible => won = {}
    <2>1. peers \cup mine \in SUBSET Devices /\ told \in BOOLEAN
      BY DEF Electable
    <2>2. \A e \in Ineligible : elected.primary # e /\ elected.secondary # e
      <3> HIDE DEF peers, mine, claimed, told
      <3> QED
        BY <2>1, ElectedAreEligible DEF ElectionInv
    <2> QED
      BY <2>2 DEF Won, ElectionInv
  <1>4. DOMAIN roles' = Devices /\ \A e \in Devices : e \notin seen' => roles'[e] = Mesh
    <2> HIDE DEF s, elected
    <2> QED
      BY <1>1 DEF ElectionInv, ElectionTyped, Reported
  <1> HIDE DEF won, s, elected
  <1>5. Devices' = Devices /\ Ineligible' = Ineligible
    BY <1>1 DEF Devices, Ineligible
  <1>6. ElectionTyped'
    <2>1. /\ DOMAIN heard' = Devices /\ \A e \in Devices : DOMAIN heard'[e] = Devices
      BY <1>1, ForgottenHosts
    <2>2. claims' \in [Devices -> Claims] /\ DOMAIN hello' = Devices
      BY <1>1, <1>2 DEF ElectionInv, ElectionTyped
    <2> QED
      BY <1>1, <1>5, <1>4, <2>1, <2>2 DEF ElectionInv, ElectionTyped
  <1>7. \A e \in Ineligible : claims'[e] = {}
    BY <1>1, <1>3 DEF ElectionInv, ElectionTyped
  <1>8. \A e \in Devices : Hosts(hello'[e])
    BY <1>1 DEF ElectionInv, ElectionTyped, Hosts
  <1>9. \A e, f \in Devices : Hosts(heard'[e][f])
    BY <1>1, ForgottenHosts
  <1>10. \A e, f \in Devices : Hosts(heard[e][f])' = Hosts(heard'[e][f]) /\ Hosts(hello[e])' = Hosts(hello'[e])
    BY DEF Hosts
  <1> QED
    BY <1>5, <1>6, <1>7, <1>8, <1>9, <1>10, <1>4 DEF ElectionInv

LEMMA ElectionKeeps == ElectionInv /\ [ElectionNext]_electionVars => ElectionInv'
  <1> SUFFICES ASSUME ElectionInv, [ElectionNext]_electionVars PROVE ElectionInv'
    OBVIOUS
  <1> USE DEF ElectionInv, ElectionTyped
  <1>1. ASSUME NEW d \in Devices, Round(d) PROVE ElectionInv'
    BY <1>1, RoundKeeps
  <1>2. ASSUME NEW d \in Devices, RoundWithout(d) PROVE ElectionInv'
    BY <1>2 DEF RoundWithout, Hosts, Devices, Ineligible, Claims
  <1>3. ASSUME NEW d \in Devices, WaitOver(d) \/ ServerOnline(d) \/ Learn(d) PROVE ElectionInv'
    BY <1>3 DEF WaitOver, ServerOnline, Learn, elector, Hosts, Devices, Ineligible
  <1>4. ASSUME NEW d \in Devices, ServerOffline(d) \/ Retire(d) PROVE ElectionInv'
    BY <1>4 DEF ServerOffline, Retire, Fault, elector, Hosts, Devices, Ineligible
  <1>5. ASSUME NEW d \in Devices, Restart(d) PROVE ElectionInv'
    <2>1. /\ claims' = [claims EXCEPT ![d] = {}] /\ hello' = [hello EXCEPT ![d] = Silent]
          /\ seen' = seen \ {d} /\ roles' = [roles EXCEPT ![d] = Mesh]
          /\ UNCHANGED <<setup, hosting>>
      BY <1>5 DEF Restart
    <2>2. heard' = Forgotten({Pair(d, x) : x \in Devices}) /\ faults' \in Nat
      BY <1>5 DEF Restart, Fault
    <2>3. Devices' = Devices /\ Ineligible' = Ineligible
      BY <2>1 DEF Devices, Ineligible
    <2>4. /\ DOMAIN heard' = Devices /\ \A x \in Devices : DOMAIN heard'[x] = Devices
          /\ \A x, y \in Devices : Hosts(heard'[x][y])
      BY <2>2, ForgottenHosts
    <2>5. ElectionTyped'
      BY <2>1, <2>2, <2>3, <2>4 DEF Claims
    <2> QED
      BY <2>1, <2>3, <2>4, <2>5 DEF Hosts
  <1>6. ASSUME NEW d \in Devices, NEW e \in Devices, Hear(d, e) PROVE ElectionInv'
    BY <1>6 DEF Hear, elector, Hosts, Devices, Ineligible
  <1>7. ASSUME NEW d \in Devices, NEW e \in Devices, LinkLost(d, e) PROVE ElectionInv'
    <2>1. heard' = Forgotten({Pair(d, e)}) /\ faults' \in Nat /\ UNCHANGED <<setup, hosting, claims, seen, roles, hello>>
      BY <1>7 DEF LinkLost, Fault, elector
    <2>2. Devices' = Devices /\ Ineligible' = Ineligible
      BY <2>1 DEF Devices, Ineligible
    <2>3. /\ DOMAIN heard' = Devices /\ \A x \in Devices : DOMAIN heard'[x] = Devices
          /\ \A x, y \in Devices : Hosts(heard'[x][y])
      BY <2>1, ForgottenHosts
    <2> QED
      BY <2>1, <2>2, <2>3 DEF Hosts
  <1>8. ASSUME NEW d \in Devices, NEW e \in Devices, LinkBack(d, e) PROVE ElectionInv'
    BY <1>8 DEF LinkBack, elector, Hosts, Devices, Ineligible
  <1>9. CASE UNCHANGED electionVars
    BY <1>9 DEF electionVars, Hosts, Devices, Ineligible
  <1> QED
    BY <1>1, <1>2, <1>3, <1>4, <1>5, <1>6, <1>7, <1>8, <1>9 DEF ElectionNext

\* Where somebody claims the role, a claimant is elected.
LEMMA ClaimantIsElected ==
  ASSUME ElectionTyped, NEW candidates \in SUBSET Devices, NEW claimed, NEW promote,
         NEW p \in candidates \ Ineligible, "primary" \in claimed[p]
  PROVE  LET first == Elect(candidates, claimed, promote).primary
         IN  first \in candidates /\ "primary" \in claimed[first]
  <1> DEFINE pool == candidates \ Ineligible
             primaries == Claimants(pool, claimed, "primary")
  <1>1. primaries \in SUBSET AllDevices /\ primaries # {}
    BY ElectionSets DEF Claimants
  <1>2. Best(primaries) \in primaries
    BY <1>1, BestIsOne
  <1>3. ElectPrimary(pool, claimed, promote) = Best(primaries)
    BY <1>1 DEF ElectPrimary
  <1>4. Elect(candidates, claimed, promote).primary = Best(primaries)
    BY <1>3 DEF Elect
  <1> QED
    BY <1>2, <1>4 DEF Claimants

LEMMA RoundLeavesTheRole ==
  ASSUME ElectionInv, NEW p \in hosting, Settled(p), NEW d \in Devices, Round(d)
  PROVE  "primary" \in claims'[d] <=> d = p
  <1> DEFINE peers == {e \in Electable(d) : heard[d][e].hosting}
             mine == IF d \in waited THEN {d} ELSE {}
             claimed == [e \in peers \cup mine |-> IF e = d THEN claims[d] ELSE heard[d][e].claims]
             told == d \in seen \/ \E e \in peers \cup mine : "primary" \in claimed[e]
             elected == Elect(peers \cup mine, claimed, told)
  <1>1. p \in Devices /\ p \notin Ineligible
    BY DEF ElectionInv, ElectionTyped, Settled
  <1>2. /\ d # p => "primary" \notin claims[d]
        /\ d \notin waited => claims'[d] = claims[d]
        /\ d \in waited => claims'[d] = Won(d, elected)
    BY DEF Round, ElectionInv, ElectionTyped, Settled
  <1>3. CASE d \notin waited
    BY <1>2, <1>3 DEF Settled
  <1>4. CASE d \in waited
    <2>1. peers \cup mine \in SUBSET Devices /\ d \in peers \cup mine /\ d \notin peers
      BY <1>4 DEF Electable
    <2>2. p \in peers \cup mine
      BY <1>1, <1>4 DEF Electable, Settled, ElectionInv, Hosts
    <2>3. claimed[d] = claims[d] /\ \A e \in peers \cup mine : e # d => claimed[e] = heard[d][e].claims
      BY <2>1
    <2>4. "primary" \in claimed[p]
      BY <1>1, <2>2, <2>3 DEF Settled
    <2>5. elected.primary \in peers \cup mine /\ "primary" \in claimed[elected.primary]
      <3> HIDE DEF peers, mine, claimed, told
      <3> QED
        BY <1>1, <2>1, <2>2, <2>4, ClaimantIsElected DEF ElectionInv
    <2> HIDE DEF elected
    <2>6. CASE d # p
      <3>1. elected.primary # d
        BY <1>2, <2>3, <2>5, <2>6
      <3> QED
        BY <1>2, <1>4, <2>6, <3>1 DEF Won
    <2>7. CASE d = p
      <3>1. \A e \in peers \cup mine : e # d => "primary" \notin claimed[e]
        BY <2>3, <2>7 DEF Settled, Electable
      <3>2. elected.primary = d
        BY <2>5, <3>1
      <3> QED
        BY <1>2, <1>4, <2>7, <3>2 DEF Won
    <2> QED
      BY <2>6, <2>7
  <1> QED
    BY <1>3, <1>4

\* Every other step leaves the claims, or takes them from a device that is not hosting.
LEMMA RoleStaysWhere ==
  ASSUME ElectionInv, [ElectionNext]_electionVars, NEW p \in hosting, Settled(p),
         faults' = faults, knows' = knows, NEW d \in Devices
  PROVE  "primary" \in claims'[d] <=> d = p
  <1> USE DEF ElectionInv, ElectionTyped
  <1>1. "primary" \in claims[d] <=> d = p
    BY DEF Settled
  <1>2. ASSUME NEW e \in Devices, Round(e) PROVE "primary" \in claims'[d] <=> d = p
    <2>1. CASE e = d
      BY <1>2, <2>1, RoundLeavesTheRole
    <2>2. CASE e # d
      BY <1>1, <1>2, <2>2 DEF Round
    <2> QED
      BY <2>1, <2>2
  <1>3. ASSUME NEW e \in Devices, RoundWithout(e) PROVE "primary" \in claims'[d] <=> d = p
    BY <1>1, <1>3 DEF RoundWithout
  <1>4. ASSUME NEW e \in Devices, WaitOver(e) \/ ServerOnline(e) \/ Learn(e) PROVE claims' = claims
    BY <1>4 DEF WaitOver, ServerOnline, Learn, elector
  <1>5. ASSUME NEW e \in Devices, ServerOffline(e) \/ Restart(e) \/ Retire(e) PROVE FALSE
    BY <1>5 DEF ServerOffline, Restart, Retire, Fault
  <1>6. ASSUME NEW e \in Devices, NEW f \in Devices, Hear(e, f) \/ LinkLost(e, f) \/ LinkBack(e, f)
        PROVE  claims' = claims
    BY <1>6 DEF Hear, LinkLost, LinkBack, elector
  <1>7. CASE UNCHANGED electionVars
    BY <1>1, <1>7 DEF electionVars
  <1> QED
    BY <1>1, <1>2, <1>3, <1>4, <1>5, <1>6, <1>7 DEF ElectionNext

\* A device that claims the primary role and is heard by everybody who may elect keeps it, and
\* nobody else claims it, whoever turns up, with whatever rank (elect's claims).
THEOREM PrimaryKeepsItsRole == ElectionSpec => RoleIsKept
  <1>1. ElectionInv /\ [ElectionNext]_electionVars
          => [\A p \in hosting : Settled(p) /\ faults' = faults /\ hosting \subseteq hosting' /\ knows' = knows
                => \A d \in Devices : "primary" \in claims'[d] <=> d = p]_electionVars
    BY RoleStaysWhere
  <1> QED
    BY <1>1, ElectionStarts, ElectionKeeps, PTL DEF ElectionSpec, RoleIsKept
\* A device that had not seen a primary claim reports a star only where another one's claim is
\* what it heard, or it claims the role in that round.
LEMMA FirstStar ==
  ASSUME ElectionInv, NEW d \in Devices, Round(d), d \notin seen, roles'[d] # Mesh
  PROVE  \E e \in Devices : \/ "primary" \in claims'[e]
                            \/ heard[d][e] # Silent /\ "primary" \in heard[d][e].claims
  <1> DEFINE peers == {e \in Electable(d) : heard[d][e].hosting}
             mine == IF d \in waited THEN {d} ELSE {}
             claimed == [e \in peers \cup mine |-> IF e = d THEN claims[d] ELSE heard[d][e].claims]
             told == d \in seen \/ \E e \in peers \cup mine : "primary" \in claimed[e]
             elected == Elect(peers \cup mine, claimed, told)
             won == IF d \in waited THEN Won(d, elected) ELSE claims[d]
             s == told \/ "primary" \in won
  <1>1. /\ claims' = [claims EXCEPT ![d] = won] /\ roles' = [roles EXCEPT ![d] = Reported(s, elected)]
    BY DEF Round
  <1>2. claims'[d] = won
    BY <1>1 DEF ElectionInv, ElectionTyped
  <1>3. s
    <2> HIDE DEF s, elected
    <2> QED
      BY <1>1 DEF ElectionInv, ElectionTyped, Reported
  <1>4. peers \cup mine \in SUBSET Devices /\ d \notin peers
    BY DEF Electable
  <1>5. CASE "primary" \in won
    BY <1>2, <1>5
  <1>6. ASSUME NEW e \in peers, "primary" \in claimed[e]
        PROVE  heard[d][e] # Silent /\ "primary" \in heard[d][e].claims
    BY <1>4, <1>6 DEF Electable
  <1>7. CASE \E e \in peers : "primary" \in claimed[e]
    BY <1>4, <1>6, <1>7
  <1>8. CASE d \in waited /\ "primary" \in claimed[d] /\ \A e \in peers : "primary" \notin claimed[e]
    <2>1. d \in (peers \cup mine) \ Ineligible
      <3>1. claimed[d] = claims[d]
        BY <1>8
      <3> QED
        BY <1>8, <3>1 DEF ElectionInv
    <2>2. elected.primary \in peers \cup mine /\ "primary" \in claimed[elected.primary]
      <3> HIDE DEF peers, mine, claimed, told
      <3> QED
        BY <1>4, <1>8, <2>1, ClaimantIsElected DEF ElectionInv
    <2>3. elected.primary = d
      <3> HIDE DEF elected
      <3> QED
        BY <1>8, <2>2
    <2>4. "primary" \in won
      <3> HIDE DEF elected
      <3> QED
        BY <1>8, <2>3 DEF Won
    <2> QED
      BY <1>2, <2>4
  <1> QED
    BY <1>3, <1>5, <1>7, <1>8

\* The first star that a host reports follows some device's claim to be its hub, in what the host
\* heard or in its own round: hosts that all wait, each leaving itself out, close no session
\* (step, seen_primary).
THEOREM StarFollowsClaim == ElectionSpec => StarNeedsClaim
  <1>1. ASSUME ElectionInv, ElectionNext, NEW d \in Devices, d \notin seen, roles'[d] # Mesh
        PROVE  \E e \in Devices : \/ "primary" \in claims'[e]
                                  \/ heard[d][e] # Silent /\ "primary" \in heard[d][e].claims
    <2>1. roles[d] = Mesh
      BY <1>1 DEF ElectionInv
    <2>2. ASSUME NEW e \in Devices, Round(e) PROVE e = d
      <3>1. DOMAIN roles = Devices
        BY <1>1 DEF ElectionInv, ElectionTyped
      <3>2. PICK r : roles' = [roles EXCEPT ![e] = r]
        BY <2>2 DEF Round
      <3> QED
        BY <1>1, <2>1, <3>1, <3>2
    <2>3. ASSUME NEW e \in Devices, RoundWithout(e) \/ Restart(e) PROVE FALSE
      BY <1>1, <2>1, <2>3 DEF RoundWithout, Restart, ElectionInv, ElectionTyped
    <2>4. ASSUME NEW e \in Devices, WaitOver(e) \/ ServerOnline(e) \/ ServerOffline(e) \/ Retire(e) \/ Learn(e)
          PROVE  FALSE
      BY <1>1, <2>1, <2>4 DEF WaitOver, ServerOnline, ServerOffline, Retire, Learn, elector
    <2>5. ASSUME NEW e \in Devices, NEW f \in Devices, Hear(e, f) \/ LinkLost(e, f) \/ LinkBack(e, f)
          PROVE  FALSE
      BY <1>1, <2>1, <2>5 DEF Hear, LinkLost, LinkBack, elector
    <2> QED
      BY <1>1, <2>2, <2>3, <2>4, <2>5, FirstStar DEF ElectionNext
  <1>2. ElectionInv /\ [ElectionNext]_electionVars
          => [\A d \in Devices : d \notin seen /\ roles'[d] # Mesh
                => \E e \in Devices : \/ "primary" \in claims'[e]
                                      \/ heard[d][e] # Silent /\ "primary" \in heard[d][e].claims]_electionVars
    BY <1>1
  <1> QED
    BY <1>2, ElectionStarts, ElectionKeeps, PTL DEF ElectionSpec, StarNeedsClaim
=============================================================================
