----------------------------- MODULE Membership -----------------------------
(***************************************************************************)
(* Who belongs to a workgroup (sapphire-framework-bridge: invite.rs,       *)
(* pairing.rs, workgroup.rs, wgsync.rs and the handlers of control.rs and  *)
(* data.rs that call them; sapphire-framework-registry: devices.rs).       *)
(*                                                                         *)
(* A host founds a workgroup or joins one with a ticket.  The inviter      *)
(* redeems the ticket, writes the joiner's record into its ledger and      *)
(* answers; the joiner writes the workgroup's directory.  Ledgers are      *)
(* replicated: the bridges dial each other and, of every record, the one   *)
(* written last wins.  Records are retired and given priorities.           *)
(*                                                                         *)
(* A session of the workgroup's own workspace is one step here: Replica    *)
(* and Session model its inside.  Clocks agree: the order of writes is the *)
(* order of their timestamps.  Grain-ids never collide.                    *)
(***************************************************************************)
EXTENDS Integers, FiniteSets

CONSTANTS
  AllHosts, AllWorkgroups,
  AllIds,       \* device ids, ordered
  AllNames,     \* device names, ordered
  FounderName,  \* the name founders take
  Nobody,       \* no record
  Setups        \* the instances a behaviour may be of: a function from their names

\* One instance: its bounds, what users do, and what goes wrong.
IsSetup(x) ==
  /\ x.hosts \subseteq AllHosts /\ x.workgroups \subseteq AllWorkgroups
  /\ x.ids \subseteq AllIds /\ x.names \subseteq AllNames
  /\ x.founders \cup x.inviters \subseteq x.hosts  \* the hosts that found a workgroup, and invite
  /\ {x.invites, x.edits, x.faults} \subseteq Nat  \* invites; retirements and priorities; faults
  /\ x.joins \in Nat                 \* join calls in progress on one host
  /\ x.priorities \subseteq 0..255   \* the priorities users set
  /\ x.kinds \subseteq {"lost", "crash", "disk", "expiry"}   \* the kinds of faults
  /\ x.mistyped \in BOOLEAN          \* whether a user may join under another name than the invite's
  /\ x.hurried \in BOOLEAN           \* whether users edit records before every host has joined
  /\ x.persistent \in BOOLEAN        \* whether users go on inviting and joining

Record == [name : AllNames \cup {FounderName}, node : AllHosts, retired : BOOLEAN, priority : 0..255, stamp : Nat]

ASSUME MembershipAssumption ==
  /\ IsFiniteSet(AllHosts) /\ Nobody \notin Record /\ AllIds \subseteq Nat /\ AllNames \cup {FounderName} \subseteq Nat
  /\ \A n \in DOMAIN Setups : IsSetup(Setups[n])

DefaultPriority == 1

VARIABLES
  setup,     \* the instance this behaviour is of
  dirs,      \* per host and workgroup: "none", "dir" (made), "named" (has workgroup.toml), "member"
  ledger,    \* per host and workgroup: the records by id
  invites,   \* per host: the invite file
  tickets,   \* the tickets users hold
  expired,   \* the secrets whose time has passed
  creating,  \* per host: the invite call that has read the file, as a set
  inbound,   \* per host: the pairing its inbound loop is answering, as a set
  joins,     \* the join calls in progress
  retirees,  \* the ids that a user has retired
  clock, edits, faults

vars == <<setup, dirs, ledger, invites, tickets, expired, creating, inbound, joins, retirees, clock, edits, faults>>
files == <<dirs, ledger>>

My == Setups[setup]
Hosts == My.hosts
Workgroups == My.workgroups
Ids == My.ids
Names == My.names

Secrets == 1..My.invites
AllSecrets == UNION {1..Setups[n].invites : n \in DOMAIN Setups}

Init ==
  /\ setup \in DOMAIN Setups
  /\ dirs = [h \in Hosts |-> [w \in Workgroups |-> "none"]]
  /\ ledger = [h \in Hosts |-> [w \in Workgroups |-> [i \in Ids |-> Nobody]]]
  /\ invites = [h \in Hosts |-> {}] /\ tickets = {} /\ expired = {}
  /\ creating = [h \in Hosts |-> {}] /\ inbound = [h \in Hosts |-> {}] /\ joins = {}
  /\ retirees = {} /\ clock = 0 /\ edits = 0 /\ faults = 0

Fault(kind) == kind \in My.kinds /\ faults < My.faults /\ faults' = faults + 1
-----------------------------------------------------------------------------
(* The directory and the ledger *)

\* find: a directory without its workgroup.toml is an error; the first one with it is it.
Unfindable(h) == \E w \in Workgroups : dirs[h][w] = "dir"
Belongs(h, w) == ~Unfindable(h) /\ dirs[h][w] \in {"named", "member"}
NoWorkgroup(h) == \A w \in Workgroups : dirs[h][w] = "none"

Known(h, w) == {i \in Ids : ledger[h][w][i] # Nobody}

\* Devices::open refuses a ledger with two devices of one name.
Readable(h, w) == \A i, j \in Known(h, w) : ledger[h][w][i].name = ledger[h][w][j].name => i = j

\* by_node_id: the first by name.
OfNode(h, w, n) ==
  {i \in Known(h, w) :
     /\ ledger[h][w][i].node = n
     /\ \A j \in Known(h, w) : ledger[h][w][j].node = n => ledger[h][w][i].name <= ledger[h][w][j].name}

\* this_device
ThisDevice(h, w) == IF Readable(h, w) THEN OfNode(h, w, h) ELSE {}

Used(i) == \E h \in Hosts, w \in Workgroups : ledger[h][w][i] # Nobody

\* A mutant of CanAdd: a device that is already there is refused, a name is not.
CanAddAnyName(h, w, name, node) == Readable(h, w) /\ OfNode(h, w, node) = {}

\* admit and add
CanAdd(h, w, name, node) ==
  /\ Readable(h, w) /\ OfNode(h, w, node) = {}
  /\ \A i \in Known(h, w) : ledger[h][w][i].name # name

NewRecord(name, node) ==
  [name |-> name, node |-> node, retired |-> FALSE, priority |-> DefaultPriority, stamp |-> clock + 1]

\* A workgroup's id is new.
MayCreate(h, w) ==
  h \in My.founders /\ NoWorkgroup(h) /\ \A x \in Hosts : dirs[x][w] = "none" /\ Known(x, w) = {}

\* Workgroup::create
Create(h, w, i) ==
  /\ MayCreate(h, w) /\ ~Used(i)
  /\ dirs' = [dirs EXCEPT ![h][w] = "member"]
  /\ ledger' = [ledger EXCEPT ![h][w] = [[j \in Ids |-> Nobody] EXCEPT ![i] = NewRecord(FounderName, h)]]
  /\ clock' = clock + 1
  /\ UNCHANGED <<setup, invites, tickets, expired, creating, inbound, joins, retirees, edits, faults>>

\* The founder's process dies within create, before its record is written.
CreateDies(h, w) ==
  /\ MayCreate(h, w) /\ Fault("crash")
  /\ \E half \in {"dir", "named"} : dirs' = [dirs EXCEPT ![h][w] = half]
  /\ UNCHANGED <<setup, ledger, invites, tickets, expired, creating, inbound, joins, retirees, clock, edits>>
-----------------------------------------------------------------------------
(* Invites *)

\* create: the file is read, and written with the new invite a moment later.
InviteRead(h, name) ==
  /\ h \in My.inviters /\ creating[h] = {} /\ \E w \in Workgroups : Belongs(h, w)
  /\ LET s == Cardinality(tickets) + Cardinality({x \in Hosts : creating[x] # {}}) + 1
     IN /\ s \in Secrets
        /\ creating' = [creating EXCEPT ![h] = {[invite |-> [secret |-> s, name |-> name, used |-> FALSE], copy |-> invites[h]]}]
  /\ UNCHANGED <<setup, files, invites, tickets, expired, inbound, joins, retirees, clock, edits, faults>>

InviteSave(h) ==
  /\ \E c \in creating[h] :
       /\ invites' = [invites EXCEPT ![h] = c.copy \cup {c.invite}]
       /\ tickets' = tickets \cup {[inviter |-> h, secret |-> c.invite.secret, name |-> c.invite.name]}
  /\ creating' = [creating EXCEPT ![h] = {}]
  /\ UNCHANGED <<setup, files, expired, inbound, joins, retirees, clock, edits, faults>>

Expire(t) ==
  /\ t \in tickets /\ Fault("expiry")
  /\ t.secret \notin expired /\ expired' = expired \cup {t.secret}
  /\ UNCHANGED <<setup, files, invites, tickets, creating, inbound, joins, retirees, clock, edits>>
-----------------------------------------------------------------------------
(* Pairing *)

Replace(join, stage, answer) == (joins \ {join}) \cup {[join EXCEPT !.stage = stage, !.answer = answer]}

\* The answer reaches a call that is still there.
Reply(join, stage, answer) == joins' = IF join \in joins THEN Replace(join, stage, answer) ELSE joins

\* An inbound loop still has this request: a call that ended is told from the next one.
Answering(join) == \E h \in Hosts : \E p \in inbound[h] : p.join = join

\* Workgroup::join sends the request; the user may mistype the name.
JoinBegin(h, t, name) ==
  /\ NoWorkgroup(h) /\ t \in tickets /\ h # t.inviter /\ (My.mistyped \/ name = t.name)
  /\ Cardinality({j \in joins : j.host = h}) < My.joins
  /\ LET join == [host |-> h, ticket |-> t, name |-> name, stage |-> "asked", answer |-> {}]
     IN ~Answering(join) /\ joins' = joins \cup {join}
  /\ UNCHANGED <<setup, files, invites, tickets, expired, creating, inbound, retirees, clock, edits, faults>>

\* answer_pairing: the inbound loop answers one at a time, and hangs up without a
\* workgroup or a record of its own, which it reads before the request.
Answer(join) ==
  LET h == join.ticket.inviter
      Ours == {w \in Workgroups : Belongs(h, w) /\ ThisDevice(h, w) # {}}
  IN /\ join \in joins /\ join.stage = "asked" /\ inbound[h] = {}
     /\ \/ /\ Ours = {} /\ joins' = joins \ {join} /\ UNCHANGED inbound
        \/ /\ UNCHANGED joins
           /\ \E w \in Ours : \E me \in ThisDevice(h, w) :
                inbound' = [inbound EXCEPT ![h] =
                  {[join |-> join, stage |-> "taking", copy |-> invites[h],
                    wg |-> w, inviter |-> me, record |-> ledger[h][w][me]]}]
     /\ UNCHANGED <<setup, files, invites, tickets, expired, creating, retirees, clock, edits, faults>>

Valid(invite, join) == ~invite.used /\ invite.secret \notin expired

\* A mutant of Spent: the invite is spent before the name is looked at.
SpentEarly(copy, join) == {x \in copy : x.secret = join.ticket.secret /\ Valid(x, join)}

\* take: the invite is marked used when everything about the request is right.
Spent(copy, join) == {x \in copy : x.secret = join.ticket.secret /\ Valid(x, join) /\ x.name = join.name}

Take(h, p) ==
  LET spent == Spent(p.copy, p.join)
      redeemed == {x \in spent : x.name = p.join.name} # {}
  IN /\ p \in inbound[h] /\ p.stage = "taking"
     /\ invites' = IF spent = {} THEN invites
                   ELSE [invites EXCEPT ![h] = (p.copy \ spent) \cup {[x EXCEPT !.used = TRUE] : x \in spent}]
     /\ IF redeemed
        THEN inbound' = [inbound EXCEPT ![h] = {[p EXCEPT !.stage = "redeemed", !.copy = {}]}] /\ UNCHANGED joins
        ELSE /\ inbound' = [inbound EXCEPT ![h] = {}]
             /\ Reply(p.join, "rejected", {})
     /\ UNCHANGED <<setup, files, tickets, expired, creating, retirees, clock, edits, faults>>

\* admit: the record is written before the answer goes out.
Admit(h, p, i) ==
  LET w == p.wg
      record == NewRecord(p.join.name, p.join.host)
  IN /\ p \in inbound[h] /\ p.stage = "redeemed" /\ ~Used(i)
     /\ inbound' = [inbound EXCEPT ![h] = {}]
     /\ \/ /\ CanAdd(h, w, p.join.name, p.join.host)
           /\ ledger' = [ledger EXCEPT ![h][w][i] = record] /\ clock' = clock + 1
           /\ Reply(p.join, "admitted", {[wg |-> w, id |-> i, own |-> record, inviter |-> p.inviter, record |-> p.record]})
        \/ /\ ~CanAdd(h, w, p.join.name, p.join.host)
           /\ Reply(p.join, "rejected", {}) /\ UNCHANGED <<ledger, clock>>
     /\ UNCHANGED <<setup, dirs, invites, tickets, expired, creating, retirees, edits, faults>>

\* The joiner is told why, and the user may try again.
Rejected(join) ==
  /\ join \in joins /\ join.stage = "rejected" /\ joins' = joins \ {join}
  /\ UNCHANGED <<setup, files, invites, tickets, expired, creating, inbound, retirees, clock, edits, faults>>

\* The connection ends before the answer has arrived.
Lost(join) ==
  /\ join \in joins /\ join.stage \in {"asked", "admitted"} /\ ~Answering(join) /\ Fault("lost")
  /\ joins' = joins \ {join}
  /\ UNCHANGED <<setup, files, invites, tickets, expired, creating, inbound, retirees, clock, edits>>
-----------------------------------------------------------------------------
(* The joiner's directory *)

MakeDir(join) ==
  /\ join \in joins /\ join.stage = "admitted"
  /\ joins' = Replace(join, "dir", join.answer)
  /\ \E a \in join.answer :
       /\ dirs' = [dirs EXCEPT ![join.host][a.wg] = "dir"]
       /\ ledger' = [ledger EXCEPT ![join.host][a.wg] = [i \in Ids |-> Nobody]]
  /\ UNCHANGED <<setup, invites, tickets, expired, creating, inbound, retirees, clock, edits, faults>>

NameIt(join) ==
  /\ join \in joins /\ join.stage = "dir" /\ joins' = Replace(join, "named", join.answer)
  /\ \E a \in join.answer : dirs' = [dirs EXCEPT ![join.host][a.wg] = "named"]
  /\ UNCHANGED <<setup, ledger, invites, tickets, expired, creating, inbound, retirees, clock, edits, faults>>

\* Both records are local writes of the joiner, its own first.
WriteOwn(join) ==
  /\ join \in joins /\ join.stage = "named" /\ joins' = Replace(join, "own", join.answer) /\ clock' = clock + 1
  /\ \E a \in join.answer : ledger' = [ledger EXCEPT ![join.host][a.wg][a.id] = [a.own EXCEPT !.stamp = clock + 1]]
  /\ UNCHANGED <<setup, dirs, invites, tickets, expired, creating, inbound, retirees, edits, faults>>

\* The inviter's record is written, and the bridge serves the workgroup.
Materialize(join) ==
  /\ join \in joins /\ join.stage = "own" /\ joins' = joins \ {join} /\ clock' = clock + 1
  /\ \E a \in join.answer :
       /\ dirs' = [dirs EXCEPT ![join.host][a.wg] = "member"]
       /\ ledger' = [ledger EXCEPT ![join.host][a.wg][a.inviter] = [a.record EXCEPT !.stamp = clock + 1]]
  /\ UNCHANGED <<setup, invites, tickets, expired, creating, inbound, retirees, edits, faults>>

\* A write fails: what is there is removed.
MaterializeFails(join) ==
  /\ join \in joins /\ join.stage \in {"dir", "named", "own"} /\ Fault("disk")
  /\ joins' = joins \ {join}
  /\ \E a \in join.answer : dirs' = [dirs EXCEPT ![join.host][a.wg] = "none"]
  /\ UNCHANGED <<setup, ledger, invites, tickets, expired, creating, inbound, retirees, clock, edits>>

\* The bridge's process dies and starts again: its calls are gone, its files are not.  Who waits
\* for its answer gets none, nor does who has not read it yet, perhaps.
Crash(h) ==
  /\ Fault("crash")
  /\ creating[h] # {} \/ inbound[h] # {} \/ \E j \in joins : j.host = h
  /\ \E cut \in SUBSET {j \in joins : j.ticket.inviter = h /\ j.stage \in {"asked", "admitted"}} :
       /\ \A j \in joins : Answering(j) /\ j.ticket.inviter = h => j \in cut
       /\ joins' = {j \in joins : j.host # h} \ cut
  /\ creating' = [creating EXCEPT ![h] = {}] /\ inbound' = [inbound EXCEPT ![h] = {}]
  /\ UNCHANGED <<setup, files, invites, tickets, expired, retirees, clock, edits>>
-----------------------------------------------------------------------------
(* Edits and replication *)

MayEdit == edits < My.edits /\ (My.hurried \/ \A h \in Hosts : \E w \in Workgroups : dirs[h][w] = "member")

Edit(h, w, i, record) ==
  /\ ledger' = [ledger EXCEPT ![h][w][i] = record] /\ clock' = clock + 1 /\ edits' = edits + 1
  /\ UNCHANGED <<setup, dirs, invites, tickets, expired, creating, inbound, joins, faults>>

\* retire_device: never one's own.
Retire(h, w, i) ==
  /\ MayEdit /\ Belongs(h, w) /\ Readable(h, w) /\ i \in Known(h, w)
  /\ ledger[h][w][i].node # h /\ ~ledger[h][w][i].retired
  /\ retirees' = retirees \cup {i}
  /\ Edit(h, w, i, [ledger[h][w][i] EXCEPT !.retired = TRUE, !.stamp = clock + 1])

SetPriority(h, w, i, p) ==
  /\ MayEdit /\ Belongs(h, w) /\ Readable(h, w) /\ i \in Known(h, w)
  /\ ~ledger[h][w][i].retired /\ ledger[h][w][i].priority # p
  /\ UNCHANGED retirees
  /\ Edit(h, w, i, [ledger[h][w][i] EXCEPT !.priority = p, !.stamp = clock + 1])

\* authorize: a live record of the caller's node.
Authorizes(h, w, n) ==
  /\ Belongs(h, w) /\ Readable(h, w)
  /\ \E i \in OfNode(h, w, n) : ~ledger[h][w][i].retired

\* A mutant of Dials: a retired device is dialled like any other.
DialsLive(a, b, w) ==
  \E me \in ThisDevice(a, w), i \in Known(a, w) : ledger[a][w][i].node = b /\ i # me /\ i > me

\* drive: the smaller id dials, and everyone dials a retired device.
Dials(a, b, w) ==
  \E me \in ThisDevice(a, w), i \in Known(a, w) :
    ledger[a][w][i].node = b /\ i # me /\ (i > me \/ ledger[a][w][i].retired)

\* A mutant of Later: the first writer wins.
LaterFirst(mine, theirs) ==
  IF theirs = Nobody \/ (mine # Nobody /\ mine.stamp <= theirs.stamp) THEN mine ELSE theirs

\* The last writer wins.
Later(mine, theirs) ==
  IF theirs = Nobody \/ (mine # Nobody /\ mine.stamp >= theirs.stamp) THEN mine ELSE theirs

\* drive, and the inbound loop's authorization at the other end.
Session(a, b, w) ==
  /\ a # b /\ Belongs(a, w) /\ Dials(a, b, w) /\ Authorizes(b, w, a) /\ dirs[b][w] = "member"
  /\ ledger' = [ledger EXCEPT ![a][w] = [i \in Ids |-> Later(ledger[a][w][i], ledger[b][w][i])],
                              ![b][w] = [i \in Ids |-> Later(ledger[b][w][i], ledger[a][w][i])]]
  /\ ledger' # ledger
  /\ UNCHANGED <<setup, dirs, invites, tickets, expired, creating, inbound, joins, retirees, clock, edits, faults>>

JoinStep(j) == Answer(j) \/ Rejected(j) \/ MakeDir(j) \/ NameIt(j) \/ WriteOwn(j) \/ Materialize(j)
Inbound(h) == \E p \in inbound[h] : Take(h, p) \/ \E i \in Ids : Admit(h, p, i)
JoinSteps == \E j \in joins : JoinStep(j)
Sessions == \E a, b \in Hosts, w \in Workgroups : Session(a, b, w)

Next ==
  \/ \E h \in Hosts :
       \/ \E w \in Workgroups : CreateDies(h, w) \/ \E i \in Ids : Create(h, w, i)
       \/ \E n \in Names : InviteRead(h, n) \/ \E t \in tickets : JoinBegin(h, t, n)
       \/ InviteSave(h) \/ Inbound(h) \/ Crash(h)
       \/ \E w \in Workgroups, i \in Ids : Retire(h, w, i) \/ \E p \in My.priorities : SetPriority(h, w, i, p)
  \/ \E t \in tickets : Expire(t)
  \/ \E j \in joins : Lost(j) \/ MaterializeFails(j)
  \/ JoinSteps \/ Sessions

\* Tasks that are ready run, and the driver sweeps for as long as the bridge does.
Fairness ==
  /\ \A h \in AllHosts : WF_vars(h \in Hosts /\ InviteSave(h)) /\ WF_vars(h \in Hosts /\ Inbound(h))
  /\ WF_vars(JoinSteps)
  /\ \A a, b \in AllHosts, w \in AllWorkgroups :
       a # b => WF_vars({a, b} \subseteq Hosts /\ w \in Workgroups /\ Session(a, b, w))

\* A user who has founded a workgroup invites, and the invited keeps trying with the
\* tickets it has.
Persistence ==
  /\ WF_vars(My.persistent /\ \E h \in Hosts, w \in Workgroups, i \in Ids : Create(h, w, i))
  /\ WF_vars(My.persistent /\ \E h \in Hosts, n \in Names : InviteRead(h, n))
  /\ \A h \in AllHosts, s \in AllSecrets :
       SF_vars(My.persistent /\ h \in Hosts /\ \E t \in tickets : t.secret = s /\ JoinBegin(h, t, t.name))

Spec == Init /\ [][Next]_vars
FairSpec == Spec /\ Fairness /\ Persistence
-----------------------------------------------------------------------------
TypeOK ==
  /\ \A h \in Hosts, w \in Workgroups :
       /\ dirs[h][w] \in {"none", "dir", "named", "member"}
       /\ \A i \in Known(h, w) : ledger[h][w][i] \in Record /\ ledger[h][w][i].stamp <= clock
  /\ \A h \in Hosts : \A x \in invites[h] : x.secret \in Secrets /\ x.name \in Names
  /\ \A h \in Hosts : Cardinality(inbound[h]) <= 1 /\ Cardinality(creating[h]) <= 1
  /\ \A j \in joins : (j.stage \in {"admitted", "dir", "named", "own"}) = (j.answer # {})
  /\ expired \subseteq Secrets /\ edits <= My.edits /\ faults <= My.faults

\* Every host can open its ledger, whoever was admitted meanwhile: authorization, dialling
\* and pairing all fail on one that has two devices of a name (Devices::open).
LedgerReadable == \A h \in Hosts, w \in Workgroups : Readable(h, w)

\* A ticket that was handed out, has not been redeemed and has not expired is in its
\* inviter's file: nobody's save has dropped it (Invites::create, take).
TicketsWork ==
  \A t \in tickets :
    t.secret \in {x.secret : x \in invites[t.inviter]}

\* One host has at most one workgroup (create, join).
OneWorkgroup == \A h \in Hosts : Cardinality({w \in Workgroups : dirs[h][w] # "none"}) <= 1

\* A host on which no join is in progress can found or join a workgroup, or it has one and
\* finds its own record there (find, materialize).
NoHalfWorkgroup ==
  \A h \in Hosts :
    \/ \E j \in joins : j.host = h
    \/ NoWorkgroup(h)
    \/ \E w \in Workgroups : dirs[h][w] = "member"

\* No session gives a device back what its retirement took: where its record is retired it
\* stays retired (retire, materialize, the replicated ledger).
RetiredForGood ==
  [][\A h \in Hosts, w \in Workgroups : \A i \in Known(h, w) :
       ledger[h][w][i].retired /\ dirs'[h][w] = "member" => ledger'[h][w][i] # Nobody /\ ledger'[h][w][i].retired]_vars

Members(w) == {h \in Hosts : dirs[h][w] = "member"}

\* Once nobody joins or edits any more, every member has the same ledger, the retired ones
\* too, where its join has been carried through (drive, authorize, materialize).
EveryoneLearns == <>[](\A w \in Workgroups : \A a, b \in Members(w) : ledger[a][w] = ledger[b][w])

\* So has every host that finds a workgroup here when no join of its is in progress
\* (materialize): one whose bridge died between its own record and the inviter's does not, for
\* it knows nobody and nobody is let in.
EveryOwnerLearns ==
  <>[](\A w \in Workgroups : \A a, b \in {h \in Hosts : Belongs(h, w) /\ \A j \in joins : j.host # h} :
         ledger[a][w] = ledger[b][w])

\* A device that is retired learns it (drive).
RetiredLearns ==
  \A i \in AllIds : i \in retirees ~> \A h \in Hosts, w \in Workgroups :
     i \in Known(h, w) /\ ledger[h][w][i].node = h => ledger[h][w][i].retired

\* A host that is invited and keeps trying gets in (join, admit, take).
EveryHostJoins == <>(My.persistent => \E w \in Workgroups : Members(w) = Hosts)
=============================================================================
