-------------------------- MODULE MembershipProofs ---------------------------
(* Ledgers stay readable when one device invites, and a retirement stays     *)
(* when whoever writes a device's record knows of it: for any hosts, ids,     *)
(* names, faults and bounds.                                                  *)
EXTENDS Membership, FiniteSetTheorems, TLAPS

\* One device of a workgroup invites the others.
OneInviter == \A n \in DOMAIN Setups : \A b, c \in Setups[n].inviters : b = c

\* Who writes a device's record anew, when it joins or edits it, has heard of its retirement if
\* anybody has.
InformedStep ==
  \A h, g \in Hosts, w \in Workgroups : \A i \in Known(g, w) :
    ledger[g][w][i].retired /\ ledger'[h][w][i] # Nobody /\ ledger'[h][w][i].stamp > clock => ledger'[h][w][i].retired

InformedWrites == [][InformedStep]_vars

Entries == Record \cup {Nobody}
Invite == [secret : Secrets, name : Names, used : BOOLEAN]
Ticket == [inviter : Hosts, secret : Secrets, name : Names]
Answers == [wg : Workgroups, id : Ids, own : Record, inviter : Ids, record : Record]
Join == [host : Hosts, ticket : Ticket, name : Names,
         stage : {"asked", "rejected", "admitted", "dir", "named", "own"}, answer : SUBSET Answers]
Pairing == [join : Join, stage : {"taking", "redeemed"}, copy : SUBSET Invite,
            wg : Workgroups, inviter : Ids, record : Record]

Typed ==
  /\ setup \in DOMAIN Setups
  /\ dirs \in [Hosts -> [Workgroups -> {"none", "dir", "named", "member"}]]
  /\ ledger \in [Hosts -> [Workgroups -> [Ids -> Entries]]]
  /\ invites \in [Hosts -> SUBSET Invite] /\ tickets \subseteq Ticket
  /\ creating \in [Hosts -> SUBSET [invite : Invite, copy : SUBSET Invite]]
  /\ inbound \in [Hosts -> SUBSET Pairing] /\ joins \subseteq Join
  /\ clock \in Nat /\ edits \in Nat

-----------------------------------------------------------------------------
(* Readable ledgers *)

\* Only inviters answer, and they never join.
Inviting ==
  /\ \A t \in tickets : t.inviter \in My.inviters
  /\ \A h \in Hosts : creating[h] \cup inbound[h] # {} => h \in My.inviters
  /\ \A j \in joins : j.ticket.inviter \in My.inviters /\ j.host \notin My.inviters

Serves(w) == \E b \in My.inviters : dirs[b][w] = "member"

\* A ledger that says something is of a workgroup that an inviter serves, or of one that its
\* founder is alone in.  A directory that is not finished is a joiner's, or there is nothing in it.
Founded ==
  \A h \in Hosts, w \in Workgroups :
    /\ Known(h, w) # {} => dirs[h][w] = "member" \/ Serves(w)
    /\ dirs[h][w] \in {"dir", "named"} => Serves(w) \/ \A x \in Hosts : Known(x, w) = {}

\* One name for an id and one id for a name, in whatever ledger.
OneName ==
  \A w \in Workgroups : \A g, h \in Hosts : \A i \in Known(g, w), j \in Known(h, w) :
    (i = j) <=> (ledger[g][w][i].name = ledger[h][w][j].name)

\* An inviter's ledger has all that anybody's has, all that was answered, and all that will be.
InviterKnows ==
  \A b \in My.inviters, w \in Workgroups :
    dirs[b][w] = "member" => \A h \in Hosts : Known(h, w) \subseteq Known(b, w)

AnswersKnown ==
  \A j \in joins : \A a \in j.answer : \E b \in My.inviters :
    /\ dirs[b][a.wg] = "member" /\ {a.id, a.inviter} \subseteq Known(b, a.wg)
    /\ a.own.name = ledger[b][a.wg][a.id].name /\ a.record.name = ledger[b][a.wg][a.inviter].name

Sound(h, p) ==
  /\ dirs[h][p.wg] = "member" /\ p.inviter \in Known(h, p.wg)
  /\ p.record.name = ledger[h][p.wg][p.inviter].name

PairingsKnown == \A h \in Hosts : \A p \in inbound[h] : Sound(h, p)

NamesInv == Inviting /\ Founded /\ OneName /\ InviterKnows /\ AnswersKnown /\ PairingsKnown

-----------------------------------------------------------------------------
(* Retirements *)

\* What is retired is newer than any record of the device that is not.
RetiredIsNewest ==
  \A w \in Workgroups : \A h \in Hosts : \A i \in Known(h, w) :
    /\ ledger[h][w][i].stamp <= clock
    /\ ledger[h][w][i].retired =>
         \A g \in Hosts : i \in Known(g, w) /\ ~ledger[g][w][i].retired =>
           ledger[g][w][i].stamp < ledger[h][w][i].stamp

-----------------------------------------------------------------------------
(* Types *)

\* The instance stays what it is.
LEMMA SameSetup ==
  ASSUME setup' = setup
  PROVE  /\ My' = My /\ Hosts' = Hosts /\ Workgroups' = Workgroups /\ Ids' = Ids /\ Names' = Names
         /\ Secrets' = Secrets /\ Invite' = Invite /\ Ticket' = Ticket /\ Answers' = Answers
         /\ Join' = Join /\ Pairing' = Pairing
  BY DEF My, Hosts, Workgroups, Ids, Names, Secrets, Invite, Ticket, Answers, Join, Pairing

LEMMA Bounds ==
  ASSUME Typed
  PROVE  /\ IsSetup(My) /\ Hosts \subseteq AllHosts /\ Names \subseteq AllNames
         /\ My.inviters \subseteq Hosts /\ My.founders \subseteq Hosts
         /\ My.priorities \subseteq 0..255 /\ My.joins \in Nat /\ My.edits \in Nat
  BY MembershipAssumption DEF Typed, My, IsSetup, Hosts, Names

\* What a handler of h or a session writes into a ledger.
LEMMA LedgerTyped ==
  ASSUME Typed, NEW h \in Hosts, NEW w \in Workgroups, NEW i \in Ids, NEW r \in Entries
  PROVE  [ledger EXCEPT ![h][w][i] = r] \in [Hosts -> [Workgroups -> [Ids -> Entries]]]
  BY DEF Typed

LEMMA NewRecordTyped ==
  ASSUME Typed, NEW n \in Names \cup {FounderName}, NEW h \in Hosts
  PROVE  /\ NewRecord(n, h) \in Record /\ NewRecord(n, h).name = n /\ NewRecord(n, h).node = h
         /\ ~NewRecord(n, h).retired /\ NewRecord(n, h).stamp = clock + 1
  BY Bounds, MembershipAssumption DEF NewRecord, Record, Typed, DefaultPriority

\* A join moves on, or is no longer there.
LEMMA ReplaceTyped ==
  ASSUME Typed, NEW j \in Join, NEW stage \in {"asked", "rejected", "admitted", "dir", "named", "own"},
         NEW answer \in SUBSET Answers, joins' = Replace(j, stage, answer)
  PROVE  /\ joins' \subseteq Join
         /\ \E k \in Join : /\ k.host = j.host /\ k.ticket = j.ticket /\ k.name = j.name
                            /\ k.answer = answer /\ joins' = (joins \ {j}) \cup {k}
  <1> DEFINE k == [j EXCEPT !.stage = stage, !.answer = answer]
  <1>1. k \in Join /\ k.host = j.host /\ k.ticket = j.ticket /\ k.name = j.name /\ k.answer = answer
    BY DEF Join
  <1>2. joins' = (joins \ {j}) \cup {k}
    BY DEF Replace
  <1> QED
    BY <1>1, <1>2 DEF Typed

LEMMA ReplyTyped ==
  ASSUME Typed, NEW j \in Join, NEW stage \in {"asked", "rejected", "admitted", "dir", "named", "own"},
         NEW answer \in SUBSET Answers, Reply(j, stage, answer)
  PROVE  /\ joins' \subseteq Join
         /\ \/ joins' = joins
            \/ /\ j \in joins
               /\ \E k \in Join : /\ k.host = j.host /\ k.ticket = j.ticket /\ k.name = j.name
                                  /\ k.answer = answer /\ joins' = (joins \ {j}) \cup {k}
  <1>1. CASE j \in joins
    <2>1. joins' = Replace(j, stage, answer)
      BY <1>1 DEF Reply
    <2> QED
      BY <1>1, <2>1, ReplaceTyped
  <1>2. CASE j \notin joins
    BY <1>2 DEF Reply, Typed
  <1> QED
    BY <1>1, <1>2

LEMMA NobodyIsNone == Nobody \notin Record
  BY MembershipAssumption

\* A record written again.
LEMMA RecordWritten ==
  ASSUME NEW r \in Record, NEW n \in Nat
  PROVE  /\ [r EXCEPT !.stamp = n] \in Record
         /\ [r EXCEPT !.retired = TRUE, !.stamp = n] \in Record
         /\ \A p \in 0..255 : [r EXCEPT !.priority = p, !.stamp = n] \in Record
  BY DEF Record

\* What an inbound loop is answering.
LEMMA InboundTyped ==
  ASSUME Typed, NEW h \in Hosts, NEW ps \in SUBSET Pairing
  PROVE  [inbound EXCEPT ![h] = ps] \in [Hosts -> SUBSET Pairing]
  BY DEF Typed

LEMMA InitTyped == Init => Typed
  BY DEF Init, Typed, Entries, Hosts, Workgroups, Ids, My

\* Invites and tickets
LEMMA InvitesTyped ==
  ASSUME Typed,
         \/ \E h \in Hosts, n \in Names : InviteRead(h, n)
         \/ \E h \in Hosts : InviteSave(h)
         \/ \E t \in tickets : Expire(t)
  PROVE  Typed'
  <1>1. ASSUME NEW h \in Hosts, NEW n \in Names, InviteRead(h, n)
        PROVE  Typed'
    <2>1. setup' = setup /\ UNCHANGED <<files, invites, tickets, inbound, joins, clock, edits>>
      BY <1>1 DEF InviteRead
    <2>2. PICK s \in Secrets : creating' = [creating EXCEPT ![h] =
            {[invite |-> [secret |-> s, name |-> n, used |-> FALSE], copy |-> invites[h]]}]
      BY <1>1 DEF InviteRead
    <2>3. [secret |-> s, name |-> n, used |-> FALSE] \in Invite /\ invites[h] \subseteq Invite
      BY DEF Invite, Typed
    <2>4. creating' \in [Hosts -> SUBSET [invite : Invite, copy : SUBSET Invite]]
      BY <2>2, <2>3 DEF Typed
    <2> QED
      BY <2>1, <2>4, SameSetup DEF Typed, files
  <1>2. ASSUME NEW h \in Hosts, InviteSave(h)
        PROVE  Typed'
    <2>1. setup' = setup /\ UNCHANGED <<files, inbound, joins, clock, edits>>
      BY <1>2 DEF InviteSave
    <2>2. PICK c \in creating[h] :
            /\ invites' = [invites EXCEPT ![h] = c.copy \cup {c.invite}]
            /\ tickets' = tickets \cup {[inviter |-> h, secret |-> c.invite.secret, name |-> c.invite.name]}
      BY <1>2 DEF InviteSave
    <2>3. c.invite \in Invite /\ c.copy \subseteq Invite
      BY DEF Typed
    <2>4. invites' \in [Hosts -> SUBSET Invite]
      BY <2>2, <2>3 DEF Typed
    <2>5. tickets' \subseteq Ticket
      BY <2>2, <2>3 DEF Typed, Ticket, Invite
    <2>6. creating' \in [Hosts -> SUBSET [invite : Invite, copy : SUBSET Invite]]
      BY <1>2 DEF Typed, InviteSave
    <2> QED
      BY <2>1, <2>4, <2>5, <2>6, SameSetup DEF Typed, files
  <1>3. ASSUME NEW t \in tickets, Expire(t)
        PROVE  Typed'
    <2>1. setup' = setup /\ UNCHANGED <<files, invites, tickets, creating, inbound, joins, clock, edits>>
      BY <1>3 DEF Expire
    <2> QED
      BY <2>1, SameSetup DEF Typed, files
  <1> QED
    BY <1>1, <1>2, <1>3

LEMMA CreateTyped ==
  ASSUME Typed, NEW h \in Hosts, NEW w \in Workgroups, NEW i \in Ids, Create(h, w, i)
  PROVE  Typed'
  <1>1. setup' = setup /\ UNCHANGED <<invites, tickets, creating, inbound, joins, edits>>
    BY DEF Create
  <1>2. NewRecord(FounderName, h) \in Entries
    BY NewRecordTyped DEF Entries
  <1>3. [[j \in Ids |-> Nobody] EXCEPT ![i] = NewRecord(FounderName, h)] \in [Ids -> Entries]
    BY <1>2 DEF Entries
  <1>4. ledger' \in [Hosts -> [Workgroups -> [Ids -> Entries]]]
    BY <1>3 DEF Create, Typed
  <1>5. dirs' \in [Hosts -> [Workgroups -> {"none", "dir", "named", "member"}]] /\ clock' \in Nat
    BY DEF Create, Typed
  <1> QED
    BY <1>1, <1>4, <1>5, SameSetup DEF Typed

LEMMA CreateDiesTyped ==
  ASSUME Typed, NEW h \in Hosts, NEW w \in Workgroups, CreateDies(h, w)
  PROVE  Typed'
  <1>1. setup' = setup /\ UNCHANGED <<ledger, invites, tickets, creating, inbound, joins, clock, edits>>
    BY DEF CreateDies
  <1>2. dirs' \in [Hosts -> [Workgroups -> {"none", "dir", "named", "member"}]]
    BY DEF CreateDies, Typed
  <1> QED
    BY <1>1, <1>2, SameSetup DEF Typed

LEMMA ThisDeviceKnown ==
  ASSUME NEW h, NEW w, NEW me \in ThisDevice(h, w)
  PROVE  me \in Known(h, w) /\ Readable(h, w)
  BY DEF ThisDevice, OfNode

LEMMA KnownRecord ==
  ASSUME Typed, NEW h \in Hosts, NEW w \in Workgroups, NEW i \in Known(h, w)
  PROVE  i \in Ids /\ ledger[h][w][i] \in Record
  BY DEF Known, Typed, Entries

\* The pairing the inbound loop takes up.
Request(j, w, me) ==
  [join |-> j, stage |-> "taking", copy |-> invites[j.ticket.inviter],
   wg |-> w, inviter |-> me, record |-> ledger[j.ticket.inviter][w][me]]

LEMMA AnswerCases ==
  ASSUME NEW j \in joins, Answer(j)
  PROVE  /\ setup' = setup /\ UNCHANGED <<files, invites, tickets, creating, clock, edits>> /\ joins' \subseteq joins
         /\ \/ inbound' = inbound
            \/ \E w \in Workgroups : \E me \in ThisDevice(j.ticket.inviter, w) :
                 inbound' = [inbound EXCEPT ![j.ticket.inviter] = {Request(j, w, me)}]
  <1>1. setup' = setup /\ UNCHANGED <<files, invites, tickets, creating, clock, edits>> /\ joins' \subseteq joins
    BY DEF Answer
  <1>2. CASE inbound' # inbound
    BY <1>2 DEF Answer, Request
  <1> QED
    BY <1>1, <1>2

\* Pairing, at the inviter
LEMMA AskTyped ==
  ASSUME Typed,
         \/ \E h \in Hosts, n \in Names : \E t \in tickets : JoinBegin(h, t, n)
         \/ \E j \in joins : Answer(j) \/ Rejected(j) \/ Lost(j)
         \/ \E h \in Hosts : Crash(h)
  PROVE  Typed'
  <1>1. ASSUME NEW h \in Hosts, NEW n \in Names, NEW t \in tickets, JoinBegin(h, t, n)
        PROVE  Typed'
    <2>1. setup' = setup /\ UNCHANGED <<files, invites, tickets, creating, inbound, clock, edits>>
      BY <1>1 DEF JoinBegin
    <2>2. [host |-> h, ticket |-> t, name |-> n, stage |-> "asked", answer |-> {}] \in Join
      BY DEF Join, Typed
    <2>3. joins' \subseteq Join
      BY <1>1, <2>2 DEF JoinBegin, Typed
    <2> QED
      BY <2>1, <2>3, SameSetup DEF Typed, files
  <1>2. ASSUME NEW j \in joins, Answer(j)
        PROVE  Typed'
    <2>1. setup' = setup /\ UNCHANGED <<files, invites, tickets, creating, clock, edits>> /\ joins' \subseteq joins
      BY <1>2, AnswerCases
    <2>2. j \in Join /\ j.ticket.inviter \in Hosts
      BY DEF Typed, Join, Ticket
    <2>3. ASSUME NEW w \in Workgroups, NEW me \in ThisDevice(j.ticket.inviter, w)
          PROVE  Request(j, w, me) \in Pairing
      <3>1. me \in Ids /\ ledger[j.ticket.inviter][w][me] \in Record /\ invites[j.ticket.inviter] \subseteq Invite
        BY <2>2, <2>3, ThisDeviceKnown, KnownRecord DEF Typed
      <3> QED
        BY <2>2, <3>1 DEF Request, Pairing
    <2>4. \E ps \in SUBSET Pairing, h \in Hosts : inbound' = inbound \/ inbound' = [inbound EXCEPT ![h] = ps]
      <3>1. CASE inbound' = inbound
        BY <2>2, <3>1
      <3>2. ASSUME NEW w \in Workgroups, NEW me \in ThisDevice(j.ticket.inviter, w),
                   inbound' = [inbound EXCEPT ![j.ticket.inviter] = {Request(j, w, me)}]
            PROVE  \E ps \in SUBSET Pairing, h \in Hosts : inbound' = [inbound EXCEPT ![h] = ps]
        <4>1. {Request(j, w, me)} \in SUBSET Pairing
          BY <2>3, <3>2
        <4> QED
          BY <2>2, <3>2, <4>1
      <3> QED
        BY <1>2, <3>1, <3>2, AnswerCases
    <2>5. inbound' \in [Hosts -> SUBSET Pairing]
      BY <2>4, InboundTyped DEF Typed
    <2> QED
      BY <2>1, <2>5, SameSetup DEF Typed, files
  <1>3. ASSUME NEW j \in joins, Rejected(j) \/ Lost(j)
        PROVE  Typed'
    <2>1. setup' = setup /\ UNCHANGED <<files, invites, tickets, creating, inbound, clock, edits>> /\ joins' \subseteq joins
      BY <1>3 DEF Rejected, Lost
    <2> QED
      BY <2>1, SameSetup DEF Typed, files
  <1>4. ASSUME NEW h \in Hosts, Crash(h)
        PROVE  Typed'
    <2>1. setup' = setup /\ UNCHANGED <<files, invites, tickets, clock, edits>> /\ joins' \subseteq joins
      BY <1>4 DEF Crash
    <2>2. /\ creating' \in [Hosts -> SUBSET [invite : Invite, copy : SUBSET Invite]]
          /\ inbound' \in [Hosts -> SUBSET Pairing]
      BY <1>4 DEF Crash, Typed
    <2> QED
      BY <2>1, <2>2, SameSetup DEF Typed, files
  <1> QED
    BY <1>1, <1>2, <1>3, <1>4

LEMMA TakeTyped ==
  ASSUME Typed, NEW h \in Hosts, NEW p \in inbound[h], Take(h, p)
  PROVE  Typed'
  <1>1. p \in Pairing /\ p.join \in Join /\ p.copy \subseteq Invite
    BY DEF Typed, Pairing
  <1>2. setup' = setup /\ UNCHANGED <<files, tickets, creating, clock, edits>>
    BY DEF Take
  <1>3. PICK spent : /\ spent = Spent(p.copy, p.join)
                     /\ invites' = IF spent = {} THEN invites
                          ELSE [invites EXCEPT ![h] = (p.copy \ spent) \cup {[x EXCEPT !.used = TRUE] : x \in spent}]
    BY DEF Take
  <1>4. spent \subseteq Invite
    BY <1>1, <1>3 DEF Spent
  <1>5. {[x EXCEPT !.used = TRUE] : x \in spent} \subseteq Invite
    BY <1>4 DEF Invite
  <1>6. (p.copy \ spent) \cup {[x EXCEPT !.used = TRUE] : x \in spent} \subseteq Invite
    BY <1>1, <1>5
  <1>7. invites' \in [Hosts -> SUBSET Invite]
    BY <1>3, <1>6 DEF Typed
  <1>8. [p EXCEPT !.stage = "redeemed", !.copy = {}] \in Pairing
    BY <1>1 DEF Pairing
  <1>9. inbound' \in [Hosts -> SUBSET Pairing]
    <2>1. \/ inbound' = [inbound EXCEPT ![h] = {[p EXCEPT !.stage = "redeemed", !.copy = {}]}]
          \/ inbound' = [inbound EXCEPT ![h] = {}]
      BY DEF Take
    <2> QED
      BY <1>8, <2>1, InboundTyped
  <1>10. joins' \subseteq Join
    <2>1. CASE Reply(p.join, "rejected", {})
      BY <1>1, <2>1, ReplyTyped
    <2>2. CASE UNCHANGED joins
      BY <2>2 DEF Typed
    <2> QED
      BY <2>1, <2>2 DEF Take
  <1> QED
    BY <1>2, <1>7, <1>9, <1>10, SameSetup DEF Typed, files

\* What Admit does when it adds the device.
Adds(h, p, i) ==
  /\ CanAdd(h, p.wg, p.join.name, p.join.host)
  /\ ledger' = [ledger EXCEPT ![h][p.wg][i] = NewRecord(p.join.name, p.join.host)] /\ clock' = clock + 1
  /\ Reply(p.join, "admitted", {[wg |-> p.wg, id |-> i, own |-> NewRecord(p.join.name, p.join.host),
                                 inviter |-> p.inviter, record |-> p.record]})

LEMMA AdmitCases ==
  ASSUME NEW h, NEW p, NEW i, Admit(h, p, i)
  PROVE  /\ setup' = setup /\ UNCHANGED <<dirs, invites, tickets, creating, edits>>
         /\ ~Used(i) /\ inbound' = [inbound EXCEPT ![h] = {}]
         /\ \/ Reply(p.join, "rejected", {}) /\ UNCHANGED <<ledger, clock>>
            \/ Adds(h, p, i)
  BY DEF Admit, Adds

\* The request a joiner sends.
LEMMA BeginTyped ==
  ASSUME Typed, NEW h \in Hosts, NEW n \in Names, NEW t \in tickets, JoinBegin(h, t, n)
  PROVE  \E j \in Join : joins' = joins \cup {j} /\ j.host = h /\ j.ticket = t /\ j.answer = {}
  <1> DEFINE k == [host |-> h, ticket |-> t, name |-> n, stage |-> "asked", answer |-> {}]
  <1>1. k \in Join /\ k.host = h /\ k.ticket = t /\ k.answer = {}
    BY DEF Typed, Join
  <1>2. joins' = joins \cup {k}
    BY DEF JoinBegin
  <1> QED
    BY <1>1, <1>2

LEMMA AnswerTyped ==
  ASSUME Typed, NEW h \in Hosts, NEW p \in inbound[h], NEW i \in Ids
  PROVE  /\ p.join \in Join /\ p.wg \in Workgroups /\ NewRecord(p.join.name, p.join.host) \in Record
         /\ [wg |-> p.wg, id |-> i, own |-> NewRecord(p.join.name, p.join.host),
             inviter |-> p.inviter, record |-> p.record] \in Answers
  <1>1. p \in Pairing
    BY DEF Typed
  <1>2. p.join \in Join /\ p.wg \in Workgroups /\ p.inviter \in Ids /\ p.record \in Record
    BY <1>1 DEF Pairing
  <1>3. p.join.name \in Names /\ p.join.host \in Hosts
    BY <1>2 DEF Join
  <1>4. NewRecord(p.join.name, p.join.host) \in Record
    BY <1>3, NewRecordTyped
  <1> QED
    BY <1>2, <1>4 DEF Answers

LEMMA AdmitTyped ==
  ASSUME Typed, NEW h \in Hosts, NEW p \in inbound[h], NEW i \in Ids, Admit(h, p, i)
  PROVE  Typed'
  <1>1. p.join \in Join
    BY DEF Typed, Pairing
  <1>2. setup' = setup /\ UNCHANGED <<dirs, invites, tickets, creating, edits>>
    BY AdmitCases
  <1>3. inbound' \in [Hosts -> SUBSET Pairing]
    BY AdmitCases DEF Typed
  <1>4. joins' \subseteq Join /\ clock' \in Nat /\ ledger' \in [Hosts -> [Workgroups -> [Ids -> Entries]]]
    <2>1. CASE Reply(p.join, "rejected", {}) /\ UNCHANGED <<ledger, clock>>
      <3>1. joins' \subseteq Join
        BY <1>1, <2>1, ReplyTyped
      <3> QED
        BY <2>1, <3>1 DEF Typed
    <2>2. ASSUME Adds(h, p, i)
          PROVE  joins' \subseteq Join /\ clock' \in Nat /\ ledger' \in [Hosts -> [Workgroups -> [Ids -> Entries]]]
      <3>1. joins' \subseteq Join
        BY <1>1, <2>2, AnswerTyped, ReplyTyped DEF Adds
      <3>2. clock' \in Nat /\ ledger' \in [Hosts -> [Workgroups -> [Ids -> Entries]]]
        <4>1. NewRecord(p.join.name, p.join.host) \in Entries
          BY <2>2, AnswerTyped DEF Entries
        <4>2. [ledger EXCEPT ![h][p.wg][i] = NewRecord(p.join.name, p.join.host)]
                \in [Hosts -> [Workgroups -> [Ids -> Entries]]]
          BY <4>1, AnswerTyped, LedgerTyped
        <4> QED
          BY <2>2, <4>2 DEF Adds, Typed
      <3> QED
        BY <3>1, <3>2
    <2> QED
      BY <2>1, <2>2, AdmitCases
  <1> QED
    BY <1>2, <1>3, <1>4, SameSetup DEF Typed

\* The joiner's directory
DirStep(j) == MakeDir(j) \/ NameIt(j) \/ WriteOwn(j) \/ Materialize(j) \/ MaterializeFails(j)

\* A record of the answer, written now: the joiner's own or the inviter's.
Answered(a, k, r) ==
  \/ k = a.id /\ r = [a.own EXCEPT !.stamp = clock + 1]
  \/ k = a.inviter /\ r = [a.record EXCEPT !.stamp = clock + 1]

DirMoves(j, a, d) ==
  /\ a \in Answers /\ d \in {"none", "dir", "named", "member"} /\ dirs' = [dirs EXCEPT ![j.host][a.wg] = d]
  /\ \/ /\ d = "dir" /\ clock' = clock
        /\ ledger' = [ledger EXCEPT ![j.host][a.wg] = [i \in Ids |-> Nobody]]
     \/ /\ clock' = clock + 1
        /\ \E k \in Ids, r \in Record :
             Answered(a, k, r) /\ ledger' = [ledger EXCEPT ![j.host][a.wg][k] = r]
     \/ UNCHANGED <<ledger, clock>>

LEMMA WrittenTyped ==
  ASSUME Typed, NEW a \in Answers
  PROVE  /\ a.wg \in Workgroups /\ a.id \in Ids /\ a.inviter \in Ids
         /\ [a.own EXCEPT !.stamp = clock + 1] \in Record /\ [a.record EXCEPT !.stamp = clock + 1] \in Record
  <1>1. a.own \in Record /\ a.record \in Record /\ clock + 1 \in Nat /\ a.wg \in Workgroups /\ a.id \in Ids /\ a.inviter \in Ids
    BY DEF Answers, Typed
  <1> QED
    BY <1>1, RecordWritten

\* What a step of the joiner does with its directory of the workgroup it was admitted to.
LEMMA DirCases ==
  ASSUME Typed, NEW j \in joins, DirStep(j)
  PROVE  /\ setup' = setup /\ UNCHANGED <<invites, tickets, creating, inbound, edits>>
         /\ j \in Join /\ j.host \in Hosts /\ joins' \subseteq Join
         /\ \E a \in j.answer, d \in {"none", "dir", "named", "member"} : DirMoves(j, a, d)
         /\ \/ joins' = joins \ {j}
            \/ \E k \in Join : /\ k.host = j.host /\ k.ticket = j.ticket /\ k.answer = j.answer
                               /\ joins' = (joins \ {j}) \cup {k}
  <1>1. j \in Join /\ j.host \in Hosts /\ j.answer \subseteq Answers
    BY DEF Typed, Join
  <1>2. setup' = setup /\ UNCHANGED <<invites, tickets, creating, inbound, edits>>
    BY DEF DirStep, MakeDir, NameIt, WriteOwn, Materialize, MaterializeFails
  <1>3. /\ joins' \subseteq Join
        /\ \/ joins' = joins \ {j}
           \/ \E k \in Join : /\ k.host = j.host /\ k.ticket = j.ticket /\ k.answer = j.answer
                              /\ joins' = (joins \ {j}) \cup {k}
    <2>1. CASE \E stage \in {"dir", "named", "own"} : joins' = Replace(j, stage, j.answer)
      BY <1>1, <2>1, ReplaceTyped
    <2>2. CASE joins' = joins \ {j}
      BY <2>2 DEF Typed
    <2> QED
      BY <2>1, <2>2 DEF DirStep, MakeDir, NameIt, WriteOwn, Materialize, MaterializeFails
  <1>4. \E a \in j.answer, d \in {"none", "dir", "named", "member"} : DirMoves(j, a, d)
    <2>1. CASE MakeDir(j)
      BY <1>1, <2>1 DEF MakeDir, DirMoves
    <2>2. CASE NameIt(j) \/ MaterializeFails(j)
      <3>1. PICK a \in j.answer, d \in {"none", "named"} :
              dirs' = [dirs EXCEPT ![j.host][a.wg] = d] /\ UNCHANGED <<ledger, clock>>
        BY <2>2 DEF NameIt, MaterializeFails
      <3>2. DirMoves(j, a, d)
        BY <1>1, <3>1 DEF DirMoves
      <3> QED
        BY <3>2
    <2>3. CASE WriteOwn(j)
      <3>1. PICK a \in j.answer : ledger' = [ledger EXCEPT ![j.host][a.wg][a.id] = [a.own EXCEPT !.stamp = clock + 1]]
        BY <2>3 DEF WriteOwn
      <3>2. a \in Answers /\ dirs' = dirs /\ clock' = clock + 1
        BY <1>1, <2>3 DEF WriteOwn
      <3>3. a.wg \in Workgroups /\ a.id \in Ids /\ [a.own EXCEPT !.stamp = clock + 1] \in Record
        BY <3>2, WrittenTyped
      <3>4. PICK d \in {"none", "dir", "named", "member"} : d = dirs[j.host][a.wg]
        BY <1>1, <3>3 DEF Typed
      <3>5. dirs' = [dirs EXCEPT ![j.host][a.wg] = d]
        BY <1>1, <3>2, <3>3, <3>4 DEF Typed
      <3>6. DirMoves(j, a, d)
        BY <3>1, <3>2, <3>3, <3>5 DEF DirMoves, Answered
      <3> QED
        BY <3>6
    <2>4. CASE Materialize(j)
      <3>1. PICK a \in j.answer :
              /\ dirs' = [dirs EXCEPT ![j.host][a.wg] = "member"]
              /\ ledger' = [ledger EXCEPT ![j.host][a.wg][a.inviter] = [a.record EXCEPT !.stamp = clock + 1]]
        BY <2>4 DEF Materialize
      <3>2. a \in Answers /\ clock' = clock + 1
        BY <1>1, <2>4 DEF Materialize
      <3>3. a.inviter \in Ids /\ [a.record EXCEPT !.stamp = clock + 1] \in Record
        BY <3>2, WrittenTyped
      <3>4. DirMoves(j, a, "member")
        BY <3>1, <3>2, <3>3 DEF DirMoves, Answered
      <3> QED
        BY <3>4
    <2> QED
      BY <2>1, <2>2, <2>3, <2>4 DEF DirStep
  <1> QED
    BY <1>1, <1>2, <1>3, <1>4

LEMMA DirTyped ==
  ASSUME Typed, NEW j \in joins, DirStep(j)
  PROVE  Typed'
  <1>1. PICK a \in j.answer, d \in {"none", "dir", "named", "member"} : DirMoves(j, a, d)
    BY DirCases
  <1>2. a.wg \in Workgroups /\ j.host \in Hosts /\ a \in Answers
    BY <1>1, DirCases DEF Answers, DirMoves
  <1>3. dirs' \in [Hosts -> [Workgroups -> {"none", "dir", "named", "member"}]]
    BY <1>1, <1>2 DEF DirMoves, Typed
  <1>4. ledger' \in [Hosts -> [Workgroups -> [Ids -> Entries]]] /\ clock' \in Nat
    <2>1. CASE ledger' = [ledger EXCEPT ![j.host][a.wg] = [i \in Ids |-> Nobody]]
      <3>1. [i \in Ids |-> Nobody] \in [Ids -> Entries]
        BY DEF Entries
      <3> QED
        BY <1>1, <1>2, <2>1, <3>1 DEF DirMoves, Typed
    <2>2. ASSUME NEW k \in Ids, NEW r \in Record, ledger' = [ledger EXCEPT ![j.host][a.wg][k] = r]
          PROVE  ledger' \in [Hosts -> [Workgroups -> [Ids -> Entries]]] /\ clock' \in Nat
      <3>1. r \in Entries
        BY DEF Entries
      <3>2. clock' \in Nat
        BY <1>1 DEF DirMoves, Typed
      <3> QED
        BY <1>2, <2>2, <3>1, <3>2, LedgerTyped
    <2>3. CASE UNCHANGED <<ledger, clock>>
      BY <2>3 DEF Typed
    <2> QED
      BY <1>1, <2>1, <2>2, <2>3 DEF DirMoves
  <1>5. setup' = setup /\ UNCHANGED <<invites, tickets, creating, inbound, edits>> /\ joins' \subseteq Join
    BY DirCases
  <1> QED
    BY <1>3, <1>4, <1>5, SameSetup DEF Typed

\* Edits and sessions
LEMMA EditTyped ==
  ASSUME Typed, NEW h \in Hosts, NEW w \in Workgroups, NEW i \in Ids,
         Retire(h, w, i) \/ \E p \in My.priorities : SetPriority(h, w, i, p)
  PROVE  /\ Typed' /\ i \in Known(h, w) /\ MayEdit /\ edits' = edits + 1 /\ clock' = clock + 1 /\ setup' = setup
         /\ UNCHANGED <<dirs, invites, tickets, creating, inbound, joins>>
         /\ \E r \in Record : /\ ledger' = [ledger EXCEPT ![h][w][i] = r]
                              /\ r.name = ledger[h][w][i].name /\ r.stamp = clock + 1
                              /\ Retire(h, w, i) => r.retired
                              /\ ~Retire(h, w, i) => My.priorities # {} /\ ~r.retired /\ ~ledger[h][w][i].retired
  <1>1. i \in Known(h, w) /\ MayEdit
    BY DEF Retire, SetPriority
  <1>2. ledger[h][w][i] \in Record /\ clock \in Nat /\ edits \in Nat /\ clock + 1 \in Nat
    BY <1>1, KnownRecord DEF Typed
  <1> DEFINE Written(r) ==
        /\ Edit(h, w, i, r) /\ r.name = ledger[h][w][i].name /\ r.stamp = clock + 1
        /\ Retire(h, w, i) => r.retired
        /\ ~Retire(h, w, i) => My.priorities # {} /\ ~r.retired /\ ~ledger[h][w][i].retired
  <1>3. \E r \in Record : Written(r)
    <2>1. CASE Retire(h, w, i)
      <3>1. PICK r \in Record : r = [ledger[h][w][i] EXCEPT !.retired = TRUE, !.stamp = clock + 1]
        BY <1>2, RecordWritten
      <3>2. r.name = ledger[h][w][i].name /\ r.stamp = clock + 1 /\ r.retired
        BY <1>2, <3>1 DEF Record
      <3> QED
        BY <2>1, <3>1, <3>2 DEF Retire
    <2>2. ASSUME NEW p \in My.priorities, SetPriority(h, w, i, p), ~Retire(h, w, i)
          PROVE  \E r \in Record : Written(r)
      <3>1. p \in 0..255
        BY Bounds
      <3>2. PICK r \in Record : r = [ledger[h][w][i] EXCEPT !.priority = p, !.stamp = clock + 1]
        BY <1>2, <3>1, RecordWritten
      <3>3. r.name = ledger[h][w][i].name /\ r.stamp = clock + 1 /\ r.retired = ledger[h][w][i].retired
        BY <1>2, <3>2 DEF Record
      <3> QED
        BY <2>2, <3>2, <3>3 DEF SetPriority
    <2> QED
      BY <2>1, <2>2
  <1>4. PICK r \in Record : Written(r)
    BY <1>3
  <1>5. /\ setup' = setup /\ UNCHANGED <<dirs, invites, tickets, creating, inbound, joins>>
        /\ edits' = edits + 1 /\ clock' = clock + 1 /\ ledger' = [ledger EXCEPT ![h][w][i] = r]
    BY <1>4 DEF Edit
  <1>6. ledger' \in [Hosts -> [Workgroups -> [Ids -> Entries]]]
    BY <1>5, LedgerTyped DEF Entries
  <1>7. Typed'
    BY <1>2, <1>5, <1>6, SameSetup DEF Typed
  <1> QED
    BY <1>1, <1>4, <1>5, <1>7

\* What either end of a session has afterwards.
LEMMA SessionGives ==
  ASSUME Typed, NEW a \in Hosts, NEW b \in Hosts, NEW w \in Workgroups, Session(a, b, w)
  PROVE  /\ setup' = setup /\ UNCHANGED <<dirs, invites, tickets, creating, inbound, joins, clock, edits>>
         /\ Known(a, w) # {} /\ dirs[b][w] = "member" /\ Typed'
         /\ \A h \in Hosts, v \in Workgroups, i \in Ids :
              \/ ledger'[h][v][i] = ledger[h][v][i]
              \/ /\ v = w /\ h \in {a, b}
                 /\ \E g \in {a, b} : /\ i \in Known(g, w) /\ ledger'[h][v][i] = ledger[g][w][i]
                                      /\ i \in Known(h, w) => ledger[h][w][i].stamp <= ledger[g][w][i].stamp
  <1>1. /\ setup' = setup /\ UNCHANGED <<dirs, invites, tickets, creating, inbound, joins, clock, edits>>
        /\ Known(a, w) # {} /\ dirs[b][w] = "member" /\ a # b
    BY ThisDeviceKnown DEF Session, Dials
  <1> DEFINE one == [i \in Ids |-> Later(ledger[a][w][i], ledger[b][w][i])]
             other == [i \in Ids |-> Later(ledger[b][w][i], ledger[a][w][i])]
  <1>2. ledger' = [ledger EXCEPT ![a][w] = one, ![b][w] = other]
    BY DEF Session
  <1>3. \A m, t \in Entries :
          \/ Later(m, t) = m
          \/ t \in Record /\ Later(m, t) = t /\ (m # Nobody => m.stamp <= t.stamp)
    BY DEF Later, Entries, Record
  <1>4. \A i \in Ids : ledger[a][w][i] \in Entries /\ ledger[b][w][i] \in Entries
    BY DEF Typed
  <1>5. one \in [Ids -> Entries] /\ other \in [Ids -> Entries]
    BY <1>3, <1>4 DEF Entries
  <1>6. \A i \in Ids : /\ one[i] = Later(ledger[a][w][i], ledger[b][w][i])
                       /\ other[i] = Later(ledger[b][w][i], ledger[a][w][i])
    OBVIOUS
  <1>7. ledger' \in [Hosts -> [Workgroups -> [Ids -> Entries]]]
    <2> HIDE DEF one, other
    <2> QED
      BY <1>2, <1>5 DEF Typed
  <1>8. /\ ledger'[a][w] = one /\ ledger'[b][w] = other
        /\ \A h \in Hosts, v \in Workgroups : h \notin {a, b} \/ v # w => ledger'[h][v] = ledger[h][v]
    <2> HIDE DEF one, other
    <2> QED
      BY <1>1, <1>2 DEF Typed
  <1>9. ASSUME NEW i \in Ids
        PROVE  /\ \/ one[i] = ledger[a][w][i]
                  \/ /\ i \in Known(b, w) /\ one[i] = ledger[b][w][i]
                     /\ i \in Known(a, w) => ledger[a][w][i].stamp <= ledger[b][w][i].stamp
               /\ \/ other[i] = ledger[b][w][i]
                  \/ /\ i \in Known(a, w) /\ other[i] = ledger[a][w][i]
                     /\ i \in Known(b, w) => ledger[b][w][i].stamp <= ledger[a][w][i].stamp
    <2> HIDE DEF one, other
    <2> QED
      BY <1>3, <1>4, <1>6, NobodyIsNone DEF Known, Entries
  <1>10. \A h \in Hosts, v \in Workgroups, i \in Ids :
              \/ ledger'[h][v][i] = ledger[h][v][i]
              \/ /\ v = w /\ h \in {a, b}
                 /\ \E g \in {a, b} : /\ i \in Known(g, w) /\ ledger'[h][v][i] = ledger[g][w][i]
                                      /\ i \in Known(h, w) => ledger[h][w][i].stamp <= ledger[g][w][i].stamp
    <2> HIDE DEF one, other
    <2> QED
      BY <1>8, <1>9
  <1>11. Typed'
    BY <1>1, <1>7, SameSetup DEF Typed
  <1> QED
    BY <1>1, <1>10, <1>11

\* The actions, grouped by what they may change.
Asks ==
  \/ \E h \in Hosts, n \in Names : InviteRead(h, n)
  \/ \E h \in Hosts : InviteSave(h)
  \/ \E t \in tickets : Expire(t)
  \/ \E h \in Hosts, n \in Names : \E t \in tickets : JoinBegin(h, t, n)
  \/ \E j \in joins : Answer(j) \/ Rejected(j) \/ Lost(j)
  \/ \E h \in Hosts : Crash(h)

Edits == \E h \in Hosts, w \in Workgroups, i \in Ids :
           Retire(h, w, i) \/ \E p \in My.priorities : SetPriority(h, w, i, p)

LEMMA NextCases ==
  ASSUME Next
  PROVE  \/ Asks
         \/ \E h \in Hosts, w \in Workgroups : CreateDies(h, w)
         \/ \E h \in Hosts, w \in Workgroups, i \in Ids : Create(h, w, i)
         \/ \E h \in Hosts : \E p \in inbound[h] : Take(h, p)
         \/ \E h \in Hosts : \E p \in inbound[h] : \E i \in Ids : Admit(h, p, i)
         \/ \E j \in joins : DirStep(j)
         \/ Edits
         \/ \E a, b \in Hosts, w \in Workgroups : Session(a, b, w)
  BY DEF Next, Asks, Edits, DirStep, Inbound, JoinSteps, JoinStep, Sessions

LEMMA StepTyped == Typed /\ [Next]_vars => Typed'
  <1>1. ASSUME Typed, Next
        PROVE  Typed'
    <2>1. CASE Asks
      BY <1>1, <2>1, InvitesTyped, AskTyped DEF Asks
    <2>2. ASSUME NEW h \in Hosts, NEW p \in inbound[h], Take(h, p)
          PROVE  Typed'
      BY <1>1, <2>2, TakeTyped
    <2>3. ASSUME NEW h \in Hosts, NEW p \in inbound[h], NEW i \in Ids, Admit(h, p, i)
          PROVE  Typed'
      BY <1>1, <2>3, AdmitTyped
    <2> QED
      BY <1>1, <2>1, <2>2, <2>3, NextCases, CreateTyped, CreateDiesTyped, DirTyped, EditTyped, SessionGives DEF Edits
  <1>2. Typed /\ UNCHANGED vars => Typed'
    BY SameSetup DEF Typed, vars
  <1> QED
    BY <1>1, <1>2

-----------------------------------------------------------------------------
(* LedgerReadable *)

LEMMA TheInviter ==
  ASSUME OneInviter, Typed, NEW b \in My.inviters, NEW c \in My.inviters
  PROVE  b = c
  BY DEF OneInviter, Typed, My

LEMMA InitNames == Init => NamesInv
  <1> SUFFICES ASSUME Init PROVE NamesInv
    OBVIOUS
  <1>1. /\ dirs = [h \in Hosts |-> [w \in Workgroups |-> "none"]]
        /\ ledger = [h \in Hosts |-> [w \in Workgroups |-> [i \in Ids |-> Nobody]]]
        /\ tickets = {} /\ joins = {} /\ creating = [h \in Hosts |-> {}] /\ inbound = [h \in Hosts |-> {}]
        /\ My.inviters \subseteq Hosts
    BY InitTyped, Bounds DEF Init
  <1>2. \A h \in Hosts, w \in Workgroups : Known(h, w) = {}
    BY <1>1 DEF Known
  <1> QED
    BY <1>1, <1>2 DEF NamesInv, Inviting, Founded, Serves, OneName, InviterKnows, AnswersKnown, PairingsKnown

\* No name comes up that was not in some ledger, and an inviter's ledger keeps its own.
NoNewName ==
  /\ \A b \in My.inviters, w \in Workgroups :
       /\ dirs'[b][w] = "member" <=> dirs[b][w] = "member"
       /\ \A i \in Known(b, w) : i \in Known(b, w)' /\ ledger'[b][w][i].name = ledger[b][w][i].name
  /\ \A h \in Hosts, w \in Workgroups : \A i \in Known(h, w)' :
       \E g \in Hosts : i \in Known(g, w) /\ ledger'[h][w][i].name = ledger[g][w][i].name

\* What inbound loops answer is true of the ledgers as they were.
StillSound == \A h \in Hosts : \A p \in inbound'[h] : h \in My.inviters /\ p.wg \in Workgroups /\ Sound(h, p)

LEMMA InboundSound ==
  ASSUME Typed, NamesInv,
         \A h \in Hosts : \A p \in inbound'[h] : \E q \in inbound[h] :
           p.wg = q.wg /\ p.inviter = q.inviter /\ p.record = q.record
  PROVE  StillSound
  <1> SUFFICES ASSUME NEW h \in Hosts, NEW p \in inbound'[h]
               PROVE  h \in My.inviters /\ p.wg \in Workgroups /\ Sound(h, p)
    BY DEF StillSound
  <1>1. PICK q \in inbound[h] : p.wg = q.wg /\ p.inviter = q.inviter /\ p.record = q.record
    OBVIOUS
  <1>2. q \in Pairing /\ h \in My.inviters /\ Sound(h, q)
    BY DEF Typed, NamesInv, Inviting, PairingsKnown
  <1> QED
    BY <1>1, <1>2 DEF Pairing, Sound

LEMMA NamesKept ==
  ASSUME Typed, NamesInv, setup' = setup, NoNewName, StillSound,
         \A k \in joins' : k.answer = {} \/ \E j \in joins : k.answer = j.answer
  PROVE  /\ OneName' /\ InviterKnows' /\ AnswersKnown' /\ PairingsKnown'
         /\ \A w \in Workgroups : Serves(w)' = Serves(w)
  <1>1. OneName'
    BY SameSetup DEF NamesInv, OneName, NoNewName
  <1>2. InviterKnows'
    BY SameSetup DEF NamesInv, InviterKnows, NoNewName
  <1>3. \A j \in joins : \A a \in j.answer : a.wg \in Workgroups
    BY DEF Typed, Join, Answers
  <1>4. AnswersKnown'
    <2> SUFFICES ASSUME NEW j \in joins, NEW a \in j.answer
                 PROVE  \E b \in My.inviters :
                          /\ dirs'[b][a.wg] = "member" /\ {a.id, a.inviter} \subseteq Known(b, a.wg)'
                          /\ a.own.name = ledger'[b][a.wg][a.id].name
                          /\ a.record.name = ledger'[b][a.wg][a.inviter].name
      BY SameSetup DEF AnswersKnown
    <2>1. a.wg \in Workgroups
      BY <1>3
    <2>2. PICK b \in My.inviters :
            /\ dirs[b][a.wg] = "member" /\ {a.id, a.inviter} \subseteq Known(b, a.wg)
            /\ a.own.name = ledger[b][a.wg][a.id].name /\ a.record.name = ledger[b][a.wg][a.inviter].name
      BY DEF NamesInv, AnswersKnown
    <2>3. /\ dirs'[b][a.wg] = "member" <=> dirs[b][a.wg] = "member"
          /\ \A i \in Known(b, a.wg) : i \in Known(b, a.wg)' /\ ledger'[b][a.wg][i].name = ledger[b][a.wg][i].name
      BY <2>1 DEF NoNewName
    <2> QED
      BY <2>2, <2>3
  <1>5. \A w \in Workgroups : Serves(w)' = Serves(w)
    BY SameSetup DEF Serves, NoNewName
  <1>6. PairingsKnown'
    <2> SUFFICES ASSUME NEW h \in Hosts, NEW p \in inbound'[h]
                 PROVE  /\ dirs'[h][p.wg] = "member" /\ p.inviter \in Known(h, p.wg)'
                        /\ p.record.name = ledger'[h][p.wg][p.inviter].name
      BY SameSetup DEF PairingsKnown, Sound
    <2>1. /\ h \in My.inviters /\ p.wg \in Workgroups
          /\ dirs[h][p.wg] = "member" /\ p.inviter \in Known(h, p.wg)
          /\ p.record.name = ledger[h][p.wg][p.inviter].name
      BY DEF StillSound, Sound
    <2> QED
      BY <2>1 DEF NoNewName
  <1> QED
    BY <1>1, <1>2, <1>4, <1>5, <1>6

\* Directories and ledgers stay as they are.
LEMMA FilesKept ==
  ASSUME Typed, NamesInv, setup' = setup, UNCHANGED files, Inviting', StillSound,
         \A k \in joins' : k.answer = {} \/ \E j \in joins : k.answer = j.answer
  PROVE  NamesInv'
  <1>1. \A h \in Hosts, w \in Workgroups : Known(h, w)' = Known(h, w)
    BY SameSetup DEF Known, files
  <1>2. NoNewName
    BY <1>1, Bounds DEF NoNewName, files
  <1>3. Founded'
    BY <1>1, <1>2, NamesKept, SameSetup DEF NamesInv, Founded, files
  <1> QED
    BY <1>2, <1>3, NamesKept DEF NamesInv

LEMMA AsksNames ==
  ASSUME OneInviter, Typed, NamesInv, Asks
  PROVE  NamesInv'
  <1>1. ASSUME NEW h \in Hosts, NEW n \in Names, InviteRead(h, n)
        PROVE  NamesInv'
    <2>1. setup' = setup /\ UNCHANGED <<files, tickets, inbound, joins>> /\ h \in My.inviters
          /\ \A g \in Hosts : g # h => creating'[g] = creating[g]
      BY <1>1 DEF InviteRead, Typed
    <2>2. Inviting'
      BY <2>1, SameSetup DEF NamesInv, Inviting, files
    <2> QED
      BY <2>1, <2>2, InboundSound, FilesKept
  <1>2. ASSUME NEW h \in Hosts, InviteSave(h)
        PROVE  NamesInv'
    <2>1. setup' = setup /\ UNCHANGED <<files, inbound, joins>> /\ h \in My.inviters
          /\ \A g \in Hosts : creating'[g] \subseteq creating[g]
      BY <1>2 DEF InviteSave, Typed, NamesInv, Inviting
    <2>2. \A t \in tickets' : t \in tickets \/ t.inviter = h
      BY <1>2 DEF InviteSave
    <2>3. Inviting'
      BY <2>1, <2>2, SameSetup DEF NamesInv, Inviting, files
    <2> QED
      BY <2>1, <2>3, InboundSound, FilesKept
  <1>3. ASSUME NEW t \in tickets, Expire(t)
        PROVE  NamesInv'
    <2>1. setup' = setup /\ UNCHANGED <<files, tickets, creating, inbound, joins>>
      BY <1>3 DEF Expire
    <2>2. Inviting'
      BY <2>1, SameSetup DEF NamesInv, Inviting, files
    <2> QED
      BY <2>1, <2>2, InboundSound, FilesKept
  <1>4. ASSUME NEW h \in Hosts, NEW n \in Names, NEW t \in tickets, JoinBegin(h, t, n)
        PROVE  NamesInv'
    <2>1. setup' = setup /\ UNCHANGED <<files, tickets, creating, inbound>> /\ h # t.inviter
      BY <1>4 DEF JoinBegin
    <2>2. PICK j \in Join : joins' = joins \cup {j} /\ j.host = h /\ j.ticket = t /\ j.answer = {}
      BY <1>4, BeginTyped
    <2>3. t.inviter \in My.inviters /\ h \notin My.inviters
      BY <2>1, TheInviter DEF NamesInv, Inviting
    <2>4. Inviting'
      BY <2>1, <2>2, <2>3, SameSetup DEF NamesInv, Inviting, files
    <2> QED
      BY <2>1, <2>2, <2>4, InboundSound, FilesKept
  <1>5. ASSUME NEW j \in joins, Answer(j)
        PROVE  NamesInv'
    <2> DEFINE h == j.ticket.inviter
    <2>1. setup' = setup /\ UNCHANGED <<files, tickets, creating>> /\ joins' \subseteq joins
      BY <1>5, AnswerCases
    <2>2. h \in My.inviters /\ h \in Hosts
      BY Bounds DEF NamesInv, Inviting
    <2>3. CASE inbound' = inbound
      <3>1. Inviting'
        BY <2>1, <2>3, SameSetup DEF NamesInv, Inviting
      <3> QED
        BY <2>1, <2>3, <3>1, InboundSound, FilesKept
    <2>4. ASSUME NEW w \in Workgroups, NEW me \in ThisDevice(h, w), inbound' = [inbound EXCEPT ![h] = {Request(j, w, me)}]
          PROVE  NamesInv'
      <3>1. me \in Known(h, w) /\ dirs[h][w] = "member"
        BY <2>2, ThisDeviceKnown, TheInviter DEF NamesInv, Founded, Serves
      <3>2. Sound(h, Request(j, w, me)) /\ Request(j, w, me).wg = w
        BY <3>1 DEF Sound, Request
      <3>3. \A g \in Hosts : inbound'[g] = IF g = h THEN {Request(j, w, me)} ELSE inbound[g]
        BY <2>4 DEF Typed
      <3>4. StillSound
        <4>1. SUFFICES ASSUME NEW g \in Hosts, NEW p \in inbound'[g]
                       PROVE  g \in My.inviters /\ p.wg \in Workgroups /\ Sound(g, p)
          BY DEF StillSound
        <4>2. CASE g = h
          BY <2>2, <3>2, <3>3, <4>2
        <4>3. CASE g # h
          <5>1. p \in inbound[g] /\ p \in Pairing
            BY <3>3, <4>3 DEF Typed
          <5> QED
            BY <5>1 DEF Pairing, NamesInv, Inviting, PairingsKnown
        <4> QED
          BY <4>2, <4>3
      <3>5. Inviting'
        BY <2>1, <2>2, <3>3, SameSetup DEF NamesInv, Inviting
      <3> QED
        BY <2>1, <3>4, <3>5, FilesKept
    <2> QED
      BY <1>5, <2>3, <2>4, AnswerCases
  <1>6. ASSUME NEW j \in joins, Rejected(j) \/ Lost(j)
        PROVE  NamesInv'
    <2>1. setup' = setup /\ UNCHANGED <<files, tickets, creating, inbound>> /\ joins' \subseteq joins
      BY <1>6 DEF Rejected, Lost
    <2>2. Inviting'
      BY <2>1, SameSetup DEF NamesInv, Inviting, files
    <2> QED
      BY <2>1, <2>2, InboundSound, FilesKept
  <1>7. ASSUME NEW h \in Hosts, Crash(h)
        PROVE  NamesInv'
    <2>1. setup' = setup /\ UNCHANGED <<files, tickets>> /\ joins' \subseteq joins
          /\ \A g \in Hosts : creating'[g] \subseteq creating[g] /\ inbound'[g] \subseteq inbound[g]
      BY <1>7 DEF Crash, Typed
    <2>2. Inviting'
      BY <2>1, SameSetup DEF NamesInv, Inviting, files
    <2> QED
      BY <2>1, <2>2, InboundSound, FilesKept
  <1> QED
    BY <1>1, <1>2, <1>3, <1>4, <1>5, <1>6, <1>7 DEF Asks

\* A call gets its answer, or is gone.
LEMMA RepliedJoins ==
  ASSUME Typed, Inviting, NEW j \in Join, NEW stage \in {"rejected", "admitted"},
         NEW answer \in SUBSET Answers, Reply(j, stage, answer)
  PROVE  /\ \A k \in joins' : k \in joins \/ (k.answer = answer /\ \E o \in joins : k.host = o.host /\ k.ticket = o.ticket)
         /\ \A k \in joins' : k.ticket.inviter \in My.inviters /\ k.host \notin My.inviters
  <1>1. \A k \in joins' : k \in joins \/ (k.answer = answer /\ \E o \in joins : k.host = o.host /\ k.ticket = o.ticket)
    BY ReplyTyped
  <1> QED
    BY <1>1 DEF Inviting

LEMMA TakeNames ==
  ASSUME Typed, NamesInv, NEW h \in Hosts, NEW p \in inbound[h], Take(h, p)
  PROVE  NamesInv'
  <1>1. setup' = setup /\ UNCHANGED <<files, tickets, creating>>
    BY DEF Take
  <1>2. \A g \in Hosts : inbound'[g] = inbound[g] \/ g = h
    BY DEF Take, Typed
  <1>3. h \in My.inviters
    BY DEF NamesInv, Inviting
  <1>4. p.join \in Join
    BY DEF Typed, Pairing
  <1>5. /\ \A k \in joins' : k.answer = {} \/ k \in joins
        /\ \A k \in joins' : k.ticket.inviter \in My.inviters /\ k.host \notin My.inviters
    <2>1. CASE Reply(p.join, "rejected", {})
      BY <1>4, <2>1, RepliedJoins DEF NamesInv
    <2>2. CASE UNCHANGED joins
      BY <2>2 DEF NamesInv, Inviting
    <2> QED
      BY <2>1, <2>2 DEF Take
  <1>6. Inviting'
    BY <1>1, <1>2, <1>3, <1>5, SameSetup DEF NamesInv, Inviting, files
  <1>7. StillSound
    <2>1. \/ inbound' = [inbound EXCEPT ![h] = {[p EXCEPT !.stage = "redeemed", !.copy = {}]}]
          \/ inbound' = [inbound EXCEPT ![h] = {}]
      BY DEF Take
    <2> DEFINE q == [p EXCEPT !.stage = "redeemed", !.copy = {}]
    <2>2. p.wg = q.wg /\ p.inviter = q.inviter /\ p.record = q.record
      <3>1. p \in Pairing
        BY DEF Typed
      <3> QED
        BY <3>1 DEF Pairing
    <2>3. \A g \in Hosts : \A x \in inbound'[g] : x \in inbound[g] \/ (g = h /\ x = q)
      <3> HIDE DEF q
      <3> QED
        BY <2>1 DEF Typed, q
    <2> HIDE DEF q
    <2> QED
      BY <2>2, <2>3, InboundSound
  <1> QED
    BY <1>1, <1>5, <1>6, <1>7, FilesKept

LEMMA CreateDiesNames ==
  ASSUME Typed, NamesInv, NEW h \in Hosts, NEW w \in Workgroups, CreateDies(h, w)
  PROVE  NamesInv'
  <1>1. /\ setup' = setup /\ UNCHANGED <<ledger, tickets, creating, inbound, joins>>
        /\ \A x \in Hosts : dirs[x][w] = "none" /\ Known(x, w) = {}
    BY DEF CreateDies, MayCreate
  <1>2. PICK half \in {"dir", "named"} : dirs' = [dirs EXCEPT ![h][w] = half]
    BY DEF CreateDies
  <1>3. \A x \in Hosts, v \in Workgroups : dirs'[x][v] = IF x = h /\ v = w THEN half ELSE dirs[x][v]
    BY <1>2 DEF Typed
  <1>4. \A x \in Hosts, v \in Workgroups : Known(x, v)' = Known(x, v)
    BY <1>1, SameSetup DEF Known
  <1>5. NoNewName
    BY <1>1, <1>3, <1>4, Bounds DEF NoNewName
  <1>6. /\ OneName' /\ InviterKnows' /\ AnswersKnown' /\ PairingsKnown'
        /\ \A v \in Workgroups : Serves(v)' = Serves(v)
    BY <1>1, <1>5, InboundSound, NamesKept
  <1>7. Founded'
    BY <1>1, <1>3, <1>4, <1>6, SameSetup DEF NamesInv, Founded
  <1>8. Inviting'
    BY <1>1, SameSetup DEF NamesInv, Inviting
  <1> QED
    BY <1>6, <1>7, <1>8 DEF NamesInv

LEMMA CreateNames ==
  ASSUME Typed, NamesInv, NEW h \in Hosts, NEW w \in Workgroups, NEW i \in Ids, Create(h, w, i)
  PROVE  NamesInv'
  <1>1. setup' = setup /\ UNCHANGED <<tickets, creating, inbound, joins>>
        /\ \A x \in Hosts : dirs[x][w] = "none"
    BY DEF Create, MayCreate
  <1>2. ~Serves(w) /\ \A x \in Hosts : Known(x, w) = {}
    BY <1>1, Bounds DEF Create, MayCreate, Serves
  <1>3. \A x \in Hosts, v \in Workgroups :
          IF x = h /\ v = w THEN dirs'[x][v] = "member" ELSE dirs'[x][v] = dirs[x][v] /\ ledger'[x][v] = ledger[x][v]
    BY DEF Create, Typed
  <1>4. Known(h, w)' \subseteq {i}
    <2>1. ledger'[h][w] = [[j \in Ids |-> Nobody] EXCEPT ![i] = NewRecord(FounderName, h)]
      BY DEF Create, Typed
    <2> QED
      BY <1>1, <2>1, SameSetup DEF Known
  <1>5. \A x \in Hosts, v \in Workgroups : x # h \/ v # w => Known(x, v)' = Known(x, v)
    BY <1>1, <1>3, SameSetup DEF Known
  <1>6. Inviting'
    BY <1>1, <1>3, Bounds, SameSetup DEF NamesInv, Inviting
  <1>7. \A v \in Workgroups : Serves(v) => v # w /\ Serves(v)'
    BY <1>1, <1>2, <1>3, Bounds, SameSetup DEF Serves
  <1>8. Founded'
    BY <1>1, <1>2, <1>3, <1>5, <1>7, SameSetup DEF NamesInv, Founded
  <1>9. OneName'
    <2>1. SUFFICES ASSUME NEW v \in Workgroups, NEW g \in Hosts, NEW x \in Hosts,
                          NEW k \in Known(g, v)', NEW l \in Known(x, v)'
                   PROVE  (k = l) <=> (ledger'[g][v][k].name = ledger'[x][v][l].name)
      BY <1>1, SameSetup DEF OneName
    <2>2. CASE v = w
      BY <1>2, <1>4, <1>5, <2>2
    <2>3. CASE v # w
      BY <1>3, <1>5, <2>3 DEF NamesInv, OneName
    <2> QED
      BY <2>2, <2>3
  <1>10. InviterKnows'
    <2>1. SUFFICES ASSUME NEW b \in My.inviters, NEW v \in Workgroups, dirs'[b][v] = "member", NEW x \in Hosts
                   PROVE  Known(x, v)' \subseteq Known(b, v)'
      BY <1>1, SameSetup DEF InviterKnows
    <2>2. CASE v = w
      BY <1>1, <1>2, <1>3, <1>5, <2>1, <2>2, Bounds
    <2>3. CASE v # w
      BY <1>3, <1>5, <2>1, <2>3, Bounds DEF NamesInv, InviterKnows
    <2> QED
      BY <2>2, <2>3
  <1>11. AnswersKnown'
    <2>1. SUFFICES ASSUME NEW j \in joins, NEW a \in j.answer
                   PROVE  \E b \in My.inviters :
                            /\ dirs'[b][a.wg] = "member" /\ {a.id, a.inviter} \subseteq Known(b, a.wg)'
                            /\ a.own.name = ledger'[b][a.wg][a.id].name
                            /\ a.record.name = ledger'[b][a.wg][a.inviter].name
      BY <1>1, SameSetup DEF AnswersKnown
    <2>2. PICK b \in My.inviters : /\ dirs[b][a.wg] = "member" /\ {a.id, a.inviter} \subseteq Known(b, a.wg)
                                   /\ a.own.name = ledger[b][a.wg][a.id].name
                                   /\ a.record.name = ledger[b][a.wg][a.inviter].name
      BY DEF NamesInv, AnswersKnown
    <2>3. a.wg \in Workgroups /\ b \in Hosts
      BY Bounds DEF Typed, Join, Answers
    <2>4. a.wg # w
      BY <1>1, <2>2, <2>3
    <2> QED
      BY <1>3, <1>5, <2>2, <2>3, <2>4
  <1>12. PairingsKnown'
    <2>1. SUFFICES ASSUME NEW g \in Hosts, NEW p \in inbound[g]
                   PROVE  /\ dirs'[g][p.wg] = "member" /\ p.inviter \in Known(g, p.wg)'
                          /\ p.record.name = ledger'[g][p.wg][p.inviter].name
      BY <1>1, SameSetup DEF PairingsKnown, Sound
    <2>2. /\ p.wg \in Workgroups /\ dirs[g][p.wg] = "member" /\ p.inviter \in Known(g, p.wg)
          /\ p.record.name = ledger[g][p.wg][p.inviter].name
      BY DEF Typed, Pairing, NamesInv, PairingsKnown, Sound
    <2>3. p.wg # w
      BY <1>1, <2>2
    <2> QED
      BY <1>3, <1>5, <2>2, <2>3
  <1> QED
    BY <1>6, <1>8, <1>9, <1>10, <1>11, <1>12 DEF NamesInv

LEMMA AddsNames ==
  ASSUME OneInviter, Typed, NamesInv, NEW h \in Hosts, NEW p \in inbound[h], NEW i \in Ids,
         Admit(h, p, i), Adds(h, p, i)
  PROVE  NamesInv'
  <1> DEFINE w == p.wg
             me == p.inviter
             new == NewRecord(p.join.name, p.join.host)
  <1>1. setup' = setup /\ UNCHANGED <<dirs, tickets, creating>> /\ ~Used(i)
        /\ inbound' = [inbound EXCEPT ![h] = {}]
    BY AdmitCases
  <1>2. /\ h \in My.inviters /\ w \in Workgroups /\ dirs[h][w] = "member"
        /\ me \in Known(h, w) /\ me \in Ids /\ p.record.name = ledger[h][w][me].name
    BY DEF Typed, Pairing, NamesInv, Inviting, PairingsKnown, Sound
  <1>3. ledger' = [ledger EXCEPT ![h][w][i] = new] /\ new \in Record /\ p.join \in Join /\ new.name = p.join.name
    <2>1. p.join \in Join /\ p.join.name \in Names /\ p.join.host \in Hosts
      BY DEF Typed, Pairing, Join
    <2> QED
      BY <2>1, NewRecordTyped DEF Adds, w
  <1>4. \A g \in Hosts : i \notin Known(g, w)
    BY <1>1, <1>2 DEF Used, Known
  <1> HIDE DEF new, w, me
  <1>5. /\ \A x \in Hosts, v \in Workgroups, k \in Ids :
             ledger'[x][v][k] = IF x = h /\ v = w /\ k = i THEN new ELSE ledger[x][v][k]
    BY <1>3 DEF Typed
  <1>6. /\ Known(h, w)' = Known(h, w) \cup {i}
        /\ \A x \in Hosts, v \in Workgroups : x # h \/ v # w => Known(x, v)' = Known(x, v)
    BY <1>1, <1>2, <1>3, <1>5, SameSetup, NobodyIsNone DEF Known
  <1>7. \A k \in Known(h, w) : ledger[h][w][k].name # new.name
    BY <1>3 DEF Adds, CanAdd, w
  <1>8. \A g \in Hosts : \A k \in Known(g, w) : k # i /\ ledger[g][w][k].name # new.name
    BY <1>2, <1>4, <1>7 DEF NamesInv, InviterKnows, OneName
  <1>9. OneName'
    <2>1. SUFFICES ASSUME NEW v \in Workgroups, NEW g \in Hosts, NEW x \in Hosts,
                          NEW k \in Known(g, v)', NEW l \in Known(x, v)'
                   PROVE  (k = l) <=> (ledger'[g][v][k].name = ledger'[x][v][l].name)
      BY <1>1, SameSetup DEF OneName
    <2>2. k \in Ids /\ l \in Ids
      BY <1>1, SameSetup DEF Known
    <2>3. /\ v = w /\ k = i => ledger'[g][v][k] = new
          /\ v = w /\ l = i => ledger'[x][v][l] = new
          /\ v # w \/ k # i => k \in Known(g, v) /\ ledger'[g][v][k] = ledger[g][v][k]
          /\ v # w \/ l # i => l \in Known(x, v) /\ ledger'[x][v][l] = ledger[x][v][l]
      BY <1>4, <1>5, <1>6, <2>2
    <2>4. k \in Known(g, v) /\ l \in Known(x, v) => ((k = l) <=> (ledger[g][v][k].name = ledger[x][v][l].name))
      BY DEF NamesInv, OneName
    <2> QED
      BY <1>8, <2>3, <2>4
  <1>10. InviterKnows'
    BY <1>1, <1>2, <1>6, TheInviter, Bounds, SameSetup DEF NamesInv, InviterKnows
  <1>11. Founded'
    BY <1>1, <1>2, <1>6, SameSetup DEF NamesInv, Founded, Serves
  <1>12. PICK answer \in Answers : /\ Reply(p.join, "admitted", {answer})
                                   /\ answer.wg = w /\ answer.id = i /\ answer.own = new
                                   /\ answer.inviter = me /\ answer.record = p.record
    BY AnswerTyped DEF Adds, new, w, me
  <1>13. /\ \A k \in joins' : k \in joins \/ k.answer = {answer}
         /\ \A k \in joins' : k.ticket.inviter \in My.inviters /\ k.host \notin My.inviters
    BY <1>3, <1>12, RepliedJoins DEF NamesInv
  <1>14. Inviting'
    BY <1>1, <1>13, SameSetup DEF NamesInv, Inviting, Typed
  <1>15. AnswersKnown'
    <2>1. SUFFICES ASSUME NEW j \in joins', NEW a \in j.answer
                   PROVE  \E b \in My.inviters :
                            /\ dirs[b][a.wg] = "member" /\ {a.id, a.inviter} \subseteq Known(b, a.wg)'
                            /\ a.own.name = ledger'[b][a.wg][a.id].name
                            /\ a.record.name = ledger'[b][a.wg][a.inviter].name
      BY <1>1, SameSetup DEF AnswersKnown
    <2>2. CASE a = answer
      <3>1. me # i
        BY <1>2, <1>4
      <3> QED
        BY <1>2, <1>5, <1>6, <1>12, <2>2, <3>1
    <2>3. CASE j \in joins
      <3>1. PICK b \in My.inviters : /\ dirs[b][a.wg] = "member" /\ {a.id, a.inviter} \subseteq Known(b, a.wg)
                                     /\ a.own.name = ledger[b][a.wg][a.id].name
                                     /\ a.record.name = ledger[b][a.wg][a.inviter].name
        BY <2>3 DEF NamesInv, AnswersKnown
      <3>2. a.wg \in Workgroups /\ b \in Hosts /\ a.id \in Ids /\ a.inviter \in Ids
        BY <2>3, Bounds DEF Typed, Join, Answers
      <3>3. a.wg = w => a.id # i /\ a.inviter # i
        BY <1>4, <3>1, <3>2
      <3>4. {a.id, a.inviter} \subseteq Known(b, a.wg)'
        BY <1>6, <3>1, <3>2
      <3>5. ledger'[b][a.wg][a.id] = ledger[b][a.wg][a.id] /\ ledger'[b][a.wg][a.inviter] = ledger[b][a.wg][a.inviter]
        BY <1>5, <3>2, <3>3
      <3> QED
        BY <3>1, <3>4, <3>5
    <2> QED
      BY <1>13, <2>2, <2>3
  <1>16. PairingsKnown'
    <2>1. SUFFICES ASSUME NEW g \in Hosts, NEW q \in inbound'[g]
                   PROVE  /\ dirs[g][q.wg] = "member" /\ q.inviter \in Known(g, q.wg)'
                          /\ q.record.name = ledger'[g][q.wg][q.inviter].name
      BY <1>1, SameSetup DEF PairingsKnown, Sound
    <2>2. q \in inbound[g]
      BY <1>1 DEF Typed
    <2>3. /\ q.wg \in Workgroups /\ q.inviter \in Ids /\ dirs[g][q.wg] = "member" /\ q.inviter \in Known(g, q.wg)
          /\ q.record.name = ledger[g][q.wg][q.inviter].name
      BY <2>2 DEF Typed, Pairing, NamesInv, PairingsKnown, Sound
    <2>4. q.wg = w => q.inviter # i
      BY <1>4, <2>3
    <2>5. q.inviter \in Known(g, q.wg)'
      BY <1>6, <2>3
    <2>6. ledger'[g][q.wg][q.inviter] = ledger[g][q.wg][q.inviter]
      BY <1>5, <2>3, <2>4
    <2> QED
      BY <2>3, <2>5, <2>6
  <1> QED
    BY <1>9, <1>10, <1>11, <1>14, <1>15, <1>16 DEF NamesInv

LEMMA AdmitNames ==
  ASSUME OneInviter, Typed, NamesInv, NEW h \in Hosts, NEW p \in inbound[h], NEW i \in Ids,
         Admit(h, p, i)
  PROVE  NamesInv'
  <1>1. CASE Reply(p.join, "rejected", {}) /\ UNCHANGED <<ledger, clock>>
    <2>1. setup' = setup /\ UNCHANGED <<files, tickets, creating>> /\ inbound' = [inbound EXCEPT ![h] = {}]
      BY <1>1, AdmitCases DEF files
    <2>2. p.join \in Join
      BY DEF Typed, Pairing
    <2>3. /\ \A k \in joins' : k.answer = {} \/ k \in joins
          /\ \A k \in joins' : k.ticket.inviter \in My.inviters /\ k.host \notin My.inviters
      BY <1>1, <2>2, RepliedJoins DEF NamesInv
    <2>4. Inviting'
      BY <2>1, <2>3, SameSetup DEF NamesInv, Inviting, Typed, files
    <2>5. StillSound
      BY <2>1, InboundSound DEF Typed
    <2> QED
      BY <2>1, <2>3, <2>4, <2>5, FilesKept
  <1> QED
    BY <1>1, AdmitCases, AddsNames

LEMMA DirNames ==
  ASSUME Typed, NamesInv, NEW j \in joins, DirStep(j)
  PROVE  NamesInv'
  <1>1. PICK a \in j.answer, d \in {"none", "dir", "named", "member"} : DirMoves(j, a, d)
    BY DirCases
  <1>2. /\ a.wg \in Workgroups /\ j.host \in Hosts /\ a \in Answers /\ a.id \in Ids /\ a.inviter \in Ids
        /\ setup' = setup /\ UNCHANGED <<tickets, creating, inbound>>
        /\ j.host \notin My.inviters /\ j.ticket.inviter \in My.inviters
    BY <1>1, DirCases DEF Answers, DirMoves, NamesInv, Inviting
  <1>3. PICK b \in My.inviters : /\ dirs[b][a.wg] = "member" /\ {a.id, a.inviter} \subseteq Known(b, a.wg)
                                 /\ a.own.name = ledger[b][a.wg][a.id].name
                                 /\ a.record.name = ledger[b][a.wg][a.inviter].name
    BY DEF NamesInv, AnswersKnown
  <1>4. b \in Hosts /\ Serves(a.wg)
    BY <1>3, Bounds DEF Serves
  <1>5. /\ \A x \in Hosts, v \in Workgroups : x # j.host \/ v # a.wg => dirs'[x][v] = dirs[x][v] /\ ledger'[x][v] = ledger[x][v]
        /\ \/ ledger'[j.host][a.wg] = ledger[j.host][a.wg]
           \/ ledger'[j.host][a.wg] = [i \in Ids |-> Nobody]
           \/ \E k \in Ids, r \in Record : Answered(a, k, r) /\ ledger'[j.host][a.wg] = [ledger[j.host][a.wg] EXCEPT ![k] = r]
    <2>1. \A x \in Hosts, v \in Workgroups : x # j.host \/ v # a.wg => dirs'[x][v] = dirs[x][v]
      BY <1>1, <1>2 DEF DirMoves, Typed
    <2>2. CASE ledger' = [ledger EXCEPT ![j.host][a.wg] = [i \in Ids |-> Nobody]]
      BY <1>2, <2>1, <2>2 DEF Typed
    <2>3. ASSUME NEW k \in Ids, NEW r \in Record, Answered(a, k, r), ledger' = [ledger EXCEPT ![j.host][a.wg][k] = r]
          PROVE  /\ \A x \in Hosts, v \in Workgroups : x # j.host \/ v # a.wg => ledger'[x][v] = ledger[x][v]
                 /\ ledger'[j.host][a.wg] = [ledger[j.host][a.wg] EXCEPT ![k] = r]
      BY <1>2, <2>3 DEF Typed
    <2>4. CASE \E k \in Ids, r \in Record : Answered(a, k, r) /\ ledger' = [ledger EXCEPT ![j.host][a.wg][k] = r]
      <3>1. PICK k \in Ids, r \in Record : Answered(a, k, r) /\ ledger' = [ledger EXCEPT ![j.host][a.wg][k] = r]
        BY <2>4
      <3>2. /\ \A x \in Hosts, v \in Workgroups : x # j.host \/ v # a.wg => ledger'[x][v] = ledger[x][v]
            /\ ledger'[j.host][a.wg] = [ledger[j.host][a.wg] EXCEPT ![k] = r]
        BY <2>3, <3>1
      <3> QED
        BY <2>1, <3>1, <3>2
    <2>5. CASE UNCHANGED ledger
      BY <2>1, <2>5
    <2> QED
      BY <1>1, <2>2, <2>4, <2>5 DEF DirMoves
  <1>6. \A k \in Ids, r \in Record : Answered(a, k, r) => k \in Known(b, a.wg) /\ r.name = ledger[b][a.wg][k].name
    <2>1. /\ [a.record EXCEPT !.stamp = clock + 1].name = a.record.name
          /\ [a.own EXCEPT !.stamp = clock + 1].name = a.own.name
      BY <1>2 DEF Answers, Record
    <2> QED
      BY <1>3, <2>1 DEF Answered
  <1>7. \A x \in Hosts, v \in Workgroups : x # j.host \/ v # a.wg => Known(x, v)' = Known(x, v)
    BY <1>2, <1>5, SameSetup DEF Known
  <1>8. \A i \in Known(j.host, a.wg)' :
          \/ i \in Known(j.host, a.wg) /\ ledger'[j.host][a.wg][i] = ledger[j.host][a.wg][i]
          \/ i \in Known(b, a.wg) /\ ledger'[j.host][a.wg][i].name = ledger[b][a.wg][i].name
    <2>1. \A k \in Ids, r \in Record, i \in Ids :
            [ledger[j.host][a.wg] EXCEPT ![k] = r][i] = IF i = k THEN r ELSE ledger[j.host][a.wg][i]
      BY <1>2 DEF Typed
    <2>2. ASSUME NEW k \in Ids, NEW r \in Record, Answered(a, k, r),
                 ledger'[j.host][a.wg] = [ledger[j.host][a.wg] EXCEPT ![k] = r],
                 NEW i \in Known(j.host, a.wg)'
          PROVE  \/ i \in Known(j.host, a.wg) /\ ledger'[j.host][a.wg][i] = ledger[j.host][a.wg][i]
                 \/ i \in Known(b, a.wg) /\ ledger'[j.host][a.wg][i].name = ledger[b][a.wg][i].name
      <3>1. i \in Ids /\ ledger'[j.host][a.wg][i] # Nobody
        BY <1>2, <2>2, SameSetup DEF Known
      <3>2. ledger'[j.host][a.wg][i] = IF i = k THEN r ELSE ledger[j.host][a.wg][i]
        BY <2>1, <2>2, <3>1
      <3>3. CASE i = k
        BY <1>6, <2>2, <3>2, <3>3
      <3>4. CASE i # k
        BY <3>1, <3>2, <3>4 DEF Known
      <3> QED
        BY <3>3, <3>4
    <2>3. CASE ledger'[j.host][a.wg] = ledger[j.host][a.wg] \/ ledger'[j.host][a.wg] = [i \in Ids |-> Nobody]
      BY <1>2, <2>3, SameSetup DEF Known
    <2> QED
      BY <1>5, <2>2, <2>3
  <1>9. NoNewName
    BY <1>2, <1>4, <1>5, <1>7, <1>8, Bounds DEF NoNewName
  <1>10. /\ \A k \in joins' : \E o \in joins : k.answer = o.answer
         /\ \A k \in joins' : \E o \in joins : k.ticket = o.ticket /\ k.host = o.host
    BY DirCases
  <1>11. /\ OneName' /\ InviterKnows' /\ AnswersKnown' /\ PairingsKnown'
         /\ \A w \in Workgroups : Serves(w)' = Serves(w)
    BY <1>2, <1>9, <1>10, InboundSound, NamesKept
  <1>12. Founded'
    BY <1>2, <1>4, <1>5, <1>7, <1>11, SameSetup DEF NamesInv, Founded
  <1>13. Inviting'
    BY <1>2, <1>5, <1>10, Bounds, SameSetup DEF NamesInv, Inviting
  <1> QED
    BY <1>11, <1>12, <1>13 DEF NamesInv

LEMMA EditNames ==
  ASSUME Typed, NamesInv, Edits
  PROVE  NamesInv'
  <1>1. PICK h \in Hosts, w \in Workgroups, i \in Ids :
          Retire(h, w, i) \/ \E p \in My.priorities : SetPriority(h, w, i, p)
    BY DEF Edits
  <1>2. i \in Known(h, w) /\ setup' = setup /\ UNCHANGED <<dirs, tickets, creating, inbound, joins>>
    BY <1>1, EditTyped
  <1>3. PICK r \in Record : ledger' = [ledger EXCEPT ![h][w][i] = r] /\ r.name = ledger[h][w][i].name
    BY <1>1, EditTyped
  <1>4. \A x \in Hosts, v \in Workgroups, k \in Ids :
          ledger'[x][v][k] = IF x = h /\ v = w /\ k = i THEN r ELSE ledger[x][v][k]
    BY <1>3 DEF Typed
  <1>5. \A x \in Hosts, v \in Workgroups : Known(x, v)' = Known(x, v)
    BY <1>2, <1>4, SameSetup, NobodyIsNone DEF Known
  <1>6. \A x \in Hosts, v \in Workgroups : \A k \in Known(x, v) : ledger'[x][v][k].name = ledger[x][v][k].name
    BY <1>3, <1>4 DEF Known
  <1>7. NoNewName
    BY <1>2, <1>5, <1>6, Bounds DEF NoNewName
  <1>8. /\ OneName' /\ InviterKnows' /\ AnswersKnown' /\ PairingsKnown'
        /\ \A v \in Workgroups : Serves(v)' = Serves(v)
    BY <1>2, <1>7, InboundSound, NamesKept
  <1>9. Founded' /\ Inviting'
    BY <1>2, <1>5, <1>8, SameSetup DEF NamesInv, Founded, Inviting
  <1> QED
    BY <1>8, <1>9 DEF NamesInv

LEMMA SessionNames ==
  ASSUME Typed, NamesInv, NEW a \in Hosts, NEW b \in Hosts, NEW w \in Workgroups, Session(a, b, w)
  PROVE  NamesInv'
  <1>1. /\ setup' = setup /\ UNCHANGED <<dirs, tickets, creating, inbound, joins>>
        /\ Known(a, w) # {} /\ dirs[b][w] = "member"
    BY SessionGives
  <1>2. \A h \in Hosts, v \in Workgroups, i \in Ids :
              \/ ledger'[h][v][i] = ledger[h][v][i]
              \/ /\ v = w /\ h \in {a, b}
                 /\ \E g \in {a, b} : i \in Known(g, w) /\ ledger'[h][v][i] = ledger[g][w][i]
    BY SessionGives
  <1>3. \A h \in Hosts, v \in Workgroups : \A i \in Known(h, v) :
          i \in Known(h, v)' /\ ledger'[h][v][i].name = ledger[h][v][i].name
    BY <1>1, <1>2, SameSetup DEF Known, NamesInv, OneName
  <1>4. \A h \in Hosts, v \in Workgroups : \A i \in Known(h, v)' :
          \/ i \in Known(h, v) /\ ledger'[h][v][i] = ledger[h][v][i]
          \/ v = w /\ h \in {a, b} /\ \E g \in {a, b} : i \in Known(g, w) /\ ledger'[h][v][i] = ledger[g][w][i]
    BY <1>1, <1>2, SameSetup DEF Known
  <1>5. NoNewName
    BY <1>1, <1>3, <1>4, Bounds DEF NoNewName
  <1>6. /\ OneName' /\ InviterKnows' /\ AnswersKnown' /\ PairingsKnown'
        /\ \A v \in Workgroups : Serves(v)' = Serves(v)
    BY <1>1, <1>5, InboundSound, NamesKept
  <1>7. Inviting'
    BY <1>1, SameSetup DEF NamesInv, Inviting
  <1>8. Founded'
    <2>1. \A h \in {a, b} : dirs[h][w] = "member" \/ Serves(w)
      BY <1>1 DEF NamesInv, Founded
    <2> QED
      BY <1>1, <1>4, <1>6, <2>1, SameSetup DEF NamesInv, Founded
  <1> QED
    BY <1>6, <1>7, <1>8 DEF NamesInv

LEMMA StepNames ==
  ASSUME OneInviter, Typed, NamesInv, [Next]_vars
  PROVE  NamesInv'
  <1>1. CASE Next
    BY <1>1, NextCases, AsksNames, CreateDiesNames, CreateNames, TakeNames, AdmitNames, DirNames, EditNames, SessionNames
  <1>2. CASE UNCHANGED vars
    <2>1. setup' = setup /\ UNCHANGED <<files, tickets, creating, inbound, joins>>
      BY <1>2 DEF vars, files
    <2>2. Inviting'
      BY <2>1, SameSetup DEF NamesInv, Inviting, files
    <2> QED
      BY <2>1, <2>2, InboundSound, FilesKept
  <1> QED
    BY <1>1, <1>2

\* Whoever joins, under whatever names, and whatever is lost or crashes: while one device invites,
\* every host can open its ledger (admit, Devices::open).
THEOREM LedgersStayReadable == ASSUME OneInviter PROVE Spec => []LedgerReadable
  <1>1. NamesInv => LedgerReadable
    BY DEF NamesInv, OneName, LedgerReadable, Readable
  <1>2. Typed /\ NamesInv /\ [Next]_vars => (Typed /\ NamesInv)'
    BY StepTyped, StepNames
  <1> QED
    BY InitTyped, InitNames, <1>1, <1>2, PTL DEF Spec

-----------------------------------------------------------------------------
(* RetiredForGood *)

LEMMA InitRetire == Init => RetiredIsNewest
  <1> SUFFICES ASSUME Init PROVE RetiredIsNewest
    OBVIOUS
  <1>1. ledger = [h \in Hosts |-> [w \in Workgroups |-> [i \in Ids |-> Nobody]]]
    BY DEF Init
  <1>2. \A h \in Hosts, w \in Workgroups : Known(h, w) = {}
    BY <1>1 DEF Known
  <1> QED
    BY <1>2 DEF RetiredIsNewest

\* Whatever a ledger says afterwards some ledger said before, or it is the one record that was
\* written in this step.
Old(h, w, i) == \E g \in Hosts : i \in Known(g, w) /\ ledger'[h][w][i] = ledger[g][w][i]

Writes ==
  \/ clock' = clock /\ \A h \in Hosts, w \in Workgroups : \A i \in Known(h, w)' : Old(h, w, i)
  \/ /\ clock' = clock + 1
     /\ \E r \in Record : r.stamp = clock + 1 /\
          \A h \in Hosts, w \in Workgroups : \A i \in Known(h, w)' : Old(h, w, i) \/ ledger'[h][w][i] = r

LEMMA StampTyped ==
  ASSUME Typed, RetiredIsNewest, NEW h \in Hosts, NEW w \in Workgroups, NEW i \in Known(h, w)
  PROVE  /\ i \in Ids /\ ledger[h][w][i] \in Record
         /\ ledger[h][w][i].stamp \in Nat /\ ledger[h][w][i].stamp <= clock /\ clock \in Nat
  <1>1. i \in Ids /\ ledger[h][w][i] \in Record
    BY KnownRecord
  <1>2. ledger[h][w][i].stamp <= clock
    BY DEF RetiredIsNewest
  <1> QED
    BY <1>1, <1>2 DEF Record, Typed

\* One record is written, and nothing else.
LEMMA OneWritten ==
  ASSUME Typed, setup' = setup, NEW h \in Hosts, NEW w \in Workgroups, NEW i \in Ids, NEW r \in Record,
         r.stamp = clock + 1, clock' = clock + 1, ledger' = [ledger EXCEPT ![h][w][i] = r]
  PROVE  /\ Writes
         /\ \A x \in Hosts, v \in Workgroups, k \in Ids :
              ledger'[x][v][k] = IF x = h /\ v = w /\ k = i THEN r ELSE ledger[x][v][k]
  <1>1. \A x \in Hosts, v \in Workgroups, k \in Ids :
              ledger'[x][v][k] = IF x = h /\ v = w /\ k = i THEN r ELSE ledger[x][v][k]
    BY DEF Typed
  <1>2. ASSUME NEW x \in Hosts, NEW v \in Workgroups, NEW k \in Known(x, v)'
        PROVE  Old(x, v, k) \/ ledger'[x][v][k] = r
    <2>1. k \in Ids /\ ledger'[x][v][k] # Nobody
      BY <1>2, SameSetup DEF Known
    <2>2. CASE x = h /\ v = w /\ k = i
      BY <1>1, <2>1, <2>2
    <2>3. CASE ~(x = h /\ v = w /\ k = i)
      <3>1. ledger'[x][v][k] = ledger[x][v][k]
        BY <1>1, <2>1, <2>3
      <3> QED
        BY <2>1, <3>1 DEF Known, Old
    <2> QED
      BY <2>2, <2>3
  <1> QED
    BY <1>1, <1>2 DEF Writes

\* What a step does to the ledgers, when it does not exchange them.
LEMMA WritesMade ==
  ASSUME Typed, Next
  PROVE  setup' = setup /\ Writes
  <1>1. ASSUME setup' = setup, UNCHANGED <<ledger, clock>>
        PROVE  Writes
    BY <1>1, SameSetup DEF Writes, Known, Old
  <1>2. CASE Asks
    <2>1. setup' = setup /\ UNCHANGED <<ledger, clock>>
      BY <1>2, AnswerCases DEF Asks, InviteRead, InviteSave, Expire, JoinBegin, Rejected, Lost, Crash, files
    <2> QED
      BY <1>1, <2>1
  <1>3. ASSUME NEW h \in Hosts, NEW w \in Workgroups, CreateDies(h, w)
        PROVE  setup' = setup /\ Writes
    BY <1>1, <1>3 DEF CreateDies
  <1>4. ASSUME NEW h \in Hosts, NEW w \in Workgroups, NEW i \in Ids, Create(h, w, i)
        PROVE  setup' = setup /\ Writes
    <2>1. setup' = setup /\ clock' = clock + 1
      BY <1>4 DEF Create
    <2>2. /\ ledger'[h][w] = [[j \in Ids |-> Nobody] EXCEPT ![i] = NewRecord(FounderName, h)]
          /\ \A x \in Hosts, v \in Workgroups : x # h \/ v # w => ledger'[x][v] = ledger[x][v]
      BY <1>4 DEF Create, Typed
    <2>3. PICK r \in Record : r = NewRecord(FounderName, h) /\ r.stamp = clock + 1
      BY NewRecordTyped
    <2>4. \A k \in Known(h, w)' : ledger'[h][w][k] = r
      BY <2>1, <2>2, <2>3, SameSetup DEF Known
    <2>5. \A x \in Hosts, v \in Workgroups : x # h \/ v # w => Known(x, v)' = Known(x, v)
      BY <2>1, <2>2, SameSetup DEF Known
    <2>6. \A x \in Hosts, v \in Workgroups : \A k \in Known(x, v)' : Old(x, v, k) \/ ledger'[x][v][k] = r
      BY <2>1, <2>2, <2>4, <2>5 DEF Old
    <2> QED
      BY <2>1, <2>3, <2>6, SameSetup DEF Writes
  <1>5. ASSUME NEW h \in Hosts, NEW p \in inbound[h], Take(h, p)
        PROVE  setup' = setup /\ Writes
    BY <1>1, <1>5 DEF Take, files
  <1>6. ASSUME NEW h \in Hosts, NEW p \in inbound[h], NEW i \in Ids, Admit(h, p, i)
        PROVE  setup' = setup /\ Writes
    <2>1. setup' = setup
      BY <1>6, AdmitCases
    <2>2. CASE UNCHANGED <<ledger, clock>>
      BY <1>1, <2>1, <2>2
    <2>3. CASE Adds(h, p, i)
      <3>1. PICK r \in Record : r = NewRecord(p.join.name, p.join.host)
        BY AnswerTyped
      <3>2. r.stamp = clock + 1
        BY <3>1 DEF NewRecord
      <3>3. p.wg \in Workgroups /\ ledger' = [ledger EXCEPT ![h][p.wg][i] = r] /\ clock' = clock + 1
        BY <2>3, <3>1, AnswerTyped DEF Adds
      <3> QED
        BY <2>1, <3>2, <3>3, OneWritten
    <2> QED
      BY <1>6, <2>2, <2>3, AdmitCases
  <1>7. ASSUME NEW j \in joins, DirStep(j)
        PROVE  setup' = setup /\ Writes
    <2>1. PICK a \in j.answer, d \in {"none", "dir", "named", "member"} : DirMoves(j, a, d)
      BY <1>7, DirCases
    <2>2. setup' = setup /\ j.host \in Hosts /\ a \in Answers
      BY <1>7, <2>1, DirCases DEF DirMoves
    <2>3. a.wg \in Workgroups
      BY <2>2, WrittenTyped
    <2>4. CASE UNCHANGED <<ledger, clock>>
      BY <1>1, <2>2, <2>4
    <2>5. CASE clock' = clock /\ ledger' = [ledger EXCEPT ![j.host][a.wg] = [i \in Ids |-> Nobody]]
      <3>1. \A x \in Hosts, v \in Workgroups :
              ledger'[x][v] = IF x = j.host /\ v = a.wg THEN [i \in Ids |-> Nobody] ELSE ledger[x][v]
        BY <2>2, <2>3, <2>5 DEF Typed
      <3>2. \A x \in Hosts, v \in Workgroups : \A k \in Known(x, v)' : k \in Known(x, v) /\ ledger'[x][v][k] = ledger[x][v][k]
        BY <2>2, <3>1, SameSetup DEF Known
      <3> QED
        BY <2>2, <2>5, <3>2, SameSetup DEF Writes, Old
    <2>6. ASSUME NEW k \in Ids, NEW r \in Record, Answered(a, k, r), clock' = clock + 1,
                 ledger' = [ledger EXCEPT ![j.host][a.wg][k] = r]
          PROVE  Writes
      <3>1. r.stamp = clock + 1
        BY <2>2, <2>6 DEF Answered, Answers, Record
      <3> QED
        BY <2>2, <2>3, <2>6, <3>1, OneWritten
    <2> QED
      BY <2>1, <2>2, <2>4, <2>5, <2>6 DEF DirMoves
  <1>8. CASE Edits
    <2>1. PICK h \in Hosts, w \in Workgroups, i \in Ids :
            Retire(h, w, i) \/ \E p \in My.priorities : SetPriority(h, w, i, p)
      BY <1>8 DEF Edits
    <2>2. setup' = setup /\ clock' = clock + 1
      BY <2>1, EditTyped
    <2>3. PICK r \in Record : ledger' = [ledger EXCEPT ![h][w][i] = r] /\ r.stamp = clock + 1
      BY <2>1, EditTyped
    <2> QED
      BY <2>2, <2>3, OneWritten
  <1>9. ASSUME NEW a \in Hosts, NEW b \in Hosts, NEW w \in Workgroups, Session(a, b, w)
        PROVE  setup' = setup /\ Writes
    <2>1. setup' = setup /\ clock' = clock
      BY <1>9, SessionGives
    <2>2. \A h \in Hosts, v \in Workgroups, i \in Ids :
              \/ ledger'[h][v][i] = ledger[h][v][i]
              \/ \E g \in Hosts : i \in Known(g, v) /\ ledger'[h][v][i] = ledger[g][v][i]
      BY <1>9, SessionGives
    <2>3. \A h \in Hosts, v \in Workgroups : \A i \in Known(h, v)' :
            \E g \in Hosts : i \in Known(g, v) /\ ledger'[h][v][i] = ledger[g][v][i]
      BY <2>1, <2>2, SameSetup DEF Known
    <2> QED
      BY <2>1, <2>3, SameSetup DEF Writes, Old
  <1> QED
    BY <1>2, <1>3, <1>4, <1>5, <1>6, <1>7, <1>8, <1>9, NextCases

LEMMA StepRetire ==
  ASSUME Typed, RetiredIsNewest, [Next]_vars, [InformedStep]_vars
  PROVE  RetiredIsNewest'
  <1>1. CASE UNCHANGED vars
    <2>1. setup' = setup /\ UNCHANGED <<ledger, clock>>
      BY <1>1 DEF vars, files
    <2>2. \A h \in Hosts, w \in Workgroups : Known(h, w)' = Known(h, w)
      BY <2>1, SameSetup DEF Known
    <2> QED
      BY <2>1, <2>2, SameSetup DEF RetiredIsNewest
  <1>2. ASSUME Next, InformedStep
        PROVE  RetiredIsNewest'
    <2>1. setup' = setup /\ Writes /\ clock \in Nat
      BY <1>2, WritesMade DEF Typed
    <2>2. SUFFICES ASSUME NEW w \in Workgroups, NEW h \in Hosts, NEW i \in Known(h, w)'
                   PROVE  /\ ledger'[h][w][i].stamp <= clock'
                          /\ ledger'[h][w][i].retired =>
                               \A g \in Hosts : i \in Known(g, w)' /\ ~ledger'[g][w][i].retired =>
                                 ledger'[g][w][i].stamp < ledger'[h][w][i].stamp
      BY <2>1, SameSetup DEF RetiredIsNewest
    <2>3. ASSUME NEW g \in Hosts, Old(g, w, i)
          PROVE  \E x \in Hosts : /\ i \in Known(x, w) /\ ledger'[g][w][i] = ledger[x][w][i]
                                  /\ ledger[x][w][i].stamp \in Nat /\ ledger[x][w][i].stamp <= clock
      BY <2>3, StampTyped DEF Old
    <2>4. ASSUME NEW g \in Hosts, Old(h, w, i), Old(g, w, i), ledger'[h][w][i].retired, ~ledger'[g][w][i].retired
          PROVE  ledger'[g][w][i].stamp < ledger'[h][w][i].stamp
      BY <2>4 DEF Old, RetiredIsNewest
    <2>5. CASE clock' = clock /\ \A g \in Hosts : i \in Known(g, w)' => Old(g, w, i)
      BY <2>1, <2>3, <2>4, <2>5
    <2>6. ASSUME clock' = clock + 1, NEW r \in Record, r.stamp = clock + 1,
                 \A g \in Hosts : i \in Known(g, w)' => Old(g, w, i) \/ ledger'[g][w][i] = r
          PROVE  /\ ledger'[h][w][i].stamp <= clock'
                 /\ ledger'[h][w][i].retired =>
                      \A g \in Hosts : i \in Known(g, w)' /\ ~ledger'[g][w][i].retired =>
                        ledger'[g][w][i].stamp < ledger'[h][w][i].stamp
      <3>1. ledger'[h][w][i].stamp <= clock'
        BY <2>1, <2>3, <2>6
      <3>2. ASSUME ledger'[h][w][i].retired, NEW g \in Hosts, i \in Known(g, w)', ~ledger'[g][w][i].retired
            PROVE  ledger'[g][w][i].stamp < ledger'[h][w][i].stamp
        <4>1. CASE ~Old(g, w, i)
          <5>1. ledger'[g][w][i] = r /\ ledger'[g][w][i] # Nobody /\ ledger'[g][w][i].stamp > clock
            BY <2>1, <2>6, <3>2, <4>1, NobodyIsNone
          <5>2. \A x \in Hosts : i \in Known(x, w) => ~ledger[x][w][i].retired
            BY <1>2, <3>2, <5>1 DEF InformedStep
          <5>3. ~Old(h, w, i)
            BY <3>2, <5>2 DEF Old
          <5> QED
            BY <2>6, <3>2, <5>1, <5>3
        <4>2. CASE Old(g, w, i) /\ ~Old(h, w, i)
          BY <2>1, <2>3, <2>6, <4>2
        <4> QED
          BY <2>4, <3>2, <4>1, <4>2
      <3> QED
        BY <3>1, <3>2
    <2> QED
      BY <2>1, <2>5, <2>6 DEF Writes
  <1> QED
    BY <1>1, <1>2

\* No step takes a retirement back.
LEMMA RetirementStays ==
  ASSUME Typed, RetiredIsNewest, Next, InformedStep, NEW h \in Hosts, NEW w \in Workgroups, NEW i \in Known(h, w),
         ledger[h][w][i].retired, dirs'[h][w] = "member"
  PROVE  ledger'[h][w][i] # Nobody /\ ledger'[h][w][i].retired
  <1>1. /\ i \in Ids /\ ledger[h][w][i] \in Record /\ ledger[h][w][i] # Nobody /\ setup' = setup /\ clock \in Nat
        /\ \A g \in Hosts : i \in Known(g, w) /\ ~ledger[g][w][i].retired =>
             ledger[g][w][i].stamp < ledger[h][w][i].stamp
    BY StampTyped, NobodyIsNone, WritesMade DEF RetiredIsNewest
  <1>2. CASE ledger'[h][w][i] = ledger[h][w][i]
    BY <1>1, <1>2
  <1>3. ASSUME NEW g \in Hosts, NEW v \in Workgroups, NEW k \in Ids, NEW r \in Record, r.stamp = clock + 1,
               clock' = clock + 1, ledger' = [ledger EXCEPT ![g][v][k] = r]
        PROVE  ledger'[h][w][i] # Nobody /\ ledger'[h][w][i].retired
    <2>1. ledger'[h][w][i] = IF h = g /\ w = v /\ i = k THEN r ELSE ledger[h][w][i]
      <3>1. \A x \in Hosts, y \in Workgroups, z \in Ids :
              ledger'[x][y][z] = IF x = g /\ y = v /\ z = k THEN r ELSE ledger[x][y][z]
        BY <1>3 DEF Typed
      <3> QED
        BY <1>1, <3>1
    <2>2. CASE ledger'[h][w][i] = r
      <3>1. ledger'[h][w][i] # Nobody /\ ledger'[h][w][i].stamp > clock
        BY <1>1, <1>3, <2>2, NobodyIsNone
      <3> QED
        BY <3>1 DEF InformedStep
    <2> QED
      BY <1>2, <2>1, <2>2
  <1>4. CASE Asks
    BY <1>2, <1>4, AnswerCases DEF Asks, InviteRead, InviteSave, Expire, JoinBegin, Rejected, Lost, Crash, files
  <1>5. ASSUME NEW g \in Hosts, NEW v \in Workgroups, CreateDies(g, v)
        PROVE  ledger' = ledger
    BY <1>5 DEF CreateDies
  <1>6. ASSUME NEW g \in Hosts, NEW v \in Workgroups, NEW k \in Ids, Create(g, v, k)
        PROVE  ledger'[h][w][i] = ledger[h][w][i]
    <2>1. v # w
      BY <1>6 DEF Create, MayCreate
    <2> QED
      BY <1>6, <2>1 DEF Create, Typed
  <1>7. ASSUME NEW g \in Hosts, NEW p \in inbound[g], Take(g, p)
        PROVE  ledger' = ledger
    BY <1>7 DEF Take, files
  <1>8. ASSUME NEW g \in Hosts, NEW p \in inbound[g], NEW k \in Ids, Admit(g, p, k)
        PROVE  ledger'[h][w][i] # Nobody /\ ledger'[h][w][i].retired
    <2>1. CASE ledger' = ledger
      BY <1>2, <2>1
    <2>2. CASE Adds(g, p, k)
      <3>1. PICK r \in Record : r = NewRecord(p.join.name, p.join.host)
        BY <1>8, AnswerTyped
      <3>2. r.stamp = clock + 1
        BY <3>1 DEF NewRecord
      <3>3. p.wg \in Workgroups /\ ledger' = [ledger EXCEPT ![g][p.wg][k] = r] /\ clock' = clock + 1
        BY <1>8, <2>2, <3>1, AnswerTyped DEF Adds
      <3> QED
        BY <1>3, <1>8, <3>2, <3>3
    <2> QED
      BY <1>8, <2>1, <2>2, AdmitCases
  <1>9. ASSUME NEW j \in joins, DirStep(j)
        PROVE  ledger'[h][w][i] # Nobody /\ ledger'[h][w][i].retired
    <2>1. PICK a \in j.answer, d \in {"none", "dir", "named", "member"} : DirMoves(j, a, d)
      BY <1>9, DirCases
    <2>2. j.host \in Hosts /\ a \in Answers /\ a.wg \in Workgroups
      BY <1>9, <2>1, DirCases, WrittenTyped DEF DirMoves
    <2>3. CASE d = "dir" /\ ledger' = [ledger EXCEPT ![j.host][a.wg] = [x \in Ids |-> Nobody]]
      <3>1. dirs' = [dirs EXCEPT ![j.host][a.wg] = d]
        BY <2>1 DEF DirMoves
      <3>2. ~(h = j.host /\ w = a.wg)
        BY <2>2, <2>3, <3>1 DEF Typed
      <3>3. ledger'[h][w] = ledger[h][w]
        BY <2>2, <2>3, <3>2 DEF Typed
      <3> QED
        BY <1>2, <3>3
    <2>4. ASSUME NEW k \in Ids, NEW r \in Record, Answered(a, k, r), clock' = clock + 1,
                 ledger' = [ledger EXCEPT ![j.host][a.wg][k] = r]
          PROVE  ledger'[h][w][i] # Nobody /\ ledger'[h][w][i].retired
      <3>1. r.stamp = clock + 1
        BY <2>2, <2>4 DEF Answered, Answers, Record
      <3> QED
        BY <1>3, <2>2, <2>4, <3>1
    <2> QED
      BY <1>2, <2>1, <2>3, <2>4 DEF DirMoves
  <1>10. CASE Edits
    <2>1. PICK g \in Hosts, v \in Workgroups, k \in Ids :
            Retire(g, v, k) \/ \E p \in My.priorities : SetPriority(g, v, k, p)
      BY <1>10 DEF Edits
    <2>2. PICK r \in Record : ledger' = [ledger EXCEPT ![g][v][k] = r] /\ r.stamp = clock + 1
      BY <2>1, EditTyped
    <2>3. clock' = clock + 1
      BY <2>1, EditTyped
    <2> QED
      BY <1>3, <2>2, <2>3
  <1>11. ASSUME NEW a \in Hosts, NEW b \in Hosts, NEW v \in Workgroups, Session(a, b, v)
        PROVE  ledger'[h][w][i] # Nobody /\ ledger'[h][w][i].retired
    <2>1. CASE ledger'[h][w][i] # ledger[h][w][i]
      <3>1. PICK g \in Hosts : /\ i \in Known(g, w) /\ ledger'[h][w][i] = ledger[g][w][i]
                               /\ ledger[h][w][i].stamp <= ledger[g][w][i].stamp
        BY <1>1, <1>11, <2>1, SessionGives
      <3>2. ledger[g][w][i] # Nobody /\ ledger[g][w][i].stamp \in Nat /\ ledger[h][w][i].stamp \in Nat
        BY <3>1, StampTyped, NobodyIsNone
      <3> QED
        BY <1>1, <3>1, <3>2
    <2> QED
      BY <1>2, <2>1
  <1> QED
    BY <1>2, <1>4, <1>5, <1>6, <1>7, <1>8, <1>9, <1>10, <1>11, NextCases

\* A device that was retired stays retired in every ledger that has heard of it, whoever joins
\* and edits meanwhile and in whatever order ledgers are exchanged, lost and written again, as
\* long as who writes its record knows (retire, set_priority, materialize, the ledger's sync).
THEOREM RetirementIsForGood == Spec /\ InformedWrites => RetiredForGood
  <1>1. Typed /\ RetiredIsNewest /\ [Next]_vars /\ [InformedStep]_vars => (Typed /\ RetiredIsNewest)'
    BY StepTyped, StepRetire
  <1>2. ASSUME Typed, RetiredIsNewest, [Next]_vars, [InformedStep]_vars
        PROVE  [\A h \in Hosts, w \in Workgroups : \A i \in Known(h, w) :
                  ledger[h][w][i].retired /\ dirs'[h][w] = "member" => ledger'[h][w][i] # Nobody /\ ledger'[h][w][i].retired]_vars
    BY <1>2, RetirementStays
  <1> QED
    BY InitTyped, InitRetire, <1>1, <1>2, PTL DEF Spec, RetiredForGood, InformedWrites
=============================================================================
