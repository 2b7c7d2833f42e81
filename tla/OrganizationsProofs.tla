-------------------------- MODULE OrganizationsProofs --------------------------
(***************************************************************************)
(* Invitations, for any entities, users and overlapping requests: an       *)
(* accepted one made its invitee a member.  And the types of every table,   *)
(* those of the SAM.gov extracts too.                                      *)
(***************************************************************************)
EXTENDS SamExtractsProofs, FiniteSetTheorems, SequenceTheorems, TLAPS

\* What a started request knows holds when it commits: what it wants to write is
\* of the table's types, and an invitation it answers still exists.
RequestsHold ==
  /\ request = [q \in Request |-> request[q]]
  /\ \A q \in Request :
       /\ request[q].at = "invite" =>
            request[q].org \in Entity /\ request[q].user \in User /\ request[q].role \in Role \ {"none"}
       /\ request[q].at \in {"accept", "reject"} => request[q].invitation \in DOMAIN invitation

InvitationInv ==
  /\ invitation \in Seq(Invitation)
  /\ joined \subseteq DOMAIN invitation
  /\ RequestsHold
  /\ \A i \in DOMAIN invitation : invitation[i].accepted <=> i \in joined

-----------------------------------------------------------------------------

LEMMA InitInvitationInv == Init => InvitationInv
BY DEF Init, InvitationInv, RequestsHold, Idle

\* The invitations and what is known of them stay; a request is started.
LEMMA StartInv ==
  ASSUME InvitationInv, NEW q \in Request, Start(q)
  PROVE  InvitationInv'
<1>1. ASSUME NEW record, Started(q, record),
             record.at = "invite" =>
               record.org \in Entity /\ record.user \in User /\ record.role \in Role \ {"none"},
             record.at \in {"accept", "reject"} => record.invitation \in DOMAIN invitation
      PROVE  InvitationInv'
  <2>1. UNCHANGED <<invitation, joined>> /\ request' = [request EXCEPT ![q] = record]
    BY <1>1 DEF Started
  <2>2. RequestsHold'
    BY <1>1, <2>1 DEF InvitationInv, RequestsHold
  <2> QED BY <2>1, <2>2 DEF InvitationInv
<1>2. ASSUME NEW u \in User, Login(q, u) PROVE InvitationInv'
  BY <1>1, <1>2 DEF Login
<1>3. ASSUME NEW e \in Entity, NEW user \in User, NEW u \in User, Remove(q, e, user, u)
      PROVE  InvitationInv'
  BY <1>1, <1>3 DEF Remove
<1>4. ASSUME NEW e \in Entity, NEW user \in User, NEW u \in User, UpdateRoles(q, e, user, u)
      PROVE  InvitationInv'
  BY <1>1, <1>4 DEF UpdateRoles
<1>5. ASSUME NEW e \in Entity, NEW user \in User, NEW u \in User, NEW r \in Role \ {"none"},
             Invite(q, e, user, u, r)
      PROVE  InvitationInv'
  BY <1>1, <1>5 DEF Invite
<1>6. ASSUME NEW i \in DOMAIN invitation, NEW answer \in {"accept", "reject"}, Respond(q, i, answer)
      PROVE  InvitationInv'
  BY <1>1, <1>6 DEF Respond
<1> QED BY <1>2, <1>3, <1>4, <1>5, <1>6 DEF Start

\* One invitation gets new flags; the requests that answer it go on.
LEMMA FlagsInv ==
  ASSUME InvitationInv, NEW i \in DOMAIN invitation, NEW next \in Invitation,
         invitation' = [invitation EXCEPT ![i] = next],
         joined' = joined \cup (IF next.accepted THEN {i} ELSE {}),
         i \in joined => next.accepted,
         UNCHANGED request \/ \E q \in Request : Done(q)
  PROVE  InvitationInv'
<1>1. invitation' \in Seq(Invitation) /\ DOMAIN invitation' = DOMAIN invitation
  BY ExceptSeq DEF InvitationInv
<1>2. RequestsHold'
  BY <1>1 DEF InvitationInv, RequestsHold, Done
<1>3. \A j \in DOMAIN invitation' : invitation'[j].accepted <=> j \in joined'
  BY <1>1 DEF InvitationInv
<1>4. joined' \subseteq DOMAIN invitation'
  BY <1>1 DEF InvitationInv
<1> QED BY <1>1, <1>2, <1>3, <1>4 DEF InvitationInv

\* Nothing about invitations changes but that a request may be done.
LEMMA AloneInv ==
  ASSUME InvitationInv, UNCHANGED <<invitation, joined>>,
         UNCHANGED request \/ \E q \in Request : Done(q)
  PROVE  InvitationInv'
BY DEF InvitationInv, RequestsHold, Done

LEMMA CommitInv ==
  ASSUME InvitationInv, NEW q \in Request, Commit(q)
  PROVE  InvitationInv'
<1>0. invitation \in Seq(Invitation) /\ \A i \in DOMAIN invitation : invitation[i] \in Invitation
  BY ElementOfSeq DEF InvitationInv
<1>1. CASE CommitLogin(q)
  BY <1>1, AloneInv DEF CommitLogin
<1>2. CASE CommitMember(q)
  BY <1>2, AloneInv DEF CommitMember
<1>3. CASE CommitInvite(q)
  <2> DEFINE new == [org |-> request[q].org, invitee |-> request[q].user, role |-> request[q].role,
                     accepted |-> FALSE, rejected |-> FALSE, expired |-> FALSE]
  <2>1. new \in Invitation /\ ~new.accepted
    BY <1>3 DEF CommitInvite, InvitationInv, RequestsHold, Invitation
  <2>2. invitation' = Append(invitation, new) /\ UNCHANGED joined /\ Done(q)
    BY <1>3 DEF CommitInvite
  <2> HIDE DEF new
  <2>3. /\ invitation' \in Seq(Invitation)
        /\ DOMAIN invitation' = 1 .. Len(invitation) + 1
        /\ \A i \in DOMAIN invitation : invitation'[i] = invitation[i]
        /\ invitation'[Len(invitation) + 1] = new
        /\ DOMAIN invitation = 1 .. Len(invitation)
        /\ Len(invitation) \in Nat
    BY <1>0, <2>1, <2>2
  <2>4. joined' \subseteq DOMAIN invitation'
    BY <2>2, <2>3 DEF InvitationInv
  <2>5. RequestsHold'
    BY <2>2, <2>3 DEF InvitationInv, RequestsHold, Done
  <2>6. ASSUME NEW i \in DOMAIN invitation' PROVE invitation'[i].accepted <=> i \in joined'
    <3>1. CASE i \in DOMAIN invitation
      BY <2>2, <2>3, <3>1 DEF InvitationInv
    <3>2. CASE i = Len(invitation) + 1
      BY <2>1, <2>2, <2>3, <3>2 DEF InvitationInv
    <3> QED BY <2>3, <3>1, <3>2
  <2> QED BY <2>3, <2>4, <2>5, <2>6 DEF InvitationInv
<1>4. CASE CommitAccept(q)
  <2> DEFINE i == request[q].invitation
             next == [invitation[i] EXCEPT !.accepted = TRUE]
  <2>1. i \in DOMAIN invitation /\ Done(q)
    BY <1>4 DEF CommitAccept, InvitationInv, RequestsHold
  <2>2. CASE UNCHANGED <<invitation, joined>>
    BY <2>1, <2>2, AloneInv
  <2>3. CASE invitation' = [invitation EXCEPT ![i].accepted = TRUE] /\ joined' = joined \cup {i}
    <3>1. next \in Invitation /\ next.accepted
      BY <1>0, <2>1 DEF Invitation
    <3>2. invitation' = [invitation EXCEPT ![i] = next]
      BY <2>3
    <3> HIDE DEF next, i
    <3> QED BY <2>1, <2>3, <3>1, <3>2, FlagsInv
  <2> QED BY <1>4, <2>2, <2>3 DEF CommitAccept
<1>5. CASE CommitReject(q)
  <2> DEFINE i == request[q].invitation
             next == [invitation[i] EXCEPT !.rejected = TRUE]
  <2>1. i \in DOMAIN invitation /\ Done(q) /\ UNCHANGED joined
    BY <1>5 DEF CommitReject, InvitationInv, RequestsHold
  <2>2. next \in Invitation /\ next.accepted = invitation[i].accepted
    BY <1>0, <2>1 DEF Invitation
  <2>3. invitation' = [invitation EXCEPT ![i] = next]
    BY <1>5 DEF CommitReject
  <2>4. joined' = joined \cup (IF next.accepted THEN {i} ELSE {}) /\ (i \in joined => next.accepted)
    BY <2>1, <2>2 DEF InvitationInv
  <2> HIDE DEF next, i
  <2> QED BY <2>1, <2>2, <2>3, <2>4, FlagsInv
<1> QED BY <1>1, <1>2, <1>3, <1>4, <1>5 DEF Commit

LEMMA ExpireInv ==
  ASSUME InvitationInv, NEW i, Expire(i)
  PROVE  InvitationInv'
<1> DEFINE next == [invitation[i] EXCEPT !.expired = TRUE]
<1>1. i \in DOMAIN invitation /\ UNCHANGED <<joined, request>>
  BY DEF Expire
<1>2. next \in Invitation /\ next.accepted = invitation[i].accepted
  <2>1. invitation[i] \in Invitation
    BY <1>1, ElementOfSeq DEF InvitationInv
  <2> QED BY <2>1 DEF Invitation
<1>3. invitation' = [invitation EXCEPT ![i] = next]
  BY DEF Expire
<1>4. joined' = joined \cup (IF next.accepted THEN {i} ELSE {}) /\ (i \in joined => next.accepted)
  BY <1>1, <1>2 DEF InvitationInv
<1> HIDE DEF next
<1> QED BY <1>1, <1>2, <1>3, <1>4, FlagsInv

LEMMA StepInvitationInv == InvitationInv /\ [Next]_vars => InvitationInv'
<1> SUFFICES ASSUME InvitationInv, [Next]_vars PROVE InvitationInv'
  OBVIOUS
<1>1. CASE (SamNext /\ UNCHANGED orgVars) \/ ReadLinks \/ CommitLinks \/ UNCHANGED vars
  <2>1. UNCHANGED <<invitation, joined, request>>
    BY <1>1 DEF ReadLinks, CommitLinks, orgVars, vars
  <2> QED BY <2>1, AloneInv
<1>2. ASSUME NEW q \in Request, Start(q) \/ Commit(q) PROVE InvitationInv'
  BY <1>2, StartInv, CommitInv
<1>3. ASSUME NEW i \in 1..MaxInvitations, Expire(i) PROVE InvitationInv'
  BY <1>3, ExpireInv
<1> QED BY <1>1, <1>2, <1>3 DEF Next

-----------------------------------------------------------------------------

\* Whatever requests and the SAM.gov task overlap, and however often an invitation
\* is answered, it counts as accepted exactly if it made its invitee a member.
THEOREM AcceptedMeansJoined == Spec => []AcceptedJoined
<1>1. InvitationInv => AcceptedJoined
  BY DEF InvitationInv, AcceptedJoined, InvitationStatus
<1>2. Spec => []InvitationInv
  BY InitInvitationInv, StepInvitationInv, PTL DEF Spec
<1> QED BY <1>1, <1>2, PTL

-----------------------------------------------------------------------------
(* Types.                                                                  *)

\* A link names a user and entities.
LinkTyped(link) == link.user \in User /\ link.orgs \subseteq Entity

\* Who has an account, which entities have an organization and who has which
\* role there; and what a started request or the task is about to write to them.
MemberInv ==
  /\ account \subseteq User
  /\ organization \subseteq Entity
  /\ role \in [Entity -> [User -> Role]]
  /\ \A q \in Request :
       /\ request[q].at = "login" => LinkTyped(request[q].link)
       /\ request[q].at \in {"remove", "update"} =>
            request[q].org \in Entity /\ request[q].user \in User
  /\ task.at = "commit" => \A link \in task.links : LinkTyped(link)

LEMMA LinkReadTyped ==
  ASSUME NEW u \in User
  PROVE  LinkTyped(LinkRead(u))
BY DEF LinkTyped, LinkRead, Contacts

\* Linking makes roles of roles.
LEMMA LinkedTyped ==
  ASSUME role \in [Entity -> [User -> Role]], NEW link, LinkTyped(link)
  PROVE  Linked(role, link) \in [Entity -> [User -> Role]]
<1>1. ASSUME NEW e \in Entity
      PROVE  /\ role[e] \in [User -> Role]
             /\ [role[e] EXCEPT ![link.user] = "admin"] \in [User -> Role]
  BY DEF LinkTyped, Role
<1> QED BY <1>1 DEF Linked

LEMMA InitMemberInv == Init => MemberInv
BY DEF Init, SamInit, MemberInv, Role, Idle, Asleep

\* A request that is started knows what it is about.
LEMMA StartMemberInv ==
  ASSUME InvitationInv, MemberInv, NEW q \in Request, Start(q)
  PROVE  MemberInv'
<1>1. ASSUME NEW record, Started(q, record),
             record.at = "login" => LinkTyped(record.link),
             record.at \in {"remove", "update"} =>
               record.org \in Entity /\ record.user \in User
      PROVE  MemberInv'
  <2>1. /\ UNCHANGED <<account, organization, role, task>>
        /\ request' = [request EXCEPT ![q] = record]
    BY <1>1 DEF Started, samVars
  <2>2. request'[q] = record /\ \A p \in Request \ {q} : request'[p] = request[p]
    BY <2>1 DEF InvitationInv, RequestsHold
  <2> QED BY <1>1, <2>1, <2>2 DEF MemberInv, LinkTyped
<1>2. ASSUME NEW u \in User, Login(q, u) PROVE MemberInv'
  BY <1>1, <1>2, LinkReadTyped DEF Login
<1>3. ASSUME NEW e \in Entity, NEW user \in User, NEW u \in User, Remove(q, e, user, u)
      PROVE  MemberInv'
  BY <1>1, <1>3 DEF Remove
<1>4. ASSUME NEW e \in Entity, NEW user \in User, NEW u \in User, UpdateRoles(q, e, user, u)
      PROVE  MemberInv'
  BY <1>1, <1>4 DEF UpdateRoles
<1>5. ASSUME NEW e \in Entity, NEW user \in User, NEW u \in User, NEW r \in Role \ {"none"},
             Invite(q, e, user, u, r)
      PROVE  MemberInv'
  BY <1>1, <1>5 DEF Invite
<1>6. ASSUME NEW i \in DOMAIN invitation, NEW answer \in {"accept", "reject"}, Respond(q, i, answer)
      PROVE  MemberInv'
  BY <1>1, <1>6 DEF Respond
<1> QED BY <1>2, <1>3, <1>4, <1>5, <1>6 DEF Start

\* A request that is done, or nothing, and tables that keep to their types.
LEMMA DoneMemberInv ==
  ASSUME InvitationInv, MemberInv,
         UNCHANGED request \/ \E q \in Request : Done(q),
         account' \subseteq User,
         organization' \subseteq Entity,
         role' \in [Entity -> [User -> Role]],
         task'.at = "commit" => \A link \in task'.links : LinkTyped(link)
  PROVE  MemberInv'
<1>1. \A q \in Request : request'[q] = request[q] \/ request'[q].at = "done"
  BY DEF Done, InvitationInv, RequestsHold
<1> QED BY <1>1 DEF MemberInv, LinkTyped

LEMMA CommitMemberInv ==
  ASSUME InvitationInv, MemberInv, NEW q \in Request, Commit(q)
  PROVE  MemberInv'
<1>1. UNCHANGED samVars /\ Done(q)
  BY DEF Commit, CommitLogin, CommitMember, CommitInvite, CommitAccept, CommitReject
<1>2. task' = task
  BY <1>1 DEF samVars
<1>3. CASE CommitLogin(q)
  <2> DEFINE link == request[q].link
  <2>1. LinkTyped(link)
    BY <1>3 DEF CommitLogin, MemberInv
  <2>2. Linked(role, link) \in [Entity -> [User -> Role]]
    BY <2>1, LinkedTyped DEF MemberInv
  <2>3. /\ account' \subseteq User
        /\ organization' \subseteq Entity
        /\ role' \in [Entity -> [User -> Role]]
    BY <1>3, <2>1, <2>2 DEF CommitLogin, MemberInv, LinkTyped
  <2> QED BY <1>1, <1>2, <2>3, DoneMemberInv DEF MemberInv
<1>4. CASE CommitMember(q)
  <2>1. request[q].org \in Entity /\ request[q].user \in User
    BY <1>4 DEF CommitMember, MemberInv
  <2>2. role' \in [Entity -> [User -> Role]]
    BY <1>4, <2>1 DEF CommitMember, MemberInv, Role, Other
  <2>3. UNCHANGED <<account, organization>>
    BY <1>4 DEF CommitMember
  <2> QED BY <1>1, <1>2, <2>2, <2>3, DoneMemberInv DEF MemberInv
<1>5. CASE CommitAccept(q)
  <2> DEFINE i == request[q].invitation
  <2>1. i \in DOMAIN invitation /\ invitation[i] \in Invitation
    BY <1>5, ElementOfSeq DEF CommitAccept, InvitationInv, RequestsHold
  <2>2. /\ invitation[i].org \in Entity
        /\ invitation[i].invitee \in User
        /\ invitation[i].role \in Role
    BY <2>1 DEF Invitation
  <2>3. \/ role' = role
        \/ role' = [role EXCEPT ![invitation[i].org][invitation[i].invitee] = invitation[i].role]
    BY <1>5 DEF CommitAccept
  <2>4. role' \in [Entity -> [User -> Role]]
    BY <2>2, <2>3 DEF MemberInv
  <2>5. UNCHANGED <<account, organization>>
    BY <1>5 DEF CommitAccept
  <2> QED BY <1>1, <1>2, <2>4, <2>5, DoneMemberInv DEF MemberInv
<1>6. CASE CommitInvite(q) \/ CommitReject(q)
  <2>1. UNCHANGED <<account, organization, role>>
    BY <1>6 DEF CommitInvite, CommitReject
  <2> QED BY <1>1, <1>2, <2>1, DoneMemberInv DEF MemberInv
<1> QED BY <1>3, <1>4, <1>5, <1>6 DEF Commit

\* The task reads links of users and entities, and links them.
LEMMA LinksMemberInv ==
  ASSUME InvitationInv, MemberInv, ReadLinks \/ CommitLinks
  PROVE  MemberInv'
<1>1. CASE ReadLinks
  <2>1. task' = [at |-> "commit", links |-> { LinkRead(u) : u \in { v \in account : Contacts(v) # {} } }]
        /\ UNCHANGED orgVars
    BY <1>1 DEF ReadLinks
  <2>2. \A link \in task'.links : LinkTyped(link)
    BY <2>1, LinkReadTyped DEF MemberInv
  <2> QED BY <2>1, <2>2, DoneMemberInv DEF MemberInv, orgVars
<1>2. CASE CommitLinks
  <2>1. \A link \in task.links : LinkTyped(link)
    BY <1>2 DEF CommitLinks, MemberInv
  <2>2. UNCHANGED <<account, request>> /\ task'.at # "commit"
    BY <1>2 DEF CommitLinks, Asleep
  <2>3. organization' \subseteq Entity
    BY <1>2, <2>1 DEF CommitLinks, MemberInv, LinkTyped
  <2>4. ASSUME NEW e \in Entity
        PROVE  (IF \E link \in task.links : e \in link.orgs
                THEN Linked(role, CHOOSE link \in task.links : e \in link.orgs)[e]
                ELSE role[e]) \in [User -> Role]
    <3>1. CASE \E link \in task.links : e \in link.orgs
      <4> DEFINE link == CHOOSE x \in task.links : e \in x.orgs
      <4>1. LinkTyped(link)
        BY <2>1, <3>1
      <4> HIDE DEF link
      <4>2. Linked(role, link) \in [Entity -> [User -> Role]]
        BY <4>1, LinkedTyped DEF MemberInv
      <4>3. Linked(role, link)[e] \in [User -> Role]
        BY <4>2
      <4> QED BY <3>1, <4>3 DEF link
    <3>2. CASE ~\E link \in task.links : e \in link.orgs
      BY <3>2 DEF MemberInv
    <3> QED BY <3>1, <3>2
  <2>5. role' \in [Entity -> [User -> Role]]
    BY <1>2, <2>4 DEF CommitLinks, MemberInv
  <2> QED BY <2>2, <2>3, <2>5, DoneMemberInv DEF MemberInv
<1> QED BY <1>1, <1>2

LEMMA StepMemberInv == InvitationInv /\ MemberInv /\ [Next]_vars => MemberInv'
<1> SUFFICES ASSUME InvitationInv, MemberInv, [Next]_vars PROVE MemberInv'
  OBVIOUS
<1>1. CASE SamNext /\ UNCHANGED orgVars
  <2>1. task' = task \/ task'.at # "commit"
    <3>1. ASSUME NEW queue PROVE Loading(queue).at # "commit"
      BY DEF Loading
    <3>2. ASSUME NEW e \in Entity, LoadBatch(e) PROVE task'.at # "commit"
      BY <3>2 DEF LoadBatch, Remaining
    <3>3. CASE Fetch \/ CleanUp \/ TaskFails
      BY <3>3 DEF Fetch, CleanUp, TaskFails, Asleep
    <3>4. CASE ListPending \/ FinishExtract
      BY <3>1, <3>4 DEF ListPending, FinishExtract
    <3>5. ASSUME NEW changed, NEW gone, NextDay(changed, gone) PROVE task' = task
      BY <3>5 DEF NextDay
    <3> QED BY <1>1, <3>2, <3>3, <3>4, <3>5 DEF SamNext, SamTask
  <2> QED BY <1>1, <2>1, DoneMemberInv DEF MemberInv, orgVars
<1>2. CASE UNCHANGED vars
  BY <1>2, DoneMemberInv DEF MemberInv, vars, orgVars, samVars
<1>3. ASSUME NEW q \in Request, Start(q) \/ Commit(q) PROVE MemberInv'
  BY <1>3, StartMemberInv, CommitMemberInv
<1>4. ASSUME NEW i \in 1..MaxInvitations, Expire(i) PROVE MemberInv'
  <2>1. UNCHANGED <<account, organization, role, request, task>>
    BY <1>4 DEF Expire, samVars
  <2> QED BY <2>1, DoneMemberInv DEF MemberInv
<1> QED BY <1>1, <1>2, <1>3, <1>4, LinksMemberInv DEF Next

\* A row is none, or one registration: that of the last record loaded, which a
\* deactivation may have made inactive.
LEMMA LoadedTyped ==
  ASSUME LoadInv, NEW e \in Entity
  PROVE  Cardinality(entity[e]) <= 1 /\ entity[e] \subseteq Registration
<1>1. ASSUME NEW d \in Day, Recorded(e, d)
      PROVE  \E r \in Registration : Record(e, d) = {r} /\ Inactive(Record(e, d)) = {[r EXCEPT !.active = FALSE]}
  <2>1. PICK r \in Record(e, d) : Record(e, d) = {r}
    BY <1>1 DEF LoadInv, Extracts, Recorded
  <2>2. r \in Registration
    BY <2>1 DEF LoadInv, Extracts, Extract, Record
  <2> QED BY <2>1, <2>2 DEF Inactive
<1>2. entity[e] = {} \/ \E r \in Registration : entity[e] = {r}
  <2>1. ASSUME NEW d \in Day, Recorded(e, d), entity[e] \in {Record(e, d), Inactive(Record(e, d))}
        PROVE  \E r \in Registration : entity[e] = {r}
    <3>1. PICK r \in Registration : Record(e, d) = {r} /\ Inactive(Record(e, d)) = {[r EXCEPT !.active = FALSE]}
      BY <1>1, <2>1
    <3>2. [r EXCEPT !.active = FALSE] \in Registration
      BY DEF Registration
    <3> QED BY <2>1, <3>1, <3>2
  <2>2. CASE AsLoaded(e)
    BY <2>1, <2>2 DEF AsLoaded
  <2>3. CASE Ahead(e)
    BY <2>1, <2>3 DEF Ahead, Pending
  <2> QED BY <2>2, <2>3 DEF LoadInv
<1>3. CASE entity[e] = {}
  BY <1>3, FS_EmptySet
<1>4. ASSUME NEW r \in Registration, entity[e] = {r}
      PROVE  Cardinality(entity[e]) <= 1 /\ entity[e] \subseteq Registration
  BY <1>4, FS_Singleton
<1> QED BY <1>2, <1>3, <1>4

\* Every table has the values its columns can hold, whatever requests, logins and
\* runs of the task overlap: one registration per entity, roles for known users
\* of known entities, and no member by an invitation that does not exist.
THEOREM TypesCorrect == Spec => []TypeOK
<1>1. LoadInv /\ InvitationInv /\ MemberInv => TypeOK
  BY LoadedTyped DEF TypeOK, SamTypeOK, LoadInv, Extracts, FilesInOrder, InvitationInv, MemberInv
<1>2. Spec => []LoadInv
  BY InitInv, StepInv, PTL DEF Spec
<1>3. Spec => []InvitationInv
  BY InitInvitationInv, StepInvitationInv, PTL DEF Spec
<1>4. Spec => []MemberInv
  BY <1>3, InitMemberInv, StepMemberInv, PTL DEF Spec
<1> QED BY <1>1, <1>2, <1>3, <1>4, PTL
================================================================================
