----------------------------- MODULE Organizations -----------------------------
(***************************************************************************)
(* Organizations and their members, composed with the SAM.gov extracts     *)
(* that say who an entity's point of contact is.  Members come by          *)
(* invitation, or because they are that point of contact, at their first   *)
(* login or when the task links them; requests of administrators change    *)
(* and remove them.  A request reads and checks first and commits later.   *)
(***************************************************************************)
EXTENDS SamExtracts, Sequences

CONSTANTS
  MaxRequests,      \* bound
  MaxInvitations    \* bound

ASSUME RequestsAssumption == MaxRequests \in Nat /\ MaxInvitations \in Nat

VARIABLES
  account,       \* the users who have logged in before
  organization,  \* the entities that have an organization
  role,          \* each user's role in an entity's organization
  invitation,    \* organization_invitation, in the order of creation
  request,
  joined         \* history: the invitations that made a member

orgVars == <<account, organization, role, invitation, request, joined>>
vars == <<samVars, orgVars>>

-----------------------------------------------------------------------------

\* Requests are numbered in the order they start in.
Request == 1..MaxRequests

\* "admin" stands for every role with MANAGE_ORG_MEMBERS.
Role == {"none", "member", "admin"}

Invitation == [org : Entity, invitee : User, role : Role \ {"none"}, accepted : BOOLEAN,
               rejected : BOOLEAN, expired : BOOLEAN]

\* Mutant: a rejection outranks an acceptance.
RejectedFirst(i) ==
  IF invitation[i].rejected THEN "rejected"
  ELSE IF invitation[i].accepted THEN "accepted"
  ELSE IF invitation[i].expired THEN "expired" ELSE "pending"

InvitationStatus(i) ==
  IF invitation[i].accepted THEN "accepted"
  ELSE IF invitation[i].rejected THEN "rejected"
  ELSE IF invitation[i].expired THEN "expired" ELSE "pending"

Sent(e, u) == { i \in DOMAIN invitation : invitation[i].org = e /\ invitation[i].invitee = u }

\* The entities of which u is the point of contact.
Contacts(u) == { e \in Entity : \E r \in entity[e] : r.poc = u }

\* What linking u to its entities goes by.
LinkRead(u) == [user |-> u, orgs |-> Contacts(u), known |-> organization,
                roles |-> [e \in Entity |-> role[e][u]]]

\* An organization made meanwhile, or a membership made, dropped or given other
\* roles, breaks a key or a foreign key.
LinkFails(link) ==
  \E e \in link.orgs :
    \/ (e \in organization) # (e \in link.known)
    \/ link.roles[e] # "admin" /\ role[e][link.user] # link.roles[e]

\* Mutant: only a new member is made administrator.
LinkedNew(current, link) ==
  [e \in Entity |->
    IF e \in link.orgs /\ link.roles[e] = "none" THEN [current[e] EXCEPT ![link.user] = "admin"]
    ELSE current[e]]

\* One who was an administrator already is left alone.
Linked(current, link) ==
  [e \in Entity |->
    IF e \in link.orgs /\ link.roles[e] # "admin" THEN [current[e] EXCEPT ![link.user] = "admin"]
    ELSE current[e]]

Idle == [at |-> "idle"]

Init ==
  /\ SamInit
  /\ account \in SUBSET User
  /\ organization = {}
  /\ role = [e \in Entity |-> [u \in User |-> "none"]]
  /\ invitation = <<>>
  /\ request = [q \in Request |-> Idle]
  /\ joined = {}

-----------------------------------------------------------------------------
(* The task's linking of points of contact: one transaction.               *)

\* The links of all entities whose point of contact has an account.
ReadLinks ==
  /\ task.at = "link"
  /\ task' = [at |-> "commit", links |-> { LinkRead(u) : u \in { v \in account : Contacts(v) # {} } }]
  /\ UNCHANGED <<day, registry, published, entity, file, faults>>
  /\ UNCHANGED orgVars

\* Each entity has one point of contact: the links change different rows.
CommitLinks ==
  /\ task.at = "commit"
  /\ IF \E link \in task.links : LinkFails(link)
     THEN /\ task' = Asleep
          /\ UNCHANGED <<organization, role>>
     ELSE /\ task' = [at |-> "clean"]
          /\ organization' = organization \cup UNION { link.orgs : link \in task.links }
          /\ role' = [e \in Entity |->
               IF \E link \in task.links : e \in link.orgs
               THEN Linked(role, CHOOSE link \in task.links : e \in link.orgs)[e]
               ELSE role[e]]
  /\ UNCHANGED <<day, registry, published, entity, file, faults>>
  /\ UNCHANGED <<account, invitation, request, joined>>

-----------------------------------------------------------------------------
(* The requests: a start reads and checks, a commit writes.                *)

Started(q, record) ==
  /\ request[q] = Idle
  /\ \A p \in 1..(q - 1) : request[p] # Idle
  /\ request' = [request EXCEPT ![q] = record]
  /\ UNCHANGED samVars
  /\ UNCHANGED <<account, organization, role, invitation, joined>>

Done(q) == request' = [request EXCEPT ![q] = [at |-> "done"]]

Admins(e) == { u \in User : role[e][u] = "admin" }

\* The first login makes the account.
Login(q, u) ==
  /\ u \notin account
  /\ Started(q, [at |-> "login", link |-> LinkRead(u)])

\* An account made meanwhile breaks a key; then, as when the link fails, nothing
\* of the login stays.
CommitLogin(q) ==
  LET link == request[q].link
  IN /\ request[q].at = "login"
     /\ Done(q)
     /\ IF LinkFails(link) \/ link.user \in account
        THEN UNCHANGED <<account, organization, role>>
        ELSE /\ account' = account \cup {link.user}
             /\ organization' = organization \cup link.orgs
             /\ role' = Linked(role, link)
     /\ UNCHANGED samVars
     /\ UNCHANGED <<invitation, joined>>

\* check_last_admin_protection
NotLastAdmin(e, target) == Admins(e) # {target}

Remove(q, e, user, target) ==
  /\ user \in Admins(e) /\ role[e][target] # "none"
  /\ NotLastAdmin(e, target)
  /\ Started(q, [at |-> "remove", org |-> e, user |-> target, read |-> role[e][target]])

UpdateRoles(q, e, user, target) ==
  /\ user \in Admins(e) /\ role[e][target] # "none"
  /\ Started(q, [at |-> "update", org |-> e, user |-> target, read |-> role[e][target]])

Other(r) == IF r = "admin" THEN "member" ELSE "admin"

\* A role given or a member gone since the read fails the request, on a foreign
\* key or a primary key, or leaves it nothing to do.
CommitMember(q) ==
  LET e == request[q].org
      u == request[q].user
  IN /\ request[q].at \in {"remove", "update"}
     /\ Done(q)
     /\ role' = IF role[e][u] = request[q].read
                THEN [role EXCEPT ![e][u] =
                        IF request[q].at = "remove" THEN "none" ELSE Other(@)]
                ELSE role
     /\ UNCHANGED samVars
     /\ UNCHANGED <<account, organization, invitation, joined>>

\* Only the latest invitation is looked at.
Invite(q, e, user, u, r) ==
  /\ user \in Admins(e)
  /\ role[e][u] = "none"
  /\ Sent(e, u) # {} => InvitationStatus(Last(Sent(e, u))) \in {"rejected", "expired"}
  /\ Started(q, [at |-> "invite", org |-> e, user |-> u, role |-> r])

CommitInvite(q) ==
  /\ request[q].at = "invite"
  /\ Len(invitation) < MaxInvitations
  /\ Done(q)
  /\ invitation' = Append(invitation, [org |-> request[q].org, invitee |-> request[q].user,
                                       role |-> request[q].role, accepted |-> FALSE, rejected |-> FALSE,
                                       expired |-> FALSE])
  /\ UNCHANGED samVars
  /\ UNCHANGED <<account, organization, role, joined>>

Expire(i) ==
  /\ i \in DOMAIN invitation
  /\ InvitationStatus(i) = "pending"
  /\ invitation' = [invitation EXCEPT ![i].expired = TRUE]
  /\ UNCHANGED samVars
  /\ UNCHANGED <<account, organization, role, request, joined>>

Respond(q, i, answer) ==
  /\ i \in DOMAIN invitation
  /\ invitation[i].invitee \in account
  /\ InvitationStatus(i) = "pending"
  /\ Started(q, [at |-> answer, invitation |-> i])

\* A user is in an organization once: to join again breaks the key.
CommitAccept(q) ==
  LET i == request[q].invitation
      e == invitation[i].org
      u == invitation[i].invitee
  IN /\ request[q].at = "accept"
     /\ Done(q)
     /\ IF role[e][u] = "none"
        THEN /\ role' = [role EXCEPT ![e][u] = invitation[i].role]
             /\ invitation' = [invitation EXCEPT ![i].accepted = TRUE]
             /\ joined' = joined \cup {i}
        ELSE UNCHANGED <<role, invitation, joined>>
     /\ UNCHANGED samVars
     /\ UNCHANGED <<account, organization>>

CommitReject(q) ==
  /\ request[q].at = "reject"
  /\ Done(q)
  /\ invitation' = [invitation EXCEPT ![request[q].invitation].rejected = TRUE]
  /\ UNCHANGED samVars
  /\ UNCHANGED <<account, organization, role, joined>>

-----------------------------------------------------------------------------

Start(q) ==
  \/ \E u \in User : Login(q, u)
  \/ \E e \in Entity, user, u \in User :
       \/ Remove(q, e, user, u) \/ UpdateRoles(q, e, user, u)
       \/ \E r \in Role \ {"none"} : Invite(q, e, user, u, r)
  \/ \E i \in DOMAIN invitation, answer \in {"accept", "reject"} : Respond(q, i, answer)

Commit(q) ==
  \/ CommitLogin(q) \/ CommitMember(q) \/ CommitInvite(q)
  \/ CommitAccept(q) \/ CommitReject(q)

Task == (SamTask /\ UNCHANGED orgVars) \/ ReadLinks \/ CommitLinks

Next ==
  \/ SamNext /\ UNCHANGED orgVars
  \/ ReadLinks
  \/ CommitLinks
  \/ \E q \in Request : Start(q) \/ Commit(q)
  \/ \E i \in 1..MaxInvitations : Expire(i)

Spec == Init /\ [][Next]_vars

\* The task is scheduled every day, and its run goes on until it ends or fails.
FairSpec == Spec /\ WF_vars(Task)

-----------------------------------------------------------------------------

TypeOK ==
  /\ SamTypeOK
  /\ account \subseteq User
  /\ organization \subseteq Entity
  /\ role \in [Entity -> [User -> Role]]
  /\ invitation \in Seq(Invitation)
  /\ joined \subseteq DOMAIN invitation

\* Whatever overlaps - two answers to one invitation, the task, a removal - an
\* invitation counts as accepted exactly if it made its invitee a member.
AcceptedJoined ==
  \A i \in DOMAIN invitation : InvitationStatus(i) = "accepted" <=> i \in joined

\* In the end, whatever administrators did to each other, the point of contact
\* that SAM.gov has for an entity administers its organization, if it has an
\* account: the task puts it back.
ContactAdministers ==
  <>[](\A e \in Entity : \A r \in entity[e] : r.poc \in account => role[e][r.poc] = "admin")

\* In the end every extract since the last monthly one is loaded.
Loaded ==
  <>[](\A d \in 1..day : (\A m \in Monthly : m <= day => m <= d) => file[d] \in {"completed", "deleted"})
================================================================================
