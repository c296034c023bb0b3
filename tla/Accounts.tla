------------------------------- MODULE Accounts -------------------------------
(***************************************************************************)
(* Who belongs to which organisation, and in which role: signing an         *)
(* organisation up, inviting, accepting an invitation, changing roles,      *)
(* removing members, changing one's own address.  Every call reads first    *)
(* and writes later; between two awaits other calls run.                    *)
(***************************************************************************)
EXTENDS Naturals, FiniteSets, Null

CONSTANTS
  Emails,
  Organizations,      \* ids of rows of Organization, created by signing up
  Calls,     \* server actions and routes that run at one time
  Granted,   \* the roles these calls hand out
  MaxUsers, MaxInvites,  \* bound: rows of User and of Invitation
  MaxCalls               \* bound: calls that begin

\* Rows are numbered as they are created.  Whoever is sent an invitation holds its link.
UserIds == 1..MaxUsers
Invites == 1..MaxInvites

ROLES == {"viewer", "editor", "developer", "admin"}

\* Assumed of the constants wherever the module is used.
AccountsAssumption ==
  /\ None \notin Emails \cup Organizations \cup ROLES /\ None \notin Nat
  /\ Granted \subseteq ROLES /\ "admin" \in Granted
  /\ MaxUsers \in Nat /\ MaxInvites \in Nat /\ MaxCalls \in Nat

\* Each role may do what the one before it may, and more (the developer's surfaces are
\* read only): what matters here is who manages the members.
CAPABILITIES == [r \in ROLES |->
  {"reports:read"}
    \cup (IF r = "viewer" THEN {} ELSE {"audits:run", "recommendations:generate", "groups:manage"})
    \cup (IF r \in {"developer", "admin"} THEN {"developer:access"} ELSE {})
    \cup (IF r = "admin"
          THEN {"site:manage", "members:manage", "automation:manage", "org:provision"} ELSE {})]
can(r, capability) == r # None /\ capability \in CAPABILITIES[r]

VARIABLES
  email,     \* the address of each user, None before the row exists
  role,      \* each organisation's Membership rows: the role of each member
  founded,   \* the organisations that exist
  invite,    \* each invitation: for whom, in which role, and what became of it
  call,      \* each call under way: its next step and what it has read
  begun,
  unguarded, \* organisations where two checks for the last admin overlapped, or an
             \* invitation lowered an admin
  doubled    \* organisation and address invited by two overlapping calls

accountRows == <<email, role, founded, invite>>
history == <<unguarded, doubled>>
accountVars == <<accountRows, call, begun, history>>

Step == {"idle", "found", "invite", "purge", "create", "revoke", "count", "write",
         "invited", "admit", "taken", "rename"}

AccountsTypeOK ==
  /\ email \in [UserIds -> Emails \cup {None}]
  /\ \A u, v \in UserIds : email[u] = email[v] /\ email[u] # None => u = v
  /\ role \in [Organizations -> [UserIds -> Granted \cup {None}]]
  /\ \A o \in Organizations, u \in UserIds :
       role[o][u] # None => email[u] # None /\ o \in founded
  /\ founded \subseteq Organizations
  /\ invite \in [Invites -> [org : Organizations \cup {None}, email : Emails \cup {None},
                             role : Granted \cup {None},
                             is : {"unsent", "pending", "expired", "accepted", "gone"}]]
  /\ call \in [Calls -> [at : Step, org : Organizations \cup {None}, user : UserIds \cup {None},
                         email : Emails \cup {None}, role : Granted \cup {None},
                         invite : Invites \cup {None}]]
  /\ begun \in 0..MaxCalls
  /\ unguarded \subseteq Organizations /\ doubled \subseteq Organizations \X Emails

NoCall == [at |-> "idle", org |-> None, user |-> None, email |-> None, role |-> None,
           invite |-> None]
NoInvite == [org |-> None, email |-> None, role |-> None, is |-> "unsent"]

AccountsInit ==
  /\ email = [u \in UserIds |-> None]
  /\ role = [o \in Organizations |-> [u \in UserIds |-> None]]
  /\ founded = {}
  /\ invite = [i \in Invites |-> NoInvite]
  /\ call = [c \in Calls |-> NoCall]
  /\ begun = 0
  /\ unguarded = {} /\ doubled = {}

NewUser == 1 + Cardinality({u \in UserIds : email[u] # None})
NewInvite == 1 + Cardinality({i \in Invites : invite[i].is # "unsent"})
UserOf(e) == {u \in UserIds : email[u] = e}
Taken(e) == UserOf(e) # {}
AdminsOf(o) == {u \in UserIds : role[o][u] = "admin"}
Outstanding(o, e) == {i \in Invites : /\ invite[i].org = o /\ invite[i].email = e
                                      /\ invite[i].is \in {"pending", "expired"}}

Begin(c, record) ==
  /\ call[c].at = "idle" /\ begun < MaxCalls
  /\ call' = [call EXCEPT ![c] = record]
  /\ begun' = begun + 1

Goto(c, step) == call' = [call EXCEPT ![c].at = step]
Return(c) == call' = [call EXCEPT ![c] = NoCall]

-----------------------------------------------------------------------------
(* signup and signupWithGoogle. *)

\* An address with an account is turned away.
SignUp(c, e) ==
  /\ ~Taken(e)
  /\ Begin(c, [NoCall EXCEPT !.at = "found", !.email = e])
  /\ UNCHANGED <<accountRows, history>>

\* Organisation, user and membership in one transaction, which fails when the
\* address has been taken meanwhile.
Found(c) ==
  /\ call[c].at = "found"
  /\ \/ Taken(call[c].email) /\ UNCHANGED accountRows
     \/ /\ ~Taken(call[c].email)
        /\ \E u \in UserIds \cap {NewUser}, o \in Organizations \ founded :
             /\ email' = [email EXCEPT ![u] = call[c].email]
             /\ role' = [role EXCEPT ![o][u] = "admin"]
             /\ founded' = founded \cup {o}
        /\ UNCHANGED invite
  /\ Return(c)
  /\ UNCHANGED <<begun, history>>

-----------------------------------------------------------------------------
(* The admin's calls.  Each reads the role of its caller first (requireCapability). *)

Authorised(o) == \E u \in UserIds : can(role[o][u], "members:manage")

Invite(c, o, e, r) ==
  /\ Authorised(o)
  /\ Begin(c, [NoCall EXCEPT !.at = "invite", !.org = o, !.email = e, !.role = r])
  /\ UNCHANGED <<accountRows, history>>

\* A member is not invited.
LookUpInvitee(c) ==
  /\ call[c].at = "invite"
  /\ IF \E u \in UserOf(call[c].email) : role[call[c].org][u] # None
     THEN Return(c) ELSE Goto(c, "purge")
  /\ UNCHANGED <<accountRows, begun, history>>

Inviting(o, e) ==
  {d \in Calls : call[d].at \in {"purge", "create"} /\ call[d].org = o /\ call[d].email = e}

\* Variant: an expired invitation is left where it is.
PurgeUnexpired(c) ==
  /\ call[c].at = "purge"
  /\ LET o == call[c].org   e == call[c].email IN
     /\ invite' = [i \in Invites |->
                     IF i \in Outstanding(o, e) /\ invite[i].is = "pending"
                     THEN [invite[i] EXCEPT !.is = "gone"] ELSE invite[i]]
     /\ doubled' = IF Inviting(o, e) = {c} THEN doubled ELSE doubled \cup {<<o, e>>}
  /\ Goto(c, "create")
  /\ UNCHANGED <<email, role, founded, begun, unguarded>>

\* The outstanding invitations go, expired ones too.
Purge(c) ==
  /\ call[c].at = "purge"
  /\ LET o == call[c].org   e == call[c].email IN
     /\ invite' = [i \in Invites |->
                     IF i \in Outstanding(o, e) THEN [invite[i] EXCEPT !.is = "gone"]
                     ELSE invite[i]]
     /\ doubled' = IF Inviting(o, e) = {c} THEN doubled ELSE doubled \cup {<<o, e>>}
  /\ Goto(c, "create")
  /\ UNCHANGED <<email, role, founded, begun, unguarded>>

Create(c) ==
  /\ call[c].at = "create"
  /\ \E i \in Invites \cap {NewInvite} :
       invite' = [invite EXCEPT ![i] =
                  [org |-> call[c].org, email |-> call[c].email,
                   role |-> call[c].role, is |-> "pending"]]
  /\ Return(c)
  /\ UNCHANGED <<email, role, founded, begun, history>>

Revoke(c, i) ==
  /\ invite[i].org # None /\ Authorised(invite[i].org)
  /\ Begin(c, [NoCall EXCEPT !.at = "revoke", !.org = invite[i].org, !.invite = i])
  /\ UNCHANGED <<accountRows, history>>

\* An accepted invitation stays as it is.
Revoked(c) ==
  /\ call[c].at = "revoke"
  /\ LET i == call[c].invite IN
     invite' = IF invite[i].is \in {"pending", "expired"}
               THEN [invite EXCEPT ![i].is = "gone"] ELSE invite
  /\ Return(c)
  /\ UNCHANGED <<email, role, founded, begun, history>>

\* changeRoleAction: r is the new role; removeMemberAction: no role.
ChangeRole(c, o, by, u, r) ==
  /\ can(role[o][by], "members:manage")
  /\ Begin(c, [NoCall EXCEPT !.at = IF r = "admin" THEN "write" ELSE "count",
                             !.org = o, !.user = u, !.role = r])
  /\ UNCHANGED <<accountRows, history>>

RemoveMember(c, o, by, u) ==
  /\ can(role[o][by], "members:manage") /\ u # by
  /\ Begin(c, [NoCall EXCEPT !.at = "count", !.org = o, !.user = u])
  /\ UNCHANGED <<accountRows, history>>

\* Variant: the admin count is off by one.
wouldOrphanEmpty(o, u) == Cardinality(AdminsOf(o)) < 1 /\ role[o][u] = "admin"

\* The only admin is neither demoted nor removed.
wouldOrphanOrganization(o, u) == Cardinality(AdminsOf(o)) <= 1 /\ role[o][u] = "admin"

Lowering(o) == {d \in Calls : call[d].at = "write" /\ call[d].org = o /\ call[d].role # "admin"}

Count(c) ==
  /\ call[c].at = "count"
  /\ LET o == call[c].org IN
     IF wouldOrphanOrganization(o, call[c].user)
     THEN Return(c) /\ UNCHANGED unguarded
     ELSE /\ Goto(c, "write")
          /\ unguarded' = IF Lowering(o) = {} THEN unguarded ELSE unguarded \cup {o}
  /\ UNCHANGED <<accountRows, begun, doubled>>

\* updateMany and deleteMany: a member who is gone already is passed over.
Write(c) ==
  /\ call[c].at = "write"
  /\ LET o == call[c].org   u == call[c].user IN
     role' = IF role[o][u] = None THEN role ELSE [role EXCEPT ![o][u] = call[c].role]
  /\ Return(c)
  /\ UNCHANGED <<email, founded, invite, begun, history>>

-----------------------------------------------------------------------------
(* acceptInvitation. *)

\* A link that was revoked, replaced, used or left to expire is turned away.
Accept(c, i) ==
  /\ invite[i].is = "pending"
  /\ Begin(c, [NoCall EXCEPT !.at = "invited", !.invite = i])
  /\ UNCHANGED <<accountRows, history>>

\* acceptInvitationWithGoogle: only for the address that was invited.
AcceptWithGoogle(c, i, e) == invite[i].email = e /\ Accept(c, i)

\* The account of the address, if there is one by now.
Existing(c) ==
  /\ call[c].at = "invited"
  /\ LET u == UserOf(invite[call[c].invite].email) IN
     call' = [call EXCEPT ![c].at = "admit",
                          ![c].user = IF u = {} THEN None ELSE CHOOSE v \in u : TRUE]
  /\ UNCHANGED <<accountRows, begun, history>>

Join(u, o, r) ==
  /\ role' = [role EXCEPT ![o][u] = r]
  /\ unguarded' = IF role[o][u] = "admin" /\ r # "admin" THEN unguarded \cup {o} ELSE unguarded

\* Variant: the mark is an updateMany, which does not mind a missing row.
AdmitAnyway(c) ==
  /\ call[c].at = "admit"
  /\ LET i == call[c].invite IN
     /\ \/ /\ call[c].user # None
           /\ Join(call[c].user, invite[i].org, invite[i].role)
           /\ UNCHANGED email
        \/ /\ call[c].user = None
           /\ \E u \in UserIds \cap {NewUser} :
                /\ email' = [email EXCEPT ![u] = invite[i].email]
                /\ Join(u, invite[i].org, invite[i].role)
     /\ invite' = IF invite[i].is = "gone" THEN invite ELSE [invite EXCEPT ![i].is = "accepted"]
  /\ Return(c)
  /\ UNCHANGED <<founded, begun, doubled>>

\* The user, the membership and the mark of the invitation in one transaction: it fails
\* when the invitation is gone, and when another call has created the user meanwhile.
Admit(c) ==
  /\ call[c].at = "admit"
  /\ LET i == call[c].invite IN
     \/ /\ invite[i].is = "gone" \/ (call[c].user = None /\ Taken(invite[i].email))
        /\ UNCHANGED <<accountRows, unguarded>>
     \/ /\ invite[i].is # "gone"
        /\ \/ /\ call[c].user # None
              /\ Join(call[c].user, invite[i].org, invite[i].role)
              /\ UNCHANGED email
           \/ /\ call[c].user = None /\ ~Taken(invite[i].email)
              /\ \E u \in UserIds \cap {NewUser} :
                   /\ email' = [email EXCEPT ![u] = invite[i].email]
                   /\ Join(u, invite[i].org, invite[i].role)
        /\ invite' = [invite EXCEPT ![i].is = "accepted"]
        /\ UNCHANGED founded
  /\ Return(c)
  /\ UNCHANGED <<begun, doubled>>

\* Seven days pass.
Expire(i) ==
  /\ invite[i].is = "pending"
  /\ invite' = [invite EXCEPT ![i].is = "expired"]
  /\ UNCHANGED <<email, role, founded, call, begun, history>>

-----------------------------------------------------------------------------
(* updateProfileAction. *)

UpdateProfile(c, u, e) ==
  /\ \E o \in Organizations : can(role[o][u], "reports:read")
  /\ e # email[u] /\ ~Taken(e)
  /\ Begin(c, [NoCall EXCEPT !.at = "rename", !.user = u, !.email = e])
  /\ UNCHANGED <<accountRows, history>>

\* The address is unique: it may have been taken meanwhile.
Rename(c) ==
  /\ call[c].at = "rename"
  /\ LET e == call[c].email IN
     email' = IF Taken(e) THEN email ELSE [email EXCEPT ![call[c].user] = e]
  /\ Return(c)
  /\ UNCHANGED <<role, founded, invite, begun, history>>

-----------------------------------------------------------------------------

AccountsNext ==
  \/ \E c \in Calls, e \in Emails : SignUp(c, e)
  \/ \E c \in Calls, o \in Organizations, e \in Emails, r \in Granted : Invite(c, o, e, r)
  \/ \E c \in Calls, i \in Invites : Revoke(c, i) \/ Accept(c, i)
  \/ \E c \in Calls, i \in Invites, e \in Emails : AcceptWithGoogle(c, i, e)
  \/ \E c \in Calls, o \in Organizations, by, u \in UserIds, r \in Granted : ChangeRole(c, o, by, u, r)
  \/ \E c \in Calls, o \in Organizations, by, u \in UserIds : RemoveMember(c, o, by, u)
  \/ \E c \in Calls, u \in UserIds, e \in Emails : UpdateProfile(c, u, e)
  \/ \E c \in Calls : \/ Found(c) \/ LookUpInvitee(c) \/ Purge(c) \/ Create(c) \/ Revoked(c)
                      \/ Count(c) \/ Write(c) \/ Existing(c) \/ Admit(c) \/ Rename(c)
  \/ \E i \in Invites : Expire(i)

AccountsSpec == AccountsInit /\ [][AccountsNext]_accountVars

-----------------------------------------------------------------------------

\* "Removing the last admin would leave the organisation unmanageable, with no way back
\* through the UI.  Both removal and demotion are blocked."
Managed == \A o \in founded : AdminsOf(o) # {}

\* An organisation is left without an admin only when the checks of two calls
\* overlapped, or when its last admin accepted an invitation to a lower role.
OrphanedOnlyUnguarded == \A o \in founded : AdminsOf(o) # {} \/ o \in unguarded

\* Re-inviting replaces the outstanding invitation, unless two admins invite one
\* address at the same time: no second link is left behind that nobody sees.
OneOutstanding ==
  \A o \in Organizations, e \in Emails :
    Cardinality(Outstanding(o, e)) <= 1 \/ <<o, e>> \in doubled

\* Whoever joins an organisation founded it in that step or redeemed an invitation of it
\* that nobody had revoked or replaced, and the invitation is used up with it.
JoinsByInvitation ==
  [][\A o \in Organizations, u \in UserIds :
       role[o][u] = None /\ role'[o][u] # None =>
         \/ o \notin founded
         \/ \E i \in Invites :
              /\ invite[i].org = o /\ invite[i].role = role'[o][u]
              /\ invite[i].is \in {"pending", "expired", "accepted"}
              /\ invite'[i].is = "accepted"]_accountVars

=============================================================================
