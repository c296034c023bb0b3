----------------------------- MODULE AccountsProofs -----------------------------
(***************************************************************************)
(* For any number of organisations, addresses, users, invitations and calls *)
(* under way: nobody is left without an admin unless two checks overlapped, *)
(* one link is outstanding unless two admins invited at one time, and who   *)
(* joins founded the organisation or redeemed a link that was not revoked.  *)
(* For any number of browsers and addresses they call from: attempts to log *)
(* in are bounded, and a reset link that was replaced does nothing.         *)
(***************************************************************************)
EXTENDS Accounts, SignIn, FiniteSetTheorems, TLAPS

CallRecord == [at : Step, org : Organizations \cup {None}, user : UserIds \cup {None},
               email : Emails \cup {None}, role : Granted \cup {None},
               invite : Invites \cup {None}]
InviteRecord == [org : Organizations \cup {None}, email : Emails \cup {None},
                 role : Granted \cup {None},
                 is : {"unsent", "pending", "expired", "accepted", "gone"}]

RowTypes ==
  /\ email \in [UserIds -> Emails \cup {None}]
  /\ role \in [Organizations -> [UserIds -> Granted \cup {None}]]
  /\ founded \subseteq Organizations
  /\ invite \in [Invites -> InviteRecord]

AddressesAreUnique == \A u, v \in UserIds : email[u] = email[v] /\ email[u] # None => u = v
MembersExist ==
  \A o \in Organizations, u \in UserIds : role[o][u] # None => email[u] # None /\ o \in founded
SentIsFilled ==
  \A i \in Invites : invite[i].is # "unsent" =>
    invite[i].org \in founded /\ invite[i].email \in Emails /\ invite[i].role \in Granted

\* Rows of User are numbered as they are created, so that the next number is free.
NumberedInOrder == \A u, v \in UserIds : v <= u /\ email[u] # None => email[v] # None

RowsInv == RowTypes /\ AddressesAreUnique /\ MembersExist /\ SentIsFilled /\ NumberedInOrder

\* What a call has read when it is at a step is there, and stays there.
Refers(r, f, em, inv) ==
  /\ r.at \in {"found", "invite", "purge", "create", "rename"} => r.email \in Emails
  /\ r.at \in {"invite", "purge", "create", "count", "write"} => r.org \in f
  /\ r.at \in {"invite", "purge", "create"} => r.role \in Granted
  /\ r.at \in {"revoke", "invited", "admit"} => r.invite \in Invites
  /\ r.at \in {"invited", "admit"} => inv[r.invite].is # "unsent"
  /\ r.at \in {"count", "write"} => r.user \in UserIds
  /\ r.at = "rename" \/ (r.at = "admit" /\ r.user # None) =>
       r.user \in UserIds /\ em[r.user] # None

CallsInv ==
  /\ call \in [Calls -> CallRecord]
  /\ \A c \in Calls : Refers(call[c], founded, email, invite)

NotesTyped == begun \in 0..MaxCalls /\ unguarded \subseteq Organizations /\ doubled \subseteq Organizations \X Emails

\* No row that a call refers to goes away.
Grows ==
  /\ founded \subseteq founded'
  /\ \A u \in UserIds : email[u] # None => email'[u] # None
  /\ \A i \in Invites : invite[i].is # "unsent" => invite'[i].is # "unsent"

-----------------------------------------------------------------------------
(* The rows. *)

\* Of rows numbered in order, the number after the count of them is the first one free.
LEMMA FirstFree ==
  ASSUME NEW max \in Nat, NEW S \in SUBSET (1..max),
         \A i, k \in 1..max : k <= i /\ i \in S => k \in S
  PROVE  /\ 1 + Cardinality(S) \notin S
         /\ \A k \in 1..max : k < 1 + Cardinality(S) => k \in S
PROOF
<1> DEFINE n == Cardinality(S)
<1>1. IsFiniteSet(1..max)
  BY FS_Interval
<1>2. IsFiniteSet(S) /\ n \in Nat
  BY <1>1, FS_Subset, FS_CardinalityType
<1>3. 1 + n \notin S
  <2> SUFFICES ASSUME 1 + n \in S PROVE FALSE
    OBVIOUS
  <2>1. 1..(n + 1) \subseteq S
    BY <1>2
  <2>2. Cardinality(1..(n + 1)) = n + 1
    BY <1>2, FS_Interval
  <2>3. Cardinality(1..(n + 1)) <= n
    BY <1>2, <2>1, FS_Subset, Zenon
  <2>4. QED
    BY <1>2, <2>2, <2>3
<1>4. ASSUME NEW k \in 1..max, k < 1 + n PROVE k \in S
  <2> SUFFICES ASSUME k \notin S PROVE FALSE
    OBVIOUS
  <2>1. S \subseteq 1..(k - 1)
    OBVIOUS
  <2>2. IsFiniteSet(1..(k - 1)) /\ Cardinality(1..(k - 1)) = k - 1
    BY FS_Interval
  <2>3. n <= Cardinality(1..(k - 1))
    BY <2>1, <2>2, FS_Subset, Zenon
  <2>4. QED
    BY <1>2, <1>4, <2>2, <2>3
<1>5. QED
  BY <1>3, <1>4

LEMMA NewUserIsNew ==
  ASSUME AccountsAssumption, RowsInv, NewUser \in UserIds
  PROVE  /\ email[NewUser] = None
         /\ \A v \in UserIds : v < NewUser => email[v] # None
PROOF
<1> DEFINE S == {u \in UserIds : email[u] # None}
<1>1. S \in SUBSET (1..MaxUsers) /\ MaxUsers \in Nat
  BY DEF AccountsAssumption, UserIds
<1>2. \A u, v \in 1..MaxUsers : v <= u /\ u \in S => v \in S
  BY DEF RowsInv, NumberedInOrder, UserIds
<1>3. NewUser = 1 + Cardinality(S)
  BY DEF NewUser
<1> HIDE DEF S
<1>4. NewUser \notin S /\ \A v \in 1..MaxUsers : v < NewUser => v \in S
  BY <1>1, <1>2, <1>3, FirstFree
<1>5. QED
  BY <1>4 DEF S, UserIds

\* An address that nobody has is given to the next user or to one there is.
AddressSound == email \in [UserIds -> Emails \cup {None}] /\ AddressesAreUnique /\ NumberedInOrder

LEMMA AddressGiven ==
  ASSUME AccountsAssumption, RowsInv, NEW u \in UserIds, u = NewUser \/ email[u] # None,
         NEW e \in Emails, ~Taken(e), email' = [email EXCEPT ![u] = e]
  PROVE  /\ AddressSound'
         /\ \A v \in UserIds : v # u => email'[v] = email[v]
         /\ email'[u] = e /\ e # None
PROOF
<1>1. e # None
  BY DEF AccountsAssumption
<1>2. email \in [UserIds -> Emails \cup {None}] /\ \A v \in UserIds : email[v] # e
  BY DEF RowsInv, RowTypes, Taken, UserOf
<1>3. /\ email' \in [UserIds -> Emails \cup {None}]
      /\ \A v \in UserIds : email'[v] = IF v = u THEN e ELSE email[v]
  BY <1>2
<1>4. AddressesAreUnique'
  BY <1>1, <1>2, <1>3 DEF RowsInv, AddressesAreUnique
<1>5. \A v \in UserIds : v <= u => v = u \/ email[v] # None
  BY NewUserIsNew DEF RowsInv, NumberedInOrder, UserIds
<1>6. NumberedInOrder'
  BY <1>1, <1>3, <1>5 DEF RowsInv, NumberedInOrder
<1>7. QED
  BY <1>1, <1>3, <1>4, <1>6 DEF AddressSound

LEMMA FoundRows ==
  ASSUME AccountsAssumption, RowsInv, CallsInv, NEW c \in Calls, Found(c)
  PROVE  RowsInv' /\ Grows
PROOF
<1>1. CASE UNCHANGED accountRows
  BY <1>1 DEF accountRows, RowsInv, RowTypes, AddressesAreUnique, MembersExist, SentIsFilled,
              NumberedInOrder, Grows
<1>2. CASE ~UNCHANGED accountRows
  <2>1. PICK u \in UserIds \cap {NewUser}, o \in Organizations \ founded :
             /\ ~Taken(call[c].email) /\ call[c].at = "found"
             /\ email' = [email EXCEPT ![u] = call[c].email]
             /\ role' = [role EXCEPT ![o][u] = "admin"]
             /\ founded' = founded \cup {o}
             /\ invite' = invite
    BY <1>2 DEF Found
  <2>2. call[c].email \in Emails
    BY <2>1 DEF CallsInv, Refers
  <2>3. /\ AddressSound'
        /\ \A v \in UserIds : v # u => email'[v] = email[v]
        /\ email'[u] # None
    BY <2>1, <2>2, AddressGiven
  <2>4. /\ role' \in [Organizations -> [UserIds -> Granted \cup {None}]]
        /\ \A p \in Organizations, v \in UserIds :
             role'[p][v] = IF p = o /\ v = u THEN "admin" ELSE role[p][v]
    BY <2>1 DEF RowsInv, RowTypes, AccountsAssumption
  <2>5. RowTypes'
    BY <2>1, <2>3, <2>4 DEF RowsInv, RowTypes, AddressSound
  <2>6. MembersExist' /\ SentIsFilled' /\ Grows
    BY <2>1, <2>3, <2>4 DEF RowsInv, MembersExist, SentIsFilled, Grows
  <2>7. QED
    BY <2>3, <2>5, <2>6 DEF RowsInv, AddressSound
<1>3. QED
  BY <1>1, <1>2

\* Only what has become of invitations changes, and none is taken back unsent.
LEMMA InviteRows ==
  ASSUME RowsInv, UNCHANGED <<email, role, founded>>,
         invite' \in [Invites -> InviteRecord],
         \A i \in Invites :
           \/ invite'[i] = invite[i]
           \/ /\ invite'[i].is # "unsent"
              /\ invite'[i].org \in founded /\ invite'[i].email \in Emails
              /\ invite'[i].role \in Granted
  PROVE  RowsInv' /\ Grows
PROOF
<1>1. RowTypes' /\ AddressesAreUnique' /\ MembersExist' /\ NumberedInOrder'
  BY DEF RowsInv, RowTypes, AddressesAreUnique, MembersExist, NumberedInOrder
<1>2. SentIsFilled' /\ Grows
  BY DEF RowsInv, SentIsFilled, Grows
<1>3. QED
  BY <1>1, <1>2 DEF RowsInv

LEMMA PurgeRows ==
  ASSUME RowsInv, NEW c \in Calls, Purge(c)
  PROVE  RowsInv' /\ Grows
PROOF
<1> DEFINE out == Outstanding(call[c].org, call[c].email)
<1>1. /\ invite' = [i \in Invites |->
                      IF i \in out THEN [invite[i] EXCEPT !.is = "gone"] ELSE invite[i]]
      /\ UNCHANGED <<email, role, founded>>
  BY DEF Purge
<1>2. \A i \in out : i \in Invites /\ invite[i].is # "unsent"
  BY DEF Outstanding
<1> HIDE DEF out
<1>3. invite' \in [Invites -> InviteRecord]
  BY <1>1 DEF RowsInv, RowTypes, InviteRecord
<1>4. ASSUME NEW i \in Invites
      PROVE  \/ invite'[i] = invite[i]
             \/ /\ invite'[i].is # "unsent"
                /\ invite'[i].org \in founded /\ invite'[i].email \in Emails
                /\ invite'[i].role \in Granted
  BY <1>1, <1>2 DEF RowsInv, RowTypes, InviteRecord, SentIsFilled
<1>5. QED
  BY <1>1, <1>3, <1>4, InviteRows

LEMMA CreateRows ==
  ASSUME RowsInv, CallsInv, NEW c \in Calls, Create(c)
  PROVE  RowsInv' /\ Grows
PROOF
<1>1. PICK i \in Invites :
        invite' = [invite EXCEPT ![i] = [org |-> call[c].org, email |-> call[c].email,
                                         role |-> call[c].role, is |-> "pending"]]
  BY DEF Create
<1>2. /\ call[c].org \in founded /\ call[c].email \in Emails /\ call[c].role \in Granted
      /\ founded \subseteq Organizations
  BY DEF Create, CallsInv, Refers, RowsInv, RowTypes
<1>3. invite' \in [Invites -> InviteRecord]
  BY <1>1, <1>2 DEF RowsInv, RowTypes, InviteRecord
<1>4. ASSUME NEW j \in Invites
      PROVE  \/ invite'[j] = invite[j]
             \/ /\ invite'[j].is # "unsent"
                /\ invite'[j].org \in founded /\ invite'[j].email \in Emails
                /\ invite'[j].role \in Granted
  BY <1>1, <1>2 DEF RowsInv, RowTypes
<1>5. UNCHANGED <<email, role, founded>>
  BY DEF Create
<1>6. QED
  BY <1>3, <1>4, <1>5, InviteRows

\* One invitation that has been sent becomes something else.
LEMMA MarkRows ==
  ASSUME RowsInv, UNCHANGED <<email, role, founded>>,
         NEW i \in Invites, invite[i].is # "unsent", NEW is \in {"expired", "accepted", "gone"},
         invite' = [invite EXCEPT ![i].is = is]
  PROVE  RowsInv' /\ Grows
PROOF
<1>1. invite' \in [Invites -> InviteRecord]
  BY DEF RowsInv, RowTypes, InviteRecord
<1>2. ASSUME NEW j \in Invites
      PROVE  \/ invite'[j] = invite[j]
             \/ /\ invite'[j].is # "unsent"
                /\ invite'[j].org \in founded /\ invite'[j].email \in Emails
                /\ invite'[j].role \in Granted
  BY DEF RowsInv, RowTypes, InviteRecord, SentIsFilled
<1>3. QED
  BY <1>1, <1>2, InviteRows

\* A member's role changes, or a user who is there or comes with it joins.
LEMMA RoleRows ==
  ASSUME RowsInv, AddressSound',
         \A u \in UserIds : email[u] # None => email'[u] # None,
         NEW o \in founded, NEW u \in UserIds, email'[u] # None, NEW r \in Granted \cup {None},
         role' = [role EXCEPT ![o][u] = r],
         founded' = founded,
         invite' \in [Invites -> InviteRecord],
         \A i \in Invites :
           /\ invite'[i].is # "unsent" <=> invite[i].is # "unsent"
           /\ invite'[i].org = invite[i].org /\ invite'[i].email = invite[i].email
           /\ invite'[i].role = invite[i].role
  PROVE  RowsInv' /\ Grows
PROOF
<1>1. /\ o \in Organizations
      /\ role' \in [Organizations -> [UserIds -> Granted \cup {None}]]
      /\ \A p \in Organizations, v \in UserIds : role'[p][v] = IF p = o /\ v = u THEN r ELSE role[p][v]
  BY DEF RowsInv, RowTypes
<1>2. RowTypes'
  BY <1>1 DEF RowsInv, RowTypes, AddressSound
<1>3. MembersExist' /\ SentIsFilled' /\ Grows
  BY <1>1 DEF RowsInv, MembersExist, SentIsFilled, Grows
<1>4. QED
  BY <1>2, <1>3 DEF RowsInv, AddressSound

LEMMA WriteRows ==
  ASSUME RowsInv, CallsInv, NEW c \in Calls, Write(c)
  PROVE  RowsInv' /\ Grows
PROOF
<1>1. call[c].org \in founded /\ call[c].user \in UserIds /\ call[c].role \in Granted \cup {None}
  BY DEF Write, CallsInv, Refers, CallRecord
<1>2. UNCHANGED <<email, founded, invite>>
  BY DEF Write
<1>3. CASE role' = role
  BY <1>2, <1>3 DEF RowsInv, RowTypes, AddressesAreUnique, MembersExist, SentIsFilled,
                    NumberedInOrder, Grows
<1>4. CASE /\ role[call[c].org][call[c].user] # None
           /\ role' = [role EXCEPT ![call[c].org][call[c].user] = call[c].role]
  <2>1. email[call[c].user] # None
    BY <1>1, <1>4 DEF RowsInv, RowTypes, MembersExist
  <2>2. AddressSound' /\ invite' \in [Invites -> InviteRecord]
    BY <1>2 DEF RowsInv, RowTypes, AddressSound, AddressesAreUnique, NumberedInOrder
  <2>3. QED
    BY <1>1, <1>2, <1>4, <2>1, <2>2, RoleRows
<1>5. QED
  BY <1>3, <1>4 DEF Write

LEMMA AdmitRows ==
  ASSUME AccountsAssumption, RowsInv, CallsInv, NEW c \in Calls, Admit(c)
  PROVE  RowsInv' /\ Grows
PROOF
<1> DEFINE i == call[c].invite
<1>1. /\ i \in Invites /\ invite[i].is # "unsent"
      /\ invite[i].org \in founded /\ invite[i].email \in Emails /\ invite[i].role \in Granted
      /\ call[c].user # None => call[c].user \in UserIds /\ email[call[c].user] # None
  BY DEF Admit, CallsInv, Refers, RowsInv, SentIsFilled
<1>2. CASE UNCHANGED accountRows
  BY <1>2 DEF accountRows, RowsInv, RowTypes, AddressesAreUnique, MembersExist, SentIsFilled,
              NumberedInOrder, Grows
<1>3. CASE ~UNCHANGED accountRows
  <2>1. /\ invite' = [invite EXCEPT ![i].is = "accepted"] /\ founded' = founded
        /\ \/ /\ call[c].user # None
              /\ Join(call[c].user, invite[i].org, invite[i].role)
              /\ UNCHANGED email
           \/ /\ ~Taken(invite[i].email)
              /\ \E u \in UserIds \cap {NewUser} :
                   /\ email' = [email EXCEPT ![u] = invite[i].email]
                   /\ Join(u, invite[i].org, invite[i].role)
    BY <1>3 DEF Admit
  <2>2. /\ invite' \in [Invites -> InviteRecord]
        /\ \A j \in Invites :
             /\ invite'[j].is # "unsent" <=> invite[j].is # "unsent"
             /\ invite'[j].org = invite[j].org /\ invite'[j].email = invite[j].email
             /\ invite'[j].role = invite[j].role
    BY <1>1, <2>1 DEF RowsInv, RowTypes, InviteRecord
  <2>3. PICK u \in UserIds :
          /\ Join(u, invite[i].org, invite[i].role)
          /\ AddressSound' /\ email'[u] # None
          /\ \A v \in UserIds : email[v] # None => email'[v] # None
    <3>1. CASE call[c].user # None /\ Join(call[c].user, invite[i].org, invite[i].role) /\ UNCHANGED email
      BY <1>1, <3>1 DEF RowsInv, RowTypes, AddressSound, AddressesAreUnique, NumberedInOrder
    <3>2. ASSUME ~Taken(invite[i].email), NEW u \in UserIds \cap {NewUser},
                 email' = [email EXCEPT ![u] = invite[i].email]
          PROVE  /\ AddressSound' /\ email'[u] # None
                 /\ \A v \in UserIds : email[v] # None => email'[v] # None
      <4>1. u \in UserIds /\ u = NewUser
        OBVIOUS
      <4>2. /\ AddressSound'
            /\ \A v \in UserIds : v # u => email'[v] = email[v]
            /\ email'[u] = invite[i].email /\ invite[i].email # None
        BY <1>1, <3>2, <4>1, AddressGiven
      <4>3. QED
        BY <4>2
    <3>3. QED
      BY <2>1, <3>1, <3>2
  <2>4. role' = [role EXCEPT ![invite[i].org][u] = invite[i].role]
    BY <2>3 DEF Join
  <2> HIDE DEF i
  <2>5. QED
    BY <1>1, <2>1, <2>2, <2>3, <2>4, RoleRows
<1>4. QED
  BY <1>2, <1>3

LEMMA RenameRows ==
  ASSUME AccountsAssumption, RowsInv, CallsInv, NEW c \in Calls, Rename(c)
  PROVE  RowsInv' /\ Grows
PROOF
<1>1. call[c].email \in Emails /\ call[c].user \in UserIds /\ email[call[c].user] # None
  BY DEF Rename, CallsInv, Refers
<1>2. UNCHANGED <<role, founded, invite>>
  BY DEF Rename
<1>3. CASE email' = email
  BY <1>2, <1>3 DEF RowsInv, RowTypes, AddressesAreUnique, MembersExist, SentIsFilled,
                    NumberedInOrder, Grows
<1>4. CASE ~Taken(call[c].email) /\ email' = [email EXCEPT ![call[c].user] = call[c].email]
  <2>1. /\ AddressSound'
        /\ \A v \in UserIds : v # call[c].user => email'[v] = email[v]
        /\ email'[call[c].user] # None
    BY <1>1, <1>4, AddressGiven
  <2>2. QED
    BY <1>2, <2>1 DEF RowsInv, RowTypes, MembersExist, SentIsFilled, AddressSound, Grows
<1>5. QED
  BY <1>3, <1>4 DEF Rename

LEMMA RowsStep ==
  ASSUME AccountsAssumption, RowsInv, CallsInv, [AccountsNext]_accountVars
  PROVE  RowsInv' /\ Grows
PROOF
<1>1. ASSUME UNCHANGED accountRows PROVE RowsInv' /\ Grows
  BY <1>1 DEF accountRows, RowsInv, RowTypes, AddressesAreUnique, MembersExist, SentIsFilled,
              NumberedInOrder, Grows
<1>2. ASSUME NEW c \in Calls, Revoked(c) PROVE RowsInv' /\ Grows
  <2>1. call[c].invite \in Invites /\ UNCHANGED <<email, role, founded>>
    BY <1>2 DEF Revoked, CallsInv, Refers
  <2>2. CASE invite' = invite
    BY <1>1, <2>1, <2>2 DEF accountRows
  <2>3. CASE invite' # invite
    <3>1. /\ invite[call[c].invite].is # "unsent"
          /\ invite' = [invite EXCEPT ![call[c].invite].is = "gone"]
      BY <1>2, <2>3 DEF Revoked
    <3>2. QED
      BY <2>1, <3>1, MarkRows
  <2>4. QED
    BY <2>2, <2>3
<1>3. ASSUME NEW i \in Invites, Expire(i) PROVE RowsInv' /\ Grows
  BY <1>3, MarkRows DEF Expire
<1>4. ASSUME NEW c \in Calls, LookUpInvitee(c) \/ Count(c) \/ Existing(c) PROVE RowsInv' /\ Grows
  BY <1>1, <1>4 DEF LookUpInvitee, Count, Existing
<1>5. CASE \/ \E c \in Calls, e \in Emails : SignUp(c, e)
           \/ \E c \in Calls, o \in Organizations, e \in Emails, r \in Granted : Invite(c, o, e, r)
           \/ \E c \in Calls, i \in Invites : Revoke(c, i) \/ Accept(c, i)
           \/ \E c \in Calls, i \in Invites, e \in Emails : AcceptWithGoogle(c, i, e)
  BY <1>1, <1>5 DEF SignUp, Invite, Revoke, Accept, AcceptWithGoogle
<1>6. CASE \/ \E c \in Calls, o \in Organizations, by, u \in UserIds, r \in Granted : ChangeRole(c, o, by, u, r)
           \/ \E c \in Calls, o \in Organizations, by, u \in UserIds : RemoveMember(c, o, by, u)
           \/ \E c \in Calls, u \in UserIds, e \in Emails : UpdateProfile(c, u, e)
  BY <1>1, <1>6 DEF ChangeRole, RemoveMember, UpdateProfile
<1>7. CASE UNCHANGED accountVars
  BY <1>1, <1>7 DEF accountVars
<1>8. QED
  BY <1>2, <1>3, <1>4, <1>5, <1>6, <1>7, FoundRows, PurgeRows, CreateRows, WriteRows, AdmitRows,
     RenameRows DEF AccountsNext

-----------------------------------------------------------------------------
(* The calls. *)

LEMMA CallGoes ==
  ASSUME CallsInv, Grows, NEW c \in Calls, NEW r \in CallRecord,
         call' = [call EXCEPT ![c] = r], Refers(r, founded', email', invite')
  PROVE  CallsInv'
PROOF
<1>1. call' \in [Calls -> CallRecord]
  BY DEF CallsInv
<1>2. ASSUME NEW d \in Calls PROVE Refers(call'[d], founded', email', invite')
  <2>1. CASE d = c
    BY <2>1 DEF CallsInv
  <2>2. CASE d # c
    <3>1. call'[d] = call[d] /\ Refers(call[d], founded, email, invite)
      BY <2>2 DEF CallsInv
    <3>2. Refers(call[d], founded', email', invite')
      BY <3>1 DEF Refers, Grows
    <3>3. QED
      BY <3>1, <3>2
  <2>3. QED
    BY <2>1, <2>2
<1>3. QED
  BY <1>1, <1>2 DEF CallsInv

LEMMA CallReturns ==
  ASSUME CallsInv, Grows, NEW c \in Calls, Return(c)
  PROVE  CallsInv'
PROOF
<1>1. NoCall \in CallRecord /\ Refers(NoCall, founded', email', invite')
  BY DEF NoCall, CallRecord, Step, Refers
<1>2. QED
  BY <1>1, CallGoes DEF Return

LEMMA CallMoves ==
  ASSUME CallsInv, Grows, NEW c \in Calls, NEW step \in Step, Goto(c, step),
         Refers([call[c] EXCEPT !.at = step], founded', email', invite')
  PROVE  CallsInv'
PROOF
<1> DEFINE r == [call[c] EXCEPT !.at = step]
<1>1. call[c] \in CallRecord
  BY DEF CallsInv
<1>2. r \in CallRecord
  BY <1>1 DEF CallRecord
<1>3. call' = [call EXCEPT ![c] = r]
  BY DEF Goto
<1>4. QED
  BY <1>2, <1>3, CallGoes

Begins(c) ==
  \/ \E e \in Emails : SignUp(c, e)
  \/ \E o \in Organizations, e \in Emails, r \in Granted : Invite(c, o, e, r)
  \/ \E i \in Invites : Revoke(c, i) \/ Accept(c, i)
  \/ \E o \in Organizations, by, u \in UserIds, r \in Granted : ChangeRole(c, o, by, u, r)
  \/ \E o \in Organizations, by, u \in UserIds : RemoveMember(c, o, by, u)
  \/ \E u \in UserIds, e \in Emails : UpdateProfile(c, u, e)

\* What a call that begins has read: it is at the first step of its kind.
LEMMA CallBegins ==
  ASSUME RowsInv, CallsInv, Grows, NEW c \in Calls, Begins(c)
  PROVE  /\ CallsInv'
         /\ \E r \in CallRecord :
              /\ call' = [call EXCEPT ![c] = r] /\ r.at \in Step \ {"idle", "purge", "create"}
              /\ r.at = "write" => r.role = "admin"
         /\ call[c].at = "idle" /\ begun < MaxCalls /\ begun' = begun + 1
         /\ UNCHANGED <<accountRows, history>>
PROOF
<1> DEFINE Begun ==
      \E r \in CallRecord :
        /\ Begin(c, r) /\ Refers(r, founded, email, invite) /\ UNCHANGED <<accountRows, history>>
        /\ r.at \in Step \ {"idle", "purge", "create"} /\ (r.at = "write" => r.role = "admin")
<1>1. SUFFICES Begun
  BY CallGoes DEF Begin, accountRows
<1>2. \A o \in Organizations, u \in UserIds : role[o][u] # None => o \in founded /\ email[u] # None
  BY DEF RowsInv, MembersExist
<1>3. ASSUME NEW e \in Emails, SignUp(c, e) PROVE Begun
  <2> DEFINE r == [NoCall EXCEPT !.at = "found", !.email = e]
  <2>1. r \in CallRecord /\ Refers(r, founded, email, invite) /\ r.at = "found"
    BY DEF NoCall, CallRecord, Step, Refers
  <2>2. Begin(c, r) /\ UNCHANGED <<accountRows, history>>
    BY <1>3 DEF SignUp
  <2> QED
    BY <2>1, <2>2 DEF Step
<1>4. ASSUME NEW o \in Organizations, NEW e \in Emails, NEW g \in Granted, Invite(c, o, e, g) PROVE Begun
  <2> DEFINE r == [NoCall EXCEPT !.at = "invite", !.org = o, !.email = e, !.role = g]
  <2>0. o \in founded
    BY <1>2, <1>4 DEF Invite, Authorised, can
  <2>1. r \in CallRecord /\ Refers(r, founded, email, invite) /\ r.at = "invite"
    BY <2>0 DEF NoCall, CallRecord, Step, Refers
  <2>2. Begin(c, r) /\ UNCHANGED <<accountRows, history>>
    BY <1>4 DEF Invite
  <2> QED
    BY <2>1, <2>2 DEF Step
<1>5. ASSUME NEW i \in Invites, Revoke(c, i) PROVE Begun
  <2> DEFINE r == [NoCall EXCEPT !.at = "revoke", !.org = invite[i].org, !.invite = i]
  <2>0. invite[i].org \in Organizations \cup {None}
    BY DEF RowsInv, RowTypes, InviteRecord
  <2>1. r \in CallRecord /\ Refers(r, founded, email, invite) /\ r.at = "revoke"
    BY <2>0 DEF NoCall, CallRecord, Step, Refers
  <2>2. Begin(c, r) /\ UNCHANGED <<accountRows, history>>
    BY <1>5 DEF Revoke
  <2> QED
    BY <2>1, <2>2 DEF Step
<1>6. ASSUME NEW i \in Invites, Accept(c, i) PROVE Begun
  <2> DEFINE r == [NoCall EXCEPT !.at = "invited", !.invite = i]
  <2>0. invite[i].is # "unsent"
    BY <1>6 DEF Accept
  <2>1. r \in CallRecord /\ Refers(r, founded, email, invite) /\ r.at = "invited"
    BY <2>0 DEF NoCall, CallRecord, Step, Refers
  <2>2. Begin(c, r) /\ UNCHANGED <<accountRows, history>>
    BY <1>6 DEF Accept
  <2> QED
    BY <2>1, <2>2 DEF Step
<1>7. ASSUME NEW o \in Organizations, NEW by \in UserIds, NEW u \in UserIds, NEW g \in Granted,
             ChangeRole(c, o, by, u, g)
      PROVE  Begun
  <2> DEFINE r == [NoCall EXCEPT !.at = IF g = "admin" THEN "write" ELSE "count",
                                 !.org = o, !.user = u, !.role = g]
  <2>0. o \in founded
    BY <1>2, <1>7 DEF ChangeRole, can
  <2>1. /\ r \in CallRecord /\ Refers(r, founded, email, invite)
        /\ r.at \in {"write", "count"} /\ (r.at = "write" => r.role = "admin")
    BY <2>0 DEF NoCall, CallRecord, Step, Refers
  <2>2. Begin(c, r) /\ UNCHANGED <<accountRows, history>>
    BY <1>7 DEF ChangeRole
  <2> QED
    BY <2>1, <2>2 DEF Step
<1>8. ASSUME NEW o \in Organizations, NEW by \in UserIds, NEW u \in UserIds, RemoveMember(c, o, by, u)
      PROVE  Begun
  <2> DEFINE r == [NoCall EXCEPT !.at = "count", !.org = o, !.user = u]
  <2>0. o \in founded
    BY <1>2, <1>8 DEF RemoveMember, can
  <2>1. r \in CallRecord /\ Refers(r, founded, email, invite) /\ r.at = "count"
    BY <2>0 DEF NoCall, CallRecord, Step, Refers
  <2>2. Begin(c, r) /\ UNCHANGED <<accountRows, history>>
    BY <1>8 DEF RemoveMember
  <2> QED
    BY <2>1, <2>2 DEF Step
<1>9. ASSUME NEW u \in UserIds, NEW e \in Emails, UpdateProfile(c, u, e) PROVE Begun
  <2> DEFINE r == [NoCall EXCEPT !.at = "rename", !.user = u, !.email = e]
  <2>0. email[u] # None
    BY <1>2, <1>9 DEF UpdateProfile, can
  <2>1. r \in CallRecord /\ Refers(r, founded, email, invite) /\ r.at = "rename"
    BY <2>0 DEF NoCall, CallRecord, Step, Refers
  <2>2. Begin(c, r) /\ UNCHANGED <<accountRows, history>>
    BY <1>9 DEF UpdateProfile
  <2> QED
    BY <2>1, <2>2 DEF Step
<1> HIDE DEF Begun
<1>10. QED
  BY <1>3, <1>4, <1>5, <1>6, <1>7, <1>8, <1>9 DEF Begins

LEMMA Kinds ==
  AccountsNext => \/ \E c \in Calls : \/ Begins(c) \/ Found(c) \/ LookUpInvitee(c) \/ Purge(c) \/ Create(c)
                              \/ Revoked(c) \/ Count(c) \/ Write(c) \/ Existing(c) \/ Admit(c)
                              \/ Rename(c)
          \/ \E i \in Invites : Expire(i)
PROOF BY DEF AccountsNext, Begins, AcceptWithGoogle

LEMMA CallsStep ==
  ASSUME AccountsAssumption, RowsInv, CallsInv, [AccountsNext]_accountVars
  PROVE  CallsInv'
PROOF
<1>0. RowsInv' /\ Grows
  BY RowsStep
<1>1. ASSUME NEW c \in Calls, Begins(c) PROVE CallsInv'
  BY <1>0, <1>1, CallBegins
<1>2. ASSUME NEW c \in Calls,
             \/ Found(c) \/ Create(c) \/ Revoked(c) \/ Write(c) \/ Admit(c) \/ Rename(c)
      PROVE  CallsInv'
  <2>1. Return(c)
    BY <1>2 DEF Found, Create, Revoked, Write, Admit, Rename
  <2>2. QED
    BY <1>0, <2>1, CallReturns
<1>3. ASSUME NEW c \in Calls, LookUpInvitee(c) PROVE CallsInv'
  <2>1. CASE Return(c)
    BY <1>0, <2>1, CallReturns
  <2>2. CASE Goto(c, "purge")
    <3>1. call[c].at = "invite" /\ Refers(call[c], founded, email, invite) /\ call[c] \in CallRecord
      BY <1>3 DEF LookUpInvitee, CallsInv
    <3>2. Refers([call[c] EXCEPT !.at = "purge"], founded', email', invite')
      BY <1>0, <3>1 DEF Refers, CallRecord, Grows
    <3>3. "purge" \in Step
      BY DEF Step
    <3>4. QED
      BY <1>0, <2>2, <3>2, <3>3, CallMoves
  <2>3. QED
    BY <1>3, <2>1, <2>2 DEF LookUpInvitee
<1>4. ASSUME NEW c \in Calls, Purge(c) PROVE CallsInv'
  <2>1. /\ call[c].at = "purge" /\ Goto(c, "create")
        /\ Refers(call[c], founded, email, invite) /\ call[c] \in CallRecord
    BY <1>4 DEF Purge, CallsInv
  <2>2. Refers([call[c] EXCEPT !.at = "create"], founded', email', invite')
    BY <1>0, <2>1 DEF Refers, CallRecord, Grows
  <2>3. "create" \in Step
    BY DEF Step
  <2>4. QED
    BY <1>0, <2>1, <2>2, <2>3, CallMoves
<1>5. ASSUME NEW c \in Calls, Count(c) PROVE CallsInv'
  <2>1. CASE Return(c)
    BY <1>0, <2>1, CallReturns
  <2>2. CASE Goto(c, "write")
    <3>1. call[c].at = "count" /\ Refers(call[c], founded, email, invite) /\ call[c] \in CallRecord
      BY <1>5 DEF Count, CallsInv
    <3>2. Refers([call[c] EXCEPT !.at = "write"], founded', email', invite')
      BY <1>0, <3>1 DEF Refers, CallRecord, Grows
    <3>3. "write" \in Step
      BY DEF Step
    <3>4. QED
      BY <1>0, <2>2, <3>2, <3>3, CallMoves
  <2>3. QED
    BY <1>5, <2>1, <2>2 DEF Count
<1>6. ASSUME NEW c \in Calls, Existing(c) PROVE CallsInv'
  <2> DEFINE i == call[c].invite
             u == IF UserOf(invite[i].email) = {} THEN None
                  ELSE CHOOSE v \in UserOf(invite[i].email) : TRUE
             r == [call[c] EXCEPT !.at = "admit", !.user = u]
  <2>1. /\ call[c].at = "invited" /\ Refers(call[c], founded, email, invite)
        /\ call[c] \in CallRecord
    BY <1>6 DEF Existing, CallsInv
  <2>2. i \in Invites /\ invite[i].is # "unsent" /\ invite[i].email \in Emails
    BY <2>1 DEF Refers, RowsInv, SentIsFilled
  <2>3. u = None \/ (u \in UserIds /\ email[u] = invite[i].email)
    BY DEF UserOf
  <2>4. invite[i].email # None
    BY <2>2 DEF AccountsAssumption
  <2>5. call' = [call EXCEPT ![c] = r]
    BY <1>6 DEF Existing, CallsInv
  <2> HIDE DEF u
  <2>6. r \in CallRecord /\ r.at = "admit" /\ r.invite = i /\ r.user = u
    BY <2>1, <2>3 DEF CallRecord, Step
  <2>7. Refers(r, founded', email', invite')
    BY <1>0, <2>2, <2>3, <2>4, <2>6 DEF Refers, Grows
  <2> HIDE DEF r
  <2>8. QED
    BY <1>0, <2>5, <2>6, <2>7, CallGoes
<1>7. ASSUME call' = call PROVE CallsInv'
  <2>1. \A c \in Calls : Refers(call[c], founded', email', invite')
    BY <1>0 DEF CallsInv, Refers, Grows
  <2>2. QED
    BY <1>7, <2>1 DEF CallsInv
<1>8. ASSUME NEW i \in Invites, Expire(i) PROVE CallsInv'
  BY <1>7, <1>8 DEF Expire
<1>9. CASE UNCHANGED accountVars
  BY <1>7, <1>9 DEF accountVars
<1>10. QED
  BY <1>1, <1>2, <1>3, <1>4, <1>5, <1>6, <1>8, <1>9, Kinds

LEMMA NotesStep ==
  ASSUME AccountsAssumption, RowsInv, CallsInv, NotesTyped, [AccountsNext]_accountVars
  PROVE  NotesTyped'
PROOF
<1> USE DEF NotesTyped
<1>0. founded \subseteq Organizations
  BY DEF RowsInv, RowTypes
<1>1. ASSUME NEW c \in Calls, Begins(c) PROVE NotesTyped'
  <2>1. begun < MaxCalls /\ begun' = begun + 1 /\ UNCHANGED <<unguarded, doubled>>
    BY <1>1, CallBegins, RowsStep DEF history
  <2>2. QED
    BY <2>1 DEF AccountsAssumption
<1>2. ASSUME NEW c \in Calls, Purge(c) PROVE NotesTyped'
  <2>1. call[c].org \in founded /\ call[c].email \in Emails
    BY <1>2 DEF Purge, CallsInv, Refers
  <2>2. doubled' \subseteq doubled \cup {<<call[c].org, call[c].email>>} /\ UNCHANGED <<begun, unguarded>>
    BY <1>2 DEF Purge
  <2>3. QED
    BY <1>0, <2>1, <2>2
<1>3. ASSUME NEW c \in Calls, Count(c) PROVE NotesTyped'
  <2>1. call[c].org \in founded
    BY <1>3 DEF Count, CallsInv, Refers
  <2>2. unguarded' \subseteq unguarded \cup {call[c].org} /\ UNCHANGED <<begun, doubled>>
    BY <1>3 DEF Count
  <2>3. QED
    BY <1>0, <2>1, <2>2
<1>4. ASSUME NEW c \in Calls, Admit(c) PROVE NotesTyped'
  <2>1. invite[call[c].invite].org \in founded
    BY <1>4 DEF Admit, CallsInv, Refers, RowsInv, SentIsFilled
  <2>2. unguarded' \subseteq unguarded \cup {invite[call[c].invite].org} /\ UNCHANGED <<begun, doubled>>
    BY <1>4 DEF Admit, Join
  <2>3. QED
    BY <1>0, <2>1, <2>2
<1>5. ASSUME UNCHANGED <<begun, unguarded, doubled>> PROVE NotesTyped'
  BY <1>5
<1>6. QED
  BY <1>1, <1>2, <1>3, <1>4, <1>5, Kinds
     DEF accountVars, history, Found, LookUpInvitee, Create, Revoked, Write, Existing, Rename, Expire

LEMMA TypesInit == AccountsAssumption /\ AccountsInit => RowsInv /\ CallsInv /\ NotesTyped
PROOF
<1> SUFFICES ASSUME AccountsAssumption, AccountsInit PROVE RowsInv /\ CallsInv /\ NotesTyped
  OBVIOUS
<1>1. RowsInv
  BY DEF AccountsInit, NoInvite, RowsInv, RowTypes, InviteRecord, AddressesAreUnique, MembersExist,
         SentIsFilled, NumberedInOrder
<1>2. CallsInv
  <2>1. NoCall \in CallRecord /\ Refers(NoCall, founded, email, invite)
    BY DEF NoCall, CallRecord, Step, Refers
  <2>2. QED
    BY <2>1 DEF AccountsInit, CallsInv
<1>3. NotesTyped
  BY DEF AccountsInit, NotesTyped, AccountsAssumption
<1>4. QED
  BY <1>1, <1>2, <1>3

AccountTypes == RowsInv /\ CallsInv /\ NotesTyped

LEMMA TypesAlways == ASSUME AccountsAssumption PROVE AccountsSpec => []AccountTypes
PROOF
<1>1. AccountsInit => AccountTypes
  BY TypesInit DEF AccountTypes
<1>2. AccountTypes /\ [AccountsNext]_accountVars => AccountTypes'
  BY RowsStep, CallsStep, NotesStep DEF AccountTypes
<1>3. QED
  BY <1>1, <1>2, PTL DEF AccountsSpec

\* Rows, calls and notes keep their types; an address belongs to one user, and who is a
\* member of an organisation exists, as does the organisation.
THEOREM TypeCorrect == ASSUME AccountsAssumption PROVE AccountsSpec => []AccountsTypeOK
PROOF
<1>1. AccountTypes => AccountsTypeOK
  BY DEF AccountTypes, RowsInv, RowTypes, InviteRecord, AddressesAreUnique, MembersExist,
         CallsInv, CallRecord, NotesTyped, AccountsTypeOK
<1>2. QED
  BY <1>1, TypesAlways, PTL

-----------------------------------------------------------------------------
(* The last admin. *)

\* Unless it is noted, one call at most has passed the check and is about to lower or
\* remove a member, and it leaves another admin.
OneLowers ==
  \A o \in founded \ unguarded : \A c \in Lowering(o) :
    /\ \A d \in Lowering(o) : d = c
    /\ AdminsOf(o) \ {call[c].user} # {}
AdminsInv == OrphanedOnlyUnguarded /\ OneLowers

\* A step that demotes nobody unnoted and lets nobody through the check.
LEMMA NobodyLowers ==
  ASSUME AccountTypes, AdminsInv, unguarded \subseteq unguarded',
         \A o \in founded' : \/ o \in unguarded'
                             \/ o \in founded /\ AdminsOf(o) \subseteq AdminsOf(o)'
                             \/ o \notin founded /\ AdminsOf(o)' # {},
         NEW c \in Calls,
         \A d \in Calls : d # c => call'[d] = call[d],
         call'[c].at # "write" \/ call'[c].role = "admin"
  PROVE  AdminsInv'
PROOF
<1>1. \A o : Lowering(o)' \subseteq Lowering(o) /\ \A d \in Lowering(o)' : call'[d] = call[d]
  BY DEF Lowering
<1>2. \A o : Lowering(o) # {} => o \in founded
  BY DEF Lowering, AccountTypes, CallsInv, Refers
<1>3. QED
  BY <1>1, <1>2 DEF AdminsInv, OrphanedOnlyUnguarded, OneLowers

LEMMA FoundAdmins ==
  ASSUME AccountsAssumption, AccountTypes, AdminsInv, NEW c \in Calls, Found(c)
  PROVE  AdminsInv'
PROOF
<1>1. /\ \A d \in Calls : d # c => call'[d] = call[d]
      /\ call'[c].at # "write" /\ UNCHANGED unguarded
  BY DEF Found, Return, NoCall, history, AccountTypes, CallsInv
<1>2. ASSUME NEW o \in founded'
      PROVE  \/ o \in founded /\ AdminsOf(o) \subseteq AdminsOf(o)'
             \/ o \notin founded /\ AdminsOf(o)' # {}
  <2>1. CASE UNCHANGED accountRows
    BY <1>2, <2>1 DEF accountRows, AdminsOf
  <2>2. CASE ~UNCHANGED accountRows
    <3>1. PICK u \in UserIds, p \in Organizations \ founded :
            role' = [role EXCEPT ![p][u] = "admin"] /\ founded' = founded \cup {p}
      BY <2>2 DEF Found
    <3>2. /\ role \in [Organizations -> [UserIds -> Granted \cup {None}]] /\ o \in Organizations
      BY <1>2, <3>1 DEF AccountTypes, RowsInv, RowTypes
    <3>3. \A v \in UserIds : role'[o][v] = IF o = p /\ v = u THEN "admin" ELSE role[o][v]
      BY <3>1, <3>2
    <3>4. QED
      BY <1>2, <3>1, <3>3 DEF AdminsOf
  <2>3. QED
    BY <2>1, <2>2
<1>3. QED
  BY <1>1, <1>2, NobodyLowers

LEMMA CountAdmins ==
  ASSUME AccountsAssumption, AccountTypes, AdminsInv, NEW c \in Calls, Count(c)
  PROVE  AdminsInv'
PROOF
<1>0. PICK o, u : o = call[c].org /\ u = call[c].user
  OBVIOUS
<1>1. /\ o \in founded /\ u \in UserIds /\ call[c].at = "count" /\ UNCHANGED <<role, founded>>
      /\ call \in [Calls -> CallRecord]
  BY <1>0 DEF Count, accountRows, AccountTypes, CallsInv, Refers
<1>2. \A p : AdminsOf(p)' = AdminsOf(p)
  BY <1>1 DEF AdminsOf
<1>3. CASE wouldOrphanOrganization(o, u)
  <2>1. /\ \A d \in Calls : d # c => call'[d] = call[d]
        /\ call'[c].at # "write" /\ UNCHANGED unguarded
    BY <1>0, <1>1, <1>3 DEF Count, Return, NoCall
  <2>2. QED
    BY <1>1, <1>2, <2>1, NobodyLowers
<1>4. CASE ~wouldOrphanOrganization(o, u)
  <2>1. /\ Goto(c, "write")
        /\ unguarded' = IF Lowering(o) = {} THEN unguarded ELSE unguarded \cup {o}
    BY <1>0, <1>4 DEF Count
  <2>2. /\ \A d \in Calls : d # c => call'[d] = call[d]
        /\ call'[c].org = o /\ call'[c].user = u /\ call'[c].role = call[c].role
    BY <1>0, <1>1, <2>1 DEF Goto, CallRecord
  <2>3. ASSUME o \notin unguarded PROVE AdminsOf(o) \ {u} # {}
    <3>1. AdminsOf(o) # {}
      BY <1>1, <2>3 DEF AdminsInv, OrphanedOnlyUnguarded
    <3>2. CASE role[o][u] # "admin"
      BY <3>1, <3>2 DEF AdminsOf
    <3>3. CASE ~(Cardinality(AdminsOf(o)) <= 1)
      <4>1. IsFiniteSet({u}) /\ Cardinality({u}) = 1
        BY FS_Singleton
      <4>2. AdminsOf(o) \subseteq {u} => Cardinality(AdminsOf(o)) <= 1
        BY <4>1, FS_Subset
      <4>3. QED
        BY <3>3, <4>2
    <3>4. QED
      BY <1>4, <3>2, <3>3 DEF wouldOrphanOrganization
  <2>4. ASSUME NEW p \in founded, p \notin unguarded', NEW d \in Lowering(p)'
        PROVE  /\ \A b \in Lowering(p)' : b = d
               /\ AdminsOf(p) \ {call'[d].user} # {}
    <3>1. CASE p # o
      <4>1. Lowering(p)' \subseteq Lowering(p) /\ call'[d] = call[d]
        BY <2>2, <2>4, <3>1 DEF Lowering
      <4>2. p \notin unguarded
        BY <2>1, <2>4
      <4>3. QED
        BY <2>4, <4>1, <4>2 DEF AdminsInv, OneLowers
    <3>2. CASE p = o
      <4>1. Lowering(o) = {} /\ o \notin unguarded
        BY <2>1, <2>4, <3>2
      <4>2. Lowering(o)' \subseteq {c}
        BY <2>2, <4>1 DEF Lowering
      <4>3. QED
        BY <2>2, <2>3, <2>4, <3>2, <4>1, <4>2
    <3>3. QED
      BY <3>1, <3>2
  <2>5. unguarded \subseteq unguarded'
    BY <2>1
  <2>6. QED
    BY <1>1, <1>2, <2>4, <2>5 DEF AdminsInv, OrphanedOnlyUnguarded, OneLowers
<1>5. QED
  BY <1>3, <1>4

LEMMA WriteAdmins ==
  ASSUME AccountsAssumption, AccountTypes, AdminsInv, NEW c \in Calls, Write(c)
  PROVE  AdminsInv'
PROOF
<1>0. PICK o, u : o = call[c].org /\ u = call[c].user
  OBVIOUS
<1>1. /\ o \in founded /\ o \in Organizations /\ u \in UserIds /\ call[c].at = "write"
      /\ UNCHANGED <<founded, unguarded>> /\ call \in [Calls -> CallRecord]
      /\ role \in [Organizations -> [UserIds -> Granted \cup {None}]]
  BY <1>0 DEF Write, history, AccountTypes, CallsInv, Refers, RowsInv, RowTypes
<1>2. /\ \A d \in Calls : d # c => call'[d] = call[d]
      /\ call'[c].at # "write"
  BY <1>1 DEF Write, Return, NoCall
<1>3. \A p \in Organizations, v \in UserIds :
        role'[p][v] = IF p = o /\ v = u /\ role[o][u] # None THEN call[c].role ELSE role[p][v]
  BY <1>0, <1>1 DEF Write
<1>4. CASE call[c].role = "admin"
  <2>1. \A p \in founded : p \in Organizations /\ AdminsOf(p) \subseteq AdminsOf(p)'
    BY <1>1, <1>3, <1>4 DEF AdminsOf, AccountTypes, RowsInv, RowTypes
  <2>2. QED
    BY <1>1, <1>2, <2>1, NobodyLowers
<1>5. CASE call[c].role # "admin"
  <2>1. c \in Lowering(o)
    BY <1>0, <1>1, <1>5 DEF Lowering
  <2>2. /\ \A p \in founded : p \in Organizations /\ (p # o => AdminsOf(p)' = AdminsOf(p))
        /\ AdminsOf(o) \ {u} \subseteq AdminsOf(o)'
    BY <1>1, <1>3 DEF AdminsOf, AccountTypes, RowsInv, RowTypes
  <2>3. \A p : /\ Lowering(p)' \subseteq Lowering(p) \ {c}
               /\ \A d \in Lowering(p)' : call'[d] = call[d]
    BY <1>2 DEF Lowering
  <2>4. o \notin unguarded => AdminsOf(o) \ {u} # {} /\ Lowering(o)' = {}
    BY <1>0, <1>1, <2>1, <2>3 DEF AdminsInv, OneLowers
  <2>5. QED
    BY <1>1, <2>2, <2>3, <2>4 DEF AdminsInv, OrphanedOnlyUnguarded, OneLowers
<1>6. QED
  BY <1>4, <1>5

LEMMA AdmitAdmins ==
  ASSUME AccountsAssumption, AccountTypes, AdminsInv, NEW c \in Calls, Admit(c)
  PROVE  AdminsInv'
PROOF
<1>1. /\ \A d \in Calls : d # c => call'[d] = call[d]
      /\ call'[c].at # "write" /\ UNCHANGED founded
  BY DEF Admit, Return, NoCall, accountRows, AccountTypes, CallsInv
<1>2. CASE UNCHANGED <<role, unguarded>>
  BY <1>1, <1>2, NobodyLowers DEF AdminsOf
<1>3. CASE ~UNCHANGED <<role, unguarded>>
  <2> DEFINE i == call[c].invite
  <2>1. /\ i \in Invites /\ invite[i].is # "unsent"
        /\ call[c].user # None => call[c].user \in UserIds
    BY DEF Admit, AccountTypes, CallsInv, Refers
  <2>2. PICK u \in UserIds : Join(u, invite[i].org, invite[i].role)
    BY <1>3, <2>1 DEF Admit, accountRows
  <2>3. /\ role \in [Organizations -> [UserIds -> Granted \cup {None}]] /\ founded \subseteq Organizations
        /\ invite[i].org \in Organizations
    BY <2>1 DEF AccountTypes, RowsInv, RowTypes, SentIsFilled
  <2> HIDE DEF i
  <2>4. \A p \in Organizations, v \in UserIds :
          role'[p][v] = IF p = invite[i].org /\ v = u THEN invite[i].role ELSE role[p][v]
    BY <2>2, <2>3 DEF Join
  <2>5. ASSUME NEW p \in founded PROVE p \in unguarded' \/ AdminsOf(p) \subseteq AdminsOf(p)'
    BY <2>2, <2>3, <2>4 DEF AdminsOf, Join
  <2>6. unguarded \subseteq unguarded'
    BY <2>2 DEF Join
  <2>7. QED
    BY <1>1, <2>5, <2>6, NobodyLowers
<1>4. QED
  BY <1>2, <1>3

LEMMA AdminsStep ==
  ASSUME AccountsAssumption, AccountTypes, AdminsInv, [AccountsNext]_accountVars
  PROVE  AdminsInv'
PROOF
<1>1. ASSUME NEW c \in Calls, Begins(c) PROVE AdminsInv'
  <2>1. /\ UNCHANGED <<role, founded, unguarded>>
        /\ \E r \in CallRecord :
             call' = [call EXCEPT ![c] = r] /\ (r.at = "write" => r.role = "admin")
    BY <1>1, CallBegins, RowsStep DEF AccountTypes, accountRows, history
  <2>2. /\ \A d \in Calls : d # c => call'[d] = call[d]
        /\ call'[c].at # "write" \/ call'[c].role = "admin"
    BY <2>1 DEF AccountTypes, CallsInv
  <2>3. QED
    BY <2>1, <2>2, NobodyLowers DEF AdminsOf
<1>2. ASSUME NEW c \in Calls,
             \/ LookUpInvitee(c) \/ Purge(c) \/ Create(c) \/ Revoked(c) \/ Existing(c) \/ Rename(c)
      PROVE  AdminsInv'
  <2>1. UNCHANGED <<role, founded, unguarded>>
    BY <1>2 DEF LookUpInvitee, Purge, Create, Revoked, Existing, Rename, accountRows, history
  <2>2. /\ \A d \in Calls : d # c => call'[d] = call[d]
        /\ call'[c].at # "write"
    BY <1>2 DEF LookUpInvitee, Purge, Create, Revoked, Existing, Rename, Return, Goto, NoCall,
                AccountTypes, CallsInv, CallRecord
  <2>3. QED
    BY <2>1, <2>2, NobodyLowers DEF AdminsOf
<1>3. ASSUME UNCHANGED <<role, founded, call, unguarded>> PROVE AdminsInv'
  BY <1>3 DEF AdminsInv, OrphanedOnlyUnguarded, OneLowers, AdminsOf, Lowering
<1>4. CASE (\E i \in Invites : Expire(i)) \/ UNCHANGED accountVars
  BY <1>3, <1>4 DEF Expire, accountVars, accountRows, history
<1>5. QED
  BY <1>1, <1>2, <1>4, FoundAdmins, CountAdmins, WriteAdmins, AdmitAdmins, Kinds

\* An organisation loses its last admin only when the checks of two calls overlapped, or
\* its last admin accepted an invitation to a lower role (wouldOrphanOrganization).
THEOREM AnAdminRemains == ASSUME AccountsAssumption PROVE AccountsSpec => []OrphanedOnlyUnguarded
PROOF
<1>1. AccountsInit => AdminsInv
  BY DEF AccountsInit, AdminsInv, OrphanedOnlyUnguarded, OneLowers
<1>2. AccountTypes /\ AdminsInv /\ [AccountsNext]_accountVars => AdminsInv'
  BY AdminsStep
<1>3. AdminsInv => OrphanedOnlyUnguarded
  BY DEF AdminsInv
<1>4. QED
  BY <1>1, <1>2, <1>3, TypesAlways, PTL DEF AccountsSpec

-----------------------------------------------------------------------------
(* The outstanding invitation. *)

Creators(o, e) == {c \in Calls : call[c].at = "create" /\ call[c].org = o /\ call[c].email = e}

\* Unless it is noted, one call at most has purged and is about to create, and while it is
\* nothing is outstanding.
WindowAt(o, e) ==
  /\ \A i, j \in Outstanding(o, e) : i = j
  /\ \A c, d \in Creators(o, e) : c = d
  /\ Creators(o, e) # {} => Outstanding(o, e) = {}
WindowInv == \A o \in Organizations, e \in Emails : <<o, e>> \in doubled \/ WindowAt(o, e)

\* A step that sends nothing and lets no call past its purge.
LEMMA NothingSent ==
  ASSUME WindowInv, doubled \subseteq doubled',
         \A i \in Invites : invite'[i].is \in {"pending", "expired"} =>
           /\ invite[i].is \in {"pending", "expired"}
           /\ invite'[i].org = invite[i].org /\ invite'[i].email = invite[i].email,
         \A c \in Calls : call'[c].at = "create" => call'[c] = call[c]
  PROVE  WindowInv'
PROOF
<1> SUFFICES ASSUME NEW o \in Organizations, NEW e \in Emails, <<o, e>> \notin doubled'
             PROVE  WindowAt(o, e)'
  BY DEF WindowInv
<1>1. Outstanding(o, e)' \subseteq Outstanding(o, e)
  BY DEF Outstanding
<1>2. Creators(o, e)' \subseteq Creators(o, e)
  BY DEF Creators
<1>3. QED
  BY <1>1, <1>2 DEF WindowInv, WindowAt

LEMMA PurgeWindow ==
  ASSUME AccountTypes, WindowInv, NEW c \in Calls, Purge(c)
  PROVE  WindowInv'
PROOF
<1>1. PICK o, e : o = call[c].org /\ e = call[c].email
  OBVIOUS
<1>2. /\ call[c].at = "purge" /\ Goto(c, "create") /\ call \in [Calls -> CallRecord]
      /\ invite \in [Invites -> InviteRecord]
      /\ invite' = [i \in Invites |->
                      IF i \in Outstanding(o, e) THEN [invite[i] EXCEPT !.is = "gone"]
                      ELSE invite[i]]
      /\ doubled' = IF Inviting(o, e) = {c} THEN doubled ELSE doubled \cup {<<o, e>>}
  BY <1>1 DEF Purge, AccountTypes, CallsInv, RowsInv, RowTypes
<1>3. /\ \A d \in Calls : d # c => call'[d] = call[d]
      /\ call'[c].org = o /\ call'[c].email = e
  BY <1>1, <1>2 DEF Goto, CallRecord
<1>4. \A i \in Invites : IF i \in Outstanding(o, e) THEN invite'[i].is = "gone"
                         ELSE invite'[i] = invite[i]
  BY <1>2 DEF InviteRecord
<1>5. Outstanding(o, e)' = {}
  BY <1>4 DEF Outstanding
<1> SUFFICES ASSUME NEW p \in Organizations, NEW f \in Emails, <<p, f>> \notin doubled'
             PROVE  WindowAt(p, f)'
  BY DEF WindowInv
<1>6. <<p, f>> \notin doubled
  BY <1>2
<1>7. CASE p = o /\ f = e
  <2>1. Inviting(o, e) = {c}
    BY <1>2, <1>7
  <2>2. Creators(o, e)' \subseteq {c}
    BY <1>3, <2>1 DEF Creators, Inviting
  <2>3. QED
    BY <1>5, <1>7, <2>2 DEF WindowAt
<1>8. CASE ~(p = o /\ f = e)
  <2>1. Outstanding(p, f)' \subseteq Outstanding(p, f)
    BY <1>4 DEF Outstanding
  <2>2. Creators(p, f)' \subseteq Creators(p, f)
    BY <1>3, <1>8 DEF Creators
  <2>3. QED
    BY <1>6, <2>1, <2>2 DEF WindowInv, WindowAt
<1>9. QED
  BY <1>7, <1>8

LEMMA CreateWindow ==
  ASSUME AccountTypes, WindowInv, NEW c \in Calls, Create(c)
  PROVE  WindowInv'
PROOF
<1>1. PICK o, e : o = call[c].org /\ e = call[c].email
  OBVIOUS
<1>2. PICK i \in Invites : invite' = [invite EXCEPT ![i] = [org |-> o, email |-> e,
                                        role |-> call[c].role, is |-> "pending"]]
  BY <1>1 DEF Create
<1>3. /\ call[c].at = "create" /\ Return(c) /\ UNCHANGED doubled
      /\ call \in [Calls -> CallRecord] /\ invite \in [Invites -> InviteRecord]
  BY DEF Create, history, AccountTypes, CallsInv, RowsInv, RowTypes
<1>4. /\ \A d \in Calls : d # c => call'[d] = call[d]
      /\ call'[c].at = "idle"
  BY <1>3 DEF Return, NoCall
<1>5. /\ \A j \in Invites : j # i => invite'[j] = invite[j]
      /\ invite'[i].org = o /\ invite'[i].email = e
  BY <1>2, <1>3
<1> SUFFICES ASSUME NEW p \in Organizations, NEW f \in Emails, <<p, f>> \notin doubled
             PROVE  WindowAt(p, f)'
  BY <1>3 DEF WindowInv
<1>6. WindowAt(p, f)
  BY DEF WindowInv
<1>7. Creators(p, f)' \subseteq Creators(p, f) \ {c}
  BY <1>4 DEF Creators
<1>8. CASE p = o /\ f = e
  <2>1. c \in Creators(p, f)
    BY <1>1, <1>3, <1>8 DEF Creators
  <2>2. Outstanding(p, f) = {} /\ Creators(p, f)' = {}
    BY <1>6, <1>7, <2>1 DEF WindowAt
  <2>3. Outstanding(p, f)' \subseteq {i}
    BY <1>5, <2>2 DEF Outstanding
  <2>4. QED
    BY <2>2, <2>3 DEF WindowAt
<1>9. CASE ~(p = o /\ f = e)
  <2>1. Outstanding(p, f)' \subseteq Outstanding(p, f)
    BY <1>5, <1>9 DEF Outstanding
  <2>2. QED
    BY <1>6, <1>7, <2>1 DEF WindowAt
<1>10. QED
  BY <1>8, <1>9

LEMMA WindowStep ==
  ASSUME AccountsAssumption, AccountTypes, WindowInv, [AccountsNext]_accountVars
  PROVE  WindowInv'
PROOF
<1>0. call \in [Calls -> CallRecord] /\ invite \in [Invites -> InviteRecord]
  BY DEF AccountTypes, CallsInv, RowsInv, RowTypes
<1>1. ASSUME NEW c \in Calls, Begins(c) PROVE WindowInv'
  <2>1. /\ UNCHANGED <<invite, doubled>>
        /\ \E r \in CallRecord :
             call' = [call EXCEPT ![c] = r] /\ r.at \in Step \ {"idle", "purge", "create"}
    BY <1>1, CallBegins, RowsStep DEF AccountTypes, accountRows, history
  <2>2. \A d \in Calls : call'[d].at = "create" => call'[d] = call[d]
    BY <1>0, <2>1
  <2>3. QED
    BY <2>1, <2>2, NothingSent
<1>2. ASSUME NEW c \in Calls,
             \/ Found(c) \/ LookUpInvitee(c) \/ Count(c) \/ Write(c) \/ Existing(c) \/ Rename(c)
      PROVE  WindowInv'
  <2>1. UNCHANGED <<invite, doubled>>
    BY <1>2 DEF Found, LookUpInvitee, Count, Write, Existing, Rename, accountRows, history
  <2>2. \A d \in Calls : call'[d].at = "create" => call'[d] = call[d]
    BY <1>0, <1>2 DEF Found, LookUpInvitee, Count, Write, Existing, Rename, Return, Goto, NoCall,
                      CallRecord
  <2>3. QED
    BY <2>1, <2>2, NothingSent
<1>3. ASSUME NEW c \in Calls, Revoked(c) \/ Admit(c) PROVE WindowInv'
  <2>1. UNCHANGED doubled /\ Return(c)
    BY <1>3 DEF Revoked, Admit, history
  <2>2. \A d \in Calls : call'[d].at = "create" => call'[d] = call[d]
    BY <1>0, <2>1 DEF Return, NoCall
  <2>3. ASSUME NEW i \in Invites, invite'[i].is \in {"pending", "expired"}
        PROVE  invite'[i] = invite[i]
    BY <1>0, <1>3, <2>3 DEF Revoked, Admit, accountRows, InviteRecord
  <2>4. QED
    BY <2>1, <2>2, <2>3, NothingSent
<1>4. ASSUME NEW i \in Invites, Expire(i) PROVE WindowInv'
  <2>1. UNCHANGED <<call, doubled>>
    BY <1>4 DEF Expire, history
  <2>2. ASSUME NEW j \in Invites, invite'[j].is \in {"pending", "expired"}
        PROVE  /\ invite[j].is \in {"pending", "expired"}
               /\ invite'[j].org = invite[j].org /\ invite'[j].email = invite[j].email
    BY <1>0, <1>4, <2>2 DEF Expire, InviteRecord
  <2>3. QED
    BY <2>1, <2>2, NothingSent
<1>5. CASE UNCHANGED accountVars
  BY <1>5, NothingSent DEF accountVars, accountRows, history
<1>6. QED
  BY <1>1, <1>2, <1>3, <1>4, <1>5, PurgeWindow, CreateWindow, Kinds

\* Inviting an address again replaces the outstanding invitation, unless two admins invite
\* it at one time: no second link is left that nobody sees (inviteMember).
THEOREM ReinvitingReplaces == ASSUME AccountsAssumption PROVE AccountsSpec => []OneOutstanding
PROOF
<1>1. AccountsInit => WindowInv
  <2> SUFFICES ASSUME AccountsInit, NEW o \in Organizations, NEW e \in Emails PROVE WindowAt(o, e)
    BY DEF WindowInv
  <2>1. Outstanding(o, e) = {} /\ Creators(o, e) = {}
    BY DEF AccountsInit, NoInvite, NoCall, Outstanding, Creators
  <2>2. QED
    BY <2>1 DEF WindowAt
<1>2. AccountTypes /\ WindowInv /\ [AccountsNext]_accountVars => WindowInv'
  BY WindowStep
<1>3. WindowInv => OneOutstanding
  <2> SUFFICES ASSUME WindowInv, NEW o \in Organizations, NEW e \in Emails, <<o, e>> \notin doubled
               PROVE  Cardinality(Outstanding(o, e)) <= 1
    BY DEF OneOutstanding
  <2>1. \A i, j \in Outstanding(o, e) : i = j
    BY DEF WindowInv, WindowAt
  <2>2. CASE Outstanding(o, e) = {}
    BY <2>2, FS_EmptySet
  <2>3. ASSUME NEW i \in Outstanding(o, e) PROVE Cardinality(Outstanding(o, e)) <= 1
    <3>1. Outstanding(o, e) = {i}
      BY <2>1
    <3>2. Cardinality({i}) = 1
      BY FS_Singleton
    <3>3. QED
      BY <3>1, <3>2
  <2>4. QED
    BY <2>2, <2>3
<1>4. QED
  BY <1>1, <1>2, <1>3, TypesAlways, PTL DEF AccountsSpec

-----------------------------------------------------------------------------

\* Who joins an organisation founded it in that step, or redeemed an invitation of it that
\* nobody had revoked or replaced, which is used up (acceptInvitation's transaction).
THEOREM NobodySlipsIn == ASSUME AccountsAssumption PROVE AccountsSpec => JoinsByInvitation
PROOF
<1> DEFINE Slips(o, u) == role[o][u] = None /\ role'[o][u] # None
           Redeems(o, u) ==
             \E i \in Invites :
               /\ invite[i].org = o /\ invite[i].role = role'[o][u]
               /\ invite[i].is \in {"pending", "expired", "accepted"}
               /\ invite'[i].is = "accepted"
<1>1. ASSUME AccountTypes, [AccountsNext]_accountVars, NEW o \in Organizations, NEW u \in UserIds, Slips(o, u)
      PROVE  o \notin founded \/ Redeems(o, u)
  <2>0. role \in [Organizations -> [UserIds -> Granted \cup {None}]]
    BY <1>1 DEF AccountTypes, RowsInv, RowTypes
  <2>1. ASSUME NEW c \in Calls, Found(c) PROVE o \notin founded
    <3>1. PICK v \in UserIds, p \in Organizations \ founded : role' = [role EXCEPT ![p][v] = "admin"]
      BY <1>1, <2>1 DEF Found, accountRows
    <3>2. QED
      BY <1>1, <2>0, <3>1
  <2>2. ASSUME NEW c \in Calls, Admit(c) PROVE Redeems(o, u)
    <3>1. PICK i : i = call[c].invite
      OBVIOUS
    <3>2. /\ i \in Invites /\ invite[i].is # "unsent" /\ invite[i].org \in Organizations
          /\ invite \in [Invites -> InviteRecord]
          /\ call[c].user # None => call[c].user \in UserIds
      BY <1>1, <2>2, <3>1 DEF Admit, AccountTypes, CallsInv, Refers, RowsInv, RowTypes, SentIsFilled
    <3>3. /\ invite[i].is # "gone" /\ invite' = [invite EXCEPT ![i].is = "accepted"]
          /\ \E v \in UserIds : Join(v, invite[i].org, invite[i].role)
      BY <1>1, <2>2, <3>1, <3>2 DEF Admit, accountRows
    <3>4. PICK v \in UserIds : role' = [role EXCEPT ![invite[i].org][v] = invite[i].role]
      BY <3>3 DEF Join
    <3>5. invite[i].org = o /\ invite[i].role = role'[o][u]
      BY <1>1, <2>0, <3>2, <3>4
    <3>6. invite[i].is \in {"pending", "expired", "accepted"} /\ invite'[i].is = "accepted"
      BY <3>2, <3>3 DEF InviteRecord
    <3>7. QED
      BY <3>2, <3>5, <3>6
  <2>3. ASSUME NEW c \in Calls, Write(c) PROVE FALSE
    <3>1. call[c].org \in Organizations /\ call[c].user \in UserIds
      BY <1>1, <2>3 DEF Write, AccountTypes, CallsInv, Refers, RowsInv, RowTypes
    <3>2. QED
      BY <1>1, <2>0, <2>3, <3>1 DEF Write
  <2>4. ASSUME NEW c \in Calls, Begins(c) PROVE FALSE
    BY <1>1, <2>4, CallBegins DEF accountRows, Begins, SignUp, Invite, Revoke, Accept, ChangeRole,
                                  RemoveMember, UpdateProfile
  <2>5. QED
    BY <1>1, <2>1, <2>2, <2>3, <2>4, Kinds
       DEF accountVars, accountRows, LookUpInvitee, Purge, Create, Revoked, Count, Existing, Rename, Expire
<1>2. ASSUME AccountTypes, [AccountsNext]_accountVars
      PROVE  [\A o \in Organizations, u \in UserIds :
                role[o][u] = None /\ role'[o][u] # None =>
                  \/ o \notin founded
                  \/ \E i \in Invites :
                       /\ invite[i].org = o /\ invite[i].role = role'[o][u]
                       /\ invite[i].is \in {"pending", "expired", "accepted"}
                       /\ invite'[i].is = "accepted"]_accountVars
  BY <1>1, <1>2
<1>3. QED
  BY <1>2, TypesAlways, PTL DEF AccountsSpec, JoinsByInvitation

-----------------------------------------------------------------------------
(* Signing in: what a browser waits for, and what the links are. *)

BrowserRecord ==
  [at : {"idle", "verify", "enter", "replace", "send", "apply", "change"},
   session : (Users \X UserOrgs) \cup {None}, pending : Users \cup {None},
   user : Users \cup {None}, password : Passwords \cup {None}, link : Links \cup {None}]
LinkRecord ==
  [user : Users \cup {None}, uses : Nat,
   is : {"unsent", "pending", "expired", "used", "gone"}]
WindowRecord == [count : Nat, allowed : Nat, wins : Nat]

SignInPlain ==
  /\ hash \in [Users -> Passwords] /\ member \subseteq Users \X UserOrgs
  /\ link \in [Links -> LinkRecord] /\ window \in [Keys -> WindowRecord]
  /\ browser \in [Browsers -> BrowserRecord]
  /\ signIns \in 0..MaxSignInCalls /\ twice \subseteq Users

\* Who resets or changes a password has one at hand, the link of a reset was sent, and who
\* asks for a link asks for a user.
Holds(r, ln) ==
  /\ r.at \in {"replace", "send"} => r.user \in Users
  /\ r.at \in {"apply", "change"} => r.password \in Passwords
  /\ r.at = "apply" => r.link \in Links /\ ln[r.link].is # "unsent"
InHand == \A b \in Browsers : Holds(browser[b], link)
SignInTypes == SignInPlain /\ InHand

LEMMA OneBrowserMoves ==
  ASSUME SignInTypes, NEW b \in Browsers, NEW r \in BrowserRecord, Holds(r, link),
         browser' = [browser EXCEPT ![b] = r], link' = link
  PROVE  browser' \in [Browsers -> BrowserRecord] /\ InHand'
BY DEF SignInTypes, SignInPlain, InHand

LEMMA BrowserRests ==
  ASSUME SignInTypes, NEW b \in Browsers
  PROVE  /\ Quiet(b) \in BrowserRecord /\ Quiet(b).at = "idle"
         /\ \A s \in (Users \X UserOrgs) \cup {None} :
              LET r == [Quiet(b) EXCEPT !.session = s] IN r \in BrowserRecord /\ r.at = "idle"
         /\ \A u \in Users \cup {None} :
              LET r == [Quiet(b) EXCEPT !.pending = u] IN r \in BrowserRecord /\ r.at = "idle"
BY DEF SignInTypes, SignInPlain, Quiet, BrowserRecord

LEMMA DoneRests ==
  ASSUME SignInTypes, NEW b \in Browsers, Done(b)
  PROVE  \E r \in BrowserRecord : r.at = "idle" /\ browser' = [browser EXCEPT ![b] = r]
BY BrowserRests DEF Done

\* Whoever is admitted anywhere is a user with a membership.
LEMMA AdmissionRests ==
  ASSUME SignInTypes, NEW b \in Browsers, NEW u, Admission(b, u)
  PROVE  \E r \in BrowserRecord : r.at = "idle" /\ browser' = [browser EXCEPT ![b] = r]
PROOF
<1>1. \A o \in OrgsOf(u) : <<u, o>> \in Users \X UserOrgs
  BY DEF OrgsOf, SignInTypes, SignInPlain
<1>2. CASE OrgsOf(u) = {}
  BY <1>2, DoneRests, FS_EmptySet DEF Admission
<1>3. CASE OrgsOf(u) # {}
  <2>1. u \in Users
    BY <1>1, <1>3
  <2>2. CASE \E o \in OrgsOf(u) : browser' = [browser EXCEPT ![b] = [Quiet(b) EXCEPT !.session = <<u, o>>]]
    BY <1>1, <2>2, BrowserRests
  <2>3. CASE browser' = [browser EXCEPT ![b] = [Quiet(b) EXCEPT !.pending = u]]
    BY <2>1, <2>3, BrowserRests
  <2>4. QED
    BY <1>3, <2>2, <2>3 DEF Admission
<1>4. QED
  BY <1>2, <1>3

\* What a call may leave behind: its browser at rest or on its way, the rest alone.
Rests(b) == \E r \in BrowserRecord : r.at = "idle" /\ browser' = [browser EXCEPT ![b] = r]

LEMMA RestsKeeps ==
  ASSUME SignInTypes, NEW b \in Browsers, Rests(b)
  PROVE  /\ browser' \in [Browsers -> BrowserRecord]
         /\ \A ln : (\A c \in Browsers : Holds(browser[c], ln)) => \A c \in Browsers : Holds(browser'[c], ln)
BY DEF Rests, Holds, SignInTypes, SignInPlain

LEMMA AttemptWindow ==
  ASSUME SignInAssumption, SignInTypes, NEW b \in Browsers, NEW goesOn, Attempt(b, goesOn)
  PROVE  /\ window' \in [Keys -> WindowRecord]
         /\ goesOn \/ Rests(b)
PROOF
<1>1. KEY[b] \in Keys
  BY DEF SignInAssumption, Keys
<1>2. window \in [Keys -> WindowRecord]
  BY DEF SignInTypes, SignInPlain
<1>3. hit(KEY[b]) \in WindowRecord /\ [hit(KEY[b]) EXCEPT !.allowed = @ + 1] \in WindowRecord
  <2> DEFINE k == KEY[b]
  <2> HIDE DEF k
  <2>1. k \in Keys
    BY <1>1 DEF k
  <2>2. window[k].count \in Nat /\ window[k] \in WindowRecord
    BY <1>2, <2>1 DEF WindowRecord
  <2>3. [window[k] EXCEPT !.count = @ + 1] \in WindowRecord
    BY <2>2 DEF WindowRecord
  <2>4. \A h \in WindowRecord : [h EXCEPT !.allowed = @ + 1] \in WindowRecord
    BY DEF WindowRecord
  <2>5. QED
    BY <2>3, <2>4 DEF hit, k
<1>4. QED
  BY <1>1, <1>2, <1>3, DoneRests DEF Attempt, Rests

LEMMA LoginTypes ==
  ASSUME SignInAssumption, SignInTypes, NEW b \in Browsers, NEW u \in Users
  PROVE  /\ \A p \in Passwords : Login(b, u, p) => SignInTypes'
         /\ RequestReset(b, u) => SignInTypes'
PROOF
<1>1. ASSUME NEW p \in Passwords, Login(b, u, p) PROVE SignInTypes'
  <2> DEFINE r == [browser[b] EXCEPT !.at = "verify", !.user = u, !.password = p]
             on == browser' = [browser EXCEPT ![b].at = "verify", ![b].user = u, ![b].password = p]
  <2>1. r \in BrowserRecord /\ Holds(r, link)
    BY DEF SignInTypes, SignInPlain, BrowserRecord, Holds
  <2>2. on => browser' = [browser EXCEPT ![b] = r]
    BY DEF SignInTypes, SignInPlain
  <2>3. window' \in [Keys -> WindowRecord] /\ (on \/ Rests(b))
    BY <1>1, AttemptWindow DEF Login
  <2>4. browser' \in [Browsers -> BrowserRecord] /\ InHand' /\ link' = link
    <3>1. link' = link
      BY <1>1 DEF Login, signInRows
    <3>2. CASE on
      BY <2>1, <2>2, <3>1, <3>2, OneBrowserMoves
    <3>3. CASE Rests(b)
      BY <3>1, <3>3, RestsKeeps DEF SignInTypes, InHand
    <3>4. QED
      BY <2>3, <3>1, <3>2, <3>3
  <2>5. QED
    BY <1>1, <2>3, <2>4 DEF Login, Submits, signInRows, SignInTypes, SignInPlain, SignInAssumption
<1>2. ASSUME RequestReset(b, u) PROVE SignInTypes'
  <2> DEFINE r == [browser[b] EXCEPT !.at = "replace", !.user = u]
             on == browser' = [browser EXCEPT ![b].at = "replace", ![b].user = u]
  <2>1. r \in BrowserRecord /\ Holds(r, link)
    BY DEF SignInTypes, SignInPlain, BrowserRecord, Holds
  <2>2. on => browser' = [browser EXCEPT ![b] = r]
    BY DEF SignInTypes, SignInPlain
  <2>3. window' \in [Keys -> WindowRecord] /\ (on \/ Rests(b))
    BY <1>2, AttemptWindow DEF RequestReset
  <2>4. browser' \in [Browsers -> BrowserRecord] /\ InHand' /\ link' = link
    <3>1. link' = link
      BY <1>2 DEF RequestReset, signInRows
    <3>2. CASE on
      BY <2>1, <2>2, <3>1, <3>2, OneBrowserMoves
    <3>3. CASE Rests(b)
      BY <3>1, <3>3, RestsKeeps DEF SignInTypes, InHand
    <3>4. QED
      BY <2>3, <3>1, <3>2, <3>3
  <2>5. QED
    BY <1>2, <2>3, <2>4 DEF RequestReset, Submits, signInRows, SignInTypes, SignInPlain, SignInAssumption
<1>3. QED
  BY <1>1, <1>2

LEMMA CallTypes ==
  ASSUME SignInAssumption, SignInTypes, NEW b \in Browsers,
         \/ \E u \in Users : LoginWithGoogle(b, u)
         \/ \E o \in UserOrgs \cup {None} : SelectOrganization(b, o)
         \/ \E l \in Links, p \in Passwords : CompleteReset(b, l, p)
         \/ \E old, new \in Passwords : ChangePassword(b, old, new)
  PROVE  SignInTypes'
PROOF
<1>1. ASSUME NEW r \in BrowserRecord, Holds(r, link), Submits(b),
             browser' = [browser EXCEPT ![b] = r], UNCHANGED <<signInRows, window, twice>>
      PROVE  SignInTypes'
  <2>1. browser' \in [Browsers -> BrowserRecord] /\ InHand'
    BY <1>1, OneBrowserMoves DEF signInRows
  <2>2. signIns' \in 0..MaxSignInCalls
    BY <1>1 DEF Submits, SignInTypes, SignInPlain, SignInAssumption
  <2>3. QED
    BY <1>1, <2>1, <2>2 DEF signInRows, SignInTypes, SignInPlain
<1>2. ASSUME Submits(b), UNCHANGED <<signInRows, window, twice, browser>> PROVE SignInTypes'
  BY <1>2 DEF Submits, signInRows, SignInTypes, SignInPlain, InHand, SignInAssumption
<1>3. browser[b] \in BrowserRecord /\ Holds(browser[b], link) /\ DOMAIN browser = Browsers
  BY DEF SignInTypes, SignInPlain, InHand
<1>4. ASSUME NEW u \in Users, LoginWithGoogle(b, u) PROVE SignInTypes'
  <2> DEFINE r == [browser[b] EXCEPT !.at = "enter", !.user = u]
  <2>1. r \in BrowserRecord /\ Holds(r, link)
    BY <1>3 DEF BrowserRecord, Holds
  <2>2. browser' = [browser EXCEPT ![b] = r]
    BY <1>3, <1>4 DEF LoginWithGoogle
  <2>3. QED
    BY <1>1, <1>4, <2>1, <2>2 DEF LoginWithGoogle
<1>5. ASSUME NEW o \in UserOrgs \cup {None}, SelectOrganization(b, o) PROVE SignInTypes'
  <2>1. CASE UNCHANGED browser
    BY <1>2, <1>5, <2>1 DEF SelectOrganization
  <2>2. CASE ~UNCHANGED browser
    <3>1. PICK p \in OrgsOf(browser[b].pending) :
            browser' = [browser EXCEPT ![b].session = <<browser[b].pending, p>>, ![b].pending = None]
      BY <1>5, <2>2 DEF SelectOrganization
    <3> DEFINE r == [browser[b] EXCEPT !.session = <<browser[b].pending, p>>, !.pending = None]
    <3>2. <<browser[b].pending, p>> \in Users \X UserOrgs
      BY <3>1 DEF OrgsOf, SignInTypes, SignInPlain
    <3>3. r \in BrowserRecord /\ Holds(r, link)
      BY <1>3, <3>2 DEF BrowserRecord, Holds
    <3>4. browser' = [browser EXCEPT ![b] = r]
      BY <1>3, <3>1
    <3>5. QED
      BY <1>1, <1>5, <3>3, <3>4 DEF SelectOrganization
  <2>3. QED
    BY <2>1, <2>2
<1>6. ASSUME NEW l \in Links, NEW p \in Passwords, CompleteReset(b, l, p) PROVE SignInTypes'
  <2> DEFINE r == [browser[b] EXCEPT !.at = "apply", !.link = l, !.password = p]
  <2>1. r \in BrowserRecord /\ Holds(r, link)
    BY <1>3, <1>6 DEF BrowserRecord, Holds, CompleteReset
  <2>2. browser' = [browser EXCEPT ![b] = r]
    BY <1>3, <1>6 DEF CompleteReset
  <2>3. QED
    BY <1>1, <1>6, <2>1, <2>2 DEF CompleteReset
<1>7. ASSUME NEW old \in Passwords, NEW new \in Passwords, ChangePassword(b, old, new)
      PROVE  SignInTypes'
  <2> DEFINE u == browser[b].session[1]
             r == [browser[b] EXCEPT !.at = "change", !.user = u, !.password = new]
  <2>1. u \in Users
    BY <1>7 DEF ChangePassword, SignedIn, SignInTypes, SignInPlain
  <2> HIDE DEF u
  <2>2. r \in BrowserRecord /\ Holds(r, link)
    BY <1>3, <2>1 DEF BrowserRecord, Holds
  <2>3. UNCHANGED browser \/ browser' = [browser EXCEPT ![b] = r]
    BY <1>3, <1>7 DEF ChangePassword, u
  <2>4. QED
    BY <1>1, <1>2, <1>7, <2>2, <2>3 DEF ChangePassword
<1>8. QED
  BY <1>4, <1>5, <1>6, <1>7

LEMMA AnswerTypes ==
  ASSUME SignInAssumption, SignInTypes, NEW b \in Browsers,
         Verify(b) \/ Enter(b) \/ PendingExpires(b) \/ Logout(b) \/ Change(b)
  PROVE  SignInTypes'
PROOF
<1>1. browser[b] \in BrowserRecord /\ Holds(browser[b], link) /\ DOMAIN browser = Browsers
  BY DEF SignInTypes, SignInPlain, InHand
<1>2. ASSUME NEW r \in BrowserRecord, r.at \in {"idle", "enter"} \/ r.at = browser[b].at,
             Holds(r, link), browser' = [browser EXCEPT ![b] = r], link' = link,
             UNCHANGED <<member, signIns, twice>>, hash' \in [Users -> Passwords],
             window' \in [Keys -> WindowRecord]
      PROVE  SignInTypes'
  <2>1. browser' \in [Browsers -> BrowserRecord] /\ InHand'
    BY <1>2, OneBrowserMoves
  <2>2. QED
    BY <1>2, <2>1 DEF SignInTypes, SignInPlain
<1>3. ASSUME Rests(b), UNCHANGED <<member, link, signIns, twice>>,
             hash' \in [Users -> Passwords], window' \in [Keys -> WindowRecord]
      PROVE  SignInTypes'
  BY <1>2, <1>3 DEF Rests, Holds
<1>4. hash \in [Users -> Passwords] /\ window \in [Keys -> WindowRecord]
  BY DEF SignInTypes, SignInPlain
<1>5. CASE Verify(b)
  <2> DEFINE r == [browser[b] EXCEPT !.at = "enter"]
  <2>1. r \in BrowserRecord /\ Holds(r, link) /\ r.at = "enter"
    BY <1>1 DEF BrowserRecord, Holds
  <2>2. browser' = [browser EXCEPT ![b] = r] \/ Rests(b)
    BY <1>1, <1>5, DoneRests DEF Verify, Rests
  <2>3. UNCHANGED <<hash, member, link, window, signIns, twice>>
    BY <1>5 DEF Verify, signInRows
  <2>4. CASE browser' = [browser EXCEPT ![b] = r]
    BY <1>2, <1>4, <2>1, <2>3, <2>4
  <2>5. QED
    BY <1>3, <1>4, <2>2, <2>3, <2>4
<1>6. CASE Enter(b)
  <2>1. Rests(b) /\ UNCHANGED <<hash, member, link, signIns, twice>>
    BY <1>6, AdmissionRests DEF Enter, Rests, signInRows
  <2>2. window' \in [Keys -> WindowRecord]
    <3> DEFINE k == KEY[b]
    <3>1. k \in Keys
      BY DEF SignInAssumption, Keys
    <3> HIDE DEF k
    <3>2. [window[k] EXCEPT !.count = 0, !.wins = @ + 1] \in WindowRecord
      <4>1. window[k] \in WindowRecord
        BY <1>4, <3>1
      <4>2. [window[k] EXCEPT !.count = 0] \in WindowRecord
        BY <4>1 DEF WindowRecord
      <4>3. \A h \in WindowRecord : [h EXCEPT !.wins = @ + 1] \in WindowRecord
        BY DEF WindowRecord
      <4>4. QED
        BY <4>2, <4>3
    <3>3. window' = window \/ window' = [window EXCEPT ![k] = [window[k] EXCEPT !.count = 0, !.wins = @ + 1]]
      BY <1>4, <1>6, <3>1 DEF Enter, k
    <3>4. QED
      BY <1>4, <3>1, <3>2, <3>3
  <2>3. QED
    BY <1>3, <1>4, <2>1, <2>2
<1>7. CASE PendingExpires(b) \/ Logout(b)
  <2>1. PICK r \in {[browser[b] EXCEPT !.pending = None], [browser[b] EXCEPT !.session = None]} :
          browser' = [browser EXCEPT ![b] = r]
    BY <1>1, <1>7 DEF PendingExpires, Logout
  <2>2. r \in BrowserRecord /\ Holds(r, link) /\ r.at = browser[b].at
    BY <1>1 DEF BrowserRecord, Holds
  <2>3. UNCHANGED <<hash, member, link, window, signIns, twice>>
    BY <1>7 DEF PendingExpires, Logout, signInRows
  <2>4. QED
    BY <1>2, <1>4, <2>1, <2>2, <2>3
<1>8. CASE Change(b)
  <2>1. Rests(b) /\ UNCHANGED <<member, link, window, signIns, twice>>
    BY <1>8, DoneRests DEF Change, Rests
  <2>2. hash' \in [Users -> Passwords]
    BY <1>1, <1>4, <1>8 DEF Change, Holds
  <2>3. QED
    BY <1>3, <1>4, <2>1, <2>2
<1>9. QED
  BY <1>5, <1>6, <1>7, <1>8

\* A link that was sent stays sent, so that a call that holds it still does.
LEMMA SentStays ==
  ASSUME SignInTypes, link' \in [Links -> LinkRecord],
         \A l \in Links : link[l].is # "unsent" => link'[l].is # "unsent"
  PROVE  \A c \in Browsers : Holds(browser[c], link')
BY DEF SignInTypes, SignInPlain, InHand, Holds

LEMMA ReplaceTypes ==
  ASSUME SignInTypes, NEW b \in Browsers, Replace(b)
  PROVE  SignInTypes'
PROOF
<1> DEFINE r == [browser[b] EXCEPT !.at = "send"]
<1>1. browser[b] \in BrowserRecord /\ link \in [Links -> LinkRecord] /\ twice \subseteq Users
  BY DEF SignInTypes, SignInPlain
<1>2. r \in BrowserRecord /\ r.at = "send" /\ browser' = [browser EXCEPT ![b] = r]
  BY <1>1 DEF BrowserRecord, Replace, SignInTypes, SignInPlain
<1>3. \A l \in Links : link'[l] \in LinkRecord /\ (link[l].is # "unsent" => link'[l].is # "unsent")
  BY <1>1 DEF Replace, LinkRecord
<1>4. link' \in [Links -> LinkRecord]
  BY <1>3 DEF Replace
<1>5. twice' \subseteq Users
  BY <1>1 DEF Replace, SignInTypes, InHand, Holds
<1>6. QED
  BY <1>2, <1>3, <1>4, <1>5, SentStays DEF Replace, SignInTypes, SignInPlain, InHand, Holds

LEMMA SendTypes ==
  ASSUME SignInTypes, NEW b \in Browsers, Send(b)
  PROVE  SignInTypes'
PROOF
<1>1. PICK l \in Links :
        link' = [link EXCEPT ![l] = [user |-> browser[b].user, uses |-> 0, is |-> "pending"]]
  BY DEF Send
<1>2. link' \in [Links -> LinkRecord]
  BY <1>1 DEF LinkRecord, BrowserRecord, SignInTypes, SignInPlain
<1>3. \A k \in Links : link[k].is # "unsent" => link'[k].is # "unsent"
  BY <1>1 DEF SignInTypes, SignInPlain
<1>4. Rests(b)
  BY DoneRests DEF Send, Rests
<1>5. browser' \in [Browsers -> BrowserRecord] /\ InHand'
  BY <1>2, <1>3, <1>4, RestsKeeps, SentStays DEF InHand
<1>6. QED
  BY <1>2, <1>5 DEF Send, SignInTypes, SignInPlain

\* A reset that goes through sets a password and marks its link; else nothing but its end.
LEMMA ApplyEffect ==
  ASSUME SignInTypes, NEW b \in Browsers, Apply(b)
  PROVE  /\ Rests(b) /\ hash' \in [Users -> Passwords]
         /\ browser[b].link \in Links /\ link[browser[b].link].is # "unsent"
         /\ \/ link' = link
            \/ /\ link[browser[b].link].is # "gone"
               /\ link' = [link EXCEPT ![browser[b].link].is = "used", ![browser[b].link].uses = @ + 1]
         /\ UNCHANGED <<member, window, signIns, twice>>
PROOF
<1>1. browser[b].password \in Passwords /\ hash \in [Users -> Passwords]
  BY DEF Apply, SignInTypes, SignInPlain, InHand, Holds
<1>2. browser[b].link \in Links /\ link[browser[b].link].is # "unsent"
  BY DEF Apply, SignInTypes, InHand, Holds
<1>3. Rests(b)
  BY DoneRests, AdmissionRests DEF Apply, Rests
<1>4. hash' \in [Users -> Passwords]
  BY <1>1 DEF Apply
<1>5. QED
  BY <1>2, <1>3, <1>4 DEF Apply

LEMMA ApplyTypes ==
  ASSUME SignInTypes, NEW b \in Browsers, Apply(b)
  PROVE  SignInTypes'
PROOF
<1> DEFINE l == browser[b].link
<1>1. l \in Links /\ link \in [Links -> LinkRecord]
  BY ApplyEffect DEF SignInTypes, SignInPlain
<1> HIDE DEF l
<1>2. [link[l] EXCEPT !.is = "used", !.uses = @ + 1] \in LinkRecord
  <2>1. [link[l] EXCEPT !.is = "used"] \in LinkRecord
    BY <1>1 DEF LinkRecord
  <2>2. \A k \in LinkRecord : [k EXCEPT !.uses = @ + 1] \in LinkRecord
    BY DEF LinkRecord
  <2>3. QED
    BY <2>1, <2>2
<1>3. link' = link \/ link' = [link EXCEPT ![l] = [link[l] EXCEPT !.is = "used", !.uses = @ + 1]]
  BY <1>1, ApplyEffect DEF l
<1>4. /\ link' \in [Links -> LinkRecord]
      /\ \A k \in Links : link[k].is # "unsent" => link'[k].is # "unsent"
  <2> DEFINE n == [link[l] EXCEPT !.is = "used", !.uses = @ + 1]
  <2>1. n.is = "used"
    BY <1>1 DEF LinkRecord
  <2> HIDE DEF n
  <2>2. n \in LinkRecord /\ (link' = link \/ link' = [link EXCEPT ![l] = n])
    BY <1>2, <1>3 DEF n
  <2>3. QED
    BY <1>1, <2>1, <2>2
<1>5. browser' \in [Browsers -> BrowserRecord] /\ InHand'
  BY <1>4, ApplyEffect, RestsKeeps, SentStays DEF InHand
<1>6. QED
  BY <1>4, <1>5, ApplyEffect DEF SignInTypes, SignInPlain

LEMMA SignInTypesStep ==
  ASSUME SignInAssumption, SignInTypes, [SignInNext]_signInVars
  PROVE  SignInTypes'
PROOF
<1>1. ASSUME NEW k \in Keys, NewWindow(k) PROVE SignInTypes'
  <2>1. window' \in [Keys -> WindowRecord]
    BY <1>1 DEF NewWindow, WindowRecord, SignInTypes, SignInPlain
  <2>2. QED
    BY <1>1, <2>1 DEF NewWindow, signInRows, SignInTypes, SignInPlain, InHand
<1>2. ASSUME NEW l \in Links, LinkExpires(l) PROVE SignInTypes'
  <2>1. link' \in [Links -> LinkRecord]
    BY <1>2 DEF LinkExpires, LinkRecord, SignInTypes, SignInPlain
  <2>2. \A k \in Links : link[k].is # "unsent" => link'[k].is # "unsent"
    BY <1>2 DEF LinkExpires, SignInTypes, SignInPlain
  <2>3. QED
    BY <1>2, <2>1, <2>2, SentStays DEF LinkExpires, SignInTypes, SignInPlain, InHand
<1>3. ASSUME NEW u \in Users, NEW o \in UserOrgs, MembershipChanges(u, o) PROVE SignInTypes'
  BY <1>3 DEF MembershipChanges, SignInTypes, SignInPlain, InHand
<1>4. ASSUME UNCHANGED signInVars PROVE SignInTypes'
  BY <1>4 DEF signInVars, signInRows, SignInTypes, SignInPlain, InHand
<1>5. QED
  BY <1>1, <1>2, <1>3, <1>4, LoginTypes, CallTypes, AnswerTypes, ReplaceTypes, SendTypes, ApplyTypes
     DEF SignInNext

LEMMA SignInTypesAlways == ASSUME SignInAssumption PROVE SignInSpec => []SignInTypes
PROOF
<1>1. SignInInit => SignInTypes
  BY DEF SignInInit, SignInTypes, SignInPlain, InHand, Holds, LinkRecord, WindowRecord,
         BrowserRecord, SignInAssumption
<1>2. SignInTypes /\ [SignInNext]_signInVars => SignInTypes'
  BY SignInTypesStep
<1>3. QED
  BY <1>1, <1>2, PTL DEF SignInSpec

\* Every value stays in its type.
THEOREM SignInTypeCorrect == ASSUME SignInAssumption PROVE SignInSpec => []SignInTypeOK
PROOF
<1>1. SignInTypes => SignInTypeOK
  BY DEF SignInTypes, SignInPlain, SignInTypeOK, BrowserRecord, LinkRecord, WindowRecord
<1>2. QED
  BY <1>1, SignInTypesAlways, PTL

-----------------------------------------------------------------------------
(* The attempts of an address. *)

(***************************************************************************)
(* AttemptsBounded is not inductive: one more attempt is let through by the *)
(* count, which a login sets back.  What was let through beyond the logins  *)
(* that succeeded is still counted.                                         *)
(***************************************************************************)
Tallied(w) ==
  /\ w.allowed <= LOGIN_MAX * w.wins + w.count
  /\ w.allowed <= LOGIN_MAX * w.wins + LOGIN_MAX
AttemptsInv == \A k \in Keys : Tallied(window[k])

LEMMA Tallies ==
  ASSUME SignInAssumption, NEW w \in WindowRecord, Tallied(w)
  PROVE  /\ Tallied([w EXCEPT !.count = @ + 1])
         /\ w.count + 1 <= LOGIN_MAX =>
              Tallied([w EXCEPT !.count = @ + 1, !.allowed = @ + 1])
         /\ Tallied([w EXCEPT !.count = 0, !.wins = @ + 1])
PROOF
<1> DEFINE n == LOGIN_MAX * w.wins
<1>1. w.count \in Nat /\ w.allowed \in Nat /\ w.wins \in Nat /\ LOGIN_MAX \in Nat
  BY DEF WindowRecord, SignInAssumption
<1>2. n \in Nat /\ LOGIN_MAX * (w.wins + 1) = n + LOGIN_MAX
  BY <1>1
<1>3. w.allowed <= n + w.count /\ w.allowed <= n + LOGIN_MAX
  BY DEF Tallied
<1>4. /\ [w EXCEPT !.count = @ + 1].count = w.count + 1
      /\ [w EXCEPT !.count = @ + 1].allowed = w.allowed
      /\ [w EXCEPT !.count = @ + 1].wins = w.wins
  BY DEF WindowRecord
<1>5. /\ [w EXCEPT !.count = @ + 1, !.allowed = @ + 1].count = w.count + 1
      /\ [w EXCEPT !.count = @ + 1, !.allowed = @ + 1].allowed = w.allowed + 1
      /\ [w EXCEPT !.count = @ + 1, !.allowed = @ + 1].wins = w.wins
  BY DEF WindowRecord
<1>6. /\ [w EXCEPT !.count = 0, !.wins = @ + 1].count = 0
      /\ [w EXCEPT !.count = 0, !.wins = @ + 1].allowed = w.allowed
      /\ [w EXCEPT !.count = 0, !.wins = @ + 1].wins = w.wins + 1
  BY DEF WindowRecord
<1> HIDE DEF n
<1>7. Tallied([w EXCEPT !.count = @ + 1])
  BY <1>1, <1>2, <1>3, <1>4 DEF Tallied, n
<1>8. w.count + 1 <= LOGIN_MAX => Tallied([w EXCEPT !.count = @ + 1, !.allowed = @ + 1])
  BY <1>1, <1>2, <1>3, <1>5 DEF Tallied, n
<1>9. Tallied([w EXCEPT !.count = 0, !.wins = @ + 1])
  BY <1>1, <1>2, <1>3, <1>6 DEF Tallied, n
<1>10. QED
  BY <1>7, <1>8, <1>9

\* The window of one address changes, in one of four ways.
LEMMA WindowKinds ==
  ASSUME SignInAssumption, SignInTypes, [SignInNext]_signInVars, window' # window
  PROVE  \E k \in Keys : LET w == window[k] IN
           \/ window' = [window EXCEPT ![k] = [w EXCEPT !.count = @ + 1]]
           \/ /\ w.count + 1 <= LOGIN_MAX
              /\ window' = [window EXCEPT ![k] = [w EXCEPT !.count = @ + 1, !.allowed = @ + 1]]
           \/ window' = [window EXCEPT ![k] = [w EXCEPT !.count = 0, !.wins = @ + 1]]
           \/ window' = [window EXCEPT ![k] = [count |-> 0, allowed |-> 0, wins |-> 0]]
PROOF
<1>1. \A b \in Browsers : KEY[b] \in Keys
  BY DEF SignInAssumption, Keys
<1>2. window \in [Keys -> WindowRecord]
  BY DEF SignInTypes, SignInPlain
<1>3. ASSUME NEW b \in Browsers, NEW goesOn, Attempt(b, goesOn)
      PROVE  LET w == window[KEY[b]] IN
               \/ window' = [window EXCEPT ![KEY[b]] = [w EXCEPT !.count = @ + 1]]
               \/ /\ w.count + 1 <= LOGIN_MAX
                  /\ window' = [window EXCEPT ![KEY[b]] = [w EXCEPT !.count = @ + 1, !.allowed = @ + 1]]
  BY <1>1, <1>2, <1>3 DEF Attempt, hit, decide, WindowRecord
<1>4. ASSUME NEW b \in Browsers, NEW u \in Users,
             (\E p \in Passwords : Login(b, u, p)) \/ RequestReset(b, u)
      PROVE  \E goesOn \in BOOLEAN : Attempt(b, goesOn)
  BY <1>4 DEF Login, RequestReset, Attempt
<1>5. ASSUME NEW b \in Browsers, Enter(b)
      PROVE  window' = [window EXCEPT ![KEY[b]] = [window[KEY[b]] EXCEPT !.count = 0, !.wins = @ + 1]]
  BY <1>1, <1>2, <1>5 DEF Enter
<1>6. QED
  BY <1>1, <1>3, <1>4, <1>5 DEF SignInNext, signInVars, LoginWithGoogle, SelectOrganization,
     CompleteReset, ChangePassword, Verify, Replace, Send, Apply, Change, PendingExpires, Logout,
     NewWindow, LinkExpires, MembershipChanges

LEMMA AttemptsStep ==
  ASSUME SignInAssumption, SignInTypes, AttemptsInv, [SignInNext]_signInVars
  PROVE  AttemptsInv'
PROOF
<1>1. CASE window' = window
  BY <1>1 DEF AttemptsInv
<1>2. CASE window' # window
  <2>1. window \in [Keys -> WindowRecord] /\ \A k \in Keys : window[k] \in WindowRecord
    BY DEF SignInTypes, SignInPlain
  <2>2. Tallied([count |-> 0, allowed |-> 0, wins |-> 0])
    BY DEF Tallied, SignInAssumption
  <2>3. PICK k \in Keys : \E w : Tallied(w) /\ window' = [window EXCEPT ![k] = w]
    BY <1>2, <2>1, <2>2, Tallies, WindowKinds DEF AttemptsInv
  <2>4. QED
    BY <2>1, <2>3 DEF AttemptsInv
<1>3. QED
  BY <1>1, <1>2

\* Within a window an address gets LOGIN_MAX attempts, and as many again for each login
\* that succeeded, however many of its browsers have attempts in flight that are answered
\* in whatever order (consumeLoginAttempt before the comparison, reset after it).
THEOREM AttemptsStayBounded == ASSUME SignInAssumption PROVE SignInSpec => []AttemptsBounded
PROOF
<1>1. SignInInit => AttemptsInv
  BY DEF SignInInit, AttemptsInv, Tallied, SignInAssumption
<1>2. SignInTypes /\ AttemptsInv /\ [SignInNext]_signInVars => AttemptsInv'
  BY AttemptsStep
<1>3. SignInTypes /\ AttemptsInv => AttemptsBounded
  <2>1. SUFFICES ASSUME SignInTypes, AttemptsInv, NEW k \in Keys
                 PROVE  window[k].allowed <= LOGIN_MAX * (1 + window[k].wins)
    BY DEF AttemptsBounded
  <2>2. window[k].wins \in Nat /\ window[k].allowed \in Nat /\ LOGIN_MAX \in Nat
    BY <2>1 DEF SignInTypes, SignInPlain, WindowRecord, SignInAssumption
  <2>3. LOGIN_MAX * (1 + window[k].wins) = LOGIN_MAX * window[k].wins + LOGIN_MAX
    BY <2>2
  <2>4. QED
    BY <2>1, <2>3 DEF AttemptsInv, Tallied
<1>4. QED
  BY <1>1, <1>2, <1>3, SignInTypesAlways, PTL DEF SignInSpec

-----------------------------------------------------------------------------
(* The reset links of a user. *)

Sent(l) == link[l].is # "unsent"
LinksInOrder == \A l, m \in Links : l <= m /\ Sent(m) => Sent(l)
UsesAreCounted == \A l \in Links : link[l].is = "used" => link[l].uses # 0

\* Who is about to send a link, and asked for it alone, has ended the earlier ones ...
Sending(b) == browser[b].at = "send" /\ browser[b].user \notin twice
OneSends ==
  \A b, c \in Browsers : Sending(b) /\ Sending(c) /\ browser[b].user = browser[c].user => b = c
EarlierAreEnded == \A b \in Browsers : Sending(b) => Unused(browser[b].user) = {}

\* ... so that of two links the older one is gone, unless it was used in its time.
Superseded(l, m) ==
  link[l].user = link[m].user /\ l < m /\ Sent(m) /\ link[l].uses = 0 /\ link[l].user \notin twice
OlderAreGone == \A l, m \in Links : Superseded(l, m) => link[l].is = "gone"

LinksInv == LinksInOrder /\ UsesAreCounted /\ OneSends /\ EarlierAreEnded /\ OlderAreGone

\* Nobody comes to send, and links get no younger.
SendersStay ==
  \A c \in Browsers :
    browser'[c].at = "send" => browser[c].at = "send" /\ browser'[c].user = browser[c].user
Ages ==
  /\ SendersStay /\ twice' = twice
  /\ \A l \in Links :
       /\ link'[l].user = link[l].user
       /\ Sent(l)' <=> Sent(l)
       /\ link'[l].uses = 0 => link[l].uses = 0
       /\ link[l].is = "gone" => link'[l] = link[l]
       /\ link'[l].is \in {"pending", "expired"} => link[l].is \in {"pending", "expired"}
       /\ link'[l].is = "used" => link'[l].uses # 0

LEMMA RestsStay ==
  ASSUME SignInTypes, NEW b \in Browsers, Rests(b)
  PROVE  SendersStay /\ browser'[b].at = "idle" /\ \A c \in Browsers \ {b} : browser'[c] = browser[c]
BY DEF Rests, SendersStay, SignInTypes, SignInPlain

LEMMA ApplyAges ==
  ASSUME SignInTypes, UsesAreCounted, NEW b \in Browsers, Apply(b)
  PROVE  Ages
PROOF
<1> DEFINE k == browser[b].link
<1>1. SendersStay /\ twice' = twice
  BY ApplyEffect, RestsStay
<1>2. /\ k \in Links /\ Sent(k) /\ link \in [Links -> LinkRecord]
      /\ \/ link' = link
         \/ link[k].is # "gone" /\ link' = [link EXCEPT ![k].is = "used", ![k].uses = @ + 1]
  BY ApplyEffect DEF Sent, SignInTypes, SignInPlain
<1> HIDE DEF k
<1>3. CASE link' = link
  BY <1>1, <1>3 DEF Ages, Sent, UsesAreCounted
<1>4. CASE link[k].is # "gone" /\ link' = [link EXCEPT ![k].is = "used", ![k].uses = @ + 1]
  <2>1. link[k].uses \in Nat
    BY <1>2 DEF LinkRecord
  <2>2. \A l \in Links \ {k} : link'[l] = link[l]
    BY <1>2, <1>4
  <2>3. link'[k].user = link[k].user /\ link'[k].is = "used" /\ link'[k].uses = link[k].uses + 1
    BY <1>2, <1>4 DEF LinkRecord
  <2>4. QED
    BY <1>1, <1>2, <1>4, <2>1, <2>2, <2>3 DEF Ages, Sent, UsesAreCounted
<1>5. QED
  BY <1>2, <1>3, <1>4

LEMMA LinkKinds ==
  ASSUME SignInAssumption, SignInTypes, UsesAreCounted, [SignInNext]_signInVars
  PROVE  Ages \/ \E b \in Browsers : Replace(b) \/ Send(b)
PROOF
<1>1. link \in [Links -> LinkRecord] /\ browser \in [Browsers -> BrowserRecord]
  BY DEF SignInTypes, SignInPlain
<1>2. ASSUME UNCHANGED <<link, twice>>, SendersStay PROVE Ages
  BY <1>2 DEF Ages, Sent, UsesAreCounted
<1>3. ASSUME NEW b \in Browsers, Rests(b) PROVE SendersStay
  BY <1>3, RestsStay
<1>4. ASSUME NEW b \in Browsers, NEW r, r.at # "send", browser' = [browser EXCEPT ![b] = r]
      PROVE  SendersStay
  BY <1>1, <1>4 DEF SendersStay
<1>5. ASSUME NEW b \in Browsers, NEW u \in Users,
             (\E p \in Passwords : Login(b, u, p)) \/ RequestReset(b, u)
      PROVE  Ages
  <2>1. UNCHANGED <<link, twice>>
    BY <1>5 DEF Login, RequestReset, signInRows
  <2>2. CASE RequestReset(b, u)
    <3> DEFINE r == [browser[b] EXCEPT !.at = "replace", !.user = u]
    <3>1. Rests(b) \/ browser' = [browser EXCEPT ![b].at = "replace", ![b].user = u]
      BY <2>2, DoneRests DEF RequestReset, Attempt, Rests
    <3>2. Rests(b) \/ browser' = [browser EXCEPT ![b] = r]
      BY <1>1, <3>1
    <3>3. r.at = "replace"
      BY <1>1 DEF BrowserRecord
    <3>4. QED
      BY <1>2, <1>3, <1>4, <2>1, <3>2, <3>3
  <2>3. ASSUME NEW p \in Passwords, Login(b, u, p) PROVE Ages
    <3> DEFINE r == [browser[b] EXCEPT !.at = "verify", !.user = u, !.password = p]
    <3>1. \/ Rests(b)
          \/ browser' = [browser EXCEPT ![b].at = "verify", ![b].user = u, ![b].password = p]
      BY <2>3, DoneRests DEF Login, Attempt, Rests
    <3>2. Rests(b) \/ browser' = [browser EXCEPT ![b] = r]
      BY <1>1, <3>1
    <3>3. r.at = "verify"
      BY <1>1 DEF BrowserRecord
    <3>4. QED
      BY <1>2, <1>3, <1>4, <2>1, <3>2, <3>3
  <2>4. QED
    BY <1>5, <2>2, <2>3
<1>6. ASSUME NEW b \in Browsers,
             \/ \E u \in Users : LoginWithGoogle(b, u)
             \/ \E o \in UserOrgs \cup {None} : SelectOrganization(b, o)
             \/ \E l \in Links, p \in Passwords : CompleteReset(b, l, p)
             \/ \E old, new \in Passwords : ChangePassword(b, old, new)
      PROVE  Ages
  <2>1. UNCHANGED <<link, twice>>
    BY <1>6 DEF LoginWithGoogle, SelectOrganization, CompleteReset, ChangePassword, signInRows
  <2>2. browser[b] \in BrowserRecord
    BY <1>1
  <2>3. UNCHANGED browser \/ \E r : r.at # "send" /\ browser' = [browser EXCEPT ![b] = r]
    <3>1. ASSUME NEW u \in Users, LoginWithGoogle(b, u)
          PROVE  \E r : r.at # "send" /\ browser' = [browser EXCEPT ![b] = r]
      <4> DEFINE r == [browser[b] EXCEPT !.at = "enter", !.user = u]
      <4>1. r.at = "enter" /\ browser' = [browser EXCEPT ![b] = r]
        BY <1>1, <2>2, <3>1 DEF LoginWithGoogle, BrowserRecord
      <4>2. QED
        BY <4>1
    <3>2. ASSUME NEW o \in UserOrgs \cup {None}, SelectOrganization(b, o), ~UNCHANGED browser
          PROVE  \E r : r.at # "send" /\ browser' = [browser EXCEPT ![b] = r]
      <4>1. PICK s : browser' = [browser EXCEPT ![b].session = s, ![b].pending = None]
        BY <3>2 DEF SelectOrganization
      <4> DEFINE r == [browser[b] EXCEPT !.session = s, !.pending = None]
      <4>2. browser[b].at = "idle"
        BY <3>2 DEF SelectOrganization, Submits
      <4>3. r.at = "idle" /\ browser' = [browser EXCEPT ![b] = r]
        BY <1>1, <2>2, <4>1, <4>2 DEF BrowserRecord
      <4>4. QED
        BY <4>3
    <3>3. ASSUME NEW l \in Links, NEW p \in Passwords, CompleteReset(b, l, p)
          PROVE  \E r : r.at # "send" /\ browser' = [browser EXCEPT ![b] = r]
      <4> DEFINE r == [browser[b] EXCEPT !.at = "apply", !.link = l, !.password = p]
      <4>1. r.at = "apply" /\ browser' = [browser EXCEPT ![b] = r]
        BY <1>1, <2>2, <3>3 DEF CompleteReset, BrowserRecord
      <4>2. QED
        BY <4>1
    <3>4. ASSUME NEW old \in Passwords, NEW new \in Passwords, ChangePassword(b, old, new),
                 ~UNCHANGED browser
          PROVE  \E r : r.at # "send" /\ browser' = [browser EXCEPT ![b] = r]
      <4> DEFINE r == [browser[b] EXCEPT !.at = "change", !.user = browser[b].session[1],
                                         !.password = new]
      <4>1. r.at = "change" /\ browser' = [browser EXCEPT ![b] = r]
        BY <1>1, <2>2, <3>4 DEF ChangePassword, BrowserRecord
      <4>2. QED
        BY <4>1
    <3>5. QED
      BY <1>6, <3>1, <3>2, <3>3, <3>4
  <2>4. SendersStay
    BY <1>4, <2>3 DEF SendersStay
  <2>5. QED
    BY <1>2, <2>1, <2>4
<1>7. ASSUME NEW b \in Browsers,
             Verify(b) \/ Enter(b) \/ Change(b) \/ PendingExpires(b) \/ Logout(b)
      PROVE  Ages
  <2>1. UNCHANGED <<link, twice>>
    BY <1>7 DEF Verify, Enter, Change, PendingExpires, Logout, signInRows
  <2>2. CASE Rests(b)
    BY <1>2, <1>3, <2>1, <2>2
  <2>3. CASE ~Rests(b)
    <3>1. Verify(b) \/ PendingExpires(b) \/ Logout(b)
      BY <1>7, <2>3, DoneRests, AdmissionRests DEF Enter, Change, Rests
    <3>2. SendersStay
      BY <1>1, <2>3, <3>1, DoneRests DEF Verify, PendingExpires, Logout, Rests, SendersStay, BrowserRecord
    <3>3. QED
      BY <1>2, <2>1, <3>2
  <2>4. QED
    BY <2>2, <2>3
<1>8. ASSUME NEW l \in Links, LinkExpires(l) PROVE Ages
  BY <1>1, <1>8 DEF LinkExpires, Ages, Sent, SendersStay, UsesAreCounted, LinkRecord
<1>9. ASSUME \/ UNCHANGED signInVars
             \/ \E k \in Keys : NewWindow(k)
             \/ \E u \in Users, o \in UserOrgs : MembershipChanges(u, o)
      PROVE  Ages
  <2>1. UNCHANGED <<link, twice, browser>>
    BY <1>9 DEF signInVars, signInRows, NewWindow, MembershipChanges
  <2>2. QED
    BY <1>2, <2>1 DEF SendersStay
<1>10. QED
  BY <1>5, <1>6, <1>7, <1>8, <1>9, ApplyAges DEF SignInNext

LEMMA AgesStep ==
  ASSUME LinksInv, SignInTypes, Ages
  PROVE  LinksInv'
PROOF
<1>1. ASSUME NEW c \in Browsers, Sending(c)'
      PROVE  Sending(c) /\ browser'[c].user = browser[c].user
  BY <1>1 DEF Ages, SendersStay, Sending
<1>2. \A l, m \in Links : Superseded(l, m)' => Superseded(l, m)
  BY DEF Ages, Superseded, Sent
<1>3. LinksInOrder' /\ UsesAreCounted'
  BY DEF LinksInv, Ages, LinksInOrder, UsesAreCounted, Sent
<1>4. OneSends'
  BY <1>1 DEF LinksInv, OneSends
<1>5. EarlierAreEnded'
  <2> SUFFICES ASSUME NEW c \in Browsers, Sending(c)', NEW l \in Links,
                      l \in Unused(browser[c].user)'
               PROVE  FALSE
    BY <1>1 DEF EarlierAreEnded, Unused
  <2>1. l \in Unused(browser[c].user)
    BY <1>1 DEF Ages, Unused
  <2>2. QED
    BY <1>1, <2>1 DEF LinksInv, EarlierAreEnded
<1>6. OlderAreGone'
  BY <1>2 DEF LinksInv, OlderAreGone, Ages
<1>7. QED
  BY <1>3, <1>4, <1>5, <1>6 DEF LinksInv

\* Whoever replaces the links of a user ends them all, and who else is at it makes it twice.
LEMMA ReplaceStep ==
  ASSUME LinksInv, SignInTypes, NEW b \in Browsers, Replace(b)
  PROVE  /\ LinksInv'
         /\ \A l \in Links : link[l].is = "gone" => link'[l] = link[l]
PROOF
<1> DEFINE u == browser[b].user
<1>1. /\ link \in [Links -> LinkRecord] /\ browser \in [Browsers -> BrowserRecord]
      /\ twice \subseteq twice'
  BY DEF SignInTypes, SignInPlain, Replace
<1>2. ASSUME NEW l \in Links
      PROVE  /\ link'[l].user = link[l].user /\ link'[l].uses = link[l].uses
             /\ l \in Unused(u) => link'[l].is = "gone"
             /\ l \notin Unused(u) => link'[l] = link[l]
  BY <1>1 DEF Replace, LinkRecord
<1>3. ASSUME NEW l \in Links
      PROVE  (Sent(l)' <=> Sent(l)) /\ (link[l].is \in {"gone", "used"} => l \notin Unused(u))
  BY <1>2 DEF Sent, Unused
<1>4. /\ browser'[b].at = "send" /\ browser'[b].user = u
      /\ \A c \in Browsers \ {b} : browser'[c] = browser[c]
  BY <1>1 DEF Replace, BrowserRecord
<1>5. ASSUME NEW c \in Browsers \ {b}, Sending(c)'
      PROVE  Sending(c) /\ browser'[c].user = browser[c].user
  BY <1>1, <1>4, <1>5 DEF Sending
<1>6. ASSUME NEW c \in Browsers \ {b}, browser[c].at = "send", browser[c].user = u
      PROVE  ~Sending(b)' /\ ~Sending(c)'
  <2>1. Requesting(u) # {b}
    BY <1>6 DEF Requesting
  <2>2. u \in twice'
    BY <2>1 DEF Replace
  <2>3. QED
    BY <1>4, <1>6, <2>2 DEF Sending
<1>7. OneSends'
  <2> SUFFICES ASSUME NEW c \in Browsers, NEW d \in Browsers, Sending(c)', Sending(d)',
                      browser'[c].user = browser'[d].user, c # d
               PROVE  FALSE
    BY DEF OneSends
  <2>1. CASE c # b /\ d # b
    BY <1>5, <2>1 DEF LinksInv, OneSends
  <2>2. CASE c = b
    BY <1>4, <1>5, <1>6, <2>2 DEF Sending
  <2>3. CASE d = b
    BY <1>4, <1>5, <1>6, <2>3 DEF Sending
  <2>4. QED
    BY <2>1, <2>2, <2>3
<1>8. EarlierAreEnded'
  <2> SUFFICES ASSUME NEW c \in Browsers, Sending(c)', NEW l \in Links,
                      l \in Unused(browser[c].user)'
               PROVE  FALSE
    BY <1>4, <1>5 DEF EarlierAreEnded, Unused
  <2>1. l \notin Unused(u) /\ link'[l] = link[l] /\ l \in Unused(browser[c].user)'
    BY <1>2 DEF Unused
  <2>2. browser'[c].user = browser[c].user
    BY <1>4, <1>5
  <2>3. l \in Unused(browser[c].user)
    BY <2>1, <2>2 DEF Unused
  <2>4. QED
    BY <1>5, <2>1, <2>3 DEF LinksInv, EarlierAreEnded
<1>9. \A l, m \in Links : Superseded(l, m)' => Superseded(l, m)
  BY <1>1, <1>2, <1>3 DEF Superseded
<1>10. LinksInOrder' /\ UsesAreCounted'
  BY <1>2, <1>3 DEF LinksInv, LinksInOrder, UsesAreCounted
<1>11. OlderAreGone'
  BY <1>2, <1>9 DEF LinksInv, OlderAreGone
<1>12. QED
  BY <1>2, <1>3, <1>7, <1>8, <1>10, <1>11 DEF LinksInv

\* A link is sent under the first free number, after all that were sent before it.
LEMMA NewLinkIsNew ==
  ASSUME SignInAssumption, LinksInOrder, NewLink \in Links
  PROVE  ~Sent(NewLink) /\ \A k \in Links : k < NewLink => Sent(k)
PROOF
<1> DEFINE S == {l \in Links : Sent(l)}
<1>1. S \in SUBSET (1..MaxLinks) /\ MaxLinks \in Nat
  BY DEF SignInAssumption, Links
<1>2. \A l, k \in 1..MaxLinks : k <= l /\ l \in S => k \in S
  BY DEF LinksInOrder, Links
<1>3. NewLink = 1 + Cardinality(S)
  BY DEF NewLink, Sent
<1> HIDE DEF S
<1>4. NewLink \notin S /\ \A k \in 1..MaxLinks : k < NewLink => k \in S
  BY <1>1, <1>2, <1>3, FirstFree
<1>5. QED
  BY <1>4 DEF S, Links

LEMMA SendStep ==
  ASSUME SignInAssumption, LinksInv, SignInTypes, NEW b \in Browsers, Send(b)
  PROVE  /\ LinksInv'
         /\ \A l \in Links : link[l].is = "gone" => link'[l] = link[l]
PROOF
<1> DEFINE n == NewLink
           u == browser[b].user
<1>1. /\ link \in [Links -> LinkRecord] /\ browser \in [Browsers -> BrowserRecord]
      /\ n \in Links /\ browser[b].at = "send" /\ twice' = twice /\ Rests(b)
      /\ link' = [link EXCEPT ![n] = [user |-> u, uses |-> 0, is |-> "pending"]]
  BY DoneRests DEF Send, Rests, SignInTypes, SignInPlain
<1>2. ~Sent(n) /\ \A k \in Links : k < n => Sent(k)
  BY <1>1, NewLinkIsNew DEF LinksInv
<1> HIDE DEF n
<1>3. /\ link'[n].user = u /\ link'[n].uses = 0 /\ link'[n].is = "pending"
      /\ \A l \in Links \ {n} : link'[l] = link[l]
  BY <1>1
<1>4. /\ SendersStay /\ browser'[b].at = "idle"
  BY <1>1, RestsStay
<1>5. ASSUME NEW c \in Browsers, Sending(c)'
      PROVE  c # b /\ Sending(c) /\ browser'[c].user = browser[c].user
  BY <1>1, <1>4, <1>5 DEF Sending, SendersStay
<1>6. LinksInOrder'
  <2> SUFFICES ASSUME NEW l \in Links, NEW m \in Links, l <= m, Sent(m)' PROVE Sent(l)'
    BY DEF LinksInOrder
  <2>1. CASE l = n
    BY <1>3, <2>1 DEF Sent
  <2>2. CASE l # n /\ m = n
    BY <1>2, <1>3, <2>2 DEF Sent, Links
  <2>3. CASE l # n /\ m # n
    BY <1>3, <2>3 DEF LinksInv, LinksInOrder, Sent
  <2>4. QED
    BY <2>1, <2>2, <2>3
<1>7. UsesAreCounted'
  BY <1>3 DEF LinksInv, UsesAreCounted
<1>8. OneSends'
  BY <1>5 DEF LinksInv, OneSends
<1>9. EarlierAreEnded'
  <2> SUFFICES ASSUME NEW c \in Browsers, Sending(c)', NEW l \in Links,
                      l \in Unused(browser[c].user)'
               PROVE  FALSE
    BY <1>5 DEF EarlierAreEnded, Unused
  <2>1. Sending(c) /\ c # b /\ browser'[c].user = browser[c].user
    BY <1>5
  <2>2. CASE l = n
    <3>1. browser[c].user = u
      BY <1>3, <2>1, <2>2 DEF Unused
    <3>2. QED
      BY <1>1, <2>1, <3>1 DEF Sending, LinksInv, OneSends
  <2>3. CASE l # n
    <3>1. l \in Unused(browser[c].user)
      BY <1>3, <2>1, <2>3 DEF Unused
    <3>2. QED
      BY <2>1, <3>1 DEF LinksInv, EarlierAreEnded
  <2>4. QED
    BY <2>2, <2>3
<1>10. OlderAreGone'
  <2> SUFFICES ASSUME NEW l \in Links, NEW m \in Links, Superseded(l, m)'
               PROVE  link'[l].is = "gone"
    BY DEF OlderAreGone
  <2>1. l < m /\ link'[l].user = link'[m].user /\ link'[l].uses = 0 /\ link'[l].user \notin twice
    BY <1>1 DEF Superseded
  <2>2. l # n
    <3> SUFFICES ASSUME l = n PROVE FALSE
      OBVIOUS
    <3>1. m # n /\ Sent(m)
      BY <1>3, <2>1 DEF Superseded, Sent, Links
    <3>2. QED
      BY <1>2, <2>1, <3>1 DEF LinksInv, LinksInOrder, Links
  <2>3. CASE m = n
    <3>1. Sending(b) /\ link[l].user = u /\ link[l].uses = 0
      BY <1>1, <1>3, <2>1, <2>2, <2>3 DEF Sending
    <3>2. Sent(l)
      BY <1>2, <2>1, <2>3
    <3>3. link[l].is # "used" /\ link[l].is \notin {"pending", "expired"}
      BY <3>1 DEF LinksInv, UsesAreCounted, EarlierAreEnded, Unused
    <3>4. QED
      BY <1>1, <1>3, <2>2, <3>2, <3>3 DEF Sent, LinkRecord
  <2>4. CASE m # n
    <3>1. Superseded(l, m)
      BY <1>1, <1>3, <2>2, <2>4 DEF Superseded, Sent
    <3>2. QED
      BY <1>3, <2>2, <3>1 DEF LinksInv, OlderAreGone
  <2>5. QED
    BY <2>3, <2>4
<1>11. QED
  BY <1>2, <1>3, <1>6, <1>7, <1>8, <1>9, <1>10 DEF LinksInv, Sent

LEMMA LinksStep ==
  ASSUME SignInAssumption, LinksInv, SignInTypes, [SignInNext]_signInVars
  PROVE  LinksInv' /\ \A l \in Links : link[l].is = "gone" => link'[l] = link[l]
PROOF
<1>1. CASE Ages
  BY <1>1, AgesStep DEF Ages
<1>2. CASE \E b \in Browsers : Replace(b) \/ Send(b)
  BY <1>2, ReplaceStep, SendStep
<1>3. QED
  BY <1>1, <1>2, LinkKinds DEF LinksInv

\* A link that a newer one has replaced changes nobody's password, not even for somebody
\* who opened it before (completePasswordReset's update of a row that is gone fails); only
\* two requests of one user that overlap leave two links alive.
THEOREM ReplacedLinksDie == ASSUME SignInAssumption PROVE SignInSpec => ReplacedLinkIsDead
PROOF
<1>1. SignInInit => LinksInv
  BY DEF SignInInit, LinksInv, LinksInOrder, UsesAreCounted, OneSends, EarlierAreEnded,
         OlderAreGone, Superseded, Sent, Sending
<1>2. SignInTypes /\ LinksInv /\ [SignInNext]_signInVars => LinksInv'
  BY LinksStep
<1>3. ASSUME SignInTypes, LinksInv, [SignInNext]_signInVars
      PROVE  [\A l, m \in Links :
                /\ link[l].user = link[m].user /\ l < m /\ link[m].is # "unsent"
                /\ link[l].uses = 0 /\ link[l].user \notin twice
                => link'[l].uses = link[l].uses]_signInVars
  BY <1>3, LinksStep DEF LinksInv, OlderAreGone, Superseded, Sent
<1>4. QED
  BY <1>1, <1>2, <1>3, SignInTypesAlways, PTL DEF SignInSpec, ReplacedLinkIsDead

=============================================================================
