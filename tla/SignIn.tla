-------------------------------- MODULE SignIn --------------------------------
(***************************************************************************)
(* How somebody gets in: logging in under a limit of attempts, choosing an  *)
(* organisation, resetting a forgotten password, changing it from inside.   *)
(* A browser makes one call at a time; the calls of different browsers      *)
(* interleave at every await.  Memberships come and go (module Accounts).   *)
(***************************************************************************)
EXTENDS Naturals, FiniteSets, Null

CONSTANTS
  Users,
  Passwords,
  UserOrgs,  \* the organisations they may be members of
  Browsers,
  KEY,       \* the address each browser calls from
  LOGIN_MAX, \* LOGIN_RATE_LIMIT.max
  MaxLinks,  \* bound: rows of PasswordReset
  MaxSignInCalls \* bound: calls that begin

\* Rows are numbered as they are created.  Whoever reads the mail holds the link.
Links == 1..MaxLinks

\* Assumed of the constants wherever the module is used.
SignInAssumption ==
  /\ None \notin Users \cup Passwords \cup UserOrgs
  /\ DOMAIN KEY = Browsers
  /\ LOGIN_MAX \in Nat \ {0} /\ MaxLinks \in Nat /\ MaxSignInCalls \in Nat

Keys == {KEY[b] : b \in Browsers}

VARIABLES
  hash,     \* each user's password
  member,   \* the Membership rows
  link,     \* each reset: for whom, and what became of it
  window,   \* per address: the count of this window, and how many of its logins succeeded
  browser,  \* each browser: its cookies, the call it waits for and what that has read
  signIns,
  twice     \* users for whom two requests for a link overlapped

signInRows == <<hash, member, link>>
signInVars == <<signInRows, window, browser, signIns, twice>>

SignInTypeOK ==
  /\ hash \in [Users -> Passwords]
  /\ member \subseteq Users \X UserOrgs
  /\ link \in [Links -> [user : Users \cup {None}, uses : Nat,
                         is : {"unsent", "pending", "expired", "used", "gone"}]]
  /\ window \in [Keys -> [count : Nat, allowed : Nat, wins : Nat]]
  /\ browser \in [Browsers ->
       [at : {"idle", "verify", "enter", "replace", "send", "apply", "change"},
        session : (Users \X UserOrgs) \cup {None}, pending : Users \cup {None},
        user : Users \cup {None}, password : Passwords \cup {None}, link : Links \cup {None}]]
  /\ signIns \in 0..MaxSignInCalls
  /\ twice \subseteq Users

Quiet(b) == [browser[b] EXCEPT !.at = "idle", !.user = None, !.password = None, !.link = None]
OrgsOf(u) == {o \in UserOrgs : <<u, o>> \in member}
Unused(u) == {l \in Links : link[l].user = u /\ link[l].is \in {"pending", "expired"}}

SignInInit ==
  /\ hash \in [Users -> Passwords]
  /\ member = Users \X UserOrgs
  /\ link = [l \in Links |-> [user |-> None, uses |-> 0, is |-> "unsent"]]
  /\ window = [k \in Keys |-> [count |-> 0, allowed |-> 0, wins |-> 0]]
  /\ browser = [b \in Browsers |-> [at |-> "idle", session |-> None, pending |-> None,
                                    user |-> None, password |-> None, link |-> None]]
  /\ signIns = 0
  /\ twice = {}

Submits(b) == browser[b].at = "idle" /\ signIns < MaxSignInCalls /\ signIns' = signIns + 1
Done(b) == browser' = [browser EXCEPT ![b] = Quiet(b)]

-----------------------------------------------------------------------------
(* MemoryRateLimitStore.hit and decide, called by loginAction and requestResetAction. *)

hit(k) == [window[k] EXCEPT !.count = @ + 1]
decide(counted) == counted.count <= LOGIN_MAX

\* An attempt counts before anything is verified; beyond the limit it ends there.
Attempt(b, goesOn) ==
  LET counted == hit(KEY[b]) IN
  \/ decide(counted) /\ window' = [window EXCEPT ![KEY[b]] = [counted EXCEPT !.allowed = @ + 1]] /\ goesOn
  \/ ~decide(counted) /\ window' = [window EXCEPT ![KEY[b]] = counted] /\ Done(b)

\* The fifteen minutes of a window pass, or the process restarts.
NewWindow(k) ==
  /\ window[k].count > 0
  /\ window' = [window EXCEPT ![k] = [count |-> 0, allowed |-> 0, wins |-> 0]]
  /\ UNCHANGED <<signInRows, browser, signIns, twice>>

-----------------------------------------------------------------------------
(* login, loginWithGoogle and selectOrganizationAction. *)

\* An address nobody has fails like a wrong password, after the same comparison.
Login(b, u, p) ==
  /\ Submits(b)
  /\ Attempt(b, browser' = [browser EXCEPT ![b].at = "verify", ![b].user = u, ![b].password = p])
  /\ UNCHANGED <<signInRows, twice>>

\* Variant: the attempts are forgotten before the password is known to be right.
VerifyForgiving(b) ==
  /\ browser[b].at = "verify"
  /\ window' = [window EXCEPT ![KEY[b]].count = 0]
  /\ IF hash[browser[b].user] = browser[b].password
     THEN browser' = [browser EXCEPT ![b].at = "enter"]
     ELSE Done(b)
  /\ UNCHANGED <<signInRows, signIns, twice>>

Verify(b) ==
  /\ browser[b].at = "verify"
  /\ IF hash[browser[b].user] = browser[b].password
     THEN browser' = [browser EXCEPT ![b].at = "enter"]
     ELSE Done(b)
  /\ UNCHANGED <<signInRows, window, signIns, twice>>

\* Google has verified who it is; no attempt is counted.
LoginWithGoogle(b, u) ==
  /\ Submits(b)
  /\ browser' = [browser EXCEPT ![b].at = "enter", ![b].user = u]
  /\ UNCHANGED <<signInRows, window, twice>>

\* One organisation: signed in.  Several: the pending cookie, and the choice is made
\* later.  None: no cookie.
Admission(b, u) ==
  LET orgs == OrgsOf(u) IN
  \/ /\ Cardinality(orgs) = 1
     /\ \E o \in orgs : browser' = [browser EXCEPT ![b] = [Quiet(b) EXCEPT !.session = <<u, o>>]]
  \/ Cardinality(orgs) > 1 /\ browser' = [browser EXCEPT ![b] = [Quiet(b) EXCEPT !.pending = u]]
  \/ orgs = {} /\ Done(b)

\* The attempts are forgotten once the login is good for something.
Enter(b) ==
  /\ browser[b].at = "enter"
  /\ Admission(b, browser[b].user)
  /\ window' = IF OrgsOf(browser[b].user) = {} \/ browser[b].password = None THEN window
               ELSE [window EXCEPT ![KEY[b]].count = 0, ![KEY[b]].wins = @ + 1]
  /\ UNCHANGED <<signInRows, signIns, twice>>

\* The membership is read again, whatever the form claims; without a choice it is the
\* first one.
SelectOrganization(b, o) ==
  /\ Submits(b)
  /\ browser[b].pending # None
  /\ LET u == browser[b].pending IN
     \/ /\ o \in OrgsOf(u) \/ (o = None /\ OrgsOf(u) # {})
        /\ \E p \in IF o = None THEN OrgsOf(u) ELSE {o} :
             browser' = [browser EXCEPT ![b].session = <<u, p>>, ![b].pending = None]
     \/ o \notin OrgsOf(u) /\ (o # None \/ OrgsOf(u) = {}) /\ UNCHANGED browser
  /\ UNCHANGED <<signInRows, window, twice>>

\* Five minutes pass.
PendingExpires(b) ==
  /\ browser[b].pending # None
  /\ browser' = [browser EXCEPT ![b].pending = None]
  /\ UNCHANGED <<signInRows, window, signIns, twice>>

Logout(b) ==
  /\ browser[b].at = "idle" /\ browser[b].session # None
  /\ browser' = [browser EXCEPT ![b].session = None]
  /\ UNCHANGED <<signInRows, window, signIns, twice>>

-----------------------------------------------------------------------------
(* requestPasswordReset and completePasswordReset. *)

RequestReset(b, u) ==
  /\ Submits(b)
  /\ Attempt(b, browser' = [browser EXCEPT ![b].at = "replace", ![b].user = u])
  /\ UNCHANGED <<signInRows, twice>>

Requesting(u) == {b \in Browsers : browser[b].at \in {"replace", "send"} /\ browser[b].user = u}

\* The links sent earlier go.
Replace(b) ==
  /\ browser[b].at = "replace"
  /\ LET u == browser[b].user IN
     /\ link' = [l \in Links |-> IF l \in Unused(u) THEN [link[l] EXCEPT !.is = "gone"] ELSE link[l]]
     /\ twice' = IF Requesting(u) = {b} THEN twice ELSE twice \cup {u}
  /\ browser' = [browser EXCEPT ![b].at = "send"]
  /\ UNCHANGED <<hash, member, window, signIns>>

NewLink == 1 + Cardinality({l \in Links : link[l].is # "unsent"})

Send(b) ==
  /\ browser[b].at = "send"
  /\ \E l \in Links \cap {NewLink} :
       link' = [link EXCEPT ![l] = [user |-> browser[b].user, uses |-> 0, is |-> "pending"]]
  /\ Done(b)
  /\ UNCHANGED <<hash, member, window, signIns, twice>>

\* A link that is unknown, used or expired is turned away.
CompleteReset(b, l, p) ==
  /\ Submits(b)
  /\ link[l].is = "pending"
  /\ browser' = [browser EXCEPT ![b].at = "apply", ![b].link = l, ![b].password = p]
  /\ UNCHANGED <<signInRows, window, twice>>

\* Variant: the link is marked with updateMany, which does not mind a missing row.
ApplyAnyway(b) ==
  /\ browser[b].at = "apply"
  /\ LET l == browser[b].link IN
     /\ hash' = [hash EXCEPT ![link[l].user] = browser[b].password]
     /\ link' = [link EXCEPT ![l].is = IF @ = "gone" THEN @ ELSE "used", ![l].uses = @ + 1]
     /\ Admission(b, link[l].user)
  /\ UNCHANGED <<member, window, signIns, twice>>

\* The password and the mark of the link in one transaction, which fails when the link
\* has been replaced meanwhile; one that has been used meanwhile is used again.
Apply(b) ==
  /\ browser[b].at = "apply"
  /\ LET l == browser[b].link IN
     \/ link[l].is = "gone" /\ Done(b) /\ UNCHANGED <<hash, link>>
     \/ /\ link[l].is # "gone"
        /\ hash' = [hash EXCEPT ![link[l].user] = browser[b].password]
        /\ link' = [link EXCEPT ![l].is = "used", ![l].uses = @ + 1]
        /\ Admission(b, link[l].user)
  /\ UNCHANGED <<member, window, signIns, twice>>

\* Thirty minutes pass.
LinkExpires(l) ==
  /\ link[l].is = "pending"
  /\ link' = [link EXCEPT ![l].is = "expired"]
  /\ UNCHANGED <<hash, member, window, browser, signIns, twice>>

-----------------------------------------------------------------------------
(* changePasswordAction, behind requireCapability. *)

SignedIn(b) == browser[b].session # None /\ browser[b].session \in member

ChangePassword(b, old, new) ==
  /\ Submits(b)
  /\ SignedIn(b)
  /\ LET u == browser[b].session[1] IN
     browser' = IF hash[u] # old THEN browser
                ELSE [browser EXCEPT ![b].at = "change", ![b].user = u, ![b].password = new]
  /\ UNCHANGED <<signInRows, window, twice>>

Change(b) ==
  /\ browser[b].at = "change"
  /\ hash' = [hash EXCEPT ![browser[b].user] = browser[b].password]
  /\ Done(b)
  /\ UNCHANGED <<member, link, window, signIns, twice>>

\* Accounts: somebody is removed from an organisation or joins it again.
MembershipChanges(u, o) ==
  /\ member' = IF <<u, o>> \in member THEN member \ {<<u, o>>} ELSE member \cup {<<u, o>>}
  /\ UNCHANGED <<hash, link, window, browser, signIns, twice>>

-----------------------------------------------------------------------------

SignInNext ==
  \/ \E b \in Browsers, u \in Users, p \in Passwords : Login(b, u, p)
  \/ \E b \in Browsers, u \in Users : LoginWithGoogle(b, u) \/ RequestReset(b, u)
  \/ \E b \in Browsers, o \in UserOrgs \cup {None} : SelectOrganization(b, o)
  \/ \E b \in Browsers, l \in Links, p \in Passwords : CompleteReset(b, l, p)
  \/ \E b \in Browsers, old, new \in Passwords : ChangePassword(b, old, new)
  \/ \E b \in Browsers : \/ Verify(b) \/ Enter(b) \/ Replace(b) \/ Send(b) \/ Apply(b)
                         \/ Change(b) \/ PendingExpires(b) \/ Logout(b)
  \/ \E k \in Keys : NewWindow(k)
  \/ \E l \in Links : LinkExpires(l)
  \/ \E u \in Users, o \in UserOrgs : MembershipChanges(u, o)

SignInSpec == SignInInit /\ [][SignInNext]_signInVars

-----------------------------------------------------------------------------

\* "An older link stops working the moment a newer one is requested", also for somebody
\* who has opened it already; only two requests made together leave two links alive.
ReplacedLinkIsDead ==
  [][\A l, m \in Links :
       /\ link[l].user = link[m].user /\ l < m /\ link[m].is # "unsent"
       /\ link[l].uses = 0 /\ link[l].user \notin twice
       => link'[l].uses = link[l].uses]_signInVars

\* Within a window an address gets LOGIN_MAX attempts, and as many again for each
\* login that succeeded: attempts are counted before their answer is known.
AttemptsBounded == \A k \in Keys : window[k].allowed <= LOGIN_MAX * (1 + window[k].wins)

=============================================================================
