-------------------------------- MODULE MCApp --------------------------------
(***************************************************************************)
(* What people do in the app around runs and results, side by side:         *)
(* connecting tenant databases (Tenancy), memberships and invitations       *)
(* (Accounts), passwords and sessions (SignIn), dragging the groups into    *)
(* the order they are swept in (Ordering) and watching runs (Watching).     *)
(* They share no row that two of them write, so each is explored on its     *)
(* own: one part moves, the others stay.                                    *)
(***************************************************************************)
EXTENDS MCTenancy, Accounts, SignIn, Ordering, Watching

CONSTANT Address  \* that all browsers call from

VARIABLE part

allVars == <<part, vars, accountVars, signInVars, orderVars, watchVars>>

KeyOf == [b \in Browsers |-> Address]

\* The groups are numbered as the sitemap lists them, and each list is in a tab of its own.
SitemapOf == [g \in Groups |-> g]
TabOf == [l \in Lists |-> l]

ASSUME AppAssumption ==
  AccountsAssumption /\ SignInAssumption /\ OrderingAssumption

AppInit ==
  /\ part \in {"tenancy", "accounts", "signin", "order", "watch"}
  /\ Init /\ AccountsInit /\ SignInInit /\ OrderInit /\ WatchInit
  /\ part # "order" => group = [g \in Groups |-> "there"]

AppNext ==
  \/ part = "tenancy" /\ Next /\ UNCHANGED <<part, accountVars, signInVars, orderVars, watchVars>>
  \/ part = "accounts" /\ AccountsNext /\ UNCHANGED <<part, vars, signInVars, orderVars, watchVars>>
  \/ part = "signin" /\ SignInNext /\ UNCHANGED <<part, vars, accountVars, orderVars, watchVars>>
  \/ part = "order" /\ OrderNext /\ UNCHANGED <<part, vars, accountVars, signInVars, watchVars>>
  \/ part = "watch" /\ WatchNext /\ UNCHANGED <<part, vars, accountVars, signInVars, orderVars>>

AppSpec == AppInit /\ [][AppNext]_allVars

=============================================================================
