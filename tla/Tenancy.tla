-------------------------------- MODULE Tenancy --------------------------------
(***************************************************************************)
(* How an organisation comes to its own database and how requests reach it: *)
(* admins validate, migrate, save and clear connections; requests on one    *)
(* warm instance resolve the saved connection and share a bounded cache of  *)
(* clients.  Between two awaits a request runs alone on its instance.       *)
(***************************************************************************)
EXTENDS Naturals, Sequences, FiniteSets, Null

CONSTANTS
  Orgs,       \* organisations
  Databases,  \* Neon databases somebody may paste the connection string of
  Admins,     \* calls of saveNeonConnectionAction
  Requests,   \* calls of getTenantPrisma on one instance
  MAX_CACHED_TENANT_CLIENTS,
  MaxSaves,   \* bound: connections saved or cleared
  MaxCrashes  \* bound: admin calls that die

ASSUME TenancyAssumption ==
  /\ None \notin Orgs \cup Databases
  /\ MAX_CACHED_TENANT_CLIENTS \in Nat \ {0}
  /\ MaxSaves \in Nat
  /\ MaxCrashes \in Nat

VARIABLES
  org,       \* the Organization row: provisionStatus and the saved connection
  tables,    \* the databases that have been migrated
  admin,     \* each save under way: its next step, its organisation and database
  cache,     \* the Map of cached clients in insertion order
  req,       \* each request: where it is, for whom, and the connection it resolved
  clashed,   \* whether two requests ever awaited a disconnect at one time
  saves, crashes

central == <<org, tables>>
budget == <<saves, crashes>>
vars == <<central, admin, cache, req, clashed, budget>>

ProvisionStatus == {"unprovisioned", "provisioning", "ready", "failed"}
Entry == [org : Orgs, db : Databases]

TypeOK ==
  /\ org \in [Orgs -> [status : ProvisionStatus, url : Databases \cup {None}]]
  /\ \A o \in Orgs : org[o].status = "ready" => org[o].url # None
  /\ tables \subseteq Databases
  /\ admin \in [Admins -> [at : {"idle", "mark", "migrate", "ready", "failed"},
                           org : Orgs \cup {None}, db : Databases \cup {None}]]
  /\ cache \in Seq(Entry)
  /\ req \in [Requests -> [at : {"idle", "lookup", "rotate", "evict", "use"},
                           org : Orgs \cup {None}, db : Databases \cup {None},
                           victim : Orgs \cup {None}, client : Databases \cup {None}]]
  /\ clashed \in BOOLEAN
  /\ saves \in 0..MaxSaves /\ crashes \in 0..MaxCrashes

NoSave == [at |-> "idle", org |-> None, db |-> None]
NoRequest == [at |-> "idle", org |-> None, db |-> None, victim |-> None, client |-> None]

Init ==
  /\ org = [o \in Orgs |-> [status |-> "unprovisioned", url |-> None]]
  /\ tables = {}
  /\ admin = [a \in Admins |-> NoSave]
  /\ cache = <<>>
  /\ req = [q \in Requests |-> NoRequest]
  /\ clashed = FALSE
  /\ saves = 0 /\ crashes = 0

-----------------------------------------------------------------------------
(* saveNeonConnectionAction and clearNeonConnectionAction. *)

\* validateNeonUrl: a database that has tables already is refused.
Acceptable(d) == d \notin tables

Validate(a, o, d) ==
  /\ admin[a].at = "idle" /\ saves < MaxSaves
  /\ Acceptable(d)
  /\ admin' = [admin EXCEPT ![a] = [at |-> "mark", org |-> o, db |-> d]]
  /\ saves' = saves + 1
  /\ UNCHANGED <<central, cache, req, clashed, crashes>>

\* Variant: the row is saved as ready before the migration.
MarkReady(a) ==
  /\ admin[a].at = "mark"
  /\ org' = [org EXCEPT ![admin[a].org] = [status |-> "ready", url |-> admin[a].db]]
  /\ admin' = [admin EXCEPT ![a].at = "migrate"]
  /\ UNCHANGED <<tables, cache, req, clashed, budget>>

\* "'provisioning' first, not 'ready'".
Mark(a) ==
  /\ admin[a].at = "mark"
  /\ org' = [org EXCEPT ![admin[a].org].status = "provisioning"]
  /\ admin' = [admin EXCEPT ![a].at = "migrate"]
  /\ UNCHANGED <<tables, cache, req, clashed, budget>>

\* Variant: every statement is CREATE .. IF NOT EXISTS.
MigrateAgain(a) ==
  /\ admin[a].at = "migrate"
  /\ tables' = tables \cup {admin[a].db}
  /\ admin' = [admin EXCEPT ![a].at = "ready"]
  /\ UNCHANGED <<org, cache, req, clashed, budget>>

\* runTenantMigrations: one transaction, which fails when the tables exist, may fail
\* for any other reason, and may lose the answer to its COMMIT.
Migrate(a) ==
  /\ admin[a].at = "migrate"
  /\ \/ /\ admin[a].db \notin tables
        /\ tables' = tables \cup {admin[a].db}
        /\ admin' = [admin EXCEPT ![a].at = "ready"]
     \/ /\ \/ UNCHANGED tables
           \/ admin[a].db \notin tables /\ tables' = tables \cup {admin[a].db}
        /\ admin' = [admin EXCEPT ![a].at = "failed"]
  /\ UNCHANGED <<org, cache, req, clashed, budget>>

SaveReady(a) ==
  /\ admin[a].at = "ready"
  /\ org' = [org EXCEPT ![admin[a].org] = [status |-> "ready", url |-> admin[a].db]]
  /\ admin' = [admin EXCEPT ![a] = NoSave]
  /\ UNCHANGED <<tables, cache, req, clashed, budget>>

\* The connection saved earlier stays in the row.
SaveFailed(a) ==
  /\ admin[a].at = "failed"
  /\ org' = [org EXCEPT ![admin[a].org].status = "failed"]
  /\ admin' = [admin EXCEPT ![a] = NoSave]
  /\ UNCHANGED <<tables, cache, req, clashed, budget>>

Clear(o) ==
  /\ saves < MaxSaves
  /\ org' = [org EXCEPT ![o] = [status |-> "unprovisioned", url |-> None]]
  /\ saves' = saves + 1
  /\ UNCHANGED <<tables, admin, cache, req, clashed, crashes>>

Die(a) ==
  /\ admin[a].at # "idle" /\ crashes < MaxCrashes
  /\ admin' = [admin EXCEPT ![a] = NoSave]
  /\ crashes' = crashes + 1
  /\ UNCHANGED <<central, cache, req, clashed, saves>>

-----------------------------------------------------------------------------
(* getTenantPrisma. *)

Cached(o) == {i \in DOMAIN cache : cache[i].org = o}

\* Map.delete: a key has one entry at most.
Without(o) ==
  IF Cached(o) = {} THEN cache
  ELSE LET i == CHOOSE i \in Cached(o) : TRUE
       IN SubSeq(cache, 1, i - 1) \o SubSeq(cache, i + 1, Len(cache))

\* Map.set: a key that is there keeps its place.
With(s, o, d) ==
  LET there == {i \in DOMAIN s : s[i].org = o} IN
  IF there = {} THEN Append(s, [org |-> o, db |-> d])
  ELSE [i \in DOMAIN s |-> IF i \in there THEN [org |-> o, db |-> d] ELSE s[i]]

Awaiting == {q \in Requests : req[q].at \in {"rotate", "evict"}}

\* resolveConnectionString: anything but a ready organisation is refused.
Resolve(q, o) ==
  /\ req[q].at = "idle"
  /\ org[o].status = "ready" /\ org[o].url # None
  /\ req' = [req EXCEPT ![q] = [NoRequest EXCEPT !.at = "lookup", !.org = o, !.db = org[o].url]]
  /\ UNCHANGED <<central, admin, cache, clashed, budget>>

Await(q, place, victim) ==
  /\ req' = [req EXCEPT ![q].at = place, ![q].victim = victim]
  /\ clashed' = (clashed \/ Awaiting # {})
  /\ UNCHANGED cache

Give(q, d) == req' = [req EXCEPT ![q].at = "use", ![q].client = d, ![q].victim = None]

\* Variant: nothing is ever evicted.
MakeRoomNever(q, s) ==
  /\ cache' = With(s, req[q].org, req[q].db)
  /\ Give(q, req[q].db)
  /\ UNCHANGED clashed

\* Room for a new client: build and set it at once, or wait for the oldest to go.
MakeRoom(q, s) ==
  \/ /\ Len(s) < MAX_CACHED_TENANT_CLIENTS
     /\ cache' = With(s, req[q].org, req[q].db)
     /\ Give(q, req[q].db)
     /\ UNCHANGED clashed
  \/ /\ Len(s) >= MAX_CACHED_TENANT_CLIENTS
     /\ req' = [req EXCEPT ![q].at = "evict", ![q].victim = Head(s).org]
     /\ clashed' = (clashed \/ Awaiting \ {q} # {})
     /\ cache' = s

\* A client of the connection just resolved is handed out as it is.
Hit(q) == \E i \in Cached(req[q].org) : cache[i].db = req[q].db /\ Give(q, cache[i].db)

Lookup(q) ==
  /\ req[q].at = "lookup"
  /\ LET o == req[q].org IN
     \/ Hit(q) /\ UNCHANGED <<cache, clashed>>
     \/ /\ \E i \in Cached(o) : cache[i].db # req[q].db
        /\ Await(q, "rotate", o)
     \/ Cached(o) = {} /\ MakeRoom(q, cache)
  /\ UNCHANGED <<central, admin, budget>>

\* The client of a rotated credential is gone; what is there by now is deleted.
Rotated(q) ==
  /\ req[q].at = "rotate"
  /\ MakeRoom(q, Without(req[q].org))
  /\ UNCHANGED <<central, admin, budget>>

\* The oldest client is gone; the size is not looked at again.
Evicted(q) ==
  /\ req[q].at = "evict"
  /\ cache' = With(Without(req[q].victim), req[q].org, req[q].db)
  /\ Give(q, req[q].db)
  /\ UNCHANGED <<central, admin, clashed, budget>>

Finish(q) ==
  /\ req[q].at = "use"
  /\ req' = [req EXCEPT ![q] = NoRequest]
  /\ UNCHANGED <<central, admin, cache, clashed, budget>>

-----------------------------------------------------------------------------

Next ==
  \/ \E a \in Admins, o \in Orgs, d \in Databases : Validate(a, o, d)
  \/ \E a \in Admins : Mark(a) \/ Migrate(a) \/ SaveReady(a) \/ SaveFailed(a) \/ Die(a)
  \/ \E o \in Orgs : Clear(o)
  \/ \E q \in Requests, o \in Orgs : Resolve(q, o)
  \/ \E q \in Requests : Lookup(q) \/ Rotated(q) \/ Evicted(q) \/ Finish(q)

Spec == Init /\ [][Next]_vars

-----------------------------------------------------------------------------

\* An organisation is ready only on a database whose migration has committed, however
\* admins interleave, die and clear.
ReadyMeansMigrated == \A o \in Orgs : org[o].status = "ready" => org[o].url \in tables

\* Two organisations never point at one database, although both may have found it
\* empty: one migration commits.
NoSharedDatabase ==
  \A o, p \in Orgs : org[o].url = org[p].url /\ org[o].url # None => o = p

\* A database is migrated once, given to one organisation at most in all its life, and
\* not used again once it was let go, however admins interleave, die, rotate and clear:
\* Tenancy implements Tenure (saveNeonConnectionAction, clearNeonConnectionAction).
OnOffer == {d \in Databases : \E a \in Admins : admin[a].at = "ready" /\ admin[a].db = d}
Tenures == INSTANCE Tenure WITH
  fresh <- Databases \ tables, offered <- OnOffer, home <- [o \in Orgs |-> org[o].url],
  serving <- {o \in Orgs : org[o].status = "ready"}
DatabasesLiveOnce == Tenures!Spec

\* A request is given a client of the connection it resolved: a rotated credential
\* swaps the client on the next use.
GivenWhatItResolved == \A q \in Requests : req[q].at = "use" => req[q].client = req[q].db

\* The cache is bounded as long as no two requests awaited a disconnect at one time.
CacheBounded == clashed \/ Len(cache) <= MAX_CACHED_TENANT_CLIENTS

\* Both, of the clients that requests share on one instance (getTenantPrisma).
CacheSound == GivenWhatItResolved /\ CacheBounded

=============================================================================
