------------------------------ MODULE PagesProofs ------------------------------
(***************************************************************************)
(* For any number of urls, groups, ingests and edits, and any batch size:   *)
(* an ingest that nothing disturbed leaves the pages as the sitemap has     *)
(* them and creates no group for a slug that resolves, and a page moved by  *)
(* hand stays where it was put.                                             *)
(***************************************************************************)
EXTENDS Pages, TLAPS

IngestRecord ==
  [at : {"idle", "aliases", "groups", "pages", "active", "deactivate"},
   seen : SUBSET Urls, listed : SUBSET Urls, left : SUBSET Urls,
   alias : [Slugs -> Groups \cup {None}], group : [Slugs -> Groups \cup {None}]]

RowTypes ==
  /\ page \in [Urls -> PageRow \cup {None}]
  /\ slug \in [Groups -> Slugs \cup {None}]
  /\ groups \in 0..MaxGroups
  /\ alias \in [Slugs -> Groups \cup {None}]

OtherTypes ==
  /\ listed \subseteq Urls
  /\ merging \in [from : Groups, to : Groups, moved : SUBSET Urls] \cup {None}
  /\ edits \in 0..MaxEdits /\ begun \in 0..MaxIngests
  /\ calm \subseteq Ingests /\ fresh \in BOOLEAN

\* The foreign keys and the unique slug; groups are numbered as they come, and the two of a
\* merge that has not committed are there.
PageRefers == \A u \in Urls : page[u] # None /\ page[u].group # None => slug[page[u].group] # None
SlugUnique == \A g, h \in Groups : slug[g] = slug[h] /\ slug[g] # None => g = h
AliasRefers == \A s \in Slugs : alias[s] # None => slug[alias[s]] # None
GroupInv ==
  /\ \A g \in Groups : slug[g] # None => g <= groups
  /\ merging # None => /\ slug[merging.from] # None /\ slug[merging.to] # None
                       /\ merging.from # merging.to
Refers == PageRefers /\ SlugUnique /\ AliasRefers /\ GroupInv

IngestTypes == ingest \in [Ingests -> IngestRecord]
PlainTypes == RowTypes /\ OtherTypes /\ IngestTypes
RowsInv == PlainTypes /\ Refers

LEMMA Assumed ==
  ASSUME PagesAssumption
  PROVE  /\ None \notin Groups /\ None \notin Slugs /\ None \notin PageRow
         /\ MaxGroups \in Nat /\ MaxEdits \in Nat /\ MaxIngests \in Nat
         /\ SLUG \in [Urls -> Slugs] /\ Groups = 1..MaxGroups
         /\ NoIngest \in IngestRecord /\ NoIngest.at = "idle"
PROOF
<1>1. NoIngest \in IngestRecord /\ NoIngest.at = "idle"
  BY DEF NoIngest, IngestRecord
<1>2. QED
  BY <1>1 DEF PagesAssumption, Groups

\* An ingest goes on or ends, and the others stay where they are.
LEMMA IngestGoes ==
  ASSUME IngestTypes, NEW i \in Ingests, NEW r \in IngestRecord, ingest' = [ingest EXCEPT ![i] = r]
  PROVE  /\ IngestTypes'
         /\ ingest'[i] = r
         /\ \A j \in Ingests : j # i => ingest'[j] = ingest[j]
PROOF BY DEF IngestTypes

-----------------------------------------------------------------------------
(* What each step of an ingest does to it. *)

\* The steps that only read: from where to where, and what they leave alone.
LEMMA CrawlEffect ==
  ASSUME PagesAssumption, PlainTypes, NEW i \in Ingests, NEW failing, Crawl(i, failing)
  PROVE  /\ ingest[i].at = "idle" /\ ingest'[i].at = "aliases"
         /\ ingest'[i].seen = {u \in listed : DOCUMENT[u] \notin failing}
         /\ ingest'[i].left = ingest'[i].seen /\ ingest'[i].listed = listed
         /\ \A j \in Ingests : j # i => ingest'[j] = ingest[j]
         /\ IngestTypes'
PROOF
<1> DEFINE seen == {u \in listed : DOCUMENT[u] \notin failing}
           r == [NoIngest EXCEPT !.at = "aliases", !.seen = seen, !.left = seen, !.listed = listed]
<1>1. ingest' = [ingest EXCEPT ![i] = r] /\ ingest[i].at = "idle"
  BY DEF Crawl
<1>2. seen \in SUBSET Urls /\ listed \in SUBSET Urls
  BY DEF PlainTypes, OtherTypes
<1> HIDE DEF seen
<1>3. /\ r \in IngestRecord /\ r.at = "aliases" /\ r.seen = seen /\ r.left = seen
      /\ r.listed = listed
  BY <1>2 DEF NoIngest, IngestRecord
<1> HIDE DEF r
<1>4. QED
  BY <1>1, <1>3, IngestGoes DEF PlainTypes, seen

LEMMA ReadAliasesEffect ==
  ASSUME PlainTypes, NEW i \in Ingests, ReadAliases(i)
  PROVE  /\ ingest[i].at = "aliases" /\ ingest'[i].at = "groups"
         /\ ingest'[i].seen = ingest[i].seen /\ ingest'[i].left = ingest[i].left
         /\ ingest'[i].listed = ingest[i].listed
         /\ \A s \in Needed(i) \cap Slugs : ingest'[i].alias[s] = alias[s]
         /\ \A j \in Ingests : j # i => ingest'[j] = ingest[j]
         /\ IngestTypes'
PROOF
<1> DEFINE found == [s \in Slugs |-> IF s \in Needed(i) THEN alias[s] ELSE None]
           r == [ingest[i] EXCEPT !.at = "groups", !.alias = found]
<1>1. ingest[i] \in IngestRecord /\ ingest[i].at = "aliases"
  BY DEF ReadAliases, PlainTypes, IngestTypes
<1>2. ingest' = [ingest EXCEPT ![i].at = "groups", ![i].alias = found]
  BY DEF ReadAliases
<1>3. found \in [Slugs -> Groups \cup {None}] /\ \A s \in Needed(i) \cap Slugs : found[s] = alias[s]
  BY DEF PlainTypes, RowTypes
<1> HIDE DEF found
<1>4. ingest' = [ingest EXCEPT ![i] = r]
  BY <1>2 DEF PlainTypes, IngestTypes
<1>5. /\ r \in IngestRecord /\ r.at = "groups" /\ r.seen = ingest[i].seen
      /\ r.left = ingest[i].left /\ r.listed = ingest[i].listed /\ r.alias = found
  BY <1>1, <1>3 DEF IngestRecord
<1> HIDE DEF r
<1>6. QED
  BY <1>1, <1>3, <1>4, <1>5, IngestGoes DEF PlainTypes

LEMMA ReadGroupsEffect ==
  ASSUME PagesAssumption, PlainTypes, NEW i \in Ingests, ReadGroups(i)
  PROVE  /\ ingest[i].at = "groups" /\ ingest'[i].at = "pages"
         /\ ingest'[i].seen = ingest[i].seen /\ ingest'[i].left = ingest[i].left
         /\ ingest'[i].listed = ingest[i].listed /\ ingest'[i].alias = ingest[i].alias
         /\ \A s \in Needed(i) \cap Slugs :
              IF ingest'[i].group[s] = None THEN GroupOf(s) = {}
              ELSE slug[ingest'[i].group[s]] = s
         /\ \A j \in Ingests : j # i => ingest'[j] = ingest[j]
         /\ IngestTypes'
PROOF
<1> DEFINE found == [s \in Slugs |->
                       IF s \in Needed(i) /\ GroupOf(s) # {} THEN CHOOSE g \in GroupOf(s) : TRUE
                       ELSE None]
           r == [ingest[i] EXCEPT !.at = "pages", !.group = found]
<1>1. ingest[i] \in IngestRecord /\ ingest[i].at = "groups"
  BY DEF ReadGroups, PlainTypes, IngestTypes
<1>2. ingest' = [ingest EXCEPT ![i].at = "pages", ![i].group = found]
  BY DEF ReadGroups
<1>3. \A s \in Slugs : GroupOf(s) # {} => (CHOOSE g \in GroupOf(s) : TRUE) \in GroupOf(s)
  OBVIOUS
<1>4. /\ found \in [Slugs -> Groups \cup {None}]
      /\ \A s \in Needed(i) \cap Slugs : IF found[s] = None THEN GroupOf(s) = {}
                                         ELSE slug[found[s]] = s
  BY <1>3, Assumed DEF GroupOf
<1> HIDE DEF found
<1>5. ingest' = [ingest EXCEPT ![i] = r]
  BY <1>2 DEF PlainTypes, IngestTypes
<1>6. /\ r \in IngestRecord /\ r.at = "pages" /\ r.seen = ingest[i].seen
      /\ r.left = ingest[i].left /\ r.listed = ingest[i].listed /\ r.alias = ingest[i].alias
      /\ r.group = found
  BY <1>1, <1>4 DEF IngestRecord
<1> HIDE DEF r
<1>7. /\ IngestTypes' /\ ingest'[i] = r
      /\ \A j \in Ingests : j # i => ingest'[j] = ingest[j]
  BY <1>5, <1>6, IngestGoes DEF PlainTypes
<1>8. \A s \in Needed(i) \cap Slugs : IF ingest'[i].group[s] = None THEN GroupOf(s) = {}
                                      ELSE slug[ingest'[i].group[s]] = s
  BY <1>4, <1>6, <1>7
<1>9. QED
  BY <1>1, <1>6, <1>7, <1>8

LEMMA ReadActiveEffect ==
  ASSUME PlainTypes, NEW i \in Ingests, ReadActive(i)
  PROVE  /\ ingest[i].at = "active" /\ ingest'[i].at = "deactivate"
         /\ ingest'[i].seen = ingest[i].seen /\ ingest'[i].left = Unseen(i)
         /\ ingest'[i].listed = ingest[i].listed /\ ingest'[i].alias = ingest[i].alias
         /\ ingest'[i].group = ingest[i].group
         /\ \A j \in Ingests : j # i => ingest'[j] = ingest[j]
         /\ IngestTypes'
PROOF
<1> DEFINE r == [ingest[i] EXCEPT !.at = "deactivate", !.left = Unseen(i)]
<1>1. ingest[i] \in IngestRecord /\ ingest[i].at = "active"
  BY DEF ReadActive, PlainTypes, IngestTypes
<1>2. ingest' = [ingest EXCEPT ![i] = r]
  BY DEF ReadActive, PlainTypes, IngestTypes
<1>3. Unseen(i) \in SUBSET Urls
  BY DEF Unseen
<1>4. /\ r \in IngestRecord /\ r.at = "deactivate" /\ r.seen = ingest[i].seen
      /\ r.left = Unseen(i) /\ r.listed = ingest[i].listed /\ r.alias = ingest[i].alias
      /\ r.group = ingest[i].group
  BY <1>1, <1>3 DEF IngestRecord
<1> HIDE DEF r
<1>5. QED
  BY <1>1, <1>2, <1>4, IngestGoes DEF PlainTypes

\* The ingest is over: it died, failed or has come to its end.
LEMMA AbortEffect ==
  ASSUME PagesAssumption, PlainTypes, NEW i \in Ingests, Abort(i)
  PROVE  /\ ingest'[i].at = "idle"
         /\ \A j \in Ingests : j # i => ingest'[j] = ingest[j]
         /\ IngestTypes'
PROOF BY Assumed, IngestGoes DEF Abort, PlainTypes

\* A group is created, for a slug that was read as resolving to nothing.
LEMMA CreateEffect ==
  ASSUME PagesAssumption, RowsInv, NEW i \in Ingests, NEW s \in Slugs, CreateGroup(i, s),
         groups' # groups
  PROVE  /\ ingest[i].at = "pages" /\ s \in Needed(i) /\ ingest[i].alias[s] = None
         /\ ingest[i].group[s] = None /\ GroupOf(s) = {}
         /\ groups' = groups + 1 /\ groups' \in Groups /\ slug[groups'] = None
         /\ slug'[groups'] = s /\ \A g \in Groups : g # groups' => slug'[g] = slug[g]
         /\ slug' \in [Groups -> Slugs \cup {None}]
         /\ ingest'[i].at = "pages"
         /\ ingest'[i].seen = ingest[i].seen /\ ingest'[i].left = ingest[i].left
         /\ ingest'[i].listed = ingest[i].listed /\ ingest'[i].alias = ingest[i].alias
         /\ ingest'[i].group[s] = groups'
         /\ \A t \in Slugs : t # s => ingest'[i].group[t] = ingest[i].group[t]
         /\ \A j \in Ingests : j # i => ingest'[j] = ingest[j]
         /\ IngestTypes'
PROOF
<1> DEFINE r == [ingest[i] EXCEPT !.group = [ingest[i].group EXCEPT ![s] = groups + 1]]
<1>1. /\ ingest[i] \in IngestRecord /\ ingest[i].at = "pages" /\ s \in Unplaced(i)
      /\ GroupOf(s) = {} /\ groups < MaxGroups /\ groups' = groups + 1
      /\ slug' = [slug EXCEPT ![groups + 1] = s]
      /\ ingest' = [ingest EXCEPT ![i].group[s] = groups + 1]
  BY DEF CreateGroup, RowsInv, PlainTypes, IngestTypes
<1>2. groups \in Nat /\ groups + 1 \in Groups /\ ~(groups + 1 <= groups)
  <2>1. groups \in Nat /\ MaxGroups \in Nat /\ groups < MaxGroups
    BY <1>1, Assumed DEF RowsInv, PlainTypes, RowTypes
  <2>2. groups + 1 \in 1..MaxGroups
    BY <2>1
  <2>3. QED
    BY <2>1, <2>2 DEF Groups
<1>3. /\ slug[groups + 1] = None /\ slug'[groups + 1] = s
      /\ \A g \in Groups : g # groups + 1 => slug'[g] = slug[g]
      /\ slug' \in [Groups -> Slugs \cup {None}]
  BY <1>1, <1>2 DEF RowsInv, PlainTypes, RowTypes, Refers, GroupInv
<1>4. s \in Needed(i) /\ ingest[i].alias[s] = None /\ ingest[i].group[s] = None
  <2>1. s \in Needed(i) /\ Resolve(i, s) = None
    BY <1>1 DEF Unplaced
  <2>2. QED
    BY <2>1 DEF Resolve
<1>5. ingest' = [ingest EXCEPT ![i] = r]
  BY <1>1 DEF RowsInv, PlainTypes, IngestTypes
<1>6. ingest[i].group \in [Slugs -> Groups \cup {None}]
  BY <1>1 DEF IngestRecord
<1>7. /\ r \in IngestRecord /\ r.at = "pages" /\ r.seen = ingest[i].seen
      /\ r.left = ingest[i].left /\ r.listed = ingest[i].listed /\ r.alias = ingest[i].alias
      /\ r.group = [ingest[i].group EXCEPT ![s] = groups + 1]
  BY <1>1, <1>2, <1>6 DEF IngestRecord
<1> HIDE DEF r
<1>8. /\ IngestTypes' /\ ingest'[i] = r
      /\ \A j \in Ingests : j # i => ingest'[j] = ingest[j]
  BY <1>5, <1>7, IngestGoes DEF RowsInv, PlainTypes
<1>9. /\ ingest'[i].group[s] = groups'
      /\ \A t \in Slugs : t # s => ingest'[i].group[t] = ingest[i].group[t]
  BY <1>1, <1>6, <1>7, <1>8
<1>10. QED
  BY <1>1, <1>2, <1>3, <1>4, <1>7, <1>8, <1>9

\* A batch is written; each url of it goes where its slug resolves to, unless its page was
\* moved by hand.
LEMMA BatchEffect ==
  ASSUME PagesAssumption, RowsInv, NEW i \in Ingests, NEW batch \in SUBSET Urls,
         UpsertBatch(i, batch), page' # page \/ ingest'[i].at # "idle"
  PROVE  /\ ingest[i].at = "pages" /\ batch \subseteq ingest[i].left
         /\ \A s \in Needed(i) : Resolve(i, s) # None
         /\ page' \in [Urls -> PageRow \cup {None}]
         /\ \A u \in Urls \ batch : page'[u] = page[u]
         /\ \A u \in batch :
              /\ page'[u] # None /\ page'[u].active
              /\ page'[u].group = None \/ slug[page'[u].group] # None
              /\ page[u] # None /\ page[u].manual =>
                   page'[u].manual /\ page'[u].group = page[u].group
              /\ page[u] = None \/ ~page[u].manual => page'[u].group = Resolve(i, SLUG[u])
         /\ ingest'[i].at = IF batch = ingest[i].left THEN "active" ELSE "pages"
         /\ ingest'[i].seen = ingest[i].seen /\ ingest'[i].left = ingest[i].left \ batch
         /\ ingest'[i].listed = ingest[i].listed /\ ingest'[i].alias = ingest[i].alias
         /\ ingest'[i].group = ingest[i].group
         /\ \A j \in Ingests : j # i => ingest'[j] = ingest[j]
         /\ IngestTypes'
PROOF
<1> DEFINE next == IF batch = ingest[i].left THEN "active" ELSE "pages"
           r == [ingest[i] EXCEPT !.left = ingest[i].left \ batch, !.at = next]
<1>1. ~(Abort(i) /\ UNCHANGED page)
  BY AbortEffect DEF RowsInv
<1>2. /\ ingest[i] \in IngestRecord /\ ingest[i].at = "pages" /\ Unplaced(i) = {}
      /\ batch \subseteq ingest[i].left
      /\ \A u \in batch : Upserted(i, u).group = None \/ slug[Upserted(i, u).group] # None
      /\ page' = [u \in Urls |-> IF u \in batch THEN Upserted(i, u) ELSE page[u]]
      /\ ingest' = [ingest EXCEPT ![i].left = @ \ batch, ![i].at = next]
  BY <1>1 DEF UpsertBatch, RowsInv, PlainTypes, IngestTypes
<1>3. next \in {"pages", "active"}
  OBVIOUS
<1> HIDE DEF next
<1>4. ingest' = [ingest EXCEPT ![i] = r]
  BY <1>2 DEF RowsInv, PlainTypes, IngestTypes
<1>5. /\ r \in IngestRecord /\ r.at = next /\ r.seen = ingest[i].seen
      /\ r.left = ingest[i].left \ batch /\ r.listed = ingest[i].listed
      /\ r.alias = ingest[i].alias /\ r.group = ingest[i].group
  BY <1>2, <1>3 DEF IngestRecord
<1> HIDE DEF r
<1>6. /\ IngestTypes' /\ ingest'[i] = r
      /\ \A j \in Ingests : j # i => ingest'[j] = ingest[j]
  BY <1>4, <1>5, IngestGoes DEF RowsInv, PlainTypes
<1>7. \A s \in Needed(i) : Resolve(i, s) # None
  BY <1>2 DEF Unplaced
<1>8. ASSUME NEW u \in batch
      PROVE  /\ Upserted(i, u) \in PageRow /\ Upserted(i, u).active
             /\ page[u] # None /\ page[u].manual =>
                  Upserted(i, u).manual /\ Upserted(i, u).group = page[u].group
             /\ page[u] = None \/ ~page[u].manual => Upserted(i, u).group = Resolve(i, SLUG[u])
  <2>1. SLUG[u] \in Slugs /\ Resolve(i, SLUG[u]) \in Groups \cup {None}
    <3>1. SLUG[u] \in Slugs
      BY Assumed
    <3>2. ingest[i].alias[SLUG[u]] \in Groups \cup {None}
          /\ ingest[i].group[SLUG[u]] \in Groups \cup {None}
      BY <1>2, <3>1 DEF IngestRecord
    <3>3. QED
      BY <3>1, <3>2 DEF Resolve
  <2>2. CASE page[u] = None
    BY <2>1, <2>2 DEF Upserted, PageRow
  <2>3. CASE page[u] # None
    <3>1. page[u] \in PageRow
      BY <2>3 DEF RowsInv, PlainTypes, RowTypes
    <3>2. Regroup(i, u) \in Groups \cup {None}
      BY <2>1, <3>1 DEF Regroup, PageRow
    <3>3. Upserted(i, u) = [page[u] EXCEPT !.group = Regroup(i, u), !.active = TRUE]
      BY <2>3 DEF Upserted
    <3>4. /\ Upserted(i, u) \in PageRow /\ Upserted(i, u).active = TRUE
          /\ Upserted(i, u).manual = page[u].manual /\ Upserted(i, u).group = Regroup(i, u)
      BY <3>1, <3>2, <3>3 DEF PageRow
    <3>5. QED
      BY <2>3, <3>4 DEF Regroup
  <2>4. QED
    BY <2>2, <2>3
<1>9. /\ page' \in [Urls -> PageRow \cup {None}]
      /\ \A u \in Urls \ batch : page'[u] = page[u]
      /\ \A u \in batch : page'[u] = Upserted(i, u)
  BY <1>2, <1>8 DEF RowsInv, PlainTypes, RowTypes
<1>10. ASSUME NEW u \in batch
       PROVE  /\ page'[u] # None /\ page'[u].active
              /\ page'[u].group = None \/ slug[page'[u].group] # None
              /\ page[u] # None /\ page[u].manual =>
                   page'[u].manual /\ page'[u].group = page[u].group
              /\ page[u] = None \/ ~page[u].manual => page'[u].group = Resolve(i, SLUG[u])
  <2>1. page'[u] = Upserted(i, u)
    BY <1>9
  <2>2. Upserted(i, u).group = None \/ slug[Upserted(i, u).group] # None
    BY <1>2
  <2>3. Upserted(i, u) # None
    BY <1>8, Assumed
  <2>4. QED
    BY <1>8, <2>1, <2>2, <2>3
<1>11. QED
  BY <1>2, <1>5, <1>6, <1>7, <1>9, <1>10 DEF next

-----------------------------------------------------------------------------
(* The rows: types, foreign keys, and a group for every slug at most once. *)

\* Foreign keys hold as long as groups only come, or change their slug.
LEMMA StillRefers ==
  ASSUME PageRefers, AliasRefers, RowTypes,
         \A g \in Groups : slug[g] # None => slug'[g] # None,
         \A u \in Urls : page'[u] # None /\ page'[u].group # None =>
           slug'[page'[u].group] # None \/ page'[u] = page[u],
         \A s \in Slugs : alias'[s] # None => slug'[alias'[s]] # None \/ alias'[s] = alias[s]
  PROVE  PageRefers' /\ AliasRefers'
PROOF BY DEF PageRefers, AliasRefers, RowTypes, PageRow

LEMMA RowsKept ==
  ASSUME RowsInv, UNCHANGED <<pageRows, merging>>
  PROVE  RowTypes' /\ Refers'
PROOF BY DEF pageRows, RowsInv, PlainTypes, RowTypes, Refers, PageRefers, SlugUnique, AliasRefers, GroupInv

LEMMA CreateRows ==
  ASSUME PagesAssumption, RowsInv, NEW i \in Ingests, NEW s \in Slugs, CreateGroup(i, s)
  PROVE  RowsInv'
PROOF
<1>1. OtherTypes' /\ UNCHANGED <<page, alias, merging>>
  BY DEF CreateGroup, RowsInv, PlainTypes, OtherTypes
<1>2. CASE groups' = groups
  <2>1. groups \in Nat
    BY Assumed DEF RowsInv, PlainTypes, RowTypes
  <2>2. Abort(i) /\ UNCHANGED slug
    BY <1>2, <2>1 DEF CreateGroup
  <2>3. RowTypes' /\ Refers' /\ IngestTypes'
    BY <1>1, <1>2, <2>2, AbortEffect, RowsKept DEF pageRows, RowsInv
  <2>4. QED
    BY <1>1, <2>3 DEF RowsInv, PlainTypes
<1>3. CASE groups' # groups
  <2>1. /\ groups' = groups + 1 /\ groups' \in Groups /\ slug[groups'] = None /\ GroupOf(s) = {}
        /\ slug'[groups'] = s /\ \A g \in Groups : g # groups' => slug'[g] = slug[g]
        /\ slug' \in [Groups -> Slugs \cup {None}] /\ IngestTypes'
    BY <1>3, CreateEffect
  <2>2. s # None /\ groups \in Nat /\ groups' \in 0..MaxGroups
    BY <2>1, Assumed DEF RowsInv, PlainTypes, RowTypes
  <2>3. \A g \in Groups : slug[g] # None => slug'[g] = slug[g]
    BY <2>1
  <2>4. PageRefers' /\ AliasRefers'
    BY <1>1, <2>3, StillRefers DEF RowsInv, PlainTypes, RowTypes, PageRow, Refers,
       PageRefers, AliasRefers
  <2>5. SlugUnique'
    <3>1. \A g \in Groups : slug[g] # s
      BY <2>1 DEF GroupOf
    <3>2. QED
      BY <2>1, <3>1 DEF RowsInv, Refers, SlugUnique
  <2>6. GroupInv'
    <3>1. \A g \in Groups : slug'[g] # None => g <= groups'
      BY <2>1, <2>2, Assumed DEF RowsInv, Refers, GroupInv
    <3>2. merging # None => merging.from \in Groups /\ merging.to \in Groups
      BY DEF RowsInv, PlainTypes, OtherTypes
    <3>3. QED
      BY <1>1, <2>3, <3>1, <3>2 DEF RowsInv, Refers, GroupInv
  <2>7. RowTypes'
    BY <1>1, <2>1, <2>2 DEF RowsInv, PlainTypes, RowTypes
  <2>8. QED
    BY <1>1, <2>1, <2>4, <2>5, <2>6, <2>7 DEF RowsInv, PlainTypes, Refers
<1>4. QED
  BY <1>2, <1>3

LEMMA BatchRows ==
  ASSUME PagesAssumption, RowsInv, NEW i \in Ingests, NEW batch \in SUBSET Urls,
         UpsertBatch(i, batch)
  PROVE  RowsInv'
PROOF
<1>1. OtherTypes' /\ UNCHANGED <<slug, groups, alias, merging>>
  BY DEF UpsertBatch, RowsInv, PlainTypes, OtherTypes
<1>2. CASE Abort(i) /\ UNCHANGED page
  <2>1. RowTypes' /\ Refers' /\ IngestTypes'
    BY <1>1, <1>2, AbortEffect, RowsKept DEF pageRows, RowsInv
  <2>2. QED
    BY <1>1, <2>1 DEF RowsInv, PlainTypes
<1>3. CASE page' # page \/ ingest'[i].at # "idle"
  <2>1. /\ page' \in [Urls -> PageRow \cup {None}]
        /\ \A u \in Urls \ batch : page'[u] = page[u]
        /\ \A u \in batch : page'[u].group = None \/ slug[page'[u].group] # None
        /\ IngestTypes'
    BY <1>3, BatchEffect
  <2>2. PageRefers' /\ AliasRefers'
    BY <1>1, <2>1, StillRefers DEF RowsInv, PlainTypes, Refers
  <2>3. SlugUnique' /\ GroupInv'
    BY <1>1 DEF RowsInv, Refers, SlugUnique, GroupInv
  <2>4. RowTypes'
    BY <1>1, <2>1 DEF RowsInv, PlainTypes, RowTypes
  <2>5. QED
    BY <1>1, <2>1, <2>2, <2>3, <2>4 DEF RowsInv, PlainTypes, Refers
<1>4. CASE UNCHANGED page /\ ingest'[i].at = "idle"
  <2>1. Abort(i) \/ ingest'[i].at \in {"active", "pages"}
    BY DEF UpsertBatch, RowsInv, PlainTypes, IngestTypes, IngestRecord
  <2>2. QED
    BY <1>2, <1>4, <2>1
<1>5. QED
  BY <1>3, <1>4

LEMMA DeactivateEffect ==
  ASSUME PagesAssumption, RowsInv, NEW i \in Ingests, Deactivate(i),
         \A u \in ingest[i].left : page[u] # None
  PROVE  /\ page' \in [Urls -> PageRow \cup {None}]
         /\ \A u \in Urls :
              IF u \in ingest[i].left
              THEN /\ page'[u] # None /\ ~page'[u].active
                   /\ page'[u].group = page[u].group /\ page'[u].manual = page[u].manual
              ELSE page'[u] = page[u]
PROOF
<1>1. page' = [u \in Urls |-> IF u \in ingest[i].left THEN [page[u] EXCEPT !.active = FALSE]
                              ELSE page[u]]
  BY DEF Deactivate
<1>2. page \in [Urls -> PageRow \cup {None}]
  BY DEF RowsInv, PlainTypes, RowTypes
<1>3. ASSUME NEW u \in Urls, u \in ingest[i].left
      PROVE  /\ page'[u] \in PageRow /\ ~page'[u].active
             /\ page'[u].group = page[u].group /\ page'[u].manual = page[u].manual
  <2>1. page[u] \in PageRow /\ page'[u] = [page[u] EXCEPT !.active = FALSE]
    BY <1>1, <1>2, <1>3
  <2>2. QED
    BY <2>1 DEF PageRow
<1>4. \A u \in Urls : u \notin ingest[i].left => page'[u] = page[u]
  BY <1>1
<1>5. page' \in [Urls -> PageRow \cup {None}]
  BY <1>1, <1>2, <1>3, <1>4
<1>6. QED
  BY <1>3, <1>4, <1>5, Assumed

\* The transaction of a merge: the pages it saw go to the target, those put into the source
\* since are without a group, and the source's slug and aliases resolve to the target.
LEMMA MergeEffect ==
  ASSUME PagesAssumption, RowsInv, MergeCommits
  PROVE  /\ merging.from \in Groups /\ merging.to \in Groups /\ merging.from # merging.to
         /\ page' \in [Urls -> PageRow \cup {None}]
         /\ \A u \in Urls :
              \/ page'[u] = page[u] /\ (page[u] = None \/ page[u].group # merging.from)
              \/ page[u] # None /\ page'[u].group \in {merging.to, None}
         /\ \A u \in Urls : page[u] # None => page'[u] # None
         /\ slug' \in [Groups -> Slugs \cup {None}] /\ slug'[merging.from] = None
         /\ \A g \in Groups : g # merging.from => slug'[g] = slug[g]
         /\ \A s \in Slugs : \/ alias'[s] = merging.to
                             \/ alias'[s] = alias[s] /\ alias[s] # merging.from
         /\ slug[merging.to] # None
PROOF
<1>1. /\ merging # None /\ merging.from \in Groups /\ merging.to \in Groups
      /\ merging.from # merging.to /\ slug[merging.to] # None
  BY DEF MergeCommits, RowsInv, PlainTypes, OtherTypes, Refers, GroupInv
<1>2. page \in [Urls -> PageRow \cup {None}] /\ slug \in [Groups -> Slugs \cup {None}]
  BY DEF RowsInv, PlainTypes, RowTypes
<1>3. ASSUME NEW u \in Urls
      PROVE  /\ page'[u] \in PageRow \cup {None}
             /\ page[u] # None => page'[u] # None
             /\ \/ page'[u] = page[u] /\ (page[u] = None \/ page[u].group # merging.from)
                \/ page[u] # None /\ page'[u].group \in {merging.to, None}
  <2> DEFINE g == IF u \in merging.moved THEN merging.to ELSE None
  <2>1. CASE page[u] = None \/ page[u].group # merging.from
    BY <1>2, <2>1 DEF MergeCommits
  <2>2. CASE ~(page[u] = None \/ page[u].group # merging.from)
    <3>1. page[u] \in PageRow /\ page'[u] = [page[u] EXCEPT !.group = g]
      BY <1>2, <2>2 DEF MergeCommits
    <3>2. g \in {merging.to, None} /\ g \in Groups \cup {None}
      BY <1>1
    <3> HIDE DEF g
    <3>3. page'[u] \in PageRow /\ page'[u].group = g
      BY <3>1, <3>2 DEF PageRow
    <3>4. QED
      BY <2>2, <3>2, <3>3, Assumed
  <2>3. QED
    BY <2>1, <2>2
<1>4. page' = [u \in Urls |-> page'[u]]
  BY DEF MergeCommits
<1>5. page' \in [Urls -> PageRow \cup {None}]
  BY <1>3, <1>4
<1>6. /\ slug' \in [Groups -> Slugs \cup {None}] /\ slug'[merging.from] = None
      /\ \A g \in Groups : g # merging.from => slug'[g] = slug[g]
  BY <1>1, <1>2 DEF MergeCommits
<1>7. \A s \in Slugs : \/ alias'[s] = merging.to
                       \/ alias'[s] = alias[s] /\ alias[s] # merging.from
  BY DEF MergeCommits, Aliased
<1>8. QED
  BY <1>1, <1>3, <1>5, <1>6, <1>7

LEMMA MergeRows == ASSUME PagesAssumption, RowsInv, MergeCommits PROVE RowsInv'
PROOF
<1>1. /\ IngestTypes' /\ OtherTypes' /\ merging' = None /\ UNCHANGED groups
  BY DEF MergeCommits, RowsInv, PlainTypes, IngestTypes, OtherTypes
<1>2. /\ merging.from \in Groups /\ merging.to \in Groups /\ merging.from # merging.to
      /\ slug[merging.to] # None
      /\ page' \in [Urls -> PageRow \cup {None}]
      /\ \A u \in Urls :
           \/ page'[u] = page[u] /\ (page[u] = None \/ page[u].group # merging.from)
           \/ page[u] # None /\ page'[u].group \in {merging.to, None}
      /\ slug' \in [Groups -> Slugs \cup {None}] /\ slug'[merging.from] = None
      /\ \A g \in Groups : g # merging.from => slug'[g] = slug[g]
      /\ \A s \in Slugs : \/ alias'[s] = merging.to
                          \/ alias'[s] = alias[s] /\ alias[s] # merging.from
  BY MergeEffect
<1>3. alias' \in [Slugs -> Groups \cup {None}]
  BY <1>2 DEF MergeCommits, Aliased, RowsInv, PlainTypes, RowTypes
<1>4. PageRefers'
  BY <1>2 DEF PageRefers, RowsInv, PlainTypes, RowTypes, PageRow, Refers
<1>5. AliasRefers'
  BY <1>2 DEF AliasRefers, RowsInv, PlainTypes, RowTypes, Refers
<1>6. SlugUnique'
  BY <1>2 DEF SlugUnique, RowsInv, Refers
<1>7. GroupInv'
  BY <1>1, <1>2 DEF GroupInv, RowsInv, Refers
<1>8. QED
  BY <1>1, <1>2, <1>3, <1>4, <1>5, <1>6, <1>7 DEF RowsInv, PlainTypes, RowTypes, Refers

LEMMA EditRows ==
  ASSUME PagesAssumption, RowsInv, Edit,
         \/ \E g \in Groups, s \in Slugs : Rename(g, s)
         \/ \E g, target \in Groups : Merge(g, target)
         \/ \E u \in Urls, g \in Groups : MoveByHand(u, g)
         \/ \E u \in Urls : SiteEdits(u)
  PROVE  RowsInv'
PROOF
<1>1. /\ IngestTypes' /\ edits' \in 0..MaxEdits /\ begun' \in 0..MaxIngests
      /\ calm' \subseteq Ingests /\ fresh' \in BOOLEAN /\ merging = None
  <2>1. edits \in 0..MaxEdits /\ edits < MaxEdits /\ edits' = edits + 1 /\ MaxEdits \in Nat
    BY Assumed DEF Edit, RowsInv, PlainTypes, OtherTypes
  <2>2. edits' \in 0..MaxEdits
    BY <2>1
  <2>3. QED
    BY <2>2 DEF Edit, RowsInv, PlainTypes, IngestTypes, OtherTypes
<1>2. ASSUME NEW g \in Groups, NEW s \in Slugs, Rename(g, s) PROVE RowsInv'
  <2>1. /\ UNCHANGED <<listed, page, groups, merging>> /\ slug[g] # None /\ s # None
        /\ GroupOf(s) = {} /\ slug[g] \in Slugs
        /\ \A h \in Groups : slug'[h] = IF h = g THEN s ELSE slug[h]
        /\ slug' \in [Groups -> Slugs \cup {None}]
        /\ \A t \in Slugs : alias'[t] = IF t = slug[g] THEN g ELSE alias[t]
        /\ alias' \in [Slugs -> Groups \cup {None}]
    BY <1>2, Assumed DEF Rename, RowsInv, PlainTypes, RowTypes
  <2>2. \A h \in Groups : slug[h] # s
    BY <2>1 DEF GroupOf
  <2>3. PageRefers' /\ AliasRefers'
    BY <2>1, StillRefers DEF RowsInv, PlainTypes, Refers
  <2>4. SlugUnique'
    BY <2>1, <2>2 DEF RowsInv, Refers, SlugUnique
  <2>5. GroupInv'
    BY <1>1, <2>1 DEF RowsInv, Refers, GroupInv
  <2>6. RowTypes' /\ OtherTypes'
    BY <1>1, <2>1 DEF RowsInv, PlainTypes, RowTypes, OtherTypes
  <2>7. QED
    BY <1>1, <2>3, <2>4, <2>5, <2>6 DEF RowsInv, PlainTypes, Refers
<1>3. ASSUME NEW g \in Groups, NEW target \in Groups, Merge(g, target) PROVE RowsInv'
  <2> DEFINE moved == {u \in Urls : page[u] # None /\ page[u].group = g}
  <2>1. /\ UNCHANGED <<listed, page, slug, groups, alias>>
        /\ slug[g] # None /\ slug[target] # None /\ g # target
        /\ merging' = [from |-> g, to |-> target, moved |-> moved]
    BY <1>3 DEF Merge, pageRows
  <2>2. moved \in SUBSET Urls
    OBVIOUS
  <2> HIDE DEF moved
  <2>3. /\ merging' \in [from : Groups, to : Groups, moved : SUBSET Urls]
        /\ merging'.from = g /\ merging'.to = target
    BY <2>1, <2>2
  <2>4. OtherTypes' /\ RowTypes'
    BY <1>1, <2>1, <2>3 DEF RowsInv, PlainTypes, RowTypes, OtherTypes
  <2>5. Refers'
    BY <2>1, <2>3 DEF RowsInv, Refers, PageRefers, AliasRefers, SlugUnique, GroupInv
  <2>6. QED
    BY <1>1, <2>4, <2>5 DEF RowsInv, PlainTypes
<1>4. ASSUME NEW u \in Urls, NEW g \in Groups, MoveByHand(u, g) PROVE RowsInv'
  <2>1. /\ UNCHANGED <<listed, slug, groups, alias, merging>> /\ slug[g] # None
        /\ page[u] \in PageRow
        /\ page' = [page EXCEPT ![u].group = g, ![u].manual = TRUE]
    BY <1>4 DEF MoveByHand, RowsInv, PlainTypes, RowTypes
  <2>2. /\ [page[u] EXCEPT !.group = g, !.manual = TRUE] \in PageRow
        /\ [page[u] EXCEPT !.group = g, !.manual = TRUE].group = g
    BY <2>1 DEF PageRow
  <2>3. /\ page' \in [Urls -> PageRow \cup {None}] /\ page'[u].group = g
        /\ \A v \in Urls : v # u => page'[v] = page[v]
    BY <2>1, <2>2 DEF RowsInv, PlainTypes, RowTypes
  <2>4. PageRefers' /\ AliasRefers'
    BY <2>1, <2>3, StillRefers DEF RowsInv, PlainTypes, Refers
  <2>5. SlugUnique' /\ GroupInv'
    BY <2>1 DEF RowsInv, Refers, SlugUnique, GroupInv
  <2>6. RowTypes' /\ OtherTypes'
    BY <1>1, <2>1, <2>3 DEF RowsInv, PlainTypes, RowTypes, OtherTypes
  <2>7. QED
    BY <1>1, <2>4, <2>5, <2>6 DEF RowsInv, PlainTypes, Refers
<1>5. ASSUME NEW u \in Urls, SiteEdits(u) PROVE RowsInv'
  <2>1. UNCHANGED <<pageRows, merging>> /\ listed' \subseteq Urls
    BY <1>5 DEF SiteEdits, RowsInv, PlainTypes, OtherTypes
  <2>2. RowTypes' /\ Refers' /\ OtherTypes'
    BY <1>1, <2>1, RowsKept DEF RowsInv, PlainTypes, OtherTypes
  <2>3. QED
    BY <1>1, <2>2 DEF RowsInv, PlainTypes
<1>6. QED
  BY <1>2, <1>3, <1>4, <1>5

\* A page that is to be deactivated is there, since no page is ever deleted.
Found == \A i \in Ingests : ingest[i].at = "deactivate" => \A u \in ingest[i].left : page[u] # None
PagesInv == RowsInv /\ Found

\* The steps of an ingest that only read, and those that end one.
Reads(i) == ReadAliases(i) \/ ReadGroups(i) \/ ReadActive(i) \/ IngestDies(i)

LEMMA ReadRows ==
  ASSUME PagesAssumption, RowsInv, NEW i \in Ingests, Reads(i)
  PROVE  RowsInv'
PROOF
<1>1. UNCHANGED <<pageRows, merging>> /\ OtherTypes'
  BY DEF Reads, ReadAliases, ReadGroups, ReadActive, IngestDies, RowsInv, PlainTypes, OtherTypes
<1>2. RowTypes' /\ Refers'
  BY <1>1, RowsKept
<1>3. IngestTypes'
  BY ReadAliasesEffect, ReadGroupsEffect, ReadActiveEffect, AbortEffect DEF Reads, IngestDies, RowsInv
<1>4. QED
  BY <1>1, <1>2, <1>3 DEF RowsInv, PlainTypes

LEMMA CrawlRows ==
  ASSUME PagesAssumption, RowsInv, NEW i \in Ingests, NEW failing, Crawl(i, failing)
  PROVE  RowsInv'
PROOF
<1>1. begun' \in 0..MaxIngests
  <2>1. begun \in 0..MaxIngests /\ begun < MaxIngests /\ begun' = begun + 1 /\ MaxIngests \in Nat
    BY Assumed DEF Crawl, RowsInv, PlainTypes, OtherTypes
  <2>2. QED
    BY <2>1
<1>2. UNCHANGED <<pageRows, merging>> /\ OtherTypes'
  <2>1. calm' \subseteq Ingests
    BY DEF Crawl
  <2>2. QED
    BY <1>1, <2>1 DEF Crawl, RowsInv, PlainTypes, OtherTypes
<1>3. RowTypes' /\ Refers' /\ IngestTypes'
  BY <1>2, RowsKept, CrawlEffect DEF RowsInv
<1>4. QED
  BY <1>2, <1>3 DEF RowsInv, PlainTypes

LEMMA DeactivateRows ==
  ASSUME PagesAssumption, PagesInv, NEW i \in Ingests, Deactivate(i)
  PROVE  RowsInv'
PROOF
<1>1. /\ UNCHANGED <<slug, groups, alias, merging>> /\ Abort(i)
      /\ calm' = calm \ {i} /\ fresh' \in BOOLEAN /\ UNCHANGED <<listed, edits, begun>>
  BY DEF Deactivate
<1>2. /\ page' \in [Urls -> PageRow \cup {None}]
      /\ \A u \in Urls :
           IF u \in ingest[i].left
           THEN /\ page'[u] # None /\ ~page'[u].active
                /\ page'[u].group = page[u].group /\ page'[u].manual = page[u].manual
           ELSE page'[u] = page[u]
  <2>1. \A u \in ingest[i].left : page[u] # None
    BY DEF PagesInv, Found, Deactivate
  <2>2. QED
    BY <2>1, DeactivateEffect DEF PagesInv
<1>3. IngestTypes'
  BY <1>1, AbortEffect DEF PagesInv, RowsInv
<1>4. OtherTypes' /\ RowTypes'
  BY <1>1, <1>2 DEF PagesInv, RowsInv, PlainTypes, OtherTypes, RowTypes
<1>5. \A u \in Urls : page'[u] # None => page[u] # None /\ page'[u].group = page[u].group
  BY <1>2 DEF PagesInv, Found, Deactivate
<1>6. Refers'
  BY <1>1, <1>5 DEF PagesInv, RowsInv, Refers, PageRefers, AliasRefers, SlugUnique, GroupInv
<1>7. QED
  BY <1>3, <1>4, <1>6 DEF RowsInv, PlainTypes

\* What a step of Next is, for the proofs that go by cases.
LEMMA StepKinds ==
  ASSUME PagesNext
  PROVE  \/ \E i \in Ingests, failing \in SUBSET Documents : Crawl(i, failing)
         \/ \E i \in Ingests : Reads(i) \/ Deactivate(i)
         \/ \E i \in Ingests, s \in Slugs : CreateGroup(i, s)
         \/ \E i \in Ingests, batch \in SUBSET Urls : UpsertBatch(i, batch)
         \/ MergeCommits
         \/ Edit /\ \/ \E g \in Groups, s \in Slugs : Rename(g, s)
                    \/ \E g, target \in Groups : Merge(g, target)
                    \/ \E u \in Urls, g \in Groups : MoveByHand(u, g)
                    \/ \E u \in Urls : SiteEdits(u)
PROOF BY DEF PagesNext, Reads, Rename, Merge, MoveByHand, SiteEdits

LEMMA RowsStep ==
  ASSUME PagesAssumption, PagesInv, [PagesNext]_pageVars
  PROVE  RowsInv'
PROOF
<1>1. CASE UNCHANGED pageVars
  <2>1. RowTypes' /\ Refers'
    BY <1>1, RowsKept DEF pageVars, PagesInv
  <2>2. QED
    BY <1>1, <2>1 DEF pageVars, PagesInv, RowsInv, PlainTypes, OtherTypes, IngestTypes
<1>2. CASE PagesNext
  BY <1>2, StepKinds, CrawlRows, ReadRows, DeactivateRows, CreateRows, BatchRows, MergeRows,
     EditRows DEF PagesInv
<1>3. QED
  BY <1>1, <1>2

\* No page is ever deleted.
LEMMA PagesStay ==
  ASSUME PagesAssumption, PagesInv, [PagesNext]_pageVars
  PROVE  \A u \in Urls : page[u] # None => page'[u] # None
PROOF
<1> SUFFICES ASSUME NEW u \in Urls, page[u] # None PROVE page'[u] # None
  OBVIOUS
<1>1. ASSUME NEW i \in Ingests, Deactivate(i) PROVE page'[u] # None
  <2>1. \A v \in ingest[i].left : page[v] # None
    BY <1>1 DEF PagesInv, Found, Deactivate
  <2>2. QED
    BY <1>1, <2>1, DeactivateEffect DEF PagesInv
<1>2. ASSUME NEW i \in Ingests, NEW batch \in SUBSET Urls, UpsertBatch(i, batch)
      PROVE  page'[u] # None
  <2>1. CASE page' # page
    BY <1>2, <2>1, BatchEffect DEF PagesInv
  <2>2. QED
    BY <2>1
<1>3. CASE MergeCommits
  BY <1>3, MergeEffect DEF PagesInv
<1>4. ASSUME NEW v \in Urls, NEW g \in Groups, MoveByHand(v, g) PROVE page'[u] # None
  <2>1. /\ page[v] \in PageRow
        /\ page' = [page EXCEPT ![v].group = g, ![v].manual = TRUE]
    BY <1>4 DEF MoveByHand, PagesInv, RowsInv, PlainTypes, RowTypes
  <2>2. [page[v] EXCEPT !.group = g, !.manual = TRUE] \in PageRow
    BY <2>1 DEF PageRow
  <2>3. /\ page'[v] = [page[v] EXCEPT !.group = g, !.manual = TRUE]
        /\ \A w \in Urls : w # v => page'[w] = page[w]
    BY <2>1 DEF PagesInv, RowsInv, PlainTypes, RowTypes
  <2>4. QED
    BY <2>2, <2>3, Assumed
<1>5. CASE UNCHANGED page
  BY <1>5
<1>6. QED
  BY <1>1, <1>2, <1>3, <1>4, <1>5, StepKinds DEF Crawl, Reads, ReadAliases, ReadGroups,
     ReadActive, IngestDies, CreateGroup, Rename, Merge, SiteEdits, pageRows, pageVars

LEMMA FoundStep ==
  ASSUME PagesAssumption, PagesInv, [PagesNext]_pageVars
  PROVE  Found'
PROOF
<1>1. \A u \in Urls : page[u] # None => page'[u] # None
  BY PagesStay
<1>2. \A i \in Ingests : ingest[i].left \subseteq Urls
  BY DEF PagesInv, RowsInv, PlainTypes, IngestTypes, IngestRecord
<1>3. SUFFICES ASSUME NEW i \in Ingests, ingest'[i].at = "deactivate"
               PROVE  \A u \in ingest'[i].left : page'[u] # None
  BY DEF Found
<1>4. CASE ingest'[i] = ingest[i]
  BY <1>1, <1>2, <1>3, <1>4 DEF PagesInv, Found
<1>5. CASE ReadActive(i)
  <2>1. ingest'[i].left = Unseen(i)
    BY <1>5, ReadActiveEffect DEF PagesInv, RowsInv
  <2>2. QED
    BY <1>1, <2>1 DEF Unseen
<1>6. ingest'[i] = ingest[i] \/ ReadActive(i)
  <2>1. ASSUME NEW j \in Ingests, NEW failing, Crawl(j, failing) PROVE ingest'[i] = ingest[i]
    BY <1>3, <2>1, CrawlEffect DEF PagesInv, RowsInv
  <2>2. ASSUME NEW j \in Ingests, Reads(j) PROVE ingest'[i] = ingest[i] \/ ReadActive(i)
    BY <1>3, <2>2, ReadAliasesEffect, ReadGroupsEffect, ReadActiveEffect, AbortEffect
       DEF Reads, IngestDies, PagesInv, RowsInv
  <2>3. ASSUME NEW j \in Ingests, Abort(j) PROVE ingest'[i] = ingest[i]
    BY <1>3, <2>3, AbortEffect DEF PagesInv, RowsInv
  <2>4. ASSUME NEW j \in Ingests, NEW s \in Slugs, CreateGroup(j, s) PROVE ingest'[i] = ingest[i]
    <3>1. CASE groups' # groups
      BY <1>3, <2>4, <3>1, CreateEffect DEF PagesInv
    <3>2. CASE groups' = groups
      <4>1. groups \in Nat
        BY Assumed DEF PagesInv, RowsInv, PlainTypes, RowTypes
      <4>2. QED
        BY <2>3, <2>4, <3>2, <4>1 DEF CreateGroup
    <3>3. QED
      BY <3>1, <3>2
  <2>5. ASSUME NEW j \in Ingests, NEW batch \in SUBSET Urls, UpsertBatch(j, batch)
        PROVE  ingest'[i] = ingest[i]
    <3>1. CASE page' # page \/ ingest'[j].at # "idle"
      BY <1>3, <2>5, <3>1, BatchEffect DEF PagesInv
    <3>2. CASE ingest'[j].at = "idle"
      <4>1. Abort(j) \/ ingest'[j].at \in {"active", "pages"}
        BY <2>5 DEF UpsertBatch, PagesInv, RowsInv, PlainTypes, IngestTypes, IngestRecord
      <4>2. QED
        BY <2>3, <3>2, <4>1
    <3>3. QED
      BY <3>1, <3>2
  <2>6. ASSUME NEW j \in Ingests, Deactivate(j) PROVE ingest'[i] = ingest[i]
    BY <2>3, <2>6 DEF Deactivate
  <2>7. CASE UNCHANGED ingest
    BY <2>7
  <2>8. QED
    BY <2>1, <2>2, <2>4, <2>5, <2>6, <2>7, StepKinds DEF MergeCommits, Edit, pageVars
<1>7. QED
  BY <1>4, <1>5, <1>6

LEMMA RowsInit == ASSUME PagesAssumption PROVE PagesInit => PagesInv
PROOF
<1> SUFFICES ASSUME PagesInit PROVE PagesInv
  OBVIOUS
<1>1. RowTypes /\ OtherTypes /\ IngestTypes
  <2>1. 0 \in 0..MaxGroups /\ 0 \in 0..MaxEdits /\ 0 \in 0..MaxIngests
    BY Assumed
  <2>2. RowTypes
    BY <2>1 DEF PagesInit, RowTypes
  <2>3. OtherTypes
    BY <2>1 DEF PagesInit, OtherTypes
  <2>4. IngestTypes
    BY Assumed DEF PagesInit, IngestTypes
  <2>5. QED
    BY <2>2, <2>3, <2>4
<1>2. Refers /\ Found
  BY Assumed DEF PagesInit, Refers, PageRefers, AliasRefers, SlugUnique, GroupInv, Found
<1>3. QED
  BY <1>1, <1>2 DEF PagesInv, RowsInv, PlainTypes

LEMMA RowsAlways == ASSUME PagesAssumption PROVE PagesSpec => []PagesInv
PROOF
<1>1. PagesInv /\ [PagesNext]_pageVars => PagesInv'
  BY RowsStep, FoundStep DEF PagesInv
<1>2. QED
  BY <1>1, RowsInit, PTL DEF PagesSpec

\* The rows, the ingests and the merge keep their types, every foreign key is to a group that
\* is there, and no two groups have one slug.
THEOREM TypeCorrect == ASSUME PagesAssumption PROVE PagesSpec => []PagesTypeOK
PROOF
<1>1. PagesInv => PagesTypeOK
  BY DEF PagesInv, RowsInv, PlainTypes, RowTypes, OtherTypes, IngestTypes, IngestRecord,
         Refers, PageRefers, AliasRefers, SlugUnique, PagesTypeOK
<1>2. QED
  BY <1>1, RowsAlways, PTL

-----------------------------------------------------------------------------
(* A page moved by hand. *)

\* A page somebody moved keeps its group: an ingest that writes it, however old what it has
\* read, leaves the group alone, and so does deactivating it; only another move by hand or
\* the merge of its group changes it.
THEOREM HandsWin == ASSUME PagesAssumption PROVE PagesSpec => HandMovesStick
PROOF
<1> DEFINE Sticks(u) == page[u] # None /\ page[u].manual /\ page'[u].group # page[u].group =>
                          edits' > edits \/ (merging # None /\ merging' = None)
<1>1. ASSUME PagesInv, PagesNext, NEW u \in Urls PROVE Sticks(u)
  <2> SUFFICES ASSUME page[u] # None, page[u].manual, page'[u].group # page[u].group
               PROVE  edits' > edits \/ (merging # None /\ merging' = None)
    OBVIOUS
  <2>1. ASSUME NEW i \in Ingests, NEW batch \in SUBSET Urls, UpsertBatch(i, batch) PROVE FALSE
    <3>1. CASE u \in batch
      BY <1>1, <2>1, <3>1, BatchEffect DEF PagesInv
    <3>2. CASE u \notin batch
      BY <1>1, <2>1, <3>2, BatchEffect DEF PagesInv
    <3>3. QED
      BY <3>1, <3>2
  <2>2. ASSUME NEW i \in Ingests, Deactivate(i) PROVE FALSE
    <3>1. \A v \in ingest[i].left : page[v] # None
      BY <1>1, <2>2 DEF PagesInv, Found, Deactivate
    <3>2. page'[u].group = page[u].group
      BY <1>1, <2>2, <3>1, DeactivateEffect DEF PagesInv
    <3>3. QED
      BY <3>2
  <2>3. CASE MergeCommits
    BY <2>3 DEF MergeCommits
  <2>4. CASE Edit
    <3>1. edits \in Nat
      BY <1>1, Assumed DEF PagesInv, RowsInv, PlainTypes, OtherTypes
    <3>2. QED
      BY <2>4, <3>1 DEF Edit
  <2>5. CASE UNCHANGED page
    BY <2>5
  <2>6. QED
    BY <1>1, <2>1, <2>2, <2>3, <2>4, <2>5, StepKinds DEF Crawl, Reads, ReadAliases, ReadGroups,
       ReadActive, IngestDies, CreateGroup, pageRows
<1>2. PagesInv /\ [PagesNext]_pageVars => [\A u \in Urls : Sticks(u)]_pageVars
  <2> HIDE DEF Sticks
  <2> QED BY <1>1
<1>3. QED
  BY <1>2, RowsAlways, PTL DEF PagesSpec, HandMovesStick

-----------------------------------------------------------------------------
(* An ingest that nothing overlapped with. *)

Placed(u) ==
  /\ page[u] # None /\ page[u].active
  /\ page[u].manual \/ page[u].group \in Home(SLUG[u])

\* What it has read is still so, but for the groups it has created itself.
ReadsAgree(i) ==
  /\ ingest[i].seen = listed
  /\ ingest[i].at # "aliases" => \A s \in Needed(i) : ingest[i].alias[s] = alias[s]
  /\ ingest[i].at \in {"pages", "active", "deactivate"} =>
       \A s \in Needed(i) : IF ingest[i].group[s] = None THEN GroupOf(s) = {}
                            ELSE slug[ingest[i].group[s]] = s

\* What it has written is in its place.
WritesAgree(i) ==
  /\ ingest[i].at \in {"aliases", "groups"} => ingest[i].left = listed
  /\ ingest[i].at = "pages" => \A u \in listed \ ingest[i].left : Placed(u)
  /\ ingest[i].at \in {"active", "deactivate"} => \A u \in listed : Placed(u)
  /\ ingest[i].at = "deactivate" => ingest[i].left = Unseen(i)

\* It is the only one at work, and no merge is on its way.
Undisturbed ==
  /\ \A i \in calm : calm = {i} /\ Running \subseteq {i} /\ merging = None
  /\ fresh => Running = {} /\ merging = None
Agree == \A i \in calm : ingest[i].at # "idle" => ReadsAgree(i) /\ WritesAgree(i)
CalmInv == Undisturbed /\ Agree

\* Whoever is at work is the one that is calm, and the last thing to happen was not the end
\* of a calm ingest.
LEMMA OnlyOne ==
  ASSUME CalmInv, NEW i \in Ingests, ingest[i].at # "idle"
  PROVE  /\ ~fresh
         /\ \A j \in calm : j = i /\ calm = {i} /\ Running = {i} /\ merging = None
         /\ i \in calm => ReadsAgree(i) /\ WritesAgree(i)
PROOF BY DEF CalmInv, Undisturbed, Agree, Running

\* A step of one ingest that is not its first or its last.
LEMMA GoesOn ==
  ASSUME PagesAssumption, CalmInv, NEW i \in Ingests, ingest[i].at # "idle",
         UNCHANGED <<merging, calm, fresh>>,
         \A j \in Ingests : j # i => ingest'[j] = ingest[j],
         i \in calm /\ ingest'[i].at # "idle" => ReadsAgree(i)' /\ WritesAgree(i)'
  PROVE  CalmInv'
PROOF
<1>1. ~fresh /\ \A j \in calm : j = i /\ calm = {i} /\ Running = {i} /\ merging = None
  BY OnlyOne
<1>2. \A j \in calm : Running' \subseteq {i}
  BY <1>1 DEF Running
<1>3. Undisturbed'
  BY <1>1, <1>2 DEF Undisturbed
<1>4. Agree'
  BY <1>1 DEF Agree
<1>5. QED
  BY <1>3, <1>4 DEF CalmInv

\* Steps of an ingest that leave the rows alone leave every page in its place.
LEMMA StaysPlaced ==
  ASSUME UNCHANGED pageRows, NEW u, Placed(u)
  PROVE  Placed(u)'
PROOF BY DEF pageRows, Placed, Home, GroupOf

LEMMA NeededTypes ==
  ASSUME PagesAssumption, PagesInv, NEW i \in Ingests
  PROVE  /\ Needed(i) \subseteq Slugs
         /\ \A s \in Slugs : /\ ingest[i].group[s] \in Groups \cup {None}
                             /\ ingest[i].alias[s] \in Groups \cup {None}
         /\ ingest[i].left \subseteq Urls /\ ingest[i].seen \subseteq Urls
PROOF
<1>1. ingest[i] \in IngestRecord
  BY DEF PagesInv, RowsInv, PlainTypes, IngestTypes
<1>2. QED
  BY <1>1, Assumed DEF IngestRecord, Needed

LEMMA CrawlCalm ==
  ASSUME PagesAssumption, PagesInv, CalmInv, NEW i \in Ingests, NEW failing, Crawl(i, failing)
  PROVE  CalmInv'
PROOF
<1>1. /\ ingest'[i].at = "aliases"
      /\ ingest'[i].seen = {u \in listed : DOCUMENT[u] \notin failing}
      /\ ingest'[i].left = ingest'[i].seen
      /\ \A j \in Ingests : j # i => ingest'[j] = ingest[j]
  BY CrawlEffect DEF PagesInv, RowsInv
<1>2. /\ calm' = IF Running = {} /\ failing = {} /\ merging = None THEN {i} ELSE {}
      /\ fresh' = FALSE /\ UNCHANGED <<merging, listed>>
  BY DEF Crawl
<1>3. CASE calm' = {}
  BY <1>2, <1>3 DEF CalmInv, Undisturbed, Agree
<1>4. CASE calm' = {i} /\ Running = {} /\ failing = {} /\ merging = None
  <2>1. Running' \subseteq {i}
    BY <1>1, <1>4 DEF Running
  <2>2. ingest'[i].seen = listed
    BY <1>1, <1>4
  <2>3. ReadsAgree(i)' /\ WritesAgree(i)'
    BY <1>1, <1>2, <2>2 DEF ReadsAgree, WritesAgree
  <2>4. QED
    BY <1>2, <1>4, <2>1, <2>3 DEF CalmInv, Undisturbed, Agree
<1>5. QED
  BY <1>2, <1>3, <1>4

LEMMA ReadCalm ==
  ASSUME PagesAssumption, PagesInv, CalmInv, NEW i \in Ingests, Reads(i)
  PROVE  CalmInv'
PROOF
<1>1. UNCHANGED <<listed, pageRows, merging, fresh>> /\ \A u \in Urls : Placed(u) => Placed(u)'
  BY StaysPlaced DEF Reads, ReadAliases, ReadGroups, ReadActive, IngestDies
<1>2. listed \subseteq Urls
  BY DEF PagesInv, RowsInv, PlainTypes, OtherTypes
<1>3. CASE ReadAliases(i)
  <2>1. /\ ingest[i].at = "aliases" /\ ingest'[i].at = "groups"
        /\ ingest'[i].seen = ingest[i].seen /\ ingest'[i].left = ingest[i].left
        /\ \A s \in Needed(i) \cap Slugs : ingest'[i].alias[s] = alias[s]
        /\ \A j \in Ingests : j # i => ingest'[j] = ingest[j]
    BY <1>3, ReadAliasesEffect DEF PagesInv, RowsInv
  <2>2. ASSUME i \in calm PROVE ReadsAgree(i)' /\ WritesAgree(i)'
    <3>1. ReadsAgree(i) /\ WritesAgree(i)
      BY <2>1, <2>2, OnlyOne
    <3>2. Needed(i)' = Needed(i) /\ Needed(i) \subseteq Slugs
      BY <2>1, NeededTypes DEF Needed
    <3>3. QED
      BY <1>1, <2>1, <3>1, <3>2 DEF ReadsAgree, WritesAgree, pageRows
  <2>3. UNCHANGED calm
    BY <1>3 DEF ReadAliases
  <2>4. QED
    BY <1>1, <2>1, <2>2, <2>3, GoesOn
<1>4. CASE ReadGroups(i)
  <2>1. /\ ingest[i].at = "groups" /\ ingest'[i].at = "pages"
        /\ ingest'[i].seen = ingest[i].seen /\ ingest'[i].left = ingest[i].left
        /\ ingest'[i].alias = ingest[i].alias
        /\ \A s \in Needed(i) \cap Slugs :
             IF ingest'[i].group[s] = None THEN GroupOf(s) = {}
             ELSE slug[ingest'[i].group[s]] = s
        /\ \A j \in Ingests : j # i => ingest'[j] = ingest[j]
    BY <1>4, ReadGroupsEffect DEF PagesInv, RowsInv
  <2>2. ASSUME i \in calm PROVE ReadsAgree(i)' /\ WritesAgree(i)'
    <3>1. ReadsAgree(i) /\ WritesAgree(i)
      BY <2>1, <2>2, OnlyOne
    <3>2. Needed(i)' = Needed(i) /\ Needed(i) \subseteq Slugs
      BY <2>1, NeededTypes DEF Needed
    <3>3. slug' = slug /\ alias' = alias /\ \A s : GroupOf(s)' = GroupOf(s)
      BY <1>1 DEF pageRows, GroupOf
    <3>4. ReadsAgree(i)'
      BY <1>1, <2>1, <3>1, <3>2, <3>3 DEF ReadsAgree
    <3>5. WritesAgree(i)'
      BY <1>1, <2>1, <3>1 DEF WritesAgree
    <3>6. QED
      BY <3>4, <3>5
  <2>3. UNCHANGED calm
    BY <1>4 DEF ReadGroups
  <2>4. QED
    BY <1>1, <2>1, <2>2, <2>3, GoesOn
<1>5. CASE ReadActive(i)
  <2>1. /\ ingest[i].at = "active" /\ ingest'[i].at = "deactivate"
        /\ ingest'[i].seen = ingest[i].seen /\ ingest'[i].left = Unseen(i)
        /\ ingest'[i].alias = ingest[i].alias /\ ingest'[i].group = ingest[i].group
        /\ \A j \in Ingests : j # i => ingest'[j] = ingest[j]
    BY <1>5, ReadActiveEffect DEF PagesInv, RowsInv
  <2>2. ASSUME i \in calm PROVE ReadsAgree(i)' /\ WritesAgree(i)'
    <3>1. ReadsAgree(i) /\ WritesAgree(i)
      BY <2>1, <2>2, OnlyOne
    <3>2. Needed(i)' = Needed(i) /\ Unseen(i)' = Unseen(i)
      BY <1>1, <2>1 DEF Needed, Unseen, pageRows
    <3>3. slug' = slug /\ alias' = alias /\ \A s : GroupOf(s)' = GroupOf(s)
      BY <1>1 DEF pageRows, GroupOf
    <3>4. ReadsAgree(i)'
      BY <1>1, <2>1, <3>1, <3>2, <3>3 DEF ReadsAgree
    <3>5. WritesAgree(i)'
      BY <1>1, <1>2, <2>1, <3>1, <3>2 DEF WritesAgree
    <3>6. QED
      BY <3>4, <3>5
  <2>3. UNCHANGED calm
    BY <1>5 DEF ReadActive
  <2>4. QED
    BY <1>1, <2>1, <2>2, <2>3, GoesOn
<1>6. CASE IngestDies(i)
  <2>1. ingest[i].at # "idle" /\ calm' = calm \ {i}
    BY <1>6 DEF IngestDies
  <2>2. calm' = {} /\ ~fresh
    BY <2>1, OnlyOne DEF CalmInv, Undisturbed
  <2>3. QED
    BY <1>1, <2>2 DEF CalmInv, Undisturbed, Agree
<1>7. QED
  BY <1>3, <1>4, <1>5, <1>6 DEF Reads

\* An ingest that ends without a word: it stays calm, and idle.
LEMMA AbortCalm ==
  ASSUME PagesAssumption, PagesInv, CalmInv, NEW i \in Ingests, ingest[i].at # "idle", Abort(i),
         UNCHANGED <<merging, calm, fresh>>
  PROVE  CalmInv'
PROOF BY AbortEffect, GoesOn DEF PagesInv, RowsInv

LEMMA CreateCalm ==
  ASSUME PagesAssumption, PagesInv, CalmInv, NEW i \in Ingests, NEW s \in Slugs, CreateGroup(i, s)
  PROVE  CalmInv'
PROOF
<1>1. /\ ingest[i].at # "idle" /\ UNCHANGED <<listed, page, alias, merging, calm, fresh>>
  BY DEF CreateGroup
<1>2. CASE groups' = groups
  <2>1. groups \in Nat
    BY Assumed DEF PagesInv, RowsInv, PlainTypes, RowTypes
  <2>2. Abort(i)
    BY <1>2, <2>1 DEF CreateGroup
  <2>3. QED
    BY <1>1, <2>2, AbortCalm
<1>3. CASE groups' # groups
  <2>1. /\ ingest[i].at = "pages" /\ groups' \in Groups /\ slug[groups'] = None
        /\ slug'[groups'] = s /\ \A g \in Groups : g # groups' => slug'[g] = slug[g]
        /\ ingest'[i].at = "pages"
        /\ ingest'[i].seen = ingest[i].seen /\ ingest'[i].left = ingest[i].left
        /\ ingest'[i].alias = ingest[i].alias /\ ingest'[i].group[s] = groups'
        /\ \A t \in Slugs : t # s => ingest'[i].group[t] = ingest[i].group[t]
        /\ \A j \in Ingests : j # i => ingest'[j] = ingest[j]
    BY <1>3, CreateEffect DEF PagesInv
  <2>2. None \notin Groups /\ None \notin Slugs
    BY Assumed
  <2>3. ASSUME i \in calm PROVE ReadsAgree(i)' /\ WritesAgree(i)'
    <3>1. ReadsAgree(i) /\ WritesAgree(i)
      BY <2>1, <2>3, OnlyOne
    <3>2. Needed(i)' = Needed(i) /\ Needed(i) \subseteq Slugs
      BY <2>1, NeededTypes DEF Needed
    <3>3. \A t \in Slugs : /\ GroupOf(t) \subseteq GroupOf(t)'
                           /\ t # s => GroupOf(t)' = GroupOf(t)
      BY <2>1, <2>2 DEF GroupOf
    <3>4. ASSUME NEW t \in Needed(i)
          PROVE  IF ingest'[i].group[t] = None THEN GroupOf(t)' = {}
                 ELSE slug'[ingest'[i].group[t]] = t
      <4>1. CASE t = s
        BY <2>1, <2>2, <4>1
      <4>2. CASE t # s
        <5>1. t \in Slugs /\ ingest'[i].group[t] = ingest[i].group[t]
              /\ ingest[i].group[t] \in Groups \cup {None}
          BY <2>1, <3>2, <4>2, NeededTypes
        <5>2. IF ingest[i].group[t] = None THEN GroupOf(t) = {}
              ELSE slug[ingest[i].group[t]] = t
          BY <2>1, <3>1 DEF ReadsAgree
        <5>3. QED
          BY <2>1, <2>2, <3>3, <4>2, <5>1, <5>2
      <4>3. QED
        BY <4>1, <4>2
    <3>5. ReadsAgree(i)'
      BY <1>1, <2>1, <3>1, <3>2, <3>4 DEF ReadsAgree
    <3>6. \A u \in Urls : Placed(u) => Placed(u)'
      <4>1. \A u \in Urls : SLUG[u] \in Slugs
        BY Assumed
      <4>2. QED
        BY <1>1, <3>3, <4>1 DEF Placed, Home
    <3>7. WritesAgree(i)'
      <4>1. listed \subseteq Urls
        BY DEF PagesInv, RowsInv, PlainTypes, OtherTypes
      <4>2. QED
        BY <1>1, <2>1, <3>1, <3>6, <4>1 DEF WritesAgree
    <3>8. QED
      BY <3>5, <3>7
  <2>4. QED
    BY <1>1, <2>1, <2>3, GoesOn
<1>4. QED
  BY <1>2, <1>3

\* Where a calm ingest puts a page is where its slug resolves to.
LEMMA ResolvesHome ==
  ASSUME PagesAssumption, PagesInv, NEW i \in Ingests, ReadsAgree(i), ingest[i].at = "pages",
         NEW s \in Needed(i), Resolve(i, s) # None
  PROVE  Resolve(i, s) \in Home(s)
PROOF
<1>1. /\ ingest[i].alias[s] = alias[s]
      /\ ingest[i].group[s] # None => slug[ingest[i].group[s]] = s
  BY DEF ReadsAgree
<1>2. ingest[i].group[s] \in Groups \cup {None}
  BY NeededTypes
<1>3. QED
  BY <1>1, <1>2 DEF Resolve, Home, GroupOf

LEMMA BatchCalm ==
  ASSUME PagesAssumption, PagesInv, CalmInv, NEW i \in Ingests, NEW batch \in SUBSET Urls,
         UpsertBatch(i, batch)
  PROVE  CalmInv'
PROOF
<1>1. ingest[i].at # "idle" /\ UNCHANGED <<listed, slug, alias, merging, calm, fresh>>
  BY DEF UpsertBatch
<1>2. CASE Abort(i)
  BY <1>1, <1>2, AbortCalm
<1>3. CASE ~Abort(i)
  <2>1. ingest'[i].at \in {"active", "pages"}
    BY <1>3 DEF UpsertBatch, PagesInv, RowsInv, PlainTypes, IngestTypes, IngestRecord
  <2>2. /\ ingest[i].at = "pages" /\ batch \subseteq ingest[i].left
        /\ \A s \in Needed(i) : Resolve(i, s) # None
        /\ \A u \in Urls \ batch : page'[u] = page[u]
        /\ \A u \in batch :
             /\ page'[u] # None /\ page'[u].active
             /\ page[u] # None /\ page[u].manual =>
                  page'[u].manual /\ page'[u].group = page[u].group
             /\ page[u] = None \/ ~page[u].manual => page'[u].group = Resolve(i, SLUG[u])
        /\ ingest'[i].at = IF batch = ingest[i].left THEN "active" ELSE "pages"
        /\ ingest'[i].seen = ingest[i].seen /\ ingest'[i].left = ingest[i].left \ batch
        /\ ingest'[i].alias = ingest[i].alias /\ ingest'[i].group = ingest[i].group
        /\ \A j \in Ingests : j # i => ingest'[j] = ingest[j]
    BY <2>1, BatchEffect DEF PagesInv
  <2>3. ASSUME i \in calm PROVE ReadsAgree(i)' /\ WritesAgree(i)'
    <3>1. ReadsAgree(i) /\ WritesAgree(i) /\ ingest[i].seen = listed
      BY <2>2, <2>3, OnlyOne DEF ReadsAgree
    <3>2. /\ Needed(i)' = Needed(i) /\ \A s : GroupOf(s)' = GroupOf(s) /\ Home(s)' = Home(s)
      BY <1>1, <2>2 DEF Needed, GroupOf, Home
    <3>3. ReadsAgree(i)'
      BY <1>1, <2>2, <3>1, <3>2 DEF ReadsAgree
    <3>4. listed \subseteq Urls
      BY DEF PagesInv, RowsInv, PlainTypes, OtherTypes
    <3>5. \A u \in listed \ batch : Placed(u) => Placed(u)'
      BY <2>2, <3>2, <3>4 DEF Placed
    <3>6. ASSUME NEW u \in batch, u \in listed PROVE Placed(u)'
      <4>1. SLUG[u] \in Needed(i)
        BY <3>1, <3>6 DEF Needed
      <4>2. Resolve(i, SLUG[u]) \in Home(SLUG[u])
        BY <2>2, <3>1, <4>1, ResolvesHome
      <4>3. /\ page'[u] # None /\ page'[u].active
            /\ page'[u].manual \/ page'[u].group = Resolve(i, SLUG[u])
        BY <2>2
      <4>4. QED
        BY <3>2, <4>2, <4>3 DEF Placed
    <3>7. \A u \in listed \ ingest'[i].left : Placed(u)'
      BY <2>2, <3>1, <3>5, <3>6 DEF WritesAgree
    <3>8. WritesAgree(i)'
      <4>1. CASE batch = ingest[i].left
        BY <1>1, <2>2, <3>7, <4>1 DEF WritesAgree
      <4>2. CASE batch # ingest[i].left
        BY <1>1, <2>2, <3>7, <4>2 DEF WritesAgree
      <4>3. QED
        BY <4>1, <4>2
    <3>9. QED
      BY <3>3, <3>8
  <2>4. QED
    BY <1>1, <2>2, <2>3, GoesOn
<1>4. QED
  BY <1>2, <1>3

\* The last step of an ingest, and what a calm one leaves.
LEMMA DeactivateCalm ==
  ASSUME PagesAssumption, PagesInv, CalmInv, NEW i \in Ingests, Deactivate(i)
  PROVE  CalmInv' /\ ExactWhenCalm'
PROOF
<1>1. /\ ingest[i].at = "deactivate" /\ calm' = calm \ {i} /\ fresh' = (i \in calm)
      /\ Abort(i) /\ UNCHANGED <<listed, slug, alias, merging>>
  BY DEF Deactivate
<1>2. calm' = {} /\ (i \in calm => Running = {i} /\ merging = None)
  BY <1>1, OnlyOne DEF CalmInv, Undisturbed
<1>3. i \in calm => Running' = {}
  <2>1. ingest'[i].at = "idle" /\ \A j \in Ingests : j # i => ingest'[j] = ingest[j]
    BY <1>1, AbortEffect DEF PagesInv, RowsInv
  <2>2. QED
    BY <1>2, <2>1 DEF Running
<1>4. CalmInv'
  BY <1>1, <1>2, <1>3 DEF CalmInv, Undisturbed, Agree
<1>5. ASSUME i \in calm, NEW u \in Urls
      PROVE  /\ u \in listed <=> page'[u] # None /\ page'[u].active
             /\ u \in listed /\ ~page'[u].manual => page'[u].group \in Home(SLUG[u])'
  <2>1. ReadsAgree(i) /\ WritesAgree(i)
    BY <1>1, <1>5, OnlyOne
  <2>2. ingest[i].left = Unseen(i) /\ ingest[i].seen = listed /\ \A v \in listed : Placed(v)
    BY <1>1, <2>1 DEF ReadsAgree, WritesAgree
  <2>3. \A v \in ingest[i].left : page[v] # None
    BY <2>2 DEF Unseen
  <2>4. IF u \in ingest[i].left THEN page'[u] # None /\ ~page'[u].active ELSE page'[u] = page[u]
    BY <2>3, DeactivateEffect DEF PagesInv
  <2>5. Home(SLUG[u])' = Home(SLUG[u])
    BY <1>1 DEF Home, GroupOf
  <2>6. CASE u \in listed
    <3>1. u \notin ingest[i].left
      BY <2>2, <2>6 DEF Unseen
    <3>2. QED
      BY <2>2, <2>4, <2>5, <2>6, <3>1 DEF Placed
  <2>7. CASE u \notin listed
    <3>1. u \in ingest[i].left <=> page[u] # None /\ page[u].active
      BY <2>2, <2>7 DEF Unseen
    <3>2. QED
      BY <2>4, <2>7, <3>1
  <2>8. QED
    BY <2>6, <2>7
<1>6. ExactWhenCalm'
  BY <1>1, <1>5 DEF ExactWhenCalm
<1>7. QED
  BY <1>4, <1>6

LEMMA CalmStep ==
  ASSUME PagesAssumption, PagesInv, CalmInv, [PagesNext]_pageVars
  PROVE  CalmInv'
PROOF
<1>1. CASE MergeCommits
  <2>1. calm = {} /\ ~fresh
    BY <1>1 DEF MergeCommits, CalmInv, Undisturbed
  <2>2. QED
    BY <1>1, <2>1 DEF MergeCommits, CalmInv, Undisturbed, Agree
<1>2. CASE Edit
  BY <1>2 DEF Edit, CalmInv, Undisturbed, Agree
<1>3. CASE UNCHANGED pageVars
  <2>1. UNCHANGED <<listed, pageRows, merging, ingest, calm, fresh>>
    BY <1>3 DEF pageVars
  <2>2. Undisturbed'
    BY <2>1 DEF CalmInv, Undisturbed, Running
  <2>3. ASSUME NEW i \in calm, ReadsAgree(i) PROVE ReadsAgree(i)'
    BY <2>1, <2>3 DEF pageRows, ReadsAgree, Needed, GroupOf
  <2>4. ASSUME NEW i \in calm, WritesAgree(i) PROVE WritesAgree(i)'
    <3>1. \A u : Placed(u) => Placed(u)'
      BY <2>1, StaysPlaced
    <3>2. QED
      BY <2>1, <2>4, <3>1 DEF pageRows, WritesAgree, Unseen
  <2>5. QED
    BY <2>1, <2>2, <2>3, <2>4 DEF CalmInv, Agree
<1>4. QED
  BY <1>1, <1>2, <1>3, StepKinds, CrawlCalm, ReadCalm, CreateCalm, BatchCalm, DeactivateCalm

LEMMA CalmAlways == ASSUME PagesAssumption PROVE PagesSpec => [](PagesInv /\ CalmInv)
PROOF
<1>1. PagesInit => CalmInv
  BY DEF PagesInit, CalmInv, Undisturbed, Agree
<1>2. PagesInv /\ CalmInv /\ [PagesNext]_pageVars => CalmInv'
  BY CalmStep
<1>3. QED
  BY <1>1, <1>2, RowsAlways, PTL DEF PagesSpec

\* An ingest that nothing overlapped with and whose documents all answered leaves the active
\* pages exactly those listed, each in the group its slug resolves to unless moved by hand,
\* whatever crashed or overlapping ingests, renames and merges had left behind.
THEOREM CalmIngestIsExact == ASSUME PagesAssumption PROVE PagesSpec => []ExactWhenCalm
PROOF
<1>1. PagesInit => ExactWhenCalm
  BY DEF PagesInit, ExactWhenCalm
<1>2. ASSUME PagesInv, CalmInv, ExactWhenCalm, [PagesNext]_pageVars PROVE ExactWhenCalm'
  <2>1. ASSUME NEW i \in Ingests, Deactivate(i) PROVE ExactWhenCalm'
    BY <1>2, <2>1, DeactivateCalm
  <2>2. CASE ~fresh'
    BY <2>2 DEF ExactWhenCalm
  <2>3. ASSUME fresh', ~\E i \in Ingests : Deactivate(i) PROVE UNCHANGED pageVars
    <3>1. PagesNext => fresh
      BY <2>3, StepKinds DEF Crawl, Reads, ReadAliases, ReadGroups, ReadActive, IngestDies, CreateGroup,
         UpsertBatch, MergeCommits, Edit
    <3>2. PagesNext => merging = None /\ \A i \in Ingests : ingest[i].at = "idle"
      BY <1>2, <3>1, OnlyOne DEF CalmInv, Undisturbed
    <3>3. PagesNext => ~(\E i \in Ingests : Reads(i) \/ \E s \in Slugs : CreateGroup(i, s))
                  /\ ~(\E i \in Ingests, batch \in SUBSET Urls : UpsertBatch(i, batch))
      BY <3>2 DEF Reads, ReadAliases, ReadGroups, ReadActive, IngestDies, CreateGroup, UpsertBatch
    <3>4. QED
      BY <1>2, <2>3, <3>2, <3>3, StepKinds DEF Crawl, MergeCommits, Edit
  <2>4. CASE UNCHANGED pageVars
    BY <1>2, <2>4 DEF pageVars, pageRows, ExactWhenCalm, Home, GroupOf
  <2>5. QED
    BY <2>1, <2>2, <2>3, <2>4
<1>3. QED
  BY <1>1, <1>2, CalmAlways, PTL DEF PagesSpec

\* A slug that was renamed or merged away is not created again: a calm ingest creates a group
\* only for a slug that no alias and no group resolves.
THEOREM MergedSlugsStayAway == ASSUME PagesAssumption PROVE PagesSpec => NotRecreated
PROOF
<1> DEFINE Fresh == groups' > groups =>
                      \/ \A s \in Slugs : slug'[groups'] = s => Home(s) = {}
                      \/ \E i \in Ingests \ calm : ingest'[i] # ingest[i]
<1>1. ASSUME PagesInv, CalmInv, PagesNext PROVE Fresh
  <2>0. groups \in Nat
    BY <1>1, Assumed DEF PagesInv, RowsInv, PlainTypes, RowTypes
  <2>1. ASSUME NEW i \in Ingests, NEW s \in Slugs, CreateGroup(i, s), groups' # groups PROVE Fresh
    <3>1. /\ ingest[i].at = "pages" /\ s \in Needed(i) /\ ingest[i].alias[s] = None
          /\ ingest[i].group[s] = None /\ GroupOf(s) = {} /\ groups' \in Groups
          /\ slug'[groups'] = s /\ ingest'[i].group[s] = groups'
      BY <1>1, <2>1, CreateEffect DEF PagesInv
    <3>2. CASE i \in calm
      <4>1. ReadsAgree(i)
        BY <1>1, <3>1, <3>2, OnlyOne
      <4>2. alias[s] = None
        BY <3>1, <4>1 DEF ReadsAgree
      <4>3. QED
        BY <3>1, <4>2 DEF Home
    <3>3. CASE i \notin calm
      <4>1. ingest'[i] # ingest[i]
        BY <3>1, Assumed
      <4>2. QED
        BY <3>3, <4>1
    <3>4. QED
      BY <3>2, <3>3
  <2>2. CASE groups' = groups
    BY <2>0, <2>2
  <2>3. QED
    BY <1>1, <2>1, <2>2, StepKinds DEF Crawl, Reads, ReadAliases, ReadGroups, ReadActive, IngestDies,
       UpsertBatch, Deactivate, MergeCommits, Rename, Merge, MoveByHand, SiteEdits, pageRows
<1>2. PagesInv /\ CalmInv /\ [PagesNext]_pageVars => [Fresh]_pageVars
  <2> HIDE DEF Fresh
  <2> QED BY <1>1
<1>3. QED
  BY <1>2, CalmAlways, PTL DEF PagesSpec, NotRecreated
=============================================================================
