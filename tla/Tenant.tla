-------------------------------- MODULE Tenant --------------------------------
(***************************************************************************)
(* What users keep on the server besides their account: monitors, channels *)
(* and status pages, and the incidents and logs that belong to a monitor.  *)
(* The handlers of controllers/{monitor,channel,statusPage,incident,logs}  *)
(* .controller.js, cut at their database calls, over the owner-scoped data *)
(* access of dao/scopedDao.js, and the public status page with no owner.   *)
(*                                                                         *)
(* All documents are in one table, by id; a row says of which collection.  *)
(* A browser tab has one request under way at a time, and a user may have  *)
(* several tabs.  Titles and slugs are short sequences of letters and      *)
(* separators, since what slugify() does to them matters.                  *)
(***************************************************************************)
EXTENDS Integers, Sequences, FiniteSets

LOCAL INSTANCE SequencesExt

CONSTANTS Tab, Owner,       \* the user of each tab
          Url, Target,      \* what monitors watch, where channels go
          Title,            \* names asked for a page
          Letter,           \* the characters a slug keeps; others separate
          Reserved,         \* RESERVED_SLUGS
          SlugMax,          \* the length slugify() cuts at
          MAX_PAGES_PER_USER,
          MaxRequests,      \* bound: requests ever made
          MaxDocs           \* bound: documents ever created

ASSUME TenantAssumption ==
  /\ DOMAIN Owner = Tab /\ IsFiniteSet(Tab)
  /\ SlugMax \in Nat \ {0} /\ MAX_PAGES_PER_USER \in Nat \ {0}
  /\ MaxRequests \in Nat /\ MaxDocs \in Nat

VARIABLES docs,      \* every document, by id
          gone,      \* ids that have been deleted
          request,   \* the request each tab has under way
          made,      \* history: requests made
          shown      \* history: what the last step answered, to whom

vars == <<docs, gone, request, made, shown>>

User == {Owner[t] : t \in Tab}

------------------------------------------------------------------------------
(* slugify() *)

IsLetter(title, i) == title[i] \in Letter

\* A run of separators becomes one dash, none at either end.
Kept(title) ==
  {i \in DOMAIN title :
     \/ IsLetter(title, i)
     \/ /\ i > 1 /\ IsLetter(title, i - 1)
        /\ \E j \in DOMAIN title : j > i /\ IsLetter(title, j)}

\* The dashes are trimmed first and the slug is cut after.
slugify(title) ==
  LET kept == SetToSortSeq(Kept(title), LAMBDA a, b : a < b)
      full == [k \in DOMAIN kept |->
                 IF IsLetter(title, kept[k]) THEN title[kept[k]] ELSE "-"]
  IN  SubSeq(full, 1, IF Len(full) < SlugMax THEN Len(full) ELSE SlugMax)

------------------------------------------------------------------------------
(* The scoped data access *)

Live == DOMAIN docs \ gone
Of(kind) == {i \in Live : docs[i].kind = kind}

\* Direct scoping: the owner field.
OwnedDirectly(u, kind) == {i \in Of(kind) : docs[i].owner = u}

\* Derived scoping: incidents and logs belong to whoever owns their monitor.
ownedMonitorIds(u) == OwnedDirectly(u, "monitor")
byMonitorOwnership(monitors) == {i \in Of("record") : docs[i].monitor \in monitors}

Scope(u, kind) ==
  IF kind = "record" THEN byMonitorOwnership(ownedMonitorIds(u)) ELSE OwnedDirectly(u, kind)

\* Faulty variant: the caller's filter overwrites the scope.
Filter_overwritten(scope, filter) == filter

\* The caller's filter and the scope are combined with $and.
Filter(scope, filter) == scope \intersect filter

\* Everything the table holds of that kind with these ids, for a caller's filter.
ById(kind, ids) == Of(kind) \intersect ids

\* findById(), updateById() and deleteById() look no further than the tenant.
Reach(u, kind, id) == Filter(Scope(u, kind), ById(kind, {id}))

------------------------------------------------------------------------------

NoRequest == [op |-> "none", stage |-> "idle", args |-> <<>>, slug |-> <<>>, scope |-> {}]
Shown(to, ids) == [to |-> to, ids |-> ids]
Nothing == Shown("nobody", {})

\* Every user has a monitor to begin with, and a record of it.
Init ==
  /\ LET order == CHOOSE s \in [1..Cardinality(User) -> User] :
                    \A i, j \in DOMAIN s : s[i] = s[j] => i = j
     IN  docs = [i \in 1..(2 * Cardinality(User)) |->
                   IF i <= Cardinality(User)
                   THEN [kind |-> "monitor", owner |-> order[i],
                         url |-> CHOOSE x \in Url : TRUE, active |-> TRUE]
                   ELSE [kind |-> "record", monitor |-> i - Cardinality(User)]]
  /\ gone = {} /\ made = 0
  /\ request = [t \in Tab |-> NoRequest]
  /\ shown = Nothing

Args(t) == request[t].args
At(t, op, stage) == request[t].op = op /\ request[t].stage = stage
To(t, stage) == request' = [request EXCEPT ![t].stage = stage]
Done(t) == request' = [request EXCEPT ![t] = NoRequest]
Add(doc) == Len(docs) < MaxDocs /\ docs' = Append(docs, doc)

Ask(t, op, args) ==
  /\ request[t] = NoRequest /\ made < MaxRequests
  /\ made' = made + 1
  /\ request' = [request EXCEPT ![t] = [op |-> op, stage |-> "begun", args |-> args,
                                        slug |-> <<>>, scope |-> {}]]
  /\ UNCHANGED <<docs, gone>>

------------------------------------------------------------------------------
(* Monitors and channels *)

\* createMonitorController and createChannel look for the same one of this owner
\* (409) and create; nothing but the look-up keeps two alike apart.
SameThing(t) ==
  {i \in OwnedDirectly(Owner[t], Args(t).kind) :
     IF Args(t).kind = "monitor" THEN docs[i].url = Args(t).what
                                 ELSE docs[i].target = Args(t).what}

FindSame(t) ==
  /\ At(t, "create", "begun")
  /\ IF SameThing(t) # {} THEN Done(t) ELSE To(t, "creating")
  /\ UNCHANGED <<docs, gone, made>>

CreateThing(t) ==
  /\ At(t, "create", "creating")
  /\ Add(IF Args(t).kind = "monitor"
         THEN [kind |-> "monitor", owner |-> Owner[t], url |-> Args(t).what,
               active |-> TRUE]
         ELSE [kind |-> "channel", owner |-> Owner[t], target |-> Args(t).what,
               active |-> TRUE])
  /\ Done(t)
  /\ UNCHANGED <<gone, made>>

\* A $set: the fields of the patch, the others as they are.
Patched(doc, patch) ==
  [field \in DOMAIN doc |-> IF field \in DOMAIN patch THEN patch[field] ELSE doc[field]]

\* updateMonitorController and updateChannel: in one call, or 404; a new url or target
\* is not looked up among the others.
Edit(t) ==
  LET found == Reach(Owner[t], Args(t).kind, Args(t).id)
  IN  /\ At(t, "edit", "begun")
      /\ docs' = [i \in DOMAIN docs |->
                    IF i \in found THEN Patched(docs[i], Args(t).patch) ELSE docs[i]]
      /\ Done(t)
      /\ UNCHANGED <<gone, made>>

\* deleteMonitorController, deleteChannel, deleteStatusPage.  Records of a monitor
\* stay, out of everyone's reach; pages keep its id.
Delete(t) ==
  /\ At(t, "delete", "begun")
  /\ gone' = gone \union Reach(Owner[t], Args(t).kind, Args(t).id)
  /\ Done(t)
  /\ UNCHANGED <<docs, made>>

\* The lists and reads of what the user owns directly: one call.
List(t) ==
  /\ At(t, "list", "begun") /\ Args(t).kind # "record"
  /\ shown' = Shown(Owner[t], Filter(Scope(Owner[t], Args(t).kind),
                                     ById(Args(t).kind, Args(t).ids)))
  /\ Done(t)
  /\ UNCHANGED <<docs, gone, made>>

\* The records of one monitor: it must be the caller's (assertMonitorOwned, 404).
AssertMonitorOwned(t) ==
  /\ At(t, "records", "begun")
  /\ IF Reach(Owner[t], "monitor", Args(t).id) = {} THEN Done(t) ELSE To(t, "listing")
  /\ UNCHANGED <<docs, gone, made>>

\* Records are scoped by the ids of the user's monitors, asked for in a call of its own.
ComputeScope(t) ==
  /\ At(t, "records", "listing") \/ (At(t, "list", "begun") /\ Args(t).kind = "record")
  /\ request' = [request EXCEPT ![t].stage = "querying",
                                ![t].scope = ownedMonitorIds(Owner[t])]
  /\ UNCHANGED <<docs, gone, made>>

\* Then the collection is asked: what that scope admits of one monitor, or of some ids.
Records(t) ==
  /\ request[t].stage = "querying"
  /\ shown' = Shown(Owner[t],
                    Filter(byMonitorOwnership(request[t].scope),
                           IF request[t].op = "records" THEN byMonitorOwnership({Args(t).id})
                                                        ELSE ById("record", Args(t).ids)))
  /\ Done(t)
  /\ UNCHANGED <<docs, gone, made>>

\* testChannel looks the channel up; an e-mail is really sent, any other type skipped.
TestChannel(t) ==
  /\ At(t, "test", "begun")
  /\ IF Reach(Owner[t], "channel", Args(t).id) = {} THEN Done(t) ELSE To(t, "sending")
  /\ UNCHANGED <<docs, gone, made>>

\* Either way, sent or failed, the attempt is a notification log row of the caller's.
LogTest(t) ==
  /\ At(t, "test", "sending")
  /\ Add([kind |-> "note", owner |-> Owner[t]])
  /\ Done(t)
  /\ UNCHANGED <<gone, made>>

------------------------------------------------------------------------------
(* Status pages *)

Pages(u) == OwnedDirectly(u, "page")
WithSlug(slug) == {i \in Of("page") : docs[i].slug = slug}

\* Faulty variant: the limit is off by one.
LimitReached_late(t) == Cardinality(Pages(Owner[t])) > MAX_PAGES_PER_USER

LimitReached(t) == Cardinality(Pages(Owner[t])) >= MAX_PAGES_PER_USER

\* createStatusPage counts first.
CountPages(t) ==
  /\ At(t, "createPage", "begun")
  /\ IF LimitReached(t) THEN Done(t) ELSE To(t, "slug")
  /\ UNCHANGED <<docs, gone, made>>

\* updateStatusPage finds the page first; the slug moves only when it is sent.
FindPage(t) ==
  /\ At(t, "updatePage", "begun")
  /\ IF Reach(Owner[t], "page", Args(t).id) = {} THEN Done(t)
     ELSE To(t, IF "slug" \in Args(t).sent THEN "slug" ELSE "owned")
  /\ UNCHANGED <<docs, gone, made>>

\* What may be an address: no route of the application's own.
Legal(slug) == slug # <<>> /\ slug \notin Reserved

\* resolveSlug(): empty and reserved names are refused (400), and one that another
\* page has, anybody's (409).
ResolveSlug(t) ==
  LET slug == slugify(Args(t).title)
      self == IF request[t].op = "updatePage" THEN {Args(t).id} ELSE {}
  IN  /\ request[t].stage = "slug"
      /\ IF ~Legal(slug) \/ WithSlug(slug) \ self # {} THEN Done(t)
         ELSE request' = [request EXCEPT ![t].slug = slug, ![t].stage = "owned"]
      /\ UNCHANGED <<docs, gone, made>>

\* Faulty variant: any monitor that exists may be put on a page.
OwnedAll_existing(t) == Args(t).monitors \subseteq Of("monitor")

\* resolveOwnedMonitors(): every one of them is the caller's.
OwnedAll(t) == Args(t).monitors \subseteq OwnedDirectly(Owner[t], "monitor")

ResolveMonitors(t) ==
  /\ request[t].stage = "owned"
  /\ IF OwnedAll(t) THEN To(t, "writing") ELSE Done(t)
  /\ UNCHANGED <<docs, gone, made>>

\* Faulty variant: no unique index behind the look-up.
SlugFree_noIndex(slug, self) == TRUE

\* The unique index on slug, over every page but the one written.
SlugFree(slug, self) == WithSlug(slug) \ self = {}

\* The page is created, unless the index refuses the slug (E11000, 409).
CreatePage(t) ==
  /\ At(t, "createPage", "writing")
  /\ IF SlugFree(request[t].slug, {})
     THEN Add([kind |-> "page", owner |-> Owner[t], slug |-> request[t].slug,
               monitors |-> Args(t).monitors, public |-> Args(t).public])
     ELSE UNCHANGED docs
  /\ Done(t)
  /\ UNCHANGED <<gone, made>>

\* The $set of what was sent, unless the page is gone by now (404) or the slug taken
\* (409).
UpdatePage(t) ==
  LET found == Reach(Owner[t], "page", Args(t).id)
      sent == Args(t).sent
  IN  /\ At(t, "updatePage", "writing")
      /\ IF "slug" \in sent /\ ~SlugFree(request[t].slug, found) THEN UNCHANGED docs
         ELSE docs' = [i \in DOMAIN docs |->
                IF i \notin found THEN docs[i]
                ELSE [docs[i] EXCEPT
                        !.slug = IF "slug" \in sent THEN request[t].slug ELSE @,
                        !.monitors = IF "monitors" \in sent THEN Args(t).monitors ELSE @,
                        !.public = IF "public" \in sent THEN Args(t).public ELSE @]]
      /\ Done(t)
      /\ UNCHANGED <<gone, made>>

\* What getPublicStatusPage finds for an address: the slug is normalised again, only
\* a public page will do, and monitors deleted meanwhile are left out.
PublicPage(slug) == {i \in WithSlug(slugify(slug)) : docs[i].public}

Visit(slug) ==
  /\ \E i \in PublicPage(slug) :
       shown' = Shown(docs[i].owner, {i} \union (docs[i].monitors \ gone))
  /\ UNCHANGED <<docs, gone, request, made>>

------------------------------------------------------------------------------

\* What an edit may set, a field at a time.
Patches(kind) ==
  [active : BOOLEAN] \union (IF kind = "monitor" THEN [url : Url] ELSE [target : Target])

Monitors == {i \in DOMAIN docs : docs[i].kind = "monitor"}

\* What an update of a page may send, and leave unsent, some of the combinations.
Changes(page) ==
  UNION {[id : {page}, sent : {sent},
          title : IF "slug" \in sent THEN Title ELSE {<<>>},
          monitors : IF "monitors" \in sent THEN {{i} : i \in Monitors} ELSE {{}},
          public : IF "public" \in sent THEN BOOLEAN ELSE {FALSE}] :
         sent \in {{"slug"}, {"slug", "monitors"}, {"monitors", "public"}}}

\* Ids are not secret: a request may name any document.
Requests(t) ==
  \/ \E kind \in {"monitor", "channel"} :
       \E what \in IF kind = "monitor" THEN Url ELSE Target :
         Ask(t, "create", [kind |-> kind, what |-> what])
  \/ \E i \in DOMAIN docs :
       \/ docs[i].kind \in {"monitor", "channel"}
            /\ \E patch \in Patches(docs[i].kind) :
                 Ask(t, "edit", [kind |-> docs[i].kind, id |-> i, patch |-> patch])
       \/ docs[i].kind \in {"monitor", "channel", "page"}
            /\ Ask(t, "delete", [kind |-> docs[i].kind, id |-> i])
       \/ docs[i].kind = "monitor" /\ Ask(t, "records", [id |-> i])
       \/ docs[i].kind = "channel" /\ Ask(t, "test", [id |-> i])
       \/ docs[i].kind = "record" /\ Ask(t, "list", [kind |-> "record", ids |-> {i}])
       \/ docs[i].kind = "page" /\ \E c \in Changes(i) : Ask(t, "updatePage", c)
  \/ \E kind \in {"monitor", "channel", "page", "note", "record"} :
       Ask(t, "list", [kind |-> kind, ids |-> DOMAIN docs])
  \/ \E title \in Title, public \in BOOLEAN, i \in Monitors :
       Ask(t, "createPage", [title |-> title, monitors |-> {i}, public |-> public])

\* The handlers that answer with documents, and those whose answer shows none.
Reads(t) == List(t) \/ Records(t)

\* The addresses a visitor may follow.
Addresses == {slugify(title) : title \in Title}

Handle(t) ==
  \/ FindSame(t) \/ CreateThing(t) \/ Edit(t) \/ Delete(t)
  \/ AssertMonitorOwned(t) \/ ComputeScope(t) \/ TestChannel(t) \/ LogTest(t)
  \/ CountPages(t) \/ FindPage(t) \/ ResolveSlug(t) \/ ResolveMonitors(t)
  \/ CreatePage(t) \/ UpdatePage(t)

Next ==
  \/ \E t \in Tab : Reads(t)
  \/ \E t \in Tab : (Requests(t) \/ Handle(t)) /\ shown' = Nothing
  \/ \E slug \in Addresses : Visit(slug)

Spec == Init /\ [][Next]_vars

------------------------------------------------------------------------------
(* Properties *)

OwnerOf(i) == IF docs[i].kind = "record" THEN docs[docs[i].monitor].owner
              ELSE docs[i].owner

\* Every document is of a collection, and every page has an address it may have.
TypeOK ==
  /\ \A i \in DOMAIN docs : docs[i].kind \in {"monitor", "record", "channel", "page", "note"}
  /\ gone \subseteq DOMAIN docs
  /\ \A i \in Of("page") : docs[i].slug \notin Reserved \union {<<>>}

\* No user is ever shown a document of another's, whichever id the request names,
\* even when monitors are deleted between the computing of a scope and its use; and
\* no page, as stored or as served, shows a monitor that is not its owner's.
TenantsAreSeparate ==
  /\ \A i \in shown.ids : OwnerOf(i) = shown.to
  /\ \A i \in Of("page") : \A m \in docs[i].monitors : OwnerOf(m) = docs[i].owner

\* No request changes or deletes a document of another user's.
NobodyElsesIsTouched ==
  [][\A i \in DOMAIN docs :
       docs'[i] # docs[i] \/ (i \in gone' \ gone) =>
         \E t \in Tab : request[t] # NoRequest /\ request'[t] = NoRequest
                          /\ Owner[t] = OwnerOf(i)]_vars

\* One address, one page: however creations and renamings interleave, whoever owns
\* them, the address of a page leads to that page and no other.
OnePagePerAddress ==
  \A i, j \in Of("page") : docs[i].slug = docs[j].slug => i = j

\* The limit of pages is checked before the page is created: requests that overlap
\* can pass it, but by no more than the tabs that were asking.
LimitIsNearlyKept ==
  \A u \in User :
    Cardinality(Pages(u)) <=
      MAX_PAGES_PER_USER + Cardinality({t \in Tab : Owner[t] = u}) - 1

\* statusPage.model.js:6 "A status page is reachable at /status/:slug": not one whose
\* slug was cut behind a dash, which the look-up trims.
PublicPagesAreReachable ==
  \A i \in Of("page") : docs[i].public => i \in PublicPage(docs[i].slug)
===============================================================================
