----------------------------- MODULE Tenant_proofs -----------------------------
(***************************************************************************)
(* What is proved of Tenant, for any number of owners, tabs and requests:  *)
(* owners are kept apart, an address has one page, and the limit of pages  *)
(* is passed by no more than the tabs that were asking.                    *)
(***************************************************************************)
EXTENDS Tenant, FiniteSetTheorems, SequenceTheorems, TLAPS

-----------------------------------------------------------------------------
(* The inductive invariant *)

\* A document has the fields of its collection.
Shaped(d) ==
  /\ "kind" \in DOMAIN d
  /\ d.kind \in {"monitor", "record", "channel", "page", "note"}
  /\ d.kind # "record" => "owner" \in DOMAIN d
  /\ d.kind = "record" => "monitor" \in DOMAIN d
  /\ d.kind = "page" => {"slug", "monitors", "public"} \subseteq DOMAIN d

\* The monitors of a user, deleted or not.
OwnMonitors(u) == {m \in DOMAIN docs : docs[m].kind = "monitor" /\ docs[m].owner = u}

DocsOK ==
  /\ Len(docs) \in Nat /\ docs = [i \in 1..Len(docs) |-> docs[i]]
  /\ \A i \in DOMAIN docs : Shaped(docs[i])
  /\ gone \subseteq DOMAIN docs

\* Records are of monitors; pages have addresses they may have, and show monitors of
\* their owner.
LinksOK ==
  \A i \in DOMAIN docs :
    /\ docs[i].kind = "record" =>
         docs[i].monitor \in DOMAIN docs /\ docs[docs[i].monitor].kind = "monitor"
    /\ docs[i].kind = "page" =>
         Legal(docs[i].slug) /\ docs[i].monitors \subseteq OwnMonitors(docs[i].owner)

\* What a handler has checked before the call it awaits still holds at the call, but
\* for what was deleted: nothing changes hands.
Sound(t) ==
  LET r == request[t]
  IN  /\ r = [op |-> r.op, stage |-> r.stage, args |-> r.args, slug |-> r.slug,
              scope |-> r.scope]
      /\ r.stage \in {"slug", "owned", "writing"} => r.op \in {"createPage", "updatePage"}
      /\ r.stage \in {"owned", "writing"} /\ (r.op = "createPage" \/ "slug" \in r.args.sent)
           => Legal(r.slug)
      /\ r.stage = "writing" => r.args.monitors \subseteq OwnMonitors(Owner[t])
      /\ r.stage = "querying" => r.scope \subseteq OwnMonitors(Owner[t])
      /\ r.op = "edit" => DOMAIN r.args.patch \subseteq {"active", "url", "target"}

RequestsOK == request = [t \in Tab |-> request[t]] /\ \A t \in Tab : Sound(t)

ShownOK == shown.ids \subseteq DOMAIN docs /\ \A i \in shown.ids : OwnerOf(i) = shown.to

TenantInv == DocsOK /\ LinksOK /\ RequestsOK /\ ShownOK /\ OnePagePerAddress

-----------------------------------------------------------------------------
(* The table *)

\* What every operation on the table keeps: nothing changes its collection, its owner
\* or its monitor, and a deleted row stays one.
Keeps ==
  /\ DOMAIN docs \subseteq DOMAIN docs'
  /\ \A i \in DOMAIN docs :
       /\ docs'[i].kind = docs[i].kind
       /\ docs[i].kind # "record" => docs'[i].owner = docs[i].owner
       /\ docs[i].kind = "record" => docs'[i].monitor = docs[i].monitor

\* Appending to a sequence adds one element and keeps the others.
LEMMA AppendIs ==
  ASSUME NEW s, NEW d, Len(s) \in Nat, s = [i \in 1..Len(s) |-> s[i]]
  PROVE  /\ Len(Append(s, d)) = Len(s) + 1
         /\ Append(s, d) = [i \in 1..(Len(s) + 1) |-> IF i <= Len(s) THEN s[i] ELSE d]
<1> DEFINE S == {s[i] : i \in 1..Len(s)} \union {d}
<1>1. s \in [1..Len(s) -> S]
  OBVIOUS
<1>2. s \in Seq(S) /\ d \in S
  BY <1>1
<1> HIDE DEF S
<1>3. /\ Append(s, d) \in Seq(S) /\ Len(Append(s, d)) = Len(s) + 1
      /\ \A i \in 1..(Len(s) + 1) :
           Append(s, d)[i] = IF i <= Len(s) THEN s[i] ELSE d
  BY <1>2
<1>4. Append(s, d) \in [1..(Len(s) + 1) -> S]
  BY <1>3, LenProperties
<1> QED
  BY <1>3, <1>4

\* What a user owns, the user goes on owning.
LEMMA OwnersStay ==
  ASSUME DocsOK, LinksOK, Keeps
  PROVE  /\ \A u : OwnMonitors(u) \subseteq OwnMonitors(u)'
         /\ \A i \in DOMAIN docs : OwnerOf(i)' = OwnerOf(i)
<1>1. \A u : OwnMonitors(u) \subseteq OwnMonitors(u)'
  BY DEF Keeps, OwnMonitors
<1>2. ASSUME NEW i \in DOMAIN docs
      PROVE  OwnerOf(i)' = OwnerOf(i)
  BY <1>2 DEF LinksOK, Keeps, OwnerOf
<1> QED
  BY <1>1, <1>2

\* A new row fits in when it is of its collection and belongs to its owner.
LEMMA AddFits ==
  ASSUME DocsOK, LinksOK, NEW d, Shaped(d), d.kind # "record",
         d.kind = "page" => Legal(d.slug) /\ d.monitors \subseteq OwnMonitors(d.owner),
         Add(d), gone' = gone
  PROVE  /\ DocsOK' /\ LinksOK' /\ Keeps
         /\ DOMAIN docs' = DOMAIN docs \union {Len(docs) + 1}
         /\ Len(docs) + 1 \notin DOMAIN docs
         /\ docs'[Len(docs) + 1] = d
         /\ \A i \in DOMAIN docs : docs'[i] = docs[i]
<1> DEFINE n == Len(docs)
<1>1. n \in Nat /\ docs = [i \in 1..n |-> docs[i]] /\ DOMAIN docs = 1..n
  BY DEF DocsOK
<1>2. Len(docs') = n + 1 /\ docs' = [i \in 1..(n + 1) |-> IF i <= n THEN docs[i] ELSE d]
  BY <1>1, AppendIs DEF Add
<1>3. /\ DOMAIN docs' = DOMAIN docs \union {n + 1} /\ n + 1 \notin DOMAIN docs
      /\ docs'[n + 1] = d
      /\ \A i \in DOMAIN docs : docs'[i] = docs[i]
  BY <1>1, <1>2
<1>4. Keeps
  BY <1>3 DEF Keeps
<1>5. DocsOK'
  <2>1. Len(docs') \in Nat /\ docs' = [i \in 1..Len(docs') |-> docs'[i]]
    BY <1>1, <1>2
  <2>2. \A i \in DOMAIN docs' : Shaped(docs'[i])
    BY <1>3 DEF DocsOK
  <2> QED
    BY <2>1, <2>2, <1>3 DEF DocsOK
<1>6. LinksOK'
  <2>1. \A u : OwnMonitors(u) \subseteq OwnMonitors(u)'
    BY <1>4, OwnersStay
  <2> QED
    BY <2>1, <1>3 DEF LinksOK
<1> QED
  BY <1>3, <1>4, <1>5, <1>6

-----------------------------------------------------------------------------
(* The requests *)

\* A request of a tab of u, as Sound says it.
SoundRequest(r, u) ==
  /\ r = [op |-> r.op, stage |-> r.stage, args |-> r.args, slug |-> r.slug,
              scope |-> r.scope]
  /\ r.stage \in {"slug", "owned", "writing"} => r.op \in {"createPage", "updatePage"}
  /\ r.stage \in {"owned", "writing"} /\ (r.op = "createPage" \/ "slug" \in r.args.sent)
       => Legal(r.slug)
  /\ r.stage = "writing" => r.args.monitors \subseteq OwnMonitors(u)
  /\ r.stage = "querying" => r.scope \subseteq OwnMonitors(u)
  /\ r.op = "edit" => DOMAIN r.args.patch \subseteq {"active", "url", "target"}

\* One tab's request moves on, the table at most grows, and all are sound.
LEMMA RequestMoves ==
  ASSUME DocsOK, LinksOK, RequestsOK, Keeps, NEW t \in Tab, NEW r,
         request' = [request EXCEPT ![t] = r],
         SoundRequest(r, Owner[t])
  PROVE  RequestsOK'
<1>1. \A u : OwnMonitors(u) \subseteq OwnMonitors(u)'
  BY OwnersStay
<1>2. request' = [k \in Tab |-> IF k = t THEN r ELSE request[k]]
  BY DEF RequestsOK
<1>3. ASSUME NEW k \in Tab
      PROVE  Sound(k)'
  <2>1. CASE k = t
    BY <1>1, <1>2, <2>1 DEF SoundRequest, Sound
  <2>2. CASE k # t
    BY <1>1, <1>2, <2>2 DEF RequestsOK, Sound
  <2> QED
    BY <2>1, <2>2
<1> QED
  BY <1>2, <1>3 DEF RequestsOK

\* A tab without a request is sound, whoever its user is.
LEMMA NoRequestSound ==
  \A u : SoundRequest(NoRequest, u)
  BY DEF SoundRequest, NoRequest

\* A request that is answered leaves the others sound.
LEMMA RequestDone ==
  ASSUME DocsOK, LinksOK, RequestsOK, Keeps, NEW t \in Tab, Done(t)
  PROVE  RequestsOK'
  BY RequestMoves, NoRequestSound DEF Done

\* A request that is begun is sound: it carries its user and what that user named.
LEMMA RequestAsked ==
  ASSUME DocsOK, LinksOK, RequestsOK, NEW t \in Tab, Requests(t)
  PROVE  RequestsOK'
<1>1. PICK op, args : /\ Ask(t, op, args)
                      /\ op = "edit" => DOMAIN args.patch \subseteq {"active", "url", "target"}
  <2>1. ASSUME NEW kind, NEW id, NEW patch \in Patches(kind)
        PROVE  DOMAIN [kind |-> kind, id |-> id, patch |-> patch].patch
                 \subseteq {"active", "url", "target"}
    BY <2>1 DEF Patches
  <2>2. CASE \E op, args : Ask(t, op, args) /\ op # "edit"
    BY <2>2
  <2>3. CASE \E i \in DOMAIN docs : \E patch \in Patches(docs[i].kind) :
               Ask(t, "edit", [kind |-> docs[i].kind, id |-> i, patch |-> patch])
    BY <2>1, <2>3
  <2>4. \/ \E op \in {"create", "delete", "records", "test", "list", "createPage", "updatePage"} :
             \E args : Ask(t, op, args)
        \/ \E i \in DOMAIN docs : \E patch \in Patches(docs[i].kind) :
             Ask(t, "edit", [kind |-> docs[i].kind, id |-> i, patch |-> patch])
    BY DEF Requests
  <2> QED
    BY <2>2, <2>3, <2>4
<1> DEFINE r == [op |-> op, stage |-> "begun", args |-> args, slug |-> <<>>, scope |-> {}]
<1>2. Keeps
  BY <1>1 DEF Ask, Keeps
<1>3. SoundRequest(r, Owner[t])
  BY <1>1 DEF SoundRequest
<1>4. request' = [request EXCEPT ![t] = r]
  BY <1>1 DEF Ask
<1> HIDE DEF r
<1> QED
  BY <1>2, <1>3, <1>4, RequestMoves

\* A request, by its fields.
Record(op, stage, args, slug, scope) ==
  [op |-> op, stage |-> stage, args |-> args, slug |-> slug, scope |-> scope]

\* What the assignments to the fields of a request make of it.
LEMMA RequestFields ==
  ASSUME RequestsOK, NEW t \in Tab
  PROVE  /\ \A stage : [request EXCEPT ![t].stage = stage] =
              [request EXCEPT ![t] =
                 Record(request[t].op, stage, request[t].args, request[t].slug,
                        request[t].scope)]
         /\ \A stage, scope : [request EXCEPT ![t].stage = stage, ![t].scope = scope] =
              [request EXCEPT ![t] =
                 Record(request[t].op, stage, request[t].args, request[t].slug, scope)]
         /\ \A stage, slug : [request EXCEPT ![t].slug = slug, ![t].stage = stage] =
              [request EXCEPT ![t] =
                 Record(request[t].op, stage, request[t].args, slug, request[t].scope)]
<1>1. PICK O, S, A, G, C :
        request[t] = [op |-> O, stage |-> S, args |-> A, slug |-> G, scope |-> C]
  BY DEF RequestsOK, Sound
<1>2. \A x, y : [[request EXCEPT ![t] = x] EXCEPT ![t] = y] = [request EXCEPT ![t] = y]
  BY DEF RequestsOK
<1>3. DOMAIN request = Tab
  BY DEF RequestsOK
<1>4. /\ request[t].op = O /\ request[t].args = A
      /\ request[t].slug = G /\ request[t].scope = C
  BY <1>1
<1>5. ASSUME NEW stage
      PROVE  [request EXCEPT ![t].stage = stage] =
               [request EXCEPT ![t] =
                  Record(request[t].op, stage, request[t].args, request[t].slug,
                         request[t].scope)]
  <2>1. [request[t] EXCEPT !.stage = stage] = Record(O, stage, A, G, C)
    BY <1>1 DEF Record
  <2>2. [request EXCEPT ![t].stage = stage] = [request EXCEPT ![t] = Record(O, stage, A, G, C)]
    BY <1>3, <2>1
  <2> QED
    BY <1>4, <2>2
<1>6. ASSUME NEW stage, NEW scope
      PROVE  [request EXCEPT ![t].stage = stage, ![t].scope = scope] =
               [request EXCEPT ![t] =
                  Record(request[t].op, stage, request[t].args, request[t].slug, scope)]
  <2>1. [request[t] EXCEPT !.stage = stage] = Record(O, stage, A, G, C)
    BY <1>1 DEF Record
  <2>2. [Record(O, stage, A, G, C) EXCEPT !.scope = scope] = Record(O, stage, A, G, scope)
    BY DEF Record
  <2>3. [request EXCEPT ![t].stage = stage, ![t].scope = scope] =
          [request EXCEPT ![t] = Record(O, stage, A, G, scope)]
    BY <1>2, <1>3, <2>1, <2>2
  <2> QED
    BY <1>4, <2>3
<1>7. ASSUME NEW stage, NEW slug
      PROVE  [request EXCEPT ![t].slug = slug, ![t].stage = stage] =
               [request EXCEPT ![t] =
                  Record(request[t].op, stage, request[t].args, slug, request[t].scope)]
  <2>1. [request[t] EXCEPT !.slug = slug] = Record(O, S, A, slug, C)
    BY <1>1 DEF Record
  <2>2. [Record(O, S, A, slug, C) EXCEPT !.stage = stage] = Record(O, stage, A, slug, C)
    BY DEF Record
  <2>3. [request EXCEPT ![t].slug = slug, ![t].stage = stage] =
          [request EXCEPT ![t] = Record(O, stage, A, slug, C)]
    BY <1>2, <1>3, <2>1, <2>2
  <2> QED
    BY <1>4, <2>3
<1> QED
  BY <1>5, <1>6, <1>7, Zenon

\* The handlers that only look: the stage they enter is backed by what they saw.
LEMMA RequestLooked ==
  ASSUME DocsOK, LinksOK, RequestsOK, NEW t \in Tab,
         \/ FindSame(t) \/ AssertMonitorOwned(t) \/ ComputeScope(t) \/ TestChannel(t)
         \/ CountPages(t) \/ FindPage(t) \/ ResolveSlug(t) \/ ResolveMonitors(t)
  PROVE  RequestsOK'
<1> DEFINE R == request[t]
           u == Owner[t]
<1>1. Keeps
  BY DEF FindSame, AssertMonitorOwned, ComputeScope, TestChannel, CountPages, FindPage,
         ResolveSlug, ResolveMonitors, Keeps
<1>2. SoundRequest(R, u)
  BY DEF RequestsOK, Sound, SoundRequest
<1>3. /\ \A stage, scope : [request EXCEPT ![t].stage = stage, ![t].scope = scope] =
           [request EXCEPT ![t] =
              Record(request[t].op, stage, request[t].args, request[t].slug, scope)]
      /\ \A stage, slug : [request EXCEPT ![t].slug = slug, ![t].stage = stage] =
           [request EXCEPT ![t] =
              Record(request[t].op, stage, request[t].args, slug, request[t].scope)]
  BY RequestFields
<1>4. ASSUME NEW stage, To(t, stage), stage # "querying",
             stage \in {"slug", "owned", "writing"} => R.op \in {"createPage", "updatePage"},
             stage \in {"owned", "writing"} /\ (R.op = "createPage" \/ "slug" \in R.args.sent)
               => Legal(R.slug),
             stage = "writing" => R.args.monitors \subseteq OwnMonitors(u)
      PROVE  RequestsOK'
  <2>1. request' = [request EXCEPT ![t] = Record(R.op, stage, R.args, R.slug, R.scope)]
    BY <1>4, RequestFields DEF To
  <2>2. SoundRequest(Record(R.op, stage, R.args, R.slug, R.scope), u)
    BY <1>2, <1>4 DEF SoundRequest, Record
  <2> QED
    BY <1>1, <2>1, <2>2, RequestMoves
<1>5. CASE Done(t)
  BY <1>1, <1>5, RequestDone
<1>6. CASE To(t, "creating") \/ To(t, "listing") \/ To(t, "sending")
  BY <1>4, <1>6
<1>7. CASE ComputeScope(t)
  <2> DEFINE scope == ownedMonitorIds(u)
  <2>0. request' = [request EXCEPT ![t].stage = "querying", ![t].scope = scope]
    BY <1>7 DEF ComputeScope
  <2>1. scope \subseteq OwnMonitors(u)
    BY DEF ownedMonitorIds, OwnedDirectly, Of, Live, OwnMonitors
  <2> HIDE DEF scope
  <2>2. request' = [request EXCEPT ![t] = Record(R.op, "querying", R.args, R.slug, scope)]
    <3>1. [request EXCEPT ![t].stage = "querying", ![t].scope = scope] =
            [request EXCEPT ![t] =
               Record(request[t].op, "querying", request[t].args, request[t].slug, scope)]
      BY <1>3, Zenon
    <3> QED
      BY <2>0, <3>1
  <2>3. SoundRequest(Record(R.op, "querying", R.args, R.slug, scope), u)
    BY <1>2, <2>1 DEF SoundRequest, Record
  <2> QED
    BY <1>1, <2>2, <2>3, RequestMoves
<1>8. CASE R.op \in {"createPage", "updatePage"} /\ To(t, "slug")
  BY <1>4, <1>8
<1>9. CASE R.op = "updatePage" /\ "slug" \notin R.args.sent /\ To(t, "owned")
  BY <1>4, <1>9
<1>10. CASE ResolveSlug(t)
  <2> DEFINE slug == slugify(Args(t).title)
  <2>0. request[t].stage = "slug"
        /\ \/ Done(t)
           \/ Legal(slug)
                /\ request' = [request EXCEPT ![t].slug = slug, ![t].stage = "owned"]
    BY <1>10 DEF ResolveSlug
  <2> HIDE DEF slug
  <2>1. CASE Legal(slug) /\ request' = [request EXCEPT ![t].slug = slug, ![t].stage = "owned"]
    <3>1. request' = [request EXCEPT ![t] = Record(R.op, "owned", R.args, slug, R.scope)]
      <4>1. [request EXCEPT ![t].slug = slug, ![t].stage = "owned"] =
              [request EXCEPT ![t] = Record(request[t].op, "owned", request[t].args, slug,
                                            request[t].scope)]
        BY <1>3, Zenon
      <4> QED
        BY <2>1, <4>1
    <3>2. R.op \in {"createPage", "updatePage"}
      BY <1>2, <2>0 DEF SoundRequest
    <3>3. SoundRequest(Record(R.op, "owned", R.args, slug, R.scope), u)
      BY <1>2, <2>1, <3>2 DEF SoundRequest, Record
    <3> QED
      BY <1>1, <3>1, <3>3, RequestMoves
  <2> QED
    BY <1>5, <2>0, <2>1
<1>11. CASE ResolveMonitors(t)
  <2>1. OwnedAll(t) => R.args.monitors \subseteq OwnMonitors(u)
    BY DEF OwnedAll, OwnedDirectly, Of, Live, OwnMonitors, Args
  <2>2. CASE To(t, "writing") /\ OwnedAll(t)
    BY <1>2, <1>4, <1>11, <2>1, <2>2 DEF ResolveMonitors, SoundRequest
  <2> QED
    BY <1>5, <1>11, <2>2 DEF ResolveMonitors
<1> QED
  BY <1>5, <1>6, <1>7, <1>8, <1>9, <1>10, <1>11
     DEF FindSame, AssertMonitorOwned, TestChannel, CountPages, FindPage, At, Args

-----------------------------------------------------------------------------
(* The operations on the table *)

\* Rows rewritten where they stand, with their collection and owner, fit in when each
\* has its fields and its links.
LEMMA RewriteFits ==
  ASSUME DocsOK, LinksOK, gone' = gone,
         DOMAIN docs' = DOMAIN docs, docs' = [i \in DOMAIN docs |-> docs'[i]],
         Keeps,
         \A i \in DOMAIN docs :
           \/ docs'[i] = docs[i]
           \/ /\ Shaped(docs'[i])
              /\ docs'[i].kind = "page" =>
                   Legal(docs'[i].slug) /\ docs'[i].monitors \subseteq OwnMonitors(docs[i].owner)
  PROVE  DocsOK' /\ LinksOK'
<1>2. DOMAIN docs = 1..Len(docs) /\ Len(docs) \in Nat
  BY DEF DocsOK
<1>3. docs' = [i \in 1..Len(docs) |-> docs'[i]] /\ Len(docs') = Len(docs)
  BY <1>2
<1>4. DocsOK'
  BY <1>2, <1>3 DEF DocsOK
<1>5. LinksOK'
  <2>1. \A u : OwnMonitors(u) \subseteq OwnMonitors(u)'
    BY OwnersStay
  <2> QED
    BY <2>1 DEF LinksOK, Keeps
<1> QED
  BY <1>4, <1>5

\* A patch sets none of the fields that say whose a document is and where it belongs.
LEMMA PatchFits ==
  ASSUME NEW d, Shaped(d), NEW patch, DOMAIN patch \subseteq {"active", "url", "target"}
  PROVE  LET e == Patched(d, patch)
         IN  /\ Shaped(e) /\ e.kind = d.kind
             /\ d.kind # "record" => e.owner = d.owner
             /\ d.kind = "record" => e.monitor = d.monitor
             /\ d.kind = "page" => e.slug = d.slug /\ e.monitors = d.monitors
<1> DEFINE e == Patched(d, patch)
<1>1. /\ DOMAIN e = DOMAIN d
      /\ \A field \in DOMAIN d : field \notin {"active", "url", "target"} => e[field] = d[field]
  BY DEF Patched
<1> HIDE DEF e
<1>2. Shaped(e) /\ e.kind = d.kind
  BY <1>1 DEF Shaped
<1>3. /\ d.kind # "record" => e.owner = d.owner
      /\ d.kind = "record" => e.monitor = d.monitor
      /\ d.kind = "page" => e.slug = d.slug /\ e.monitors = d.monitors
  BY <1>1 DEF Shaped
<1> QED
  BY <1>2, <1>3 DEF e

\* What an edit makes of each document.
LEMMA EditIs ==
  ASSUME DocsOK, RequestsOK, NEW t \in Tab, Edit(t)
  PROVE  /\ gone' = gone
         /\ DOMAIN docs' = DOMAIN docs /\ docs' = [i \in DOMAIN docs |-> docs'[i]]
         /\ \A i \in DOMAIN docs :
              /\ Shaped(docs'[i]) /\ docs'[i].kind = docs[i].kind
              /\ docs[i].kind # "record" => docs'[i].owner = docs[i].owner
              /\ docs[i].kind = "record" => docs'[i].monitor = docs[i].monitor
              /\ docs[i].kind = "page" =>
                   docs'[i].slug = docs[i].slug /\ docs'[i].monitors = docs[i].monitors
<1> DEFINE found == Reach(Owner[t], Args(t).kind, Args(t).id)
           patch == Args(t).patch
<1>1. /\ docs' = [i \in DOMAIN docs |->
                    IF i \in found THEN Patched(docs[i], patch) ELSE docs[i]]
      /\ gone' = gone
  BY DEF Edit
<1>2. DOMAIN patch \subseteq {"active", "url", "target"}
  BY DEF Edit, At, RequestsOK, Sound, Args
<1> HIDE DEF found, patch
<1>3. ASSUME NEW i \in DOMAIN docs
      PROVE  /\ Shaped(docs'[i]) /\ docs'[i].kind = docs[i].kind
             /\ docs[i].kind # "record" => docs'[i].owner = docs[i].owner
             /\ docs[i].kind = "record" => docs'[i].monitor = docs[i].monitor
             /\ docs[i].kind = "page" =>
                  docs'[i].slug = docs[i].slug /\ docs'[i].monitors = docs[i].monitors
  <2>1. PICK d : d = docs[i] /\ Shaped(d)
    BY DEF DocsOK
  <2>2. CASE i \in found
    <3>1. docs'[i] = Patched(d, patch)
      BY <1>1, <2>1, <2>2
    <3> QED
      BY <1>2, <2>1, <3>1, PatchFits
  <2> QED
    BY <1>1, <2>1, <2>2
<1> QED
  BY <1>1, <1>3

\* An edit leaves every document its owner's, where it belongs.
LEMMA EditFits ==
  ASSUME DocsOK, LinksOK, RequestsOK, NEW t \in Tab, Edit(t)
  PROVE  DocsOK' /\ LinksOK' /\ Keeps
<1>1. Keeps
  BY EditIs DEF Keeps
<1>2. \A i \in DOMAIN docs :
        /\ Shaped(docs'[i])
        /\ docs'[i].kind = "page" =>
             Legal(docs'[i].slug) /\ docs'[i].monitors \subseteq OwnMonitors(docs[i].owner)
  BY EditIs DEF LinksOK
<1>3. /\ gone' = gone /\ DOMAIN docs' = DOMAIN docs
      /\ docs' = [i \in DOMAIN docs |-> docs'[i]]
  BY EditIs
<1> QED
  BY <1>1, <1>2, <1>3, RewriteFits

\* updateStatusPage() keeps the pages apart, linked to documents of their owner.
LEMMA UpdateFits ==
  ASSUME DocsOK, LinksOK, RequestsOK, NEW t \in Tab, UpdatePage(t)
  PROVE  DocsOK' /\ LinksOK' /\ Keeps
<1> DEFINE found == Reach(Owner[t], "page", Args(t).id)
           sent == Args(t).sent
           moves == "slug" \in sent
           Changed(d) == [d EXCEPT !.slug = IF moves THEN request[t].slug ELSE @,
                                   !.monitors = IF "monitors" \in sent THEN Args(t).monitors
                                                                      ELSE @,
                                   !.public = IF "public" \in sent THEN Args(t).public ELSE @]
<1>1. /\ \/ docs' = docs
         \/ docs' = [i \in DOMAIN docs |-> IF i \notin found THEN docs[i] ELSE Changed(docs[i])]
      /\ gone' = gone
  BY DEF UpdatePage
<1>2. \A i \in found : i \in DOMAIN docs /\ docs[i].kind = "page" /\ docs[i].owner = Owner[t]
  BY DEF Reach, Filter, ById, Of, Live, Scope, OwnedDirectly
<1>3. Args(t).monitors \subseteq OwnMonitors(Owner[t]) /\ (moves => Legal(request[t].slug))
  BY DEF UpdatePage, At, RequestsOK, Sound, Args
<1>4. ASSUME NEW d, Shaped(d), d.kind = "page"
      PROVE  /\ Shaped(Changed(d))
             /\ Changed(d).kind = d.kind /\ Changed(d).owner = d.owner
             /\ Changed(d).slug = IF moves THEN request[t].slug ELSE d.slug
             /\ Changed(d).monitors \in {d.monitors, Args(t).monitors}
  BY <1>4 DEF Shaped
<1>5. CASE docs' = docs
  BY <1>1, <1>5 DEF DocsOK, LinksOK, Keeps, OwnMonitors
<1>6. CASE docs' = [i \in DOMAIN docs |-> IF i \notin found THEN docs[i] ELSE Changed(docs[i])]
  <2> HIDE DEF found, sent, moves, Changed
  <2>1. Keeps
    BY <1>2, <1>4, <1>6 DEF Keeps, DocsOK
  <2>2. \A i \in DOMAIN docs :
          \/ docs'[i] = docs[i]
          \/ /\ Shaped(docs'[i])
             /\ docs'[i].kind = "page" =>
                  Legal(docs'[i].slug) /\ docs'[i].monitors \subseteq OwnMonitors(docs[i].owner)
    BY <1>2, <1>3, <1>4, <1>6 DEF DocsOK, LinksOK
  <2> QED
    BY <1>1, <1>6, <2>1, <2>2, RewriteFits
<1> QED
  BY <1>1, <1>5, <1>6

\* Creations and test rows keep every document its owner's, and take none away.
LEMMA CreateFits ==
  ASSUME DocsOK, LinksOK, RequestsOK, NEW t \in Tab,
         CreateThing(t) \/ LogTest(t) \/ CreatePage(t)
  PROVE  DocsOK' /\ LinksOK' /\ Keeps
<1>1. CASE docs' = docs /\ gone' = gone
  BY <1>1 DEF DocsOK, LinksOK, Keeps, OwnMonitors
<1>2. CASE CreateThing(t)
  <2> DEFINE d == IF Args(t).kind = "monitor"
                  THEN [kind |-> "monitor", owner |-> Owner[t], url |-> Args(t).what,
                        active |-> TRUE]
                  ELSE [kind |-> "channel", owner |-> Owner[t], target |-> Args(t).what,
                        active |-> TRUE]
  <2>1. Add(d) /\ gone' = gone
    BY <1>2 DEF CreateThing
  <2>2. Shaped(d) /\ d.kind \notin {"record", "page"}
    BY DEF Shaped
  <2> HIDE DEF d
  <2> QED
    BY <2>1, <2>2, AddFits
<1>3. CASE LogTest(t)
  <2> DEFINE d == [kind |-> "note", owner |-> Owner[t]]
  <2>1. Shaped(d) /\ d.kind \notin {"record", "page"}
    BY DEF Shaped
  <2>2. gone' = gone /\ Add(d)
    BY <1>3 DEF LogTest
  <2> HIDE DEF d
  <2> QED
    BY <2>1, <2>2, AddFits
<1>4. CASE CreatePage(t)
  <2> DEFINE d == [kind |-> "page", owner |-> Owner[t], slug |-> request[t].slug,
                   monitors |-> Args(t).monitors, public |-> Args(t).public]
  <2>1. Shaped(d) /\ d.kind = "page"
    BY DEF Shaped
  <2>2. Legal(d.slug) /\ d.monitors \subseteq OwnMonitors(d.owner)
    BY <1>4 DEF CreatePage, At, RequestsOK, Sound, Args
  <2>3. gone' = gone /\ (docs' = docs \/ Add(d))
    BY <1>4 DEF CreatePage
  <2> HIDE DEF d
  <2> QED
    BY <1>1, <2>1, <2>2, <2>3, AddFits
<1> QED
  BY <1>2, <1>3, <1>4

\* What a step does to the table, whichever it is.
LEMMA TableStep ==
  ASSUME DocsOK, LinksOK, RequestsOK, [Next]_vars
  PROVE  DocsOK' /\ LinksOK' /\ Keeps
<1>1. CASE UNCHANGED <<docs, gone>>
  BY <1>1 DEF DocsOK, LinksOK, Keeps, OwnMonitors
<1>2. ASSUME NEW t \in Tab, Delete(t)
      PROVE  DocsOK' /\ LinksOK' /\ Keeps
  <2>1. Reach(Owner[t], Args(t).kind, Args(t).id) \subseteq DOMAIN docs
    BY DEF Reach, Filter, ById, Of, Live
  <2>2. docs' = docs /\ gone' \subseteq DOMAIN docs
    BY <1>2, <2>1 DEF Delete, DocsOK
  <2> QED
    BY <2>2 DEF DocsOK, LinksOK, Keeps, OwnMonitors
<1>3. ASSUME NEW t \in Tab, Reads(t)
      PROVE  UNCHANGED <<docs, gone>>
  BY <1>3 DEF Reads, List, Records
<1>4. ASSUME NEW t \in Tab, Requests(t)
      PROVE  UNCHANGED <<docs, gone>>
  BY <1>4 DEF Requests, Ask
<1>5. ASSUME NEW t \in Tab, Handle(t)
      PROVE  DocsOK' /\ LinksOK' /\ Keeps
  <2>1. CASE \/ FindSame(t) \/ AssertMonitorOwned(t) \/ ComputeScope(t) \/ TestChannel(t)
             \/ CountPages(t) \/ FindPage(t) \/ ResolveSlug(t) \/ ResolveMonitors(t)
    BY <1>1, <2>1 DEF FindSame, AssertMonitorOwned, ComputeScope, TestChannel, CountPages,
                      FindPage, ResolveSlug, ResolveMonitors
  <2> QED
    BY <1>2, <1>5, <2>1, CreateFits, EditFits, UpdateFits DEF Handle
<1> QED
  BY <1>1, <1>3, <1>4, <1>5 DEF Next, Visit, vars

\* Every step leaves every request sound about the documents there then are.
LEMMA RequestStep ==
  ASSUME DocsOK, LinksOK, RequestsOK, [Next]_vars
  PROVE  RequestsOK'
<1>1. Keeps
  BY TableStep
<1>2. ASSUME NEW t \in Tab, Done(t)
      PROVE  RequestsOK'
  BY <1>1, <1>2, RequestDone
<1>3. CASE UNCHANGED request
  <2>1. \A u : OwnMonitors(u) \subseteq OwnMonitors(u)'
    BY <1>1, OwnersStay
  <2> QED
    BY <1>3, <2>1 DEF RequestsOK, Sound
<1>4. ASSUME NEW t \in Tab, Reads(t)
      PROVE  RequestsOK'
  BY <1>2, <1>4 DEF Reads, List, Records
<1>5. ASSUME NEW t \in Tab, Handle(t)
      PROVE  RequestsOK'
  <2>1. CASE \/ CreateThing(t) \/ Edit(t) \/ Delete(t) \/ LogTest(t)
             \/ CreatePage(t) \/ UpdatePage(t)
    BY <1>2, <2>1 DEF CreateThing, Edit, Delete, LogTest, CreatePage, UpdatePage
  <2> QED
    BY <1>5, <2>1, RequestLooked DEF Handle
<1> QED
  BY <1>3, <1>4, <1>5, RequestAsked DEF Next, Visit, vars

-----------------------------------------------------------------------------
(* Answers *)

\* What a scope admits is its user's.
LEMMA ScopeIsOwn ==
  ASSUME DocsOK, LinksOK, NEW u, NEW kind, NEW scope, scope \subseteq OwnMonitors(u)
  PROVE  /\ \A i \in byMonitorOwnership(scope) : i \in DOMAIN docs /\ OwnerOf(i) = u
         /\ \A i \in Scope(u, kind) : i \in DOMAIN docs /\ (kind # "record" => docs[i].kind = kind)
                                     /\ OwnerOf(i) = u
<1>1. ASSUME NEW s, s \subseteq OwnMonitors(u), NEW i \in byMonitorOwnership(s)
      PROVE  i \in DOMAIN docs /\ OwnerOf(i) = u
  BY <1>1 DEF byMonitorOwnership, Of, Live, OwnMonitors, OwnerOf
<1>2. ownedMonitorIds(u) \subseteq OwnMonitors(u)
  BY DEF ownedMonitorIds, OwnedDirectly, Of, Live, OwnMonitors
<1>3. ASSUME kind # "record", NEW i \in Scope(u, kind)
      PROVE  i \in DOMAIN docs /\ docs[i].kind = kind /\ OwnerOf(i) = u
  BY <1>3 DEF Scope, OwnedDirectly, Of, Live, OwnerOf
<1> QED
  BY <1>1, <1>2, <1>3 DEF Scope

\* What a page shows is its owner's.
LEMMA PageIsOwn ==
  ASSUME DocsOK, LinksOK, NEW i \in Of("page"), NEW m \in docs[i].monitors
  PROVE  m \in DOMAIN docs /\ OwnerOf(m) = docs[i].owner
BY DEF LinksOK, Of, Live, OwnMonitors, OwnerOf

\* Every step shows each user documents of that user only.
LEMMA ShownStep ==
  ASSUME DocsOK, LinksOK, RequestsOK, ShownOK, [Next]_vars
  PROVE  ShownOK'
<1> DEFINE Own(s) == s.ids \subseteq DOMAIN docs /\ \A i \in s.ids : OwnerOf(i) = s.to
<1>1. ASSUME NEW s, shown' = s, Own(s)
      PROVE  ShownOK'
  <2>1. Keeps
    BY TableStep
  <2>2. \A i \in DOMAIN docs : OwnerOf(i)' = OwnerOf(i)
    BY <2>1, OwnersStay
  <2> QED
    BY <1>1, <2>1, <2>2 DEF ShownOK, Keeps
<1>2. ASSUME NEW to, NEW ids, \A i \in ids : i \in DOMAIN docs /\ OwnerOf(i) = to
      PROVE  Own(Shown(to, ids))
  BY <1>2 DEF Shown
<1> HIDE DEF Own
<1>3. CASE UNCHANGED vars
  BY <1>1, <1>3 DEF vars, ShownOK, Own
<1>4. CASE shown' = Nothing
  BY <1>1, <1>2, <1>4 DEF Nothing
<1>5. ASSUME NEW t \in Tab, List(t)
      PROVE  ShownOK'
  <2> DEFINE found == Filter(Scope(Owner[t], Args(t).kind), ById(Args(t).kind, Args(t).ids))
  <2>1. shown' = Shown(Owner[t], found)
    BY <1>5 DEF List
  <2>2. \A i \in found : i \in Scope(Owner[t], Args(t).kind)
    BY DEF Filter
  <2>3. \A i \in Scope(Owner[t], Args(t).kind) : i \in DOMAIN docs /\ OwnerOf(i) = Owner[t]
    BY ScopeIsOwn
  <2> HIDE DEF found
  <2> QED
    BY <1>1, <1>2, <2>1, <2>2, <2>3
<1>6. ASSUME NEW t \in Tab, Records(t)
      PROVE  ShownOK'
  <2> DEFINE scope == request[t].scope
  <2>1. PICK wanted :
          shown' = Shown(Owner[t], Filter(byMonitorOwnership(scope), wanted))
    BY <1>6 DEF Records
  <2>2. scope \subseteq OwnMonitors(Owner[t])
    BY <1>6 DEF Records, RequestsOK, Sound
  <2> DEFINE found == Filter(byMonitorOwnership(scope), wanted)
  <2>3. \A i \in found : i \in byMonitorOwnership(scope)
    BY DEF Filter
  <2>5. shown' = Shown(Owner[t], found)
    BY <2>1
  <2> HIDE DEF scope, found
  <2>4. \A i \in byMonitorOwnership(scope) : i \in DOMAIN docs /\ OwnerOf(i) = Owner[t]
    BY <2>2, ScopeIsOwn
  <2> QED
    BY <1>1, <1>2, <2>3, <2>4, <2>5
<1>7. ASSUME NEW slug, Visit(slug)
      PROVE  ShownOK'
  <2>1. PICK i \in PublicPage(slug) : shown' = Shown(docs[i].owner, {i} \union (docs[i].monitors \ gone))
    BY <1>7 DEF Visit
  <2>2. i \in Of("page")
    BY DEF PublicPage, WithSlug
  <2>3. i \in DOMAIN docs /\ OwnerOf(i) = docs[i].owner
    BY <2>2 DEF Of, Live, OwnerOf
  <2> QED
    BY <1>1, <1>2, <2>1, <2>2, <2>3, PageIsOwn
<1> QED
  BY <1>3, <1>4, <1>5, <1>6, <1>7 DEF Next, Reads

-----------------------------------------------------------------------------
(* Addresses *)

\* Pages that keep their addresses go on having one each.
LEMMA AddressesStay ==
  ASSUME OnePagePerAddress,
         \A i \in Of("page")' : i \in Of("page") /\ docs'[i].slug = docs[i].slug
  PROVE  OnePagePerAddress'
BY DEF OnePagePerAddress

\* Every step keeps every address to one page.
LEMMA AddressStep ==
  ASSUME DocsOK, LinksOK, RequestsOK, OnePagePerAddress, [Next]_vars
  PROVE  OnePagePerAddress'
<1>1. CASE docs' = docs /\ gone \subseteq gone'
  BY <1>1, AddressesStay DEF Of, Live
<1>2. ASSUME NEW d, d.kind # "page", Shaped(d), d.kind # "record", Add(d), gone' = gone
      PROVE  OnePagePerAddress'
  BY <1>2, AddFits, AddressesStay DEF Of, Live
<1>3. ASSUME NEW t \in Tab, CreateThing(t)
      PROVE  OnePagePerAddress'
  <2> DEFINE d == IF Args(t).kind = "monitor"
                  THEN [kind |-> "monitor", owner |-> Owner[t], url |-> Args(t).what,
                        active |-> TRUE]
                  ELSE [kind |-> "channel", owner |-> Owner[t], target |-> Args(t).what,
                        active |-> TRUE]
  <2>1. Add(d) /\ gone' = gone
    BY <1>3 DEF CreateThing
  <2>2. Shaped(d) /\ d.kind \notin {"record", "page"}
    BY DEF Shaped
  <2> HIDE DEF d
  <2> QED
    BY <1>2, <2>1, <2>2
<1>4. ASSUME NEW t \in Tab, LogTest(t)
      PROVE  OnePagePerAddress'
  <2> DEFINE d == [kind |-> "note", owner |-> Owner[t]]
  <2>1. Shaped(d) /\ d.kind \notin {"record", "page"}
    BY DEF Shaped
  <2>2. gone' = gone /\ Add(d)
    BY <1>4 DEF LogTest
  <2> HIDE DEF d
  <2> QED
    BY <1>2, <2>1, <2>2
\* The unique index: no other page has the slug a page is created with.
<1>5. ASSUME NEW t \in Tab, CreatePage(t)
      PROVE  OnePagePerAddress'
  <2> DEFINE d == [kind |-> "page", owner |-> Owner[t], slug |-> request[t].slug,
                   monitors |-> Args(t).monitors, public |-> Args(t).public]
  <2>1. Shaped(d) /\ d.kind = "page"
    BY DEF Shaped
  <2>2. Legal(d.slug) /\ d.monitors \subseteq OwnMonitors(d.owner)
    BY <1>5 DEF CreatePage, At, RequestsOK, Sound, Args
  <2>3. gone' = gone /\ (docs' = docs \/ (Add(d) /\ SlugFree(d.slug, {})))
    BY <1>5 DEF CreatePage
  <2> HIDE DEF d
  <2>4. CASE Add(d) /\ SlugFree(d.slug, {})
    <3>1. \A i \in Of("page") : docs[i].slug # d.slug
      BY <2>4 DEF SlugFree, WithSlug
    <3>2. /\ DOMAIN docs' = DOMAIN docs \union {Len(docs) + 1}
          /\ docs'[Len(docs) + 1] = d
          /\ \A i \in DOMAIN docs : docs'[i] = docs[i]
      BY <2>1, <2>2, <2>3, <2>4, AddFits
    <3>3. \A i \in Of("page")' :
            (i \in Of("page") /\ docs'[i] = docs[i]) \/ (i = Len(docs) + 1 /\ docs'[i] = d)
      BY <2>3, <3>2 DEF Of, Live
    <3> QED
      BY <3>1, <3>3 DEF OnePagePerAddress
  <2> QED
    BY <1>1, <2>3, <2>4
<1>6. ASSUME NEW t \in Tab, Edit(t)
      PROVE  OnePagePerAddress'
  <2>1. /\ DOMAIN docs' = DOMAIN docs /\ gone' = gone
        /\ \A i \in DOMAIN docs :
             docs'[i].kind = docs[i].kind /\ (docs[i].kind = "page" => docs'[i].slug = docs[i].slug)
    BY <1>6, EditIs
  <2> QED
    BY <2>1, AddressesStay DEF Of, Live
\* The index again: no page but the one renamed, of which there is at most one.
<1>7. ASSUME NEW t \in Tab, UpdatePage(t)
      PROVE  OnePagePerAddress'
  <2> DEFINE found == Reach(Owner[t], "page", Args(t).id)
             slug == request[t].slug
             sent == Args(t).sent
             moves == "slug" \in sent
             Changed(d) == [d EXCEPT !.slug = IF moves THEN slug ELSE @,
                                     !.monitors = IF "monitors" \in sent THEN Args(t).monitors
                                                                        ELSE @,
                                     !.public = IF "public" \in sent THEN Args(t).public ELSE @]
  <2>1. /\ \/ docs' = docs
           \/ /\ ~moves \/ SlugFree(slug, found)
              /\ docs' = [i \in DOMAIN docs |-> IF i \notin found THEN docs[i] ELSE Changed(docs[i])]
        /\ gone' = gone
    BY <1>7 DEF UpdatePage
  <2>2. found \subseteq {Args(t).id}
    BY DEF Reach, Filter, ById
  <2>3. ASSUME NEW d, Shaped(d), d.kind = "page"
        PROVE  /\ Changed(d).kind = d.kind
               /\ Changed(d).slug = IF moves THEN slug ELSE d.slug
    BY <2>3 DEF Shaped
  <2>4. \A i \in found : i \in DOMAIN docs /\ docs[i].kind = "page"
    BY DEF Reach, Filter, ById, Of, Live
  <2> HIDE DEF found, slug, sent, moves, Changed
  <2>5. CASE docs' # docs
    <3>1. \A i \in DOMAIN docs :
            /\ docs'[i].kind = docs[i].kind
            /\ docs[i].kind = "page" =>
                 docs'[i].slug = IF i \in found /\ moves THEN slug ELSE docs[i].slug
      BY <2>1, <2>3, <2>4, <2>5 DEF DocsOK
    <3>2. Of("page")' = Of("page")
      BY <2>1, <2>5, <3>1 DEF Of, Live
    <3>3. CASE ~moves
      BY <3>1, <3>2, <3>3, AddressesStay DEF Of, Live
    <3>4. CASE moves
      <4>1. \A i \in Of("page") : docs[i].slug = slug => i \in found
        BY <2>1, <2>5, <3>4 DEF SlugFree, WithSlug
      <4>2. \A i \in Of("page") : docs'[i].slug = IF i \in found THEN slug ELSE docs[i].slug
        BY <3>1, <3>4 DEF Of, Live
      <4> QED
        BY <2>2, <3>2, <4>1, <4>2 DEF OnePagePerAddress
    <3> QED
      BY <3>3, <3>4
  <2> QED
    BY <1>1, <2>1, <2>5
<1>8. ASSUME NEW t \in Tab, Handle(t)
      PROVE  OnePagePerAddress'
  <2>1. CASE \/ FindSame(t) \/ AssertMonitorOwned(t) \/ ComputeScope(t) \/ Delete(t)
             \/ TestChannel(t) \/ CountPages(t) \/ FindPage(t) \/ ResolveSlug(t) \/ ResolveMonitors(t)
    BY <1>1, <2>1 DEF FindSame, AssertMonitorOwned, ComputeScope, TestChannel, CountPages,
                      FindPage, ResolveSlug, ResolveMonitors, Delete
  <2> QED
    BY <1>3, <1>4, <1>5, <1>6, <1>7, <1>8, <2>1 DEF Handle
<1>9. ASSUME NEW t \in Tab, Reads(t) \/ Requests(t)
      PROVE  docs' = docs /\ gone \subseteq gone'
  BY <1>9 DEF Reads, List, Records, Requests, Ask
<1> QED
  BY <1>1, <1>8, <1>9 DEF Next, Visit, vars

-----------------------------------------------------------------------------

\* Without documents or requests everything holds.
LEMMA TenantInit ==
  ASSUME Init
  PROVE  TenantInv
<1> DEFINE n == Cardinality(User)
<1>1. IsFiniteSet(User) /\ n \in Nat
  <2>1. PICK tabs \in Seq(Tab) : \A t \in Tab : \E i \in 1..Len(tabs) : tabs[i] = t
    BY TenantAssumption DEF IsFiniteSet
  <2> DEFINE users == [i \in 1..Len(tabs) |-> Owner[tabs[i]]]
  <2>2. users \in Seq(User) /\ Len(users) = Len(tabs)
    BY <2>1 DEF User
  <2>3. \A u \in User : \E i \in 1..Len(users) : users[i] = u
    BY <2>1, <2>2 DEF User
  <2>4. IsFiniteSet(User)
    BY <2>2, <2>3 DEF IsFiniteSet
  <2> QED
    BY <2>4, FS_CardinalityType
<1>2. PICK order :
        docs = [i \in 1..(2 * n) |->
                 IF i <= n
                 THEN [kind |-> "monitor", owner |-> order[i],
                       url |-> CHOOSE x \in Url : TRUE, active |-> TRUE]
                 ELSE [kind |-> "record", monitor |-> i - n]]
  BY DEF Init
<1> HIDE DEF n
<1>3. DOMAIN docs = 1..(2 * n) /\ 2 * n \in Nat /\ Len(docs) = 2 * n
  BY <1>1, <1>2
<1>4. \A i \in DOMAIN docs :
        IF i <= n THEN /\ docs[i].kind = "monitor" /\ Shaped(docs[i])
        ELSE /\ docs[i].kind = "record" /\ Shaped(docs[i])
             /\ docs[i].monitor \in DOMAIN docs /\ docs[i].monitor <= n
  BY <1>1, <1>2, <1>3 DEF Shaped
<1>5. gone = {} /\ request = [t \in Tab |-> NoRequest] /\ shown = Nothing
  BY DEF Init
<1>6. DocsOK
  BY <1>2, <1>3, <1>4, <1>5 DEF DocsOK
<1>7. LinksOK
  BY <1>4 DEF LinksOK
<1>8. RequestsOK
  BY <1>5 DEF RequestsOK, Sound, NoRequest
<1>9. ShownOK
  BY <1>5 DEF ShownOK, Nothing, Shown
<1>10. OnePagePerAddress
  BY <1>4 DEF OnePagePerAddress, Of, Live
<1> QED
  BY <1>6, <1>7, <1>8, <1>9, <1>10 DEF TenantInv

\* What is invariant of the table, the requests and the answers.
THEOREM TenantInvariant == Spec => []TenantInv
<1>1. TenantInv /\ [Next]_vars => TenantInv'
  BY TableStep, RequestStep, ShownStep, AddressStep DEF TenantInv
<1> QED
  BY <1>1, TenantInit, PTL DEF Spec

\* For any owners, tabs and documents, and whatever ids the requests name: a read
\* (scopedDao.js) answers with documents of its caller alone, even when the scope was
\* computed before monitors were deleted, and a status page, stored or served, shows
\* monitors of its owner alone.
THEOREM TenantSeparation == Spec => []TenantsAreSeparate
<1>1. TenantInv => TenantsAreSeparate
  <2> SUFFICES ASSUME TenantInv
               PROVE  TenantsAreSeparate
    OBVIOUS
  <2>1. DocsOK /\ LinksOK /\ ShownOK
    BY DEF TenantInv
  <2> QED
    BY <2>1, PageIsOwn DEF TenantsAreSeparate, ShownOK
<1> QED
  BY <1>1, TenantInvariant, PTL

\* However creations and renamings of any owners interleave between the look-up of a
\* slug and the write, the unique index leaves one page for each address.
THEOREM AddressesAreUnique == Spec => []OnePagePerAddress
<1>1. TenantInv => OnePagePerAddress
  BY DEF TenantInv
<1> QED
  BY <1>1, TenantInvariant, PTL

-----------------------------------------------------------------------------
(* Changes *)

\* A write or a deletion reaches documents of its caller alone, whichever id it names.
THEOREM ChangesAreOwn == Spec => NobodyElsesIsTouched
<1> DEFINE Touched(i) == docs'[i] # docs[i] \/ (i \in gone' \ gone)
           Touches(t) == request[t] # NoRequest /\ request'[t] = NoRequest
<1>1. ASSUME TenantInv, Next, NEW i \in DOMAIN docs, Touched(i)
      PROVE  \E t \in Tab : Touches(t) /\ Owner[t] = OwnerOf(i)
  <2>1. DocsOK /\ LinksOK /\ RequestsOK
    BY <1>1 DEF TenantInv
  <2>2. ASSUME NEW t \in Tab, Done(t), request[t].op # "none"
        PROVE  Touches(t)
    BY <2>1, <2>2 DEF Done, RequestsOK, NoRequest
  <2>3. ASSUME NEW t \in Tab, NEW kind, NEW id, i \in Reach(Owner[t], kind, id)
        PROVE  Owner[t] = OwnerOf(i)
    <3>1. i \in Scope(Owner[t], kind)
      BY <2>3 DEF Reach, Filter
    <3> QED
      BY <2>1, <3>1, ScopeIsOwn
  <2>4. ASSUME NEW t \in Tab, Edit(t) \/ Delete(t) \/ UpdatePage(t)
        PROVE  Touches(t) /\ Owner[t] = OwnerOf(i)
    <3>1. Done(t) /\ request[t].op \in {"edit", "delete", "updatePage"}
      BY <2>4 DEF Edit, Delete, UpdatePage, At
    <3>2. \E kind, id : i \in Reach(Owner[t], kind, id)
      BY <1>1, <2>4 DEF Edit, Delete, UpdatePage
    <3> QED
      BY <2>2, <2>3, <3>1, <3>2
  <2>5. ASSUME NEW t \in Tab, CreateThing(t) \/ CreatePage(t) \/ LogTest(t)
        PROVE  FALSE
    <3>1. gone' = gone /\ (docs' = docs \/ \E d : docs' = Append(docs, d))
      BY <2>5 DEF CreateThing, CreatePage, LogTest, Add
    <3>2. PICK d : docs' = Append(docs, d)
      BY <1>1, <3>1
    <3>3. Len(docs) \in Nat /\ docs = [k \in 1..Len(docs) |-> docs[k]]
      BY <2>1 DEF DocsOK
    <3>4. docs' = [k \in 1..(Len(docs) + 1) |-> IF k <= Len(docs) THEN docs[k] ELSE d]
      BY <3>2, <3>3, AppendIs
    <3>5. docs'[i] = docs[i]
      BY <3>3, <3>4
    <3> QED
      BY <1>1, <3>1, <3>5
  <2>6. ASSUME NEW t \in Tab, Handle(t)
        PROVE  Touches(t) /\ Owner[t] = OwnerOf(i)
    <3>1. CASE \/ FindSame(t) \/ AssertMonitorOwned(t) \/ ComputeScope(t)
               \/ TestChannel(t) \/ CountPages(t) \/ FindPage(t) \/ ResolveSlug(t) \/ ResolveMonitors(t)
      BY <1>1, <3>1 DEF FindSame, AssertMonitorOwned, ComputeScope, TestChannel, CountPages,
                        FindPage, ResolveSlug, ResolveMonitors
    <3> QED
      BY <2>4, <2>5, <2>6, <3>1 DEF Handle
  <2> QED
    BY <1>1, <2>6 DEF Next, Reads, List, Records, Requests, Ask, Visit
<1>2. TenantInv /\ [Next]_vars =>
        [\A i \in DOMAIN docs : Touched(i) =>
           \E t \in Tab : request[t] # NoRequest /\ request'[t] = NoRequest
                            /\ Owner[t] = OwnerOf(i)]_vars
  BY <1>1
<1> QED
  BY <1>2, TenantInvariant, PTL DEF Spec, NobodyElsesIsTouched

-----------------------------------------------------------------------------
(* The limit of pages *)

\* The tabs of a user, and those past the count of its pages and short of the write.
Tabs(u) == {t \in Tab : Owner[t] = u}

Past == {"slug", "owned", "writing"}
Asking(u) == {t \in Tabs(u) : request[t].op = "createPage" /\ request[t].stage \in Past}

\* A page that is asked for counts as one already: the count let it through.
LimitOf(u) == Cardinality(Pages(u)) + Cardinality(Asking(u)) <=
                MAX_PAGES_PER_USER + Cardinality(Tabs(u)) - 1

LimitInv == \A u \in User : LimitOf(u)

\* A user's tabs, and those of them that are creating, can be counted.
LEMMA TabsFinite ==
  ASSUME NEW u \in User
  PROVE  /\ IsFiniteSet(Tabs(u)) /\ Cardinality(Tabs(u)) \in Nat \ {0}
         /\ IsFiniteSet(Asking(u)) /\ Cardinality(Asking(u)) \in Nat
         /\ Cardinality(Asking(u)) <= Cardinality(Tabs(u))
<1>1. IsFiniteSet(Tab) /\ Tabs(u) \in SUBSET Tab /\ Asking(u) \in SUBSET Tabs(u)
  BY TenantAssumption DEF Tabs, Asking
<1>2. IsFiniteSet(Tabs(u)) /\ Cardinality(Tabs(u)) \in Nat
  BY <1>1, FS_Subset, FS_CardinalityType
<1>3. IsFiniteSet(Asking(u)) /\ Cardinality(Asking(u)) \in Nat
      /\ Cardinality(Asking(u)) <= Cardinality(Tabs(u))
  BY <1>1, <1>2, FS_Subset, FS_CardinalityType
<1>4. Tabs(u) # {}
  BY DEF Tabs, User
<1>5. Cardinality(Tabs(u)) # 0
  BY <1>2, <1>4, FS_EmptySet
<1> QED
  BY <1>2, <1>3, <1>5

\* A user's pages can be counted.
LEMMA PagesFinite ==
  ASSUME DocsOK, NEW u
  PROVE  IsFiniteSet(Pages(u)) /\ Cardinality(Pages(u)) \in Nat
<1>1. Pages(u) \in SUBSET (1..Len(docs)) /\ Len(docs) \in Nat
  BY DEF DocsOK, Pages, OwnedDirectly, Of, Live
<1>2. IsFiniteSet(1..Len(docs))
  BY <1>1, FS_Interval
<1>3. IsFiniteSet(Pages(u))
  BY <1>1, <1>2, FS_Subset
<1> QED
  BY <1>3, FS_CardinalityType

\* Only createStatusPage's write makes a page.
LEMMA PagesStep ==
  ASSUME DocsOK, LinksOK, RequestsOK, [Next]_vars, NEW u,
         \A t \in Tab : ~ CreatePage(t)
  PROVE  Pages(u)' \subseteq Pages(u)
<1>1. Keeps
  BY TableStep
<1>2. ASSUME gone \subseteq gone', \A i \in DOMAIN docs' \ DOMAIN docs : docs'[i].kind # "page"
      PROVE  Pages(u)' \subseteq Pages(u)
  BY <1>1, <1>2 DEF Keeps, Pages, OwnedDirectly, Of, Live
<1>3. CASE DOMAIN docs' = DOMAIN docs /\ gone \subseteq gone'
  BY <1>2, <1>3
<1>4. ASSUME NEW d, Shaped(d), d.kind \notin {"record", "page"}, Add(d), gone' = gone
      PROVE  Pages(u)' \subseteq Pages(u)
  BY <1>2, <1>4, AddFits
<1>5. ASSUME NEW t \in Tab, CreateThing(t)
      PROVE  Pages(u)' \subseteq Pages(u)
  <2> DEFINE d == IF Args(t).kind = "monitor"
                  THEN [kind |-> "monitor", owner |-> Owner[t], url |-> Args(t).what,
                        active |-> TRUE]
                  ELSE [kind |-> "channel", owner |-> Owner[t], target |-> Args(t).what,
                        active |-> TRUE]
  <2>1. Add(d) /\ gone' = gone
    BY <1>5 DEF CreateThing
  <2>2. Shaped(d) /\ d.kind \notin {"record", "page"}
    BY DEF Shaped
  <2> HIDE DEF d
  <2> QED
    BY <1>4, <2>1, <2>2
<1>6. ASSUME NEW t \in Tab, LogTest(t)
      PROVE  Pages(u)' \subseteq Pages(u)
  <2> DEFINE d == [kind |-> "note", owner |-> Owner[t]]
  <2>1. Shaped(d) /\ d.kind \notin {"record", "page"}
    BY DEF Shaped
  <2>2. gone' = gone /\ Add(d)
    BY <1>6 DEF LogTest
  <2> HIDE DEF d
  <2> QED
    BY <1>4, <2>1, <2>2
<1>7. ASSUME NEW t \in Tab, Handle(t)
      PROVE  Pages(u)' \subseteq Pages(u)
  <2>1. CASE \/ FindSame(t) \/ AssertMonitorOwned(t) \/ ComputeScope(t) \/ Delete(t)
             \/ TestChannel(t) \/ CountPages(t) \/ FindPage(t) \/ ResolveSlug(t) \/ ResolveMonitors(t)
    BY <1>3, <2>1 DEF FindSame, AssertMonitorOwned, ComputeScope, TestChannel, CountPages,
                      FindPage, ResolveSlug, ResolveMonitors, Delete
  <2>2. CASE Edit(t) \/ UpdatePage(t)
    BY <1>3, <2>2 DEF Edit, UpdatePage
  <2> QED
    BY <1>5, <1>6, <1>7, <2>1, <2>2 DEF Handle
<1>8. ASSUME NEW t \in Tab, Reads(t) \/ Requests(t)
      PROVE  docs' = docs /\ gone \subseteq gone'
  BY <1>8 DEF Reads, List, Records, Requests, Ask
<1> QED
  BY <1>3, <1>7, <1>8 DEF Next, Visit, vars

\* Only the count lets a request past it.
LEMMA AskingStep ==
  ASSUME RequestsOK, [Next]_vars, NEW u,
         \A t \in Tab : ~ CountPages(t)
  PROVE  Asking(u)' \subseteq Asking(u)
<1> USE DEF Tabs, Past
<1>1. ASSUME NEW t \in Tab, NEW r, request' = [request EXCEPT ![t] = r],
             r.op = "createPage" /\ r.stage \in Past =>
               request[t].op = "createPage" /\ request[t].stage \in Past
      PROVE  Asking(u)' \subseteq Asking(u)
  BY <1>1 DEF Asking, RequestsOK
<1>2. CASE UNCHANGED request
  BY <1>2 DEF Asking
<1>3. ASSUME NEW t \in Tab, Done(t)
      PROVE  Asking(u)' \subseteq Asking(u)
  BY <1>1, <1>3 DEF Done, NoRequest
<1>4. ASSUME NEW t \in Tab, NEW stage, To(t, stage),
             stage \in Past => request[t].op # "createPage" \/ request[t].stage \in Past
      PROVE  Asking(u)' \subseteq Asking(u)
  <2>1. request' = [request EXCEPT ![t] = Record(request[t].op, stage, request[t].args,
                                                 request[t].slug, request[t].scope)]
    BY <1>4, RequestFields DEF To
  <2> QED
    BY <1>1, <1>4, <2>1 DEF Record
<1>5. ASSUME NEW t \in Tab, Requests(t)
      PROVE  Asking(u)' \subseteq Asking(u)
  <2>1. PICK op, args : request' = [request EXCEPT ![t] = Record(op, "begun", args, <<>>, {})]
    BY <1>5 DEF Requests, Ask, Record
  <2> QED
    BY <1>1, <2>1 DEF Record
<1>6. ASSUME NEW t \in Tab, ComputeScope(t)
      PROVE  Asking(u)' \subseteq Asking(u)
  <2>1. \A stage, scope : [request EXCEPT ![t].stage = stage, ![t].scope = scope] =
           [request EXCEPT ![t] =
              Record(request[t].op, stage, request[t].args, request[t].slug, scope)]
    BY RequestFields
  <2> DEFINE scope == ownedMonitorIds(Owner[t])
  <2>2. request' = [request EXCEPT ![t].stage = "querying", ![t].scope = scope]
    BY <1>6 DEF ComputeScope
  <2> HIDE DEF scope
  <2>3. [request EXCEPT ![t].stage = "querying", ![t].scope = scope] =
          [request EXCEPT ![t] =
             Record(request[t].op, "querying", request[t].args, request[t].slug, scope)]
    BY <2>1, Zenon
  <2> QED
    BY <1>1, <2>2, <2>3 DEF Record, Past
<1>7. ASSUME NEW t \in Tab, ResolveSlug(t)
      PROVE  Asking(u)' \subseteq Asking(u)
  <2>1. \A stage, slug : [request EXCEPT ![t].slug = slug, ![t].stage = stage] =
           [request EXCEPT ![t] = Record(request[t].op, stage, request[t].args, slug,
                                         request[t].scope)]
    BY RequestFields
  <2>2. /\ request[t].stage = "slug"
        /\ \/ Done(t)
           \/ request' = [request EXCEPT ![t].slug = slugify(Args(t).title), ![t].stage = "owned"]
    BY <1>7 DEF ResolveSlug
  <2>3. [request EXCEPT ![t].slug = slugify(Args(t).title), ![t].stage = "owned"] =
          [request EXCEPT ![t] = Record(request[t].op, "owned", request[t].args,
                                        slugify(Args(t).title), request[t].scope)]
    BY <2>1, Zenon
  <2> QED
    BY <1>1, <1>3, <2>2, <2>3 DEF Record
<1>8. ASSUME NEW t \in Tab, Handle(t)
      PROVE  Asking(u)' \subseteq Asking(u)
  <2>1. CASE \/ CreateThing(t) \/ Edit(t) \/ Delete(t) \/ LogTest(t)
             \/ CreatePage(t) \/ UpdatePage(t)
    BY <1>3, <2>1 DEF CreateThing, Edit, Delete, LogTest, CreatePage, UpdatePage
  <2>2. CASE \/ FindSame(t) \/ AssertMonitorOwned(t) \/ TestChannel(t) \/ FindPage(t)
             \/ ResolveMonitors(t)
    BY <1>3, <1>4, <2>2 DEF FindSame, AssertMonitorOwned, TestChannel, FindPage,
                            ResolveMonitors, At
  <2> QED
    BY <1>6, <1>7, <1>8, <2>1, <2>2 DEF Handle
<1>9. ASSUME NEW t \in Tab, Reads(t)
      PROVE  Asking(u)' \subseteq Asking(u)
  BY <1>3, <1>9 DEF Reads, List, Records
<1> QED
  BY <1>2, <1>5, <1>8, <1>9 DEF Next, Visit, vars

\* Every step keeps a user's pages within the limit, but for the requests under way.
LEMMA LimitStep ==
  ASSUME TenantInv, TenantInv', [Next]_vars, NEW u \in User, LimitOf(u)
  PROVE  LimitOf(u)'
<1> DEFINE pages == Cardinality(Pages(u))
           asking == Cardinality(Asking(u))
           tabs == Cardinality(Tabs(u))
<1>1. DocsOK /\ LinksOK /\ RequestsOK /\ DocsOK' /\ RequestsOK'
  BY DEF TenantInv
<1>2. /\ tabs \in Nat \ {0} /\ tabs' = tabs
      /\ IsFiniteSet(Asking(u)) /\ asking \in Nat
      /\ asking' \in Nat /\ asking' <= tabs
      /\ IsFiniteSet(Pages(u)) /\ pages \in Nat /\ pages' \in Nat
      /\ MAX_PAGES_PER_USER \in Nat \ {0}
  <2>1. tabs \in Nat \ {0} /\ IsFiniteSet(Asking(u)) /\ asking \in Nat
    BY TabsFinite
  <2>2. tabs' = tabs
    BY DEF Tabs
  <2>3. Asking(u)' \in SUBSET Tabs(u) /\ IsFiniteSet(Tabs(u))
    BY TabsFinite DEF Asking, Tabs
  <2>4. asking' \in Nat /\ asking' <= tabs
    BY <2>3, FS_Subset, FS_CardinalityType
  <2>5. IsFiniteSet(Pages(u)) /\ pages \in Nat
    BY <1>1, PagesFinite
  <2>6. Pages(u)' \in SUBSET (1..Len(docs')) /\ Len(docs') \in Nat
    BY <1>1 DEF DocsOK, Pages, OwnedDirectly, Of, Live
  <2>7. pages' \in Nat
    <3>1. IsFiniteSet(1..Len(docs'))
      BY <2>6, FS_Interval
    <3>2. IsFiniteSet(Pages(u)')
      BY <2>6, <3>1, FS_Subset
    <3> QED
      BY <3>2, FS_CardinalityType
  <2> QED
    BY <2>1, <2>2, <2>4, <2>5, <2>7, TenantAssumption
<1>3. pages + asking <= MAX_PAGES_PER_USER + tabs - 1
  BY DEF LimitOf
\* Nothing added to either.
<1>4. ASSUME Pages(u)' \subseteq Pages(u), Asking(u)' \subseteq Asking(u)
      PROVE  LimitOf(u)'
  <2>1. pages' <= pages /\ asking' <= asking
    BY <1>2, <1>4, FS_Subset
  <2>2. pages' + asking' <= MAX_PAGES_PER_USER + tabs' - 1
    BY <1>2, <1>3, <2>1
  <2> QED
    BY <2>2 DEF LimitOf, pages, asking, tabs
\* The count: below the limit there is room for all the tabs but one.
<1>5. ASSUME NEW t \in Tab, CountPages(t)
      PROVE  LimitOf(u)'
  <2>1. UNCHANGED <<docs, gone>> /\ pages' = pages
    BY <1>5 DEF CountPages, Pages, OwnedDirectly, Of, Live
  <2>2. CASE Owner[t] = u /\ ~ LimitReached(t)
    <3>1. pages <= MAX_PAGES_PER_USER - 1
      BY <1>2, <2>2 DEF LimitReached
    <3>2. pages' + asking' <= MAX_PAGES_PER_USER + tabs' - 1
      BY <1>2, <2>1, <3>1
    <3> QED
      BY <3>2 DEF LimitOf, pages, asking, tabs
  <2>3. CASE Owner[t] # u \/ LimitReached(t)
    <3>1. Asking(u)' \subseteq Asking(u)
      BY <1>1, <1>5, <2>3 DEF CountPages, Asking, Tabs, Done, To, NoRequest, RequestsOK, Past
    <3> QED
      BY <1>4, <2>1, <3>1 DEF Pages, OwnedDirectly, Of, Live
  <2> QED
    BY <2>2, <2>3
\* The write: the request becomes the page.
<1>6. ASSUME NEW t \in Tab, CreatePage(t)
      PROVE  LimitOf(u)'
  <2>1. /\ request' = [k \in Tab |-> IF k = t THEN NoRequest ELSE request[k]]
        /\ request[t].op = "createPage" /\ request[t].stage = "writing"
    BY <1>1, <1>6 DEF CreatePage, Done, At, RequestsOK
  <2>2. Asking(u)' = Asking(u) \ {t} /\ (Owner[t] = u => t \in Asking(u))
    BY <2>1 DEF Asking, Tabs, Past, NoRequest
  <2> DEFINE d == [kind |-> "page", owner |-> Owner[t], slug |-> request[t].slug,
                   monitors |-> Args(t).monitors, public |-> Args(t).public]
  <2>3. Shaped(d) /\ d.kind = "page" /\ d.owner = Owner[t]
    BY DEF Shaped
  <2>4. Legal(d.slug) /\ d.monitors \subseteq OwnMonitors(d.owner)
    BY <1>1, <1>6 DEF CreatePage, At, RequestsOK, Sound, Args
  <2>5. gone' = gone /\ (docs' = docs \/ Add(d))
    BY <1>6 DEF CreatePage
  <2> HIDE DEF d
  <2>6. CASE docs' = docs
    <3>1. Pages(u)' \subseteq Pages(u)
      BY <2>5, <2>6 DEF Pages, OwnedDirectly, Of, Live
    <3> QED
      BY <1>4, <2>2, <3>1
  <2>7. CASE Add(d)
    <3>1. /\ DOMAIN docs' = DOMAIN docs \union {Len(docs) + 1}
          /\ docs'[Len(docs) + 1] = d
          /\ \A i \in DOMAIN docs : docs'[i] = docs[i]
      BY <1>1, <2>3, <2>4, <2>5, <2>7, AddFits
    <3>2. CASE Owner[t] # u
      <4>1. Pages(u)' \subseteq Pages(u)
        BY <2>3, <2>5, <3>1, <3>2 DEF Pages, OwnedDirectly, Of, Live
      <4> QED
        BY <1>4, <2>2, <4>1
    <3>3. CASE Owner[t] = u
      <4>1. Pages(u)' \subseteq Pages(u) \union {Len(docs) + 1}
        BY <2>3, <2>5, <3>1 DEF Pages, OwnedDirectly, Of, Live
      <4>2. pages' <= pages + 1
        <5>1. /\ IsFiniteSet(Pages(u) \union {Len(docs) + 1})
              /\ Cardinality(Pages(u) \union {Len(docs) + 1}) \in Nat
              /\ Cardinality(Pages(u) \union {Len(docs) + 1}) <= pages + 1
          <6> DEFINE P == Pages(u)
                     i == Len(docs) + 1
          <6>1. /\ IsFiniteSet(P \union {i})
                /\ Cardinality(P \union {i}) = IF i \in P THEN pages ELSE pages + 1
            BY <1>2, FS_AddElement
          <6>2. Cardinality(P \union {i}) \in Nat
            BY <6>1, FS_CardinalityType
          <6> QED
            BY <1>2, <6>1, <6>2
        <5>2. pages' <= Cardinality(Pages(u) \union {Len(docs) + 1})
          BY <4>1, <5>1, FS_Subset
        <5> QED
          BY <1>2, <5>1, <5>2
      <4>3. asking' = asking - 1
        BY <1>2, <2>2, <3>3, FS_RemoveElement
      <4>4. pages' + asking' <= MAX_PAGES_PER_USER + tabs' - 1
        BY <1>2, <1>3, <4>2, <4>3
      <4> QED
        BY <4>4 DEF LimitOf, pages, asking, tabs
    <3> QED
      BY <3>2, <3>3
  <2> QED
    BY <2>5, <2>6, <2>7
<1> QED
  BY <1>1, <1>4, <1>5, <1>6, PagesStep, AskingStep

\* However many requests of a user overlap between the count and the write of
\* createStatusPage, the user's pages pass MAX_PAGES_PER_USER by less than the tabs.
THEOREM LimitHolds == Spec => []LimitIsNearlyKept
<1>1. Init => LimitInv
  <2> SUFFICES ASSUME Init, NEW u \in User
               PROVE  LimitOf(u)
    BY DEF LimitInv
  <2>1. TenantInv
    BY TenantInit
  <2>2. Pages(u) = {} /\ Asking(u) = {}
    BY DEF Init, Pages, OwnedDirectly, Of, Live, Asking, Tabs, NoRequest
  <2>3. Cardinality(Pages(u)) = 0 /\ Cardinality(Asking(u)) = 0
    BY <2>2, FS_EmptySet
  <2> QED
    BY <2>3, TabsFinite, TenantAssumption DEF LimitOf
<1>2. TenantInv /\ TenantInv' /\ LimitInv /\ [Next]_vars => LimitInv'
  BY LimitStep DEF LimitInv, User
<1>3. TenantInv /\ LimitInv => LimitIsNearlyKept
  <2> SUFFICES ASSUME TenantInv, LimitInv, NEW u \in User
               PROVE  Cardinality(Pages(u)) <=
                        MAX_PAGES_PER_USER + Cardinality(Tabs(u)) - 1
    BY DEF LimitIsNearlyKept, Tabs
  <2>1. IsFiniteSet(Pages(u)) /\ Cardinality(Pages(u)) \in Nat
    BY PagesFinite DEF TenantInv
  <2> QED
    BY <2>1, TabsFinite, TenantAssumption DEF LimitInv, LimitOf
<1> QED
  BY <1>1, <1>2, <1>3, TenantInvariant, PTL DEF Spec
====
