----------------------------- MODULE HandlersProofs -----------------------------
(***************************************************************************)
(* The handlers a step at a time, for every instance, plan, tree and       *)
(* payload.                                                                *)
(*                                                                         *)
(* TagHandlers: wherever a merge of tags stops, it has taken no            *)
(* association away (MergeLosesNoCarrier), under TagAssumption, whatever   *)
(* fails, goes unanswered, is retried or is edited by others.              *)
(*                                                                         *)
(* Filesystem: nothing outside the roots is changed (StaysInside), what a  *)
(* preflight passes is done (PassedMeansDone), what is remembered of a     *)
(* folder is true of it (HandedOutIsFresh), under FilesystemAssumption,    *)
(* whatever others write and wherever links lead.                          *)
(***************************************************************************)
EXTENDS TagHandlers, Filesystem, FiniteSetTheorems, SequenceTheorems, WellFoundedInduction, TLAPS

-------------------------------------------------------------------------------
(* Lists of a set, and the sources of a merge.                               *)

\* SetToSeq lists a finite set: its elements, each of them.
LEMMA ListsAll ==
  ASSUME NEW S, IsFiniteSet(S)
  PROVE  /\ SetToSeq(S) \in Seq(S)
         /\ \A x \in S : \E n \in 1 .. Len(SetToSeq(S)) : SetToSeq(S)[n] = x
<1> DEFINE n == Cardinality(S)
           f == SetToSeq(S)
<1>1. n \in Nat /\ ExistsBijection(1 .. n, S)
  BY FS_CardinalityType
<1>2. \E g \in [1 .. n -> S] : IsInjective(g)
  BY <1>1 DEF ExistsBijection, Bijection, Injection
<1>3. f \in [1 .. n -> S] /\ IsInjective(f)
  BY <1>2 DEF SetToSeq
<1>4. f \in Injection(1 .. n, S)
  BY <1>3 DEF Injection
<1>5. Cardinality(1 .. n) = n
  BY <1>1, FS_Interval
<1>6. f \in Surjection(1 .. n, S)
  BY <1>4, <1>5, FS_Injection
<1>7. f \in Seq(S) /\ Len(f) = n
  BY <1>1, <1>3
<1>8. QED
  BY <1>6, <1>7 DEF Surjection

\* The n-th of a finite set of numbers: there is one for each n up to its size.
LEMMA Ranked ==
  ASSUME NEW kept \in SUBSET Nat, IsFiniteSet(kept), NEW n \in 1 .. Cardinality(kept)
  PROVE  \E m \in kept : Cardinality({j \in kept : j <= m}) = n
<1> DEFINE upTo(m) == {j \in kept : j <= m}
           rank == [m \in kept |-> Cardinality(upTo(m))]
           size == Cardinality(kept)
<1>1. size \in Nat
  BY FS_CardinalityType
<1>2. \A m \in kept : IsFiniteSet(upTo(m)) /\ Cardinality(upTo(m)) \in Nat /\ Cardinality(upTo(m)) <= size
  BY FS_Subset, FS_CardinalityType
<1>3. \A m \in kept : Cardinality(upTo(m)) # 0
  <2>1. TAKE m \in kept
  <2>2. m \in upTo(m)
    OBVIOUS
  <2>3. QED
    BY <1>2, <2>2, FS_EmptySet
<1>4. rank \in [kept -> 1 .. size]
  BY <1>1, <1>2, <1>3
<1>5. ASSUME NEW a \in kept, NEW b \in kept, a < b
      PROVE  Cardinality(upTo(a)) # Cardinality(upTo(b))
  <2>1. a \in Nat /\ b \in Nat /\ kept \subseteq Nat
    OBVIOUS
  <2>2. upTo(a) \subseteq upTo(b)
    <3>1. SUFFICES ASSUME NEW j \in kept, j <= a PROVE j <= b
      OBVIOUS
    <3>2. j \in Nat
      BY <2>1
    <3>3. QED
      BY <1>5, <2>1, <3>1, <3>2
  <2>3. b \in upTo(b) /\ b \notin upTo(a)
    BY <1>5, <2>1
  <2>4. IsFiniteSet(upTo(b))
    BY <1>2
  <2>5. QED
    BY <2>2, <2>3, <2>4, FS_Subset
<1>6. IsInjective(rank)
  <2>1. SUFFICES ASSUME NEW a \in kept, NEW b \in kept, rank[a] = rank[b] PROVE a = b
    BY DEF IsInjective
  <2>2. a \in Nat /\ b \in Nat /\ ~(a < b) /\ ~(b < a)
    BY <1>5, <2>1
  <2>3. QED
    BY <2>2
<1>7. rank \in Injection(kept, 1 .. size)
  BY <1>4, <1>6 DEF Injection
<1>8. IsFiniteSet(1 .. size) /\ Cardinality(1 .. size) = size
  BY <1>1, FS_Interval
<1>9. rank \in Surjection(kept, 1 .. size)
  BY <1>7, <1>8, FS_Injection
<1>10. QED
  BY <1>9 DEF Surjection

\* What a merge goes through are its sources other than the target.
LEMMA OthersAreSources ==
  ASSUME NEW args, args.sources \in Seq(Tags)
  PROVE  Others(args) \in Seq(ToSet(args.sources) \ {args.target})
<1> DEFINE kept == {n \in DOMAIN args.sources : args.sources[n] # args.target}
           place(n) == CHOOSE m \in kept : Cardinality({j \in kept : j <= m}) = n
           size == Cardinality(kept)
<1>1. kept \in SUBSET (1 .. Len(args.sources)) /\ Len(args.sources) \in Nat
  OBVIOUS
<1>2. IsFiniteSet(kept)
  BY <1>1, FS_Interval, FS_Subset
<1>3. size \in Nat
  BY <1>2, FS_CardinalityType
<1>4. \A n \in 1 .. size : place(n) \in kept
  <2>1. TAKE n \in 1 .. size
  <2>2. \E m \in kept : Cardinality({j \in kept : j <= m}) = n
    BY <1>1, <1>2, Ranked
  <2>3. QED
    BY <2>2
<1>5. \A n \in 1 .. size : args.sources[place(n)] \in ToSet(args.sources) \ {args.target}
  BY <1>4 DEF ToSet
<1> DEFINE source(n) == args.sources[place(n)]
           S == ToSet(args.sources) \ {args.target}
<1>6. Others(args) = [n \in 1 .. size |-> source(n)]
  BY DEF Others
<1>7. \A n \in 1 .. size : source(n) \in S
  BY <1>5
<1> HIDE DEF source, S, size
<1>8. [n \in 1 .. size |-> source(n)] \in Seq(S)
  BY <1>3, <1>7
<1>9. QED
  BY <1>6, <1>8 DEF S

-------------------------------------------------------------------------------
(* The inductive invariant.                                                  *)

RemoteTyped(r) ==
  /\ r \in [label : {r.label}, on : [Carriers -> SUBSET Tags]]
  /\ DOMAIN r.label \subseteq Tags

JobTyped(j) == j \in [item : {j.item}, todo : {j.todo}, held : {j.held}, made : {j.made}]

IsItem(i) == i \in [op : {i.op}, args : {i.args}, dep : {i.dep}, status : {i.status}, tagId : {i.tagId}]
QueueTyped(q) == q = [k \in DOMAIN q |-> q[k]] /\ \A k \in DOMAIN q : IsItem(q[k])

\* The tags of each merge, and those of a carrier that lost none of its associations.
MergesOf(q) == {k \in DOMAIN q : q[k].op = "tag.merge"}
GroupsOf(q) == {ToSet(q[k].args.sources) \cup {q[k].args.target} : k \in MergesOf(q)}
Kept(groups, before, tags) == \A g \in groups : before \cap g # {} => tags \cap g # {}
AllKept(groups, from, on, hands) == \A c \in Carriers \ hands : Kept(groups, from[c], on[c])

\* A merge takes away its sources, which no other merge gives or takes.
SourcesOf(q, k) == ToSet(q[k].args.sources) \ {q[k].args.target}
Apart(groups, S, t) == \A g \in groups : t \in g \/ g \cap S = {}
OnlyMerges(q) ==
  /\ \A k \in DOMAIN q : q[k].op \in {"tag.rename", "tag.merge"}
  /\ \A k \in MergesOf(q) :
       /\ q[k].args.sources \in Seq(Tags) /\ q[k].args.target \in Tags
       /\ Apart(GroupsOf(q), SourcesOf(q, k), q[k].args.target)

\* The requests of a merge of S into t.
Details(S) == {Detail(s) : s \in S}
Gives(t) ==
  {Bulk(ids, {t}, "add") : ids \in SUBSET Media}
  \cup {PutCollection(c, tags) : c \in Collections, tags \in {u \in SUBSET Tags : t \in u}}
Takes(S) == {Delete(s) : s \in S}
            \cup {Bulk(ids, gone, "remove") : ids \in SUBSET Media, gone \in {{s} : s \in S}}
Calls(S, t) == {ListCollections} \cup Details(S) \cup Gives(t) \cup Takes(S)

GivesTo(call, c, t) ==
  /\ c \in call.carriers /\ t \in call.tags
  /\ call.call = "put" \/ (call.call = "bulk" /\ call.mode = "add")
TakesFrom(call, c, s) ==
  \/ call.call = "delete" /\ call.tag = s
  \/ call.call = "bulk" /\ call.mode = "remove" /\ c \in call.carriers /\ s \in call.tags

\* What is taken from a carrier is taken after it was given the target.
Safe(todo, on, hands, S, t) ==
  \A n \in DOMAIN todo, c \in Carriers \ hands, s \in S :
    TakesFrom(todo[n], c, s) /\ s \in on[c] =>
      t \in on[c] \/ \E m \in DOMAIN todo : m < n /\ GivesTo(todo[m], c, t)

\* What a collection is put to keeps the associations of the other merges.
PutsKeep(todo, groups, from, hands) ==
  \A n \in DOMAIN todo : todo[n].call = "put" =>
    \A c \in todo[n].carriers \ hands : Kept(groups, from[c], todo[n].tags)

DetailsLast(todo, S) ==
  \A m, n \in DOMAIN todo : m < n /\ todo[m] \in Details(S) => todo[n] \in Details(S)

\* The collections as the merge knows them have no source less than they have.
HeldOK(held, groups, from, on, hands, S) ==
  /\ held \in [Collections -> SUBSET Tags]
  /\ \A c \in Collections \ hands : on[c] \cap S \subseteq held[c] /\ Kept(groups, from[c], held[c])

ToList(todo, S) ==
  /\ todo \in Seq({ListCollections} \cup Details(S)) /\ todo # <<>>
  /\ Head(todo) = ListCollections /\ Tail(todo) \in Seq(Details(S))
Listed(todo, held, groups, from, on, hands, S, t) ==
  /\ todo \in Seq(Details(S) \cup Gives(t) \cup Takes(S)) /\ DetailsLast(todo, S)
  /\ HeldOK(held, groups, from, on, hands, S)
  /\ Safe(todo, on, hands, S, t) /\ PutsKeep(todo, groups, from, hands)

JobOK(q, from, on, hands, j) ==
  j.item # 0 =>
    /\ j.item \in DOMAIN q
    /\ q[j.item].op = "tag.rename" =>
         j.todo \in {<<>>, <<Rename(q[j.item].args.tag, q[j.item].args.to)>>}
    /\ q[j.item].op = "tag.merge" =>
         LET S == SourcesOf(q, j.item)
             t == q[j.item].args.target
         IN  ToList(j.todo, S) \/ Listed(j.todo, j.held, GroupsOf(q), from, on, hands, S, t)

MergesGoOn(q, r, j, from, hands) ==
  /\ RemoteTyped(r) /\ JobTyped(j) /\ OnlyMerges(q)
  /\ AllKept(GroupsOf(q), from, r.on, hands)
  /\ JobOK(q, from, r.on, hands, j)

IInv == QueueTyped(queue) /\ (GroupsOf(queue) # {} => MergesGoOn(queue, remote, job, start.on, touched))

LEMMA InvMeansKept ==
  ASSUME IInv
  PROVE  MergeLosesNoCarrier
<1>1. SUFFICES ASSUME NEW k \in Merges, NEW c \in Untouched, start.on[c] \cap Group(k) # {}
               PROVE  remote.on[c] \cap Group(k) # {}
  BY DEF MergeLosesNoCarrier
<1>2. Group(k) \in GroupsOf(queue)
  BY <1>1 DEF Merges, Group, GroupsOf, MergesOf
<1>3. Kept(GroupsOf(queue), start.on[c], remote.on[c])
  BY <1>1, <1>2 DEF IInv, MergesGoOn, AllKept, Untouched
<1>4. QED
  BY <1>1, <1>2, <1>3 DEF Kept

-------------------------------------------------------------------------------
(* One request of a merge.                                                   *)

\* What there is to know of it.
LEMMA CallFields ==
  /\ ListCollections.call = "collections"
  /\ \A s : Detail(s).call = "detail" /\ Detail(s).tag = s
  /\ \A s : Delete(s).call = "delete" /\ Delete(s).tag = s
  /\ \A s, to : Rename(s, to).call = "rename" /\ Rename(s, to).tag = s /\ Rename(s, to).tags = to
  /\ \A ids, tags, mode :
       /\ Bulk(ids, tags, mode).call = "bulk" /\ Bulk(ids, tags, mode).carriers = ids
       /\ Bulk(ids, tags, mode).tags = tags /\ Bulk(ids, tags, mode).mode = mode
  /\ \A d, tags :
       /\ PutCollection(d, tags).call = "put" /\ PutCollection(d, tags).carriers = {d}
       /\ PutCollection(d, tags).tags = tags /\ PutCollection(d, tags).mode = "replace"
BY DEF Detail, ListCollections, Delete, Rename, Bulk, PutCollection, Call

LEMMA Reads ==
  ASSUME NEW call, call.call \in {"detail", "collections", "get"}
  PROVE  After(call) = remote
BY DEF After

LEMMA EditsOn ==
  ASSUME RemoteTyped(remote), NEW call, call.call \in {"bulk", "put"}
  PROVE  After(call) = [label |-> remote.label,
                        on |-> [c \in Carriers |->
                          IF c \in call.carriers THEN With(remote.on[c], call.mode, call.tags) ELSE remote.on[c]]]
BY DEF After, RemoteTyped

LEMMA Deletes ==
  ASSUME NEW call, call.call = "delete"
  PROVE  After(call) = [label |-> [t \in DOMAIN remote.label \ {call.tag} |-> remote.label[t]],
                        on |-> [c \in Carriers |-> remote.on[c] \ {call.tag}]]
BY DEF After

\* The kinds of requests of a merge of S into t.
LEMMA Kinds ==
  ASSUME NEW S, NEW t, NEW call \in Calls(S, t)
  PROVE  \/ call.call = "collections" /\ call = ListCollections
         \/ call.call = "detail" /\ call \in Details(S)
         \/ call.call = "bulk" /\ call.mode = "add" /\ call.carriers \in SUBSET Media /\ call.tags = {t}
         \/ /\ call.call = "put" /\ call.mode = "replace" /\ t \in call.tags /\ call.tags \in SUBSET Tags
            /\ \E d \in Collections : call.carriers = {d}
         \/ call.call = "delete" /\ call.tag \in S
         \/ /\ call.call = "bulk" /\ call.mode = "remove" /\ call.carriers \in SUBSET Media
            /\ \E s \in S : call.tags = {s}
<1>1. CASE call = ListCollections
  BY <1>1, CallFields
<1>2. CASE call \in Details(S)
  BY <1>2, CallFields DEF Details
<1>3. CASE call \in {Bulk(ids, {t}, "add") : ids \in SUBSET Media}
  BY <1>3, CallFields
<1>4. CASE call \in {PutCollection(c, tags) : c \in Collections, tags \in {u \in SUBSET Tags : t \in u}}
  BY <1>4, CallFields
<1>5. CASE call \in {Delete(s) : s \in S}
  BY <1>5, CallFields
<1>6. CASE call \in {Bulk(ids, gone, "remove") : ids \in SUBSET Media, gone \in {{s} : s \in S}}
  BY <1>6, CallFields
<1>7. CASE call \in Gives(t)
  <2>1. \/ call \in {Bulk(ids, {t}, "add") : ids \in SUBSET Media}
        \/ call \in {PutCollection(c, tags) : c \in Collections, tags \in {u \in SUBSET Tags : t \in u}}
    BY <1>7 DEF Gives
  <2>2. QED
    BY <2>1, <1>3, <1>4
<1>8. CASE call \in Takes(S)
  <2>1. \/ call \in {Delete(s) : s \in S}
        \/ call \in {Bulk(ids, gone, "remove") : ids \in SUBSET Media, gone \in {{s} : s \in S}}
    BY <1>8 DEF Takes
  <2>2. QED
    BY <2>1, <1>5, <1>6
<1>9. QED
  BY <1>1, <1>2, <1>7, <1>8 DEF Calls

\* What a request leaves of the tags of a carrier.
Effect(call, c, before, after, S, t) ==
  \/ /\ GivesTo(call, c, t) /\ t \in after
     /\ \/ call.call = "put" /\ c \in Collections /\ after = call.tags
        \/ call.call = "bulk" /\ c \in Media /\ after = before \cup {t}
  \/ /\ ~GivesTo(call, c, t)
     /\ \/ after = before
        \/ \E s \in S : TakesFrom(call, c, s) /\ after = before \ {s}

LEMMA CallEffect ==
  ASSUME TagAssumption, RemoteTyped(remote), NEW S \in SUBSET Tags, NEW t \in Tags, t \notin S,
         NEW call \in Calls(S, t)
  PROVE  /\ RemoteTyped(After(call))
         /\ \A c \in Carriers : Effect(call, c, remote.on[c], After(call).on[c], S, t)
<1> DEFINE after == After(call)
<1>1. remote.on \in [Carriers -> SUBSET Tags] /\ DOMAIN remote.label \subseteq Tags
  BY DEF RemoteTyped
<1>2. CASE call.call \in {"collections", "detail"}
  <2>1. after = remote
    BY <1>2, Reads
  <2>2. ASSUME NEW c \in Carriers PROVE Effect(call, c, remote.on[c], after.on[c], S, t)
    BY <1>2, <2>1 DEF Effect, GivesTo
  <2>3. QED
    BY <2>1, <2>2
<1>3. ASSUME call.call \in {"bulk", "put"},
             \A c \in call.carriers \cap Carriers : With(remote.on[c], call.mode, call.tags) \in SUBSET Tags
      PROVE  /\ RemoteTyped(after)
             /\ \A c \in Carriers : after.on[c] =
                  IF c \in call.carriers THEN With(remote.on[c], call.mode, call.tags) ELSE remote.on[c]
  <2> DEFINE on == [c \in Carriers |->
                     IF c \in call.carriers THEN With(remote.on[c], call.mode, call.tags) ELSE remote.on[c]]
  <2>1. after = [label |-> remote.label, on |-> on]
    BY <1>3, EditsOn
  <2>2. on \in [Carriers -> SUBSET Tags]
    BY <1>1, <1>3
  <2>3. \A c \in Carriers : on[c] =
          IF c \in call.carriers THEN With(remote.on[c], call.mode, call.tags) ELSE remote.on[c]
    OBVIOUS
  <2> HIDE DEF on, after
  <2>4. RemoteTyped(after)
    BY <1>1, <2>1, <2>2 DEF RemoteTyped
  <2>5. after.on = on
    BY <2>1
  <2>6. QED
    BY <2>3, <2>4, <2>5
<1>4. CASE call.call = "bulk" /\ call.mode = "add" /\ call.carriers \in SUBSET Media /\ call.tags = {t}
  <2>1. \A c \in Carriers : With(remote.on[c], call.mode, call.tags) = remote.on[c] \cup {t}
    BY <1>4 DEF With
  <2>2. /\ RemoteTyped(after)
        /\ \A c \in Carriers : after.on[c] = IF c \in call.carriers THEN remote.on[c] \cup {t} ELSE remote.on[c]
    BY <1>1, <1>3, <1>4, <2>1
  <2> HIDE DEF after
  <2>3. ASSUME NEW c \in Carriers PROVE Effect(call, c, remote.on[c], after.on[c], S, t)
    BY <1>4, <2>2 DEF Effect, GivesTo
  <2>4. QED
    BY <2>2, <2>3 DEF after
<1>5. CASE /\ call.call = "put" /\ call.mode = "replace" /\ t \in call.tags /\ call.tags \in SUBSET Tags
           /\ \E d \in Collections : call.carriers = {d}
  <2>1. \A c \in Carriers : With(remote.on[c], call.mode, call.tags) = call.tags
    BY <1>5 DEF With
  <2>2. /\ RemoteTyped(after)
        /\ \A c \in Carriers : after.on[c] = IF c \in call.carriers THEN call.tags ELSE remote.on[c]
    BY <1>1, <1>3, <1>5, <2>1
  <2> HIDE DEF after
  <2>3. ASSUME NEW c \in Carriers PROVE Effect(call, c, remote.on[c], after.on[c], S, t)
    BY <1>5, <2>2 DEF Effect, GivesTo
  <2>4. QED
    BY <2>2, <2>3 DEF after
<1>6. CASE call.call = "delete" /\ call.tag \in S
  <2> DEFINE label == [u \in DOMAIN remote.label \ {call.tag} |-> remote.label[u]]
             on == [c \in Carriers |-> remote.on[c] \ {call.tag}]
  <2>1. after = [label |-> label, on |-> on]
    BY <1>6, Deletes
  <2>2. DOMAIN label \subseteq Tags /\ on \in [Carriers -> SUBSET Tags]
        /\ \A c \in Carriers : on[c] = remote.on[c] \ {call.tag}
    BY <1>1
  <2> HIDE DEF label, on, after
  <2>3. RemoteTyped(after) /\ after.on = on
    BY <2>1, <2>2 DEF RemoteTyped
  <2>4. ASSUME NEW c \in Carriers PROVE Effect(call, c, remote.on[c], after.on[c], S, t)
    BY <1>6, <2>2, <2>3 DEF Effect, GivesTo, TakesFrom
  <2>5. QED
    BY <2>3, <2>4 DEF after
<1>7. CASE /\ call.call = "bulk" /\ call.mode = "remove" /\ call.carriers \in SUBSET Media
           /\ \E s \in S : call.tags = {s}
  <2>1. PICK s \in S : call.tags = {s}
    BY <1>7
  <2>2. \A c \in Carriers : With(remote.on[c], call.mode, call.tags) = remote.on[c] \ {s}
    BY <1>7, <2>1 DEF With
  <2>3. /\ RemoteTyped(after)
        /\ \A c \in Carriers : after.on[c] = IF c \in call.carriers THEN remote.on[c] \ {s} ELSE remote.on[c]
    BY <1>1, <1>3, <1>7, <2>2
  <2> HIDE DEF after
  <2>4. ASSUME NEW c \in Carriers PROVE Effect(call, c, remote.on[c], after.on[c], S, t)
    BY <1>7, <2>1, <2>3 DEF Effect, GivesTo, TakesFrom
  <2>5. QED
    BY <2>3, <2>4 DEF after
<1>8. \/ call.call \in {"collections", "detail"}
      \/ call.call = "bulk" /\ call.mode = "add" /\ call.carriers \in SUBSET Media /\ call.tags = {t}
      \/ /\ call.call = "put" /\ call.mode = "replace" /\ t \in call.tags /\ call.tags \in SUBSET Tags
         /\ \E d \in Collections : call.carriers = {d}
      \/ call.call = "delete" /\ call.tag \in S
      \/ /\ call.call = "bulk" /\ call.mode = "remove" /\ call.carriers \in SUBSET Media
         /\ \E s \in S : call.tags = {s}
  BY Kinds
<1>9. QED
  BY <1>2, <1>4, <1>5, <1>6, <1>7, <1>8

\* A request that gives first, or takes from carriers that have the target, keeps
\* the associations of every merge.
LEMMA CallKeeps ==
  ASSUME TagAssumption, RemoteTyped(remote), NEW S \in SUBSET Tags, NEW t \in Tags, t \notin S,
         NEW call \in Calls(S, t),
         NEW groups, Apart(groups, S, t), NEW from, NEW hands,
         AllKept(groups, from, remote.on, hands),
         call.call = "put" => \A c \in call.carriers \ hands : Kept(groups, from[c], call.tags),
         \A c \in Carriers \ hands, s \in S : TakesFrom(call, c, s) /\ s \in remote.on[c] => t \in remote.on[c]
  PROVE  AllKept(groups, from, After(call).on, hands)
<1>1. SUFFICES ASSUME NEW c \in Carriers \ hands, NEW g \in groups, from[c] \cap g # {}
               PROVE  After(call).on[c] \cap g # {}
  BY DEF AllKept, Kept
<1> DEFINE on == After(call).on[c]
<1>2. remote.on[c] \cap g # {}
  BY <1>1 DEF AllKept, Kept
<1>3. Effect(call, c, remote.on[c], on, S, t)
  BY CallEffect
<1>4. t \in g \/ g \cap S = {}
  BY DEF Apart
<1> HIDE DEF on
<1>5. CASE call.call = "put" /\ GivesTo(call, c, t) /\ on = call.tags
  <2>1. Kept(groups, from[c], call.tags)
    BY <1>5 DEF GivesTo
  <2>2. QED
    BY <1>1, <1>5, <2>1 DEF Kept, on
<1>6. CASE on = remote.on[c] \cup {t}
  BY <1>2, <1>6 DEF on
<1>7. CASE on = remote.on[c]
  BY <1>2, <1>7 DEF on
<1>8. CASE \E s \in S : TakesFrom(call, c, s) /\ on = remote.on[c] \ {s}
  <2>1. PICK s \in S : TakesFrom(call, c, s) /\ on = remote.on[c] \ {s}
    BY <1>8
  <2>2. CASE s \notin remote.on[c]
    <3>1. on = remote.on[c]
      BY <2>1, <2>2
    <3>2. QED
      BY <1>2, <3>1 DEF on
  <2>3. CASE s \in remote.on[c]
    <3>1. t \in remote.on[c]
      BY <2>1, <2>3
    <3>2. t \in on
      BY <2>1, <3>1
    <3>3. QED
      BY <1>2, <1>4, <2>1, <3>2 DEF on
  <2>4. QED
    BY <2>2, <2>3
<1>9. QED
  BY <1>3, <1>5, <1>6, <1>7, <1>8 DEF Effect

-------------------------------------------------------------------------------
(* The requests of a merge, answered one by one.                             *)

\* One element or none, and the elements of three lists in a row.
LEMMA OneOrNone ==
  ASSUME NEW X, NEW x \in X
  PROVE  <<x>> \in Seq(X) /\ <<>> \in Seq(X) /\ Len(<<x>>) = 1 /\ <<x>>[1] = x /\ Len(<<>>) = 0
OBVIOUS

LEMMA InARow ==
  ASSUME NEW X, NEW A \in Seq(X), NEW B \in Seq(X)
  PROVE  /\ A \o B \in Seq(X) /\ DOMAIN (A \o B) = 1 .. Len(A \o B) /\ Len(A \o B) = Len(A) + Len(B)
         /\ Len(A) \in Nat /\ Len(B) \in Nat
         /\ \A n \in 1 .. Len(A) : (A \o B)[n] = A[n]
         /\ \A n \in 1 .. Len(B) : (A \o B)[Len(A) + n] = B[n]
OBVIOUS

LEMMA Retyped ==
  ASSUME NEW X, NEW Y, NEW R \in Seq(X), \A n \in 1 .. Len(R) : R[n] \in Y
  PROVE  R \in Seq(Y)
OBVIOUS

LEMMA OfElements ==
  ASSUME NEW X, NEW R \in Seq(X)
  PROVE  R = [n \in DOMAIN R |-> R[n]] /\ \A n \in DOMAIN R : R[n] \in X
OBVIOUS

LEMMA NoneBefore ==
  ASSUME NEW X, NEW R \in Seq(X)
  PROVE  <<>> \o R = R /\ <<>> \in Seq(X)
OBVIOUS

\* What follows from the detail of a source gives the target to all that carries the
\* source, before it takes the source away.
LEMMA MergeOneShape ==
  ASSUME TagAssumption, RemoteTyped(remote), NEW S \in SUBSET Tags, NEW t \in Tags, t \notin S,
         NEW args, args.target = t, NEW s \in S,
         NEW groups, Apart(groups, S, t), NEW from, NEW hands,
         HeldOK(job.held, groups, from, remote.on, hands, S)
  PROVE  /\ MergeOne(s, args) \in Seq(Gives(t) \cup Takes(S))
         /\ Safe(MergeOne(s, args), remote.on, hands, S, t)
         /\ PutsKeep(MergeOne(s, args), groups, from, hands)
<1> DEFINE X == Gives(t) \cup Takes(S)
           media == CarriedBy(s)
           colls == HeldWith(s)
           put(c) == Merged(job.held[c], s, args)
           A == IF media # {} THEN <<Bulk(media, {t}, "add")>> ELSE <<>>
           B == [n \in DOMAIN colls |-> PutCollection(colls[n], put(colls[n]))]
           C == IF args.deleteSources THEN <<Delete(s)>>
                ELSE IF media # {} THEN <<Bulk(media, {s}, "remove")>> ELSE <<>>
<1>1. MergeOne(s, args) = A \o B \o C
  BY DEF MergeOne
<1>2. media \in SUBSET Media /\ \A c \in Media : s \in remote.on[c] => c \in media
  BY DEF CarriedBy
<1>3. /\ colls \in Seq({c \in Collections : s \in job.held[c]})
      /\ \A c \in Collections : s \in job.held[c] => \E n \in 1 .. Len(colls) : colls[n] = c
  <2> DEFINE with == {c \in DOMAIN job.held : s \in job.held[c]}
  <2>1. with = {c \in Collections : s \in job.held[c]}
    BY DEF HeldOK
  <2>2. IsFiniteSet(with)
    BY <2>1, FS_Subset DEF TagAssumption
  <2>3. QED
    BY <2>1, <2>2, ListsAll DEF HeldWith
<1>4. \A c \in Collections : put(c) \in {u \in SUBSET Tags : t \in u}
  BY DEF HeldOK, Merged
<1>5. \A c \in Collections \ hands : Kept(groups, from[c], put(c))
  <2>1. SUFFICES ASSUME NEW c \in Collections \ hands, NEW g \in groups, from[c] \cap g # {}
                 PROVE  put(c) \cap g # {}
    BY DEF Kept
  <2>2. job.held[c] \cap g # {}
    BY <2>1 DEF HeldOK, Kept
  <2>3. t \in g \/ s \notin g
    BY DEF Apart
  <2>4. t \in put(c) /\ job.held[c] \ {s} \subseteq put(c)
    BY DEF Merged
  <2>5. QED
    BY <2>2, <2>3, <2>4
<1> HIDE DEF media, colls, put
<1>6. A \in Seq(X) /\ \A n \in 1 .. Len(A) : A[n] = Bulk(media, {t}, "add")
  <2> DEFINE x == Bulk(media, {t}, "add")
  <2>1. x \in X
    BY <1>2 DEF Gives
  <2> HIDE DEF X, x
  <2>2. <<x>> \in Seq(X) /\ <<>> \in Seq(X) /\ Len(<<x>>) = 1 /\ <<x>>[1] = x /\ Len(<<>>) = 0
    BY <2>1, OneOrNone
  <2>3. A = <<x>> \/ A = <<>>
    BY DEF x
  <2> HIDE DEF A
  <2>4. A \in Seq(X) /\ \A n \in 1 .. Len(A) : A[n] = x
    <3>1. CASE A = <<x>>
      BY <2>2, <3>1
    <3>2. CASE A = <<>>
      BY <2>2, <3>2
    <3>3. QED
      BY <2>3, <3>1, <3>2
  <2>5. QED
    BY <2>4 DEF x
<1>7. media # {} => Len(A) = 1
  OBVIOUS
<1>8. C \in Seq(X) /\ \A n \in 1 .. Len(C) : C[n] = Delete(s) \/ C[n] = Bulk(media, {s}, "remove")
  <2> DEFINE x == Delete(s)
             y == Bulk(media, {s}, "remove")
  <2>1. x \in X
    BY DEF Takes
  <2>2. y \in X
    BY <1>2 DEF Takes
  <2> HIDE DEF X, x, y
  <2>3. /\ <<x>> \in Seq(X) /\ <<>> \in Seq(X) /\ Len(<<x>>) = 1 /\ <<x>>[1] = x /\ Len(<<>>) = 0
        /\ <<y>> \in Seq(X) /\ Len(<<y>>) = 1 /\ <<y>>[1] = y
    BY <2>1, <2>2, OneOrNone
  <2>4. C = <<x>> \/ C = <<y>> \/ C = <<>>
    BY DEF x, y
  <2> HIDE DEF C
  <2>5. C \in Seq(X) /\ \A n \in 1 .. Len(C) : C[n] = x \/ C[n] = y
    <3>1. CASE C = <<x>>
      BY <2>3, <3>1
    <3>2. CASE C = <<y>>
      BY <2>3, <3>2
    <3>3. CASE C = <<>>
      BY <2>3, <3>3
    <3>4. QED
      BY <2>4, <3>1, <3>2, <3>3
  <2>6. QED
    BY <2>5 DEF x, y
<1>9. B \in Seq(X) /\ Len(B) = Len(colls)
      /\ \A n \in 1 .. Len(B) : colls[n] \in Collections /\ B[n] = PutCollection(colls[n], put(colls[n]))
  <2>1. DOMAIN colls = 1 .. Len(colls) /\ Len(colls) \in Nat
    BY <1>3
  <2>2. \A n \in 1 .. Len(colls) : colls[n] \in Collections
    BY <1>3
  <2>3. \A n \in 1 .. Len(colls) : PutCollection(colls[n], put(colls[n])) \in X
    BY <1>4, <2>2 DEF Gives
  <2>4. QED
    BY <2>1, <2>2, <2>3
<1> HIDE DEF A, B, C, X
<1> DEFINE D == A \o B \o C
<1>10. /\ D \in Seq(X) /\ DOMAIN D = 1 .. Len(A) + Len(B) + Len(C)
       /\ Len(A) \in Nat /\ Len(B) \in Nat /\ Len(C) \in Nat
       /\ \A n \in 1 .. Len(A) : D[n] = A[n]
       /\ \A n \in 1 .. Len(B) : D[Len(A) + n] = B[n]
       /\ \A n \in 1 .. Len(C) : D[Len(A) + Len(B) + n] = C[n]
  <2> DEFINE E == A \o B
  <2>1. /\ E \in Seq(X) /\ Len(E) = Len(A) + Len(B) /\ Len(A) \in Nat /\ Len(B) \in Nat
        /\ \A n \in 1 .. Len(A) : E[n] = A[n]
        /\ \A n \in 1 .. Len(B) : E[Len(A) + n] = B[n]
    <3>1. A \in Seq(X) /\ B \in Seq(X)
      BY <1>6, <1>9
    <3>2. QED
      BY <3>1, InARow
  <2> HIDE DEF E
  <2>2. /\ E \o C \in Seq(X) /\ DOMAIN (E \o C) = 1 .. Len(E \o C) /\ Len(E \o C) = Len(E) + Len(C) /\ Len(C) \in Nat
        /\ \A n \in 1 .. Len(E) : (E \o C)[n] = E[n]
        /\ \A n \in 1 .. Len(C) : (E \o C)[Len(E) + n] = C[n]
    <3>1. C \in Seq(X) /\ E \in Seq(X)
      BY <1>8, <2>1
    <3>2. QED
      BY <3>1, InARow
  <2>3. D = E \o C
    BY DEF E
  <2> HIDE DEF D
  <2>4. \A n \in 1 .. Len(A) : n \in 1 .. Len(E)
    BY <2>1
  <2>5. \A n \in 1 .. Len(B) : Len(A) + n \in 1 .. Len(E)
    BY <2>1
  <2>6. QED
    BY <2>1, <2>2, <2>3, <2>4, <2>5
<1>11. \A n \in DOMAIN D :
         n \in 1 .. Len(A) \/ n - Len(A) \in 1 .. Len(B) \/ n - Len(A) - Len(B) \in 1 .. Len(C)
  BY <1>10
<1>12. \A n \in DOMAIN D :
         \/ D[n] = Bulk(media, {t}, "add")
         \/ \E c \in Collections : D[n] = PutCollection(c, put(c))
         \/ /\ n > Len(A) + Len(B)
            /\ D[n] = Delete(s) \/ D[n] = Bulk(media, {s}, "remove")
  <2>1. TAKE n \in DOMAIN D
  <2>2. CASE n \in 1 .. Len(A)
    BY <1>6, <1>10, <2>2
  <2>3. CASE n - Len(A) \in 1 .. Len(B)
    <3> DEFINE k == n - Len(A)
    <3>1. D[Len(A) + k] = B[k] /\ Len(A) + k = n
      BY <1>10, <2>3
    <3>2. QED
      BY <1>9, <2>3, <3>1
  <2>4. CASE n - Len(A) - Len(B) \in 1 .. Len(C)
    <3> DEFINE k == n - Len(A) - Len(B)
    <3>1. D[Len(A) + Len(B) + k] = C[k] /\ Len(A) + Len(B) + k = n
      BY <1>10, <2>4
    <3>2. n > Len(A) + Len(B)
      BY <1>10, <2>4
    <3>3. QED
      <4> HIDE DEF k
      <4>1. k \in 1 .. Len(C)
        BY <2>4 DEF k
      <4>2. C[k] = Delete(s) \/ C[k] = Bulk(media, {s}, "remove")
        BY <1>8, <4>1
      <4>3. QED
        BY <3>1, <3>2, <4>2
  <2>5. QED
    BY <1>11, <2>2, <2>3, <2>4
<1> HIDE DEF D
<1>13. Safe(D, remote.on, hands, S, t)
  <2>1. SUFFICES ASSUME NEW n \in DOMAIN D, NEW c \in Carriers \ hands, NEW x \in S,
                        TakesFrom(D[n], c, x), x \in remote.on[c]
                 PROVE  \E m \in DOMAIN D : m < n /\ GivesTo(D[m], c, t)
    BY DEF Safe
  <2>2. n > Len(A) + Len(B) /\ x = s
    <3>1. D[n] # Bulk(media, {t}, "add") /\ \A d \in Collections : D[n] # PutCollection(d, put(d))
      BY <2>1, CallFields DEF TakesFrom
    <3>2. D[n] = Delete(s) \/ D[n] = Bulk(media, {s}, "remove")
      BY <1>12, <3>1
    <3>3. x = s
      BY <2>1, <3>2, CallFields DEF TakesFrom
    <3>4. QED
      BY <1>12, <3>1, <3>3
  <2>3. CASE c \in Media
    <3>1. c \in media
      BY <1>2, <2>1, <2>2, <2>3
    <3>2. Len(A) = 1
      BY <1>7, <3>1
    <3>3. D[1] = Bulk(media, {t}, "add") /\ 1 \in DOMAIN D /\ 1 < n
      BY <1>6, <1>10, <2>2, <3>2
    <3>4. GivesTo(D[1], c, t)
      BY <3>1, <3>3, CallFields DEF GivesTo
    <3>5. QED
      BY <3>3, <3>4
  <2>4. CASE c \in Collections
    <3>1. s \in job.held[c]
      BY <2>1, <2>2, <2>4 DEF HeldOK
    <3>2. PICK k \in 1 .. Len(B) : colls[k] = c
      BY <1>3, <1>9, <2>4, <3>1
    <3>3. D[Len(A) + k] = PutCollection(c, put(c)) /\ Len(A) + k \in DOMAIN D /\ Len(A) + k < n
      BY <1>9, <1>10, <2>2, <3>2
    <3>4. GivesTo(D[Len(A) + k], c, t)
      BY <1>4, <2>4, <3>3, CallFields DEF GivesTo
    <3>5. QED
      BY <3>3, <3>4
  <2>5. QED
    BY <2>1, <2>3, <2>4 DEF Carriers
<1>14. PutsKeep(D, groups, from, hands)
  <2>1. SUFFICES ASSUME NEW n \in DOMAIN D, D[n].call = "put", NEW c \in D[n].carriers \ hands
                 PROVE  Kept(groups, from[c], D[n].tags)
    BY DEF PutsKeep
  <2>2. PICK d \in Collections : D[n] = PutCollection(d, put(d))
    BY <1>12, <2>1, CallFields
  <2>3. c = d /\ D[n].tags = put(d)
    BY <2>1, <2>2, CallFields
  <2>4. QED
    BY <1>5, <2>1, <2>2, <2>3
<1>15. QED
  BY <1>1, <1>10, <1>13, <1>14 DEF X, D

\* The rest of the requests stays safe when the first has been answered.
LEMMA RestIsSafe ==
  ASSUME TagAssumption, RemoteTyped(remote), NEW S \in SUBSET Tags, NEW t \in Tags, t \notin S,
         NEW todo, NEW held, NEW groups, NEW from, NEW hands,
         Listed(todo, held, groups, from, remote.on, hands, S, t), todo # <<>>
  PROVE  LET on == After(Head(todo)).on
         IN  /\ Tail(todo) \in Seq(Details(S) \cup Gives(t) \cup Takes(S)) /\ DetailsLast(Tail(todo), S)
             /\ Safe(Tail(todo), on, hands, S, t) /\ PutsKeep(Tail(todo), groups, from, hands)
<1> DEFINE X == Details(S) \cup Gives(t) \cup Takes(S)
           call == Head(todo)
           rest == Tail(todo)
           on == After(call).on
<1>1. todo \in Seq(X) /\ todo # <<>>
  BY DEF Listed
<1> HIDE DEF X
<1>2. /\ rest \in Seq(X) /\ 1 \in DOMAIN todo /\ todo[1] = call /\ call \in X /\ DOMAIN todo \subseteq Nat \ {0}
      /\ \A n \in DOMAIN rest : n \in Nat /\ n + 1 \in DOMAIN todo /\ rest[n] = todo[n + 1]
      /\ \A n \in DOMAIN todo : n > 1 => n - 1 \in DOMAIN rest /\ rest[n - 1] = todo[n]
  BY <1>1
<1> HIDE DEF call, rest, on
<1>3. \A c \in Carriers :
        \/ GivesTo(call, c, t) /\ t \in on[c]
        \/ /\ ~GivesTo(call, c, t)
           /\ on[c] \subseteq remote.on[c] /\ (t \in remote.on[c] => t \in on[c])
  <2>1. call \in Calls(S, t)
    BY <1>2 DEF X, Calls
  <2>2. QED
    BY <2>1, CallEffect DEF on, Effect
<1>4. Safe(rest, on, hands, S, t)
  <2>1. SUFFICES ASSUME NEW n \in DOMAIN rest, NEW c \in Carriers \ hands, NEW s \in S,
                        TakesFrom(rest[n], c, s), s \in on[c], t \notin on[c]
                 PROVE  \E m \in DOMAIN rest : m < n /\ GivesTo(rest[m], c, t)
    BY DEF Safe
  <2>2. ~GivesTo(call, c, t) /\ s \in remote.on[c] /\ t \notin remote.on[c]
    BY <1>3, <2>1
  <2>3. TakesFrom(todo[n + 1], c, s) /\ n + 1 \in DOMAIN todo
    BY <1>2, <2>1
  <2>4. PICK m \in DOMAIN todo : m < n + 1 /\ GivesTo(todo[m], c, t)
    BY <2>2, <2>3 DEF Listed, Safe
  <2>5. m \in Nat /\ m > 1 /\ n \in Nat
    BY <1>2, <2>2, <2>4
  <2>6. m - 1 \in DOMAIN rest /\ m - 1 < n /\ GivesTo(rest[m - 1], c, t)
    BY <1>2, <2>4, <2>5
  <2>7. QED
    BY <2>6
<1>5. PutsKeep(rest, groups, from, hands)
  BY <1>2 DEF Listed, PutsKeep
<1>6. DetailsLast(rest, S)
  BY <1>2 DEF Listed, DetailsLast
<1>7. QED
  BY <1>2, <1>4, <1>5, <1>6 DEF X, call, rest, on

\* The details that are still to be asked for take and put nothing.
LEMMA DetailsFollow ==
  ASSUME NEW S, NEW t, NEW M \in Seq(Gives(t) \cup Takes(S)), NEW R \in Seq(Details(S)),
         NEW on, NEW groups, NEW from, NEW hands,
         Safe(M, on, hands, S, t), PutsKeep(M, groups, from, hands)
  PROVE  /\ M \o R \in Seq(Details(S) \cup Gives(t) \cup Takes(S)) /\ DetailsLast(M \o R, S)
         /\ Safe(M \o R, on, hands, S, t) /\ PutsKeep(M \o R, groups, from, hands)
<1> DEFINE X == Details(S) \cup Gives(t) \cup Takes(S)
           D == M \o R
<1>1. M \in Seq(X) /\ R \in Seq(X)
  OBVIOUS
<1>2. \A call \in Details(S) : call.call = "detail" /\ call \notin Gives(t) \cup Takes(S)
  <2>1. \A call \in Details(S) : call.call = "detail"
    BY CallFields DEF Details
  <2>2. \A call \in Gives(t) : call.call # "detail"
    BY CallFields DEF Gives
  <2>3. \A call \in Takes(S) : call.call # "detail"
    BY CallFields DEF Takes
  <2>4. QED
    BY <2>1, <2>2, <2>3
<1>3. \A n \in DOMAIN M : M[n] \notin Details(S)
  BY <1>2
<1> HIDE DEF X
<1>4. /\ D \in Seq(X) /\ DOMAIN D \subseteq Nat /\ DOMAIN M \subseteq DOMAIN D
      /\ \A n \in DOMAIN D : (n \in DOMAIN M /\ D[n] = M[n]) \/ (n \notin DOMAIN M /\ D[n] \in Details(S))
      /\ \A n \in DOMAIN M : D[n] = M[n]
  <2>1. DOMAIN D = 1 .. Len(M) + Len(R) /\ DOMAIN M = 1 .. Len(M) /\ Len(M) \in Nat /\ Len(R) \in Nat
    OBVIOUS
  <2>2. \A n \in 1 .. Len(M) + Len(R) : D[n] = IF n <= Len(M) THEN M[n] ELSE R[n - Len(M)]
    BY <1>1
  <2>3. \A n \in 1 .. Len(R) : R[n] \in Details(S)
    OBVIOUS
  <2>4. D \in Seq(X)
    BY <1>1
  <2>5. ASSUME NEW n \in DOMAIN D
        PROVE  (n \in DOMAIN M /\ D[n] = M[n]) \/ (n \notin DOMAIN M /\ D[n] \in Details(S))
    <3>1. CASE n <= Len(M)
      BY <2>1, <2>2, <3>1
    <3>2. CASE ~(n <= Len(M))
      <4>1. n - Len(M) \in 1 .. Len(R)
        BY <2>1, <3>2
      <4>2. QED
        BY <2>1, <2>2, <2>3, <3>2, <4>1
    <3>3. QED
      BY <3>1, <3>2
  <2>6. QED
    BY <2>1, <2>2, <2>4, <2>5
<1>5. \A m, n \in DOMAIN D : m < n /\ m \notin DOMAIN M => n \notin DOMAIN M
  <2>1. DOMAIN D = 1 .. Len(M) + Len(R) /\ DOMAIN M = 1 .. Len(M) /\ Len(M) \in Nat /\ Len(R) \in Nat
    OBVIOUS
  <2>2. QED
    BY <2>1
<1> HIDE DEF D
<1>6. DetailsLast(D, S)
  BY <1>3, <1>4, <1>5 DEF DetailsLast
<1>7. Safe(D, on, hands, S, t)
  <2>1. SUFFICES ASSUME NEW n \in DOMAIN D, NEW c \in Carriers \ hands, NEW s \in S,
                        TakesFrom(D[n], c, s), s \in on[c], t \notin on[c]
                 PROVE  \E m \in DOMAIN D : m < n /\ GivesTo(D[m], c, t)
    BY DEF Safe
  <2>2. n \in DOMAIN M /\ D[n] = M[n]
    BY <1>2, <1>4, <2>1 DEF TakesFrom
  <2>3. PICK m \in DOMAIN M : m < n /\ GivesTo(M[m], c, t)
    BY <2>1, <2>2 DEF Safe
  <2>4. QED
    BY <1>4, <2>3
<1>8. PutsKeep(D, groups, from, hands)
  BY <1>2, <1>4 DEF PutsKeep
<1>9. QED
  BY <1>4, <1>6, <1>7, <1>8 DEF X, D

LEMMA MergeAnswered ==
  ASSUME TagAssumption, RemoteTyped(remote), NEW S \in SUBSET Tags, NEW t \in Tags, t \notin S,
         NEW groups, Apart(groups, S, t), NEW from, NEW hands,
         AllKept(groups, from, remote.on, hands),
         queue[job.item].op = "tag.merge", queue[job.item].args.target = t, job.todo # <<>>,
         ToList(job.todo, S) \/ Listed(job.todo, job.held, groups, from, remote.on, hands, S, t)
  PROVE  LET call == Head(job.todo)
             after == After(call)
         IN  /\ RemoteTyped(after) /\ AllKept(groups, from, after.on, hands)
             /\ Listed(Following(call) \o Tail(job.todo), Hold(call), groups, from, after.on, hands, S, t)
<1> DEFINE todo == job.todo
           call == Head(todo)
           after == After(call)
           rest == Tail(todo)
           next == Following(call) \o rest
<1>1. CASE ToList(todo, S)
  <2>1. call = ListCollections /\ rest \in Seq(Details(S))
    BY <1>1 DEF ToList
  <2>2. after = remote /\ Following(call) = <<>> /\ Hold(call) = AllCollections
    <3>1. call.call = "collections"
      BY <2>1, CallFields
    <3> HIDE DEF call
    <3>2. After(call) = remote
      BY <3>1, Reads
    <3>3. Following(call) = <<>>
      BY <3>1 DEF Following
    <3>4. Hold(call) = AllCollections
      BY <3>1 DEF Hold
    <3>5. QED
      BY <3>2, <3>3, <3>4 DEF call
  <2> DEFINE Y == Gives(t) \cup Takes(S)
             X == Details(S) \cup Gives(t) \cup Takes(S)
  <2> HIDE DEF rest
  <2>3. <<>> \o rest = rest /\ <<>> \in Seq(Y)
    BY <2>1, NoneBefore
  <2>4. next = rest
    BY <2>2, <2>3
  <2>5. Safe(<<>>, remote.on, hands, S, t) /\ PutsKeep(<<>>, groups, from, hands)
    BY DEF Safe, PutsKeep
  <2>6. /\ <<>> \o rest \in Seq(X) /\ DetailsLast(<<>> \o rest, S)
        /\ Safe(<<>> \o rest, remote.on, hands, S, t) /\ PutsKeep(<<>> \o rest, groups, from, hands)
    BY <2>1, <2>3, <2>5, DetailsFollow
  <2>7. HeldOK(AllCollections, groups, from, remote.on, hands, S)
    BY DEF HeldOK, AllCollections, AllKept, Carriers, RemoteTyped
  <2>8. QED
    BY <2>2, <2>3, <2>4, <2>6, <2>7 DEF Listed, rest
<1>2. CASE Listed(todo, job.held, groups, from, remote.on, hands, S, t)
  <2> DEFINE X == Details(S) \cup Gives(t) \cup Takes(S)
  <2>1. todo \in Seq(X) /\ todo # <<>>
    BY <1>2 DEF Listed
  <2>2. call \in X /\ 1 \in DOMAIN todo /\ todo[1] = call /\ \A m \in DOMAIN todo : ~(m < 1)
    <3> HIDE DEF X
    <3>1. QED
      BY <2>1
  <2>0. call \in Calls(S, t)
    BY <2>2 DEF Calls
  <2>3. call.call = "put" => \A c \in call.carriers \ hands : Kept(groups, from[c], call.tags)
    BY <1>2, <2>2 DEF Listed, PutsKeep
  <2>4. \A c \in Carriers \ hands, s \in S : TakesFrom(call, c, s) /\ s \in remote.on[c] => t \in remote.on[c]
    BY <1>2, <2>2 DEF Listed, Safe
  <2>5. AllKept(groups, from, after.on, hands)
    BY <2>0, <2>3, <2>4, CallKeeps
  <2>6. RemoteTyped(after)
    BY <2>0, CallEffect
  <2>7. /\ rest \in Seq(X) /\ DetailsLast(rest, S)
        /\ Safe(rest, after.on, hands, S, t) /\ PutsKeep(rest, groups, from, hands)
    BY <1>2, RestIsSafe
  <2>8. HeldOK(job.held, groups, from, remote.on, hands, S)
    BY <1>2 DEF Listed
  <2>9. CASE call \in Details(S)
    <3>1. PICK s \in S : call = Detail(s)
      BY <2>9 DEF Details
    <3>2. after = remote /\ Following(call) = MergeOne(s, queue[job.item].args) /\ Hold(call) = job.held
      <4>1. call.call = "detail" /\ call.tag = s
        BY <3>1, CallFields
      <4> HIDE DEF call
      <4>2. After(call) = remote
        BY <4>1, Reads
      <4>3. Following(call) = MergeOne(s, queue[job.item].args)
        BY <4>1 DEF Following
      <4>4. Hold(call) = job.held
        BY <4>1 DEF Hold
      <4>5. QED
        BY <4>2, <4>3, <4>4 DEF call
    <3>3. rest \in Seq(Details(S))
      <4> HIDE DEF X
      <4>1. /\ DOMAIN rest = 1 .. Len(rest) /\ Len(rest) \in Nat
            /\ \A n \in 1 .. Len(rest) : n + 1 \in DOMAIN todo /\ rest[n] = todo[n + 1] /\ 1 < n + 1
        BY <2>1
      <4>2. \A n \in 1 .. Len(rest) : rest[n] \in Details(S)
        BY <1>2, <2>2, <2>9, <4>1 DEF Listed, DetailsLast
      <4>3. QED
        <5> HIDE DEF rest
        <5>1. QED
          BY <2>7, <4>2, Retyped
    <3> DEFINE ones == MergeOne(s, queue[job.item].args)
    <3>4. /\ ones \in Seq(Gives(t) \cup Takes(S))
          /\ Safe(ones, remote.on, hands, S, t)
          /\ PutsKeep(ones, groups, from, hands)
      BY <2>8, MergeOneShape
    <3> HIDE DEF ones
    <3>5. /\ ones \o rest \in Seq(X) /\ DetailsLast(ones \o rest, S)
          /\ Safe(ones \o rest, remote.on, hands, S, t) /\ PutsKeep(ones \o rest, groups, from, hands)
      BY <3>3, <3>4, DetailsFollow
    <3>6. next = ones \o rest
      BY <3>2 DEF ones
    <3>7. QED
      BY <2>5, <2>6, <2>8, <3>2, <3>5, <3>6 DEF Listed
  <2>10. CASE call \in Gives(t) \cup Takes(S)
    <3>1. call.call \in {"bulk", "put", "delete"}
      <4>1. \A x \in Gives(t) : x.call \in {"bulk", "put"}
        BY CallFields DEF Gives
      <4>2. \A x \in Takes(S) : x.call \in {"bulk", "delete"}
        BY CallFields DEF Takes
      <4>3. QED
        BY <2>10, <4>1, <4>2
    <3>2. Following(call) = <<>>
      BY <3>1 DEF Following
    <3>3. next = rest
      <4> HIDE DEF X
      <4>1. <<>> \o rest = rest
        BY <2>7
      <4>2. QED
        BY <3>2, <4>1
    <3>4. \A c \in Collections :
            \/ call.call = "put" /\ c \in call.carriers /\ after.on[c] = call.tags /\ call.tags \in SUBSET Tags
            \/ /\ ~(call.call = "put" /\ c \in call.carriers)
               /\ after.on[c] \subseteq remote.on[c]
      <4>1. TAKE c \in Collections
      <4>2. c \in Carriers /\ c \notin Media
        BY DEF Carriers, TagAssumption
      <4>3. call.call = "put" => t \in call.tags /\ call.tags \in SUBSET Tags
        BY <2>0, <2>10, Kinds
      <4>4. \/ GivesTo(call, c, t) /\ call.call = "put" /\ after.on[c] = call.tags
            \/ ~GivesTo(call, c, t) /\ after.on[c] \subseteq remote.on[c]
        <5>1. Effect(call, c, remote.on[c], after.on[c], S, t)
          BY <2>0, <4>2, CallEffect
        <5>2. QED
          BY <4>2, <5>1 DEF Effect
      <4>5. QED
        BY <4>3, <4>4 DEF GivesTo
    <3>5. HeldOK(Hold(call), groups, from, after.on, hands, S)
      <4>1. CASE call.call = "put" /\ job.held # <<>>
        <5>1. Hold(call) = [c \in Collections |-> IF c \in call.carriers THEN call.tags ELSE job.held[c]]
          BY <2>8, <4>1 DEF Hold, HeldOK
        <5>2. Hold(call) \in [Collections -> SUBSET Tags]
          BY <2>8, <3>4, <4>1, <5>1 DEF HeldOK
        <5>3. ASSUME NEW c \in Collections \ hands
              PROVE  after.on[c] \cap S \subseteq Hold(call)[c] /\ Kept(groups, from[c], Hold(call)[c])
          <6>1. CASE c \in call.carriers
            BY <2>3, <3>4, <4>1, <5>1, <6>1
          <6>2. CASE c \notin call.carriers
            BY <2>8, <3>4, <5>1, <6>2 DEF HeldOK
          <6>3. QED
            BY <6>1, <6>2
        <5>4. QED
          BY <5>2, <5>3 DEF HeldOK
      <4>2. CASE ~(call.call = "put" /\ job.held # <<>>)
        <5>1. Hold(call) = job.held
          BY <3>1, <4>2 DEF Hold
        <5>2. ASSUME NEW c \in Collections \ hands
              PROVE  after.on[c] \subseteq remote.on[c]
          <6>1. job.held # <<>>
            BY <2>8 DEF HeldOK
          <6>2. QED
            BY <3>4, <4>2, <6>1
        <5>3. QED
          BY <2>8, <5>1, <5>2 DEF HeldOK
      <4>3. QED
        BY <4>1, <4>2
    <3>6. QED
      BY <2>5, <2>6, <2>7, <3>3, <3>5 DEF Listed
  <2>11. QED
    BY <2>2, <2>9, <2>10
<1>3. QED
  BY <1>1, <1>2

-------------------------------------------------------------------------------
(* What an item asks never changes: only its status does.                    *)

SameItems(q, r) == DOMAIN r = DOMAIN q /\ \A k \in DOMAIN q : r[k].op = q[k].op /\ r[k].args = q[k].args

LEMMA RecordIsItem ==
  ASSUME NEW op, NEW args, NEW dep, NEW status, NEW tagId,
         NEW i, i = [op |-> op, args |-> args, dep |-> dep, status |-> status, tagId |-> tagId]
  PROVE  IsItem(i) /\ i.op = op /\ i.args = args
BY DEF IsItem

LEMMA SettledSame ==
  ASSUME QueueTyped(queue), NEW k, NEW status, NEW tagId, Settled(k, status, tagId)
  PROVE  QueueTyped(queue') /\ SameItems(queue, queue')
<1> DEFINE item(j) == [op |-> queue[j].op, args |-> queue[j].args, dep |-> queue[j].dep,
                       status |-> IF j = k THEN status ELSE queue[j].status,
                       tagId |-> IF j = k THEN tagId ELSE queue[j].tagId]
<1>1. queue = [j \in DOMAIN queue |-> queue[j]] /\ \A j \in DOMAIN queue : IsItem(queue[j])
  BY DEF QueueTyped
<1>2. queue' = [queue EXCEPT ![k].status = status, ![k].tagId = tagId]
  BY DEF Settled
<1>3. queue' = [j \in DOMAIN queue |-> queue'[j]]
  BY <1>1, <1>2
<1>4. \A j \in DOMAIN queue : queue'[j] = item(j)
  <2>1. TAKE j \in DOMAIN queue
  <2>2. IsItem(queue[j])
    BY <1>1
  <2>3. CASE j = k
    <3>1. queue'[j] = [[queue[j] EXCEPT !.status = status] EXCEPT !.tagId = tagId]
      BY <1>1, <1>2, <2>3
    <3>2. QED
      BY <2>2, <2>3, <3>1 DEF IsItem
  <2>4. CASE j # k
    <3>1. queue'[j] = queue[j]
      BY <1>1, <1>2, <2>4
    <3>2. QED
      BY <2>2, <2>4, <3>1 DEF IsItem
  <2>5. QED
    BY <2>3, <2>4
<1>5. DOMAIN queue' = DOMAIN queue
  BY <1>3
<1>6. \A j \in DOMAIN queue : IsItem(queue'[j]) /\ queue'[j].op = queue[j].op /\ queue'[j].args = queue[j].args
  <2>1. TAKE j \in DOMAIN queue
  <2>2. queue'[j] = item(j)
    BY <1>4
  <2>3. QED
    BY <2>2, RecordIsItem
<1>7. QED
  BY <1>3, <1>5, <1>6 DEF QueueTyped, SameItems

LEMMA SameMerges ==
  ASSUME NEW q, NEW r, SameItems(q, r)
  PROVE  /\ GroupsOf(r) = GroupsOf(q)
         /\ \A remoteNow, j, from, hands :
              MergesGoOn(q, remoteNow, j, from, hands) => MergesGoOn(r, remoteNow, j, from, hands)
<1>1. DOMAIN r = DOMAIN q /\ MergesOf(r) = MergesOf(q) /\ MergesOf(q) \subseteq DOMAIN q
  BY DEF SameItems, MergesOf
<1>2. \A k \in DOMAIN q : r[k].op = q[k].op /\ r[k].args = q[k].args /\ SourcesOf(r, k) = SourcesOf(q, k)
  BY DEF SameItems, SourcesOf
<1>3. GroupsOf(r) = GroupsOf(q)
  BY <1>1, <1>2 DEF GroupsOf
<1>4. ASSUME OnlyMerges(q) PROVE OnlyMerges(r)
  BY <1>1, <1>2, <1>3, <1>4 DEF OnlyMerges
<1>5. ASSUME NEW from, NEW on, NEW hands, NEW j, JobOK(q, from, on, hands, j)
      PROVE  JobOK(r, from, on, hands, j)
  BY <1>1, <1>2, <1>3, <1>5 DEF JobOK
<1>6. QED
  BY <1>3, <1>4, <1>5 DEF MergesGoOn

\* Wherever an item stops, it has kept the associations and holds nothing.
LEMMA Stopped ==
  ASSUME NEW q, NEW r, NEW j, NEW from, NEW hands,
         RemoteTyped(r), OnlyMerges(q), AllKept(GroupsOf(q), from, r.on, hands)
  PROVE  MergesGoOn(q, r, Idle, from, hands)
BY DEF MergesGoOn, JobOK, JobTyped, Idle

LEMMA JobFields ==
  ASSUME NEW j, JobTyped(j), NEW todo, NEW held, NEW made
  PROVE  LET going == [j EXCEPT !.todo = todo, !.held = held, !.made = made]
         IN  JobTyped(going) /\ going.item = j.item /\ going.todo = todo /\ going.held = held
BY DEF JobTyped

LEMMA Renames ==
  ASSUME RemoteTyped(remote), NEW call, call.call = "rename"
  PROVE  After(call) = [label |-> [remote.label EXCEPT ![call.tag] = call.tags], on |-> remote.on]
BY DEF After, RemoteTyped

\* The request that is answered: the item goes on, and had it stopped there, nothing were lost.
LEMMA HeadAnswered ==
  ASSUME TagAssumption, MergesGoOn(queue, remote, job, start.on, touched), Executing, job.todo # <<>>,
         NEW made
  PROVE  LET call == Head(job.todo)
         IN  /\ RemoteTyped(After(call)) /\ AllKept(GroupsOf(queue), start.on, After(call).on, touched)
             /\ MergesGoOn(queue, After(call),
                           [job EXCEPT !.todo = Following(call) \o Tail(job.todo), !.held = Hold(call), !.made = made],
                           start.on, touched)
<1> DEFINE call == Head(job.todo)
           after == After(call)
           k == job.item
           S == SourcesOf(queue, k)
           t == queue[k].args.target
           groups == GroupsOf(queue)
           next == Following(call) \o Tail(job.todo)
           going == [job EXCEPT !.todo = next, !.held = Hold(call), !.made = made]
<1>1. RemoteTyped(remote) /\ JobTyped(job) /\ OnlyMerges(queue) /\ AllKept(groups, start.on, remote.on, touched)
      /\ JobOK(queue, start.on, remote.on, touched, job)
  BY DEF MergesGoOn
<1>2. k # 0 /\ k \in DOMAIN queue /\ queue[k].op \in {"tag.rename", "tag.merge"}
  BY <1>1 DEF Executing, JobOK, OnlyMerges
<1>3. JobTyped(going) /\ going.item = k /\ going.todo = next /\ going.held = Hold(call)
  <2>1. JobTyped(job)
    BY <1>1
  <2> DEFINE held == Hold(call)
  <2> HIDE DEF next, call, held
  <2>2. LET j == [job EXCEPT !.todo = next, !.held = held, !.made = made]
        IN  JobTyped(j) /\ j.item = job.item /\ j.todo = next /\ j.held = held
    BY <2>1 DEF JobTyped
  <2>3. QED
    BY <2>2 DEF held
<1>4. CASE queue[k].op = "tag.rename"
  <2>1. job.todo = <<Rename(queue[k].args.tag, queue[k].args.to)>>
    BY <1>1, <1>2, <1>4 DEF JobOK
  <2>2. call = Rename(queue[k].args.tag, queue[k].args.to) /\ Tail(job.todo) = <<>>
    BY <2>1
  <2>3. Following(call) = <<>>
    <3>1. call.call = "rename"
      BY <2>2, CallFields
    <3> HIDE DEF call
    <3>2. QED
      BY <3>1 DEF Following
  <2>4. next = <<>>
    BY <2>2, <2>3
  <2>5. after = [label |-> [remote.label EXCEPT ![call.tag] = call.tags], on |-> remote.on]
    BY <1>1, <2>2, CallFields, Renames
  <2>6. RemoteTyped(after) /\ after.on = remote.on
    BY <1>1, <2>5 DEF RemoteTyped
  <2>7. JobOK(queue, start.on, after.on, touched, going)
    BY <1>2, <1>3, <1>4, <2>4 DEF JobOK
  <2>8. QED
    BY <1>1, <1>3, <2>6, <2>7 DEF MergesGoOn, JobTyped
<1>5. CASE queue[k].op = "tag.merge"
  <2>1. k \in MergesOf(queue)
    BY <1>2, <1>5 DEF MergesOf
  <2>2. queue[k].args.sources \in Seq(Tags) /\ t \in Tags /\ Apart(groups, S, t)
    BY <1>1, <2>1 DEF OnlyMerges
  <2>3. S \in SUBSET Tags /\ t \notin S
    BY <2>2 DEF SourcesOf, ToSet
  <2>4. ToList(job.todo, S) \/ Listed(job.todo, job.held, groups, start.on, remote.on, touched, S, t)
    BY <1>1, <1>2, <1>5 DEF JobOK
  <2> HIDE DEF groups, S, t
  <2>5. queue[job.item].args.target = t
    BY DEF t
  <2>6. /\ RemoteTyped(after) /\ AllKept(groups, start.on, after.on, touched)
        /\ Listed(next, Hold(call), groups, start.on, after.on, touched, S, t)
    BY <1>1, <1>5, <2>2, <2>3, <2>4, <2>5, MergeAnswered
  <2> HIDE DEF next, after, call
  <2>7. JobOK(queue, start.on, after.on, touched, going)
    BY <1>2, <1>3, <1>5, <2>6 DEF JobOK, S, t, groups
  <2>8. QED
    BY <1>1, <1>3, <2>6, <2>7 DEF MergesGoOn, JobTyped, call, after, next, groups
<1>6. QED
  BY <1>2, <1>4, <1>5

-------------------------------------------------------------------------------
(* The actions.                                                              *)

LEMMA BeginGoesOn ==
  ASSUME MergesGoOn(queue, remote, job, start.on, touched), Begin
  PROVE  MergesGoOn(queue, remote', job', start.on, touched')
<1>1. PICK k \in DOMAIN queue : First(k) /\ Ready(k) /\ job' = [Idle EXCEPT !.item = k, !.todo = Requests(k)]
  BY DEF Begin
<1>2. job' = [item |-> k, todo |-> Requests(k), held |-> <<>>, made |-> 0]
  BY <1>1 DEF Idle
<1>3. remote' = remote /\ touched' = touched
  BY DEF Begin
<1>4. queue[k].op \in {"tag.rename", "tag.merge"}
  BY DEF MergesGoOn, OnlyMerges
<1>5. ASSUME queue[k].op = "tag.rename"
      PROVE  Requests(k) = <<Rename(queue[k].args.tag, queue[k].args.to)>>
  BY <1>5 DEF Requests
<1>6. ASSUME queue[k].op = "tag.merge"
      PROVE  ToList(Requests(k), SourcesOf(queue, k))
  <2> DEFINE args == queue[k].args
             S == SourcesOf(queue, k)
             others == Others(args)
             details == [n \in DOMAIN others |-> Detail(others[n])]
  <2>1. args.sources \in Seq(Tags)
    BY <1>6 DEF MergesGoOn, OnlyMerges, MergesOf
  <2>2. others \in Seq(S)
    BY <2>1, OthersAreSources DEF SourcesOf
  <2>3. Requests(k) = <<ListCollections>> \o details
    BY <1>6 DEF Requests
  <2> HIDE DEF others, S
  <2>4. details \in Seq(Details(S))
    <3>1. DOMAIN others = 1 .. Len(others) /\ Len(others) \in Nat /\ \A n \in 1 .. Len(others) : others[n] \in S
      BY <2>2
    <3>2. \A n \in 1 .. Len(others) : Detail(others[n]) \in Details(S)
      BY <3>1 DEF Details
    <3>3. QED
      BY <3>1, <3>2
  <2> HIDE DEF details
  <2>5. <<ListCollections>> \o details \in Seq({ListCollections} \cup Details(S))
    BY <2>4
  <2>6. /\ <<ListCollections>> \o details # <<>> /\ Head(<<ListCollections>> \o details) = ListCollections
        /\ Tail(<<ListCollections>> \o details) = details
    BY <2>4
  <2>7. QED
    BY <2>3, <2>4, <2>5, <2>6 DEF ToList, S
<1>7. JobOK(queue, start.on, remote.on, touched, job')
  BY <1>2, <1>4, <1>5, <1>6 DEF JobOK
<1>8. QED
  BY <1>2, <1>3, <1>7 DEF MergesGoOn, JobTyped

LEMMA OtherEditsGoesOn ==
  ASSUME MergesGoOn(queue, remote, job, start.on, touched), OtherEdits
  PROVE  MergesGoOn(queue, remote', job', start.on, touched')
<1>1. PICK c \in Carriers, t \in DOMAIN remote.label :
        /\ remote' = [remote EXCEPT !.on[c] = IF t \in @ THEN @ \ {t} ELSE @ \cup {t}]
        /\ touched' = touched \cup {c}
  BY DEF OtherEdits
<1>2. job' = job
  BY DEF OtherEdits
<1>3. RemoteTyped(remote) /\ t \in Tags /\ JobTyped(job) /\ OnlyMerges(queue)
      /\ AllKept(GroupsOf(queue), start.on, remote.on, touched)
      /\ JobOK(queue, start.on, remote.on, touched, job)
  BY DEF MergesGoOn, RemoteTyped
<1>4. remote' = [label |-> remote.label,
                 on |-> [remote.on EXCEPT ![c] = IF t \in remote.on[c] THEN remote.on[c] \ {t} ELSE remote.on[c] \cup {t}]]
  BY <1>1, <1>3 DEF RemoteTyped
<1>5. RemoteTyped(remote')
  BY <1>3, <1>4 DEF RemoteTyped
<1>6. \A d \in Carriers \ touched' : d \in Carriers \ touched /\ remote'.on[d] = remote.on[d]
  BY <1>1, <1>3, <1>4 DEF RemoteTyped
<1>7. AllKept(GroupsOf(queue), start.on, remote'.on, touched')
  BY <1>3, <1>6 DEF AllKept
<1>8. ASSUME NEW todo, NEW held, NEW groups, NEW S, NEW u,
             Listed(todo, held, groups, start.on, remote.on, touched, S, u)
      PROVE  Listed(todo, held, groups, start.on, remote'.on, touched', S, u)
  <2>1. HeldOK(held, groups, start.on, remote'.on, touched', S)
    BY <1>6, <1>8 DEF Listed, HeldOK, Carriers
  <2>2. Safe(todo, remote'.on, touched', S, u)
    BY <1>6, <1>8 DEF Listed, Safe
  <2>3. PutsKeep(todo, groups, start.on, touched')
    BY <1>1, <1>8 DEF Listed, PutsKeep
  <2>4. QED
    BY <1>8, <2>1, <2>2, <2>3 DEF Listed
<1>9. JobOK(queue, start.on, remote'.on, touched', job)
  BY <1>3, <1>8 DEF JobOK
<1>10. QED
  BY <1>2, <1>3, <1>5, <1>7, <1>9 DEF MergesGoOn

LEMMA InvNext ==
  ASSUME TagAssumption, IInv, [Next]_vars
  PROVE  IInv'
<1>1. QueueTyped(queue)
  BY DEF IInv
<1>2. /\ QueueTyped(queue') /\ SameItems(queue, queue') /\ start' = start
  <2>1. CASE UNCHANGED queue /\ UNCHANGED start
    BY <1>1, <2>1 DEF SameItems
  <2>2. CASE (\E k, status, tagId : Settled(k, status, tagId)) /\ UNCHANGED start
    BY <1>1, <2>2, SettledSame
  <2>3. QED
    BY <2>1, <2>2 DEF vars, Next, Begin, Skip, Answered, Refused, Unanswered, Fails, Return, Retry, OtherEdits
<1>3. SUFFICES ASSUME MergesGoOn(queue, remote, job, start.on, touched)
               PROVE  MergesGoOn(queue, remote', job', start.on, touched')
  <2>1. GroupsOf(queue') = GroupsOf(queue)
    BY <1>2, SameMerges
  <2>2. ASSUME GroupsOf(queue') # {} PROVE MergesGoOn(queue', remote', job', start'.on, touched')
    <3>1. MergesGoOn(queue, remote, job, start.on, touched)
      BY <2>1, <2>2 DEF IInv
    <3>2. MergesGoOn(queue, remote', job', start.on, touched')
      BY <1>3, <3>1
    <3>3. QED
      BY <1>2, <3>2, SameMerges
  <2>3. QED
    BY <1>2, <2>2 DEF IInv
<1>4. CASE UNCHANGED <<remote, job, touched>>
  BY <1>3, <1>4
<1>5. CASE Begin
  BY <1>3, <1>5, BeginGoesOn
<1>6. CASE Answered
  <2> DEFINE call == Head(job.todo)
             made == IF call.call = "create" THEN NewId ELSE job.made
  <2>1. /\ Executing /\ job.todo # <<>> /\ remote' = After(call) /\ touched' = touched
        /\ job' = [job EXCEPT !.todo = Following(call) \o Tail(job.todo), !.held = Hold(call), !.made = made]
    BY <1>6 DEF Answered
  <2> HIDE DEF made
  <2>2. MergesGoOn(queue, After(call),
                   [job EXCEPT !.todo = Following(call) \o Tail(job.todo), !.held = Hold(call), !.made = made],
                   start.on, touched)
    BY <1>3, <2>1, HeadAnswered
  <2>3. QED
    BY <2>1, <2>2
<1>7. ASSUME job' = Idle, touched' = touched,
             remote' = remote \/ (Executing /\ job.todo # <<>> /\ remote' = After(Head(job.todo)))
      PROVE  MergesGoOn(queue, remote', job', start.on, touched')
  <2>1. OnlyMerges(queue) /\ RemoteTyped(remote) /\ AllKept(GroupsOf(queue), start.on, remote.on, touched)
    BY <1>3 DEF MergesGoOn
  <2>2. RemoteTyped(remote') /\ AllKept(GroupsOf(queue), start.on, remote'.on, touched)
    <3>1. CASE remote' = remote
      BY <2>1, <3>1
    <3>2. CASE Executing /\ job.todo # <<>> /\ remote' = After(Head(job.todo))
      BY <1>3, <3>2, HeadAnswered
    <3>3. QED
      BY <1>7, <3>1, <3>2
  <2>3. QED
    BY <1>7, <2>1, <2>2, Stopped
<1>8. CASE Refused \/ Return
  BY <1>7, <1>8 DEF Refused, Return, Fails
<1>9. CASE Unanswered
  BY <1>7, <1>9 DEF Unanswered, Fails
<1>10. CASE Skip \/ Retry
  BY <1>4, <1>10 DEF Skip, Retry
<1>11. CASE OtherEdits
  BY <1>3, <1>11, OtherEditsGoesOn
<1>12. CASE UNCHANGED vars
  BY <1>4, <1>12 DEF vars
<1>13. QED
  BY <1>5, <1>6, <1>8, <1>9, <1>10, <1>11, <1>12 DEF Next

-------------------------------------------------------------------------------
(* What the dialogs stage.                                                   *)

\* Edits of media come without a merge.
LEMMA ApplyStages ==
  ASSUME NEW mode, NEW ids, NEW tags, NEW missing, missing \in Seq(ToSet(missing))
  PROVE  LET q == ApplyMediaTags(mode, ids, tags, missing) IN QueueTyped(q) /\ GroupsOf(q) = {}
<1> DEFINE creates == IF mode = "remove" THEN <<>> ELSE [k \in DOMAIN missing |-> CreateTag(missing[k])]
           edit == IF tags # {} \/ mode = "replace" THEN <<EditMedia(mode, ids, tags, 0)>> ELSE <<>>
           adds == [k \in DOMAIN creates |-> EditMedia("add", ids, {}, k)]
           q == creates \o edit \o adds
           Stageable == {CreateTag(label) : label \in ToSet(missing)} \cup {EditMedia(mode, ids, tags, 0)}
                        \cup {EditMedia("add", ids, {}, k) : k \in Nat}
<1>1. \A i \in Stageable : IsItem(i) /\ i.op # "tag.merge"
  BY DEF IsItem, CreateTag, EditMedia, Item
<1>2. creates \in Seq(Stageable)
  <2>1. /\ DOMAIN missing = 1 .. Len(missing) /\ Len(missing) \in Nat
        /\ \A k \in DOMAIN missing : CreateTag(missing[k]) \in Stageable
    BY DEF ToSet
  <2> HIDE DEF Stageable
  <2>2. QED
    BY <2>1
<1>3. edit \in Seq(Stageable)
  <2>1. EditMedia(mode, ids, tags, 0) \in Stageable
    OBVIOUS
  <2> HIDE DEF Stageable
  <2>2. QED
    BY <2>1
<1>4. adds \in Seq(Stageable)
  <2>1. \A k \in Nat : EditMedia("add", ids, {}, k) \in Stageable
    OBVIOUS
  <2> HIDE DEF Stageable, creates
  <2>2. DOMAIN creates = 1 .. Len(creates) /\ Len(creates) \in Nat
    BY <1>2
  <2>3. QED
    BY <2>1, <2>2
<1> HIDE DEF creates, edit, adds, Stageable
<1>5. q \in Seq(Stageable)
  BY <1>2, <1>3, <1>4
<1>6. ApplyMediaTags(mode, ids, tags, missing) = q
  BY DEF ApplyMediaTags, creates, edit, adds
<1> HIDE DEF q
<1>7. q = [k \in DOMAIN q |-> q[k]] /\ \A k \in DOMAIN q : q[k] \in Stageable
  BY <1>5, OfElements
<1>8. QED
  BY <1>1, <1>6, <1>7 DEF QueueTyped, GroupsOf, MergesOf

\* A merge from the tag page stands alone.
LEMMA MergeStages ==
  ASSUME NEW sources \in Seq(Tags), NEW target \in Tags, NEW deleteSources
  PROVE  LET q == <<MergeTags(sources, target, deleteSources)>> IN QueueTyped(q) /\ OnlyMerges(q)
<1> DEFINE q == <<MergeTags(sources, target, deleteSources)>>
<1>1. /\ DOMAIN q = {1} /\ q = [k \in DOMAIN q |-> q[k]]
      /\ q[1] = MergeTags(sources, target, deleteSources)
  OBVIOUS
<1> HIDE DEF q
<1>2. IsItem(q[1]) /\ q[1].op = "tag.merge" /\ q[1].args.sources = sources /\ q[1].args.target = target
  BY <1>1 DEF IsItem, MergeTags, Item
<1>3. \A g \in GroupsOf(q) : target \in g
  BY <1>1, <1>2 DEF GroupsOf, MergesOf
<1>4. QED
  BY <1>1, <1>2, <1>3 DEF QueueTyped, OnlyMerges, MergesOf, Apart, q

\* Of a find and replace, what one merge takes away no other one gives or takes.
LEMMA ReplaceStages ==
  ASSUME NEW labels, DOMAIN labels \subseteq Tags, NEW X, NEW previews \in Seq(Tags \X X),
         \A j, k \in DOMAIN previews :
           /\ j # k => previews[j][1] # previews[k][1]
           /\ \A t \in DOMAIN labels : labels[t] = previews[j][2] => t # previews[k][1]
  PROVE  LET q == ApplyFindReplace(labels, previews) IN QueueTyped(q) /\ OnlyMerges(q)
<1> DEFINE q == ApplyFindReplace(labels, previews)
           from(k) == previews[k][1]
           taken(k) == Collision(labels, previews[k][2])
           into(k) == CHOOSE u \in taken(k) : TRUE
<1>1. /\ DOMAIN q = DOMAIN previews /\ q = [k \in DOMAIN q |-> q[k]]
      /\ \A k \in DOMAIN q : q[k] = IF taken(k) = {} THEN RenameTag(from(k), previews[k][2])
                                 ELSE MergeTags(<<from(k)>>, into(k), TRUE)
  BY DEF ApplyFindReplace
<1>2. \A k \in DOMAIN previews : from(k) \in Tags
  OBVIOUS
<1>3. \A k \in DOMAIN previews : taken(k) # {} => into(k) \in DOMAIN labels /\ labels[into(k)] = previews[k][2]
  BY DEF Collision
<1> HIDE DEF q, taken, into
<1>4. \A k \in DOMAIN q :
        /\ IsItem(q[k])
        /\ q[k].op = IF taken(k) = {} THEN "tag.rename" ELSE "tag.merge"
        /\ taken(k) # {} => q[k].args.sources = <<from(k)>> /\ q[k].args.target = into(k)
  BY <1>1 DEF IsItem, RenameTag, MergeTags, Item
<1>5. \A k \in MergesOf(q) :
        /\ k \in DOMAIN previews /\ taken(k) # {}
        /\ q[k].args.sources = <<from(k)>> /\ q[k].args.target = into(k)
  BY <1>1, <1>4 DEF MergesOf
<1>6. \A k \in DOMAIN previews : ToSet(<<from(k)>>) = {from(k)}
  BY DEF ToSet
<1>7. ASSUME NEW k \in MergesOf(q) PROVE Apart(GroupsOf(q), SourcesOf(q, k), q[k].args.target)
  <2>1. SUFFICES ASSUME NEW g \in GroupsOf(q)
                 PROVE  into(k) \in g \/ g \cap ({from(k)} \ {into(k)}) = {}
    BY <1>5, <1>6 DEF Apart, SourcesOf
  <2>2. PICK j \in MergesOf(q) : g = ToSet(q[j].args.sources) \cup {q[j].args.target}
    BY DEF GroupsOf
  <2>3. g = {from(j), into(j)}
    <3>1. q[j].args.sources = <<from(j)>> /\ q[j].args.target = into(j) /\ j \in DOMAIN previews
      BY <1>5
    <3>2. ToSet(<<from(j)>>) = {from(j)}
      BY <1>6, <3>1
    <3>3. QED
      BY <2>2, <3>1, <3>2
  <2>4. CASE j = k
    BY <2>3, <2>4
  <2>5. CASE j # k
    <3>1. from(j) # from(k)
      BY <1>5, <2>5
    <3>2. into(j) # from(k)
      BY <1>3, <1>5
    <3>3. QED
      BY <2>3, <3>1, <3>2
  <2>6. QED
    BY <2>4, <2>5
<1>8. \A k \in MergesOf(q) : q[k].args.sources \in Seq(Tags) /\ q[k].args.target \in Tags
  <2>1. \A x \in Tags : <<x>> \in Seq(Tags)
    BY OneOrNone
  <2>2. QED
    BY SMTT(20), <1>2, <1>3, <1>5, <2>1
<1>9. OnlyMerges(q)
  BY <1>4, <1>7, <1>8 DEF OnlyMerges
<1>10. QED
  BY <1>1, <1>4, <1>9 DEF QueueTyped, q

LEMMA OneItem ==
  ASSUME NEW i, IsItem(i), i.op # "tag.merge"
  PROVE  QueueTyped(<<i>>) /\ GroupsOf(<<i>>) = {}
<1>1. DOMAIN <<i>> = {1} /\ <<i>>[1] = i /\ <<i>> = [k \in DOMAIN <<i>> |-> <<i>>[k]]
  OBVIOUS
<1>2. QED
  BY <1>1 DEF QueueTyped, GroupsOf, MergesOf

LEMMA InvInit ==
  ASSUME TagAssumption, Init
  PROVE  IInv
<1>1. PICK p \in Plans : queue = Staged(p, remote.label)
  BY DEF Init
<1>2. remote \in Starts /\ start = remote /\ job = Idle
  BY DEF Init
<1>3. RemoteTyped(remote)
  BY <1>2 DEF TagAssumption, RemoteTyped
<1>4. QueueTyped(queue) /\ (GroupsOf(queue) = {} \/ OnlyMerges(queue))
  <2>1. CASE p.button = "merge" /\ p.sources \in Seq(Tags) /\ p.target \in Tags
    <3>1. queue = <<MergeTags(p.sources, p.target, p.deleteSources)>>
      BY <1>1, <2>1 DEF Staged
    <3>2. QED
      BY <2>1, <3>1, MergeStages
  <2>2. CASE p.button = "apply" /\ p.missing \in Seq(ToSet(p.missing))
    <3>1. queue = ApplyMediaTags(p.mode, p.ids, p.tags, p.missing)
      BY <1>1, <2>2 DEF Staged
    <3>2. QED
      BY <2>2, <3>1, ApplyStages
  <2>3. CASE p.button = "delete"
    <3>1. queue = <<DeleteTag(p.tag, p.detach)>>
      BY <1>1, <2>3 DEF Staged
    <3>2. IsItem(DeleteTag(p.tag, p.detach)) /\ DeleteTag(p.tag, p.detach).op # "tag.merge"
      BY DEF IsItem, DeleteTag, Item
    <3>3. QED
      BY <3>1, <3>2, OneItem
  <2>4. CASE p.button = "collections"
    <3>1. queue = <<EditCollections(p.mode, p.ids, p.tags)>>
      BY <1>1, <2>4 DEF Staged
    <3>2. IsItem(EditCollections(p.mode, p.ids, p.tags)) /\ EditCollections(p.mode, p.ids, p.tags).op # "tag.merge"
      BY DEF IsItem, EditCollections, Item
    <3>3. QED
      BY <3>1, <3>2, OneItem
  <2>5. CASE p.button = "replace" /\ p.previews \in Seq(Tags \X {r[2] : r \in ToSet(p.previews)})
    <3>1. queue = ApplyFindReplace(remote.label, p.previews)
      BY <1>1, <2>5 DEF Staged
    <3>2. DOMAIN remote.label \subseteq Tags
      BY <1>3 DEF RemoteTyped
    <3>3. \A j, k \in DOMAIN p.previews :
            /\ j # k => p.previews[j][1] # p.previews[k][1]
            /\ \A t \in DOMAIN remote.label : remote.label[t] = p.previews[j][2] => t # p.previews[k][1]
      BY <1>2, <2>5 DEF TagAssumption
    <3>4. QED
      BY <2>5, <3>1, <3>2, <3>3, ReplaceStages
  <2>6. QED
    BY <2>1, <2>2, <2>3, <2>4, <2>5 DEF TagAssumption
<1>5. AllKept(GroupsOf(queue), start.on, remote.on, touched)
  BY <1>2 DEF AllKept, Kept
<1>6. OnlyMerges(queue) => MergesGoOn(queue, remote, job, start.on, touched)
  BY <1>2, <1>3, <1>5, Stopped
<1>7. QED
  BY <1>4, <1>6 DEF IInv

-------------------------------------------------------------------------------

\* Whatever the dialogs stage, whatever fails, is retried or changed by others in
\* between: a merge, of whatever tags, takes its association off no film and no
\* collection that nobody else touched (tag.merge, applyFindReplace).
THEOREM NoCarrierIsLost ==
  ASSUME TagAssumption
  PROVE  Spec => []MergeLosesNoCarrier
<1>1. Init => IInv
  BY InvInit
<1>2. IInv /\ [Next]_vars => IInv'
  BY InvNext
<1>3. IInv => MergeLosesNoCarrier
  BY InvMeansKept
<1>4. QED
  BY <1>1, <1>2, <1>3, PTL DEF Spec

-------------------------------------------------------------------------------
(* Paths.                                                                    *)

LEMMA Least ==
  ASSUME NEW T \in SUBSET Nat, T # {}
  PROVE  \E n \in T : \A m \in T : n <= m
<1> DEFINE R == {ss \in Nat \X Nat : ss[1] < ss[2]}
<1>1. IsWellFoundedOn(R, Nat)
  BY NatLessThanWellFounded, Zenon DEF OpToRel
<1> HIDE DEF R
<1>2. PICK n \in T : \A m \in T : ~(<<m, n>> \in R)
  BY <1>1, WFMin
<1>3. \A m \in T : ~(m < n)
  BY <1>2 DEF R
<1> QED
  BY <1>3

LEMMA SamePath ==
  ASSUME NEW p \in Paths, NEW q \in Paths, Len(p) = Len(q), \A k \in 1..Len(p) : p[k] = q[k]
  PROVE  p = q
  BY SeqEqual DEF Paths

LEMMA Cut ==
  ASSUME NEW p \in Paths, NEW n \in 0..Len(p)
  PROVE  /\ SubSeq(p, 1, n) \in Paths /\ Len(SubSeq(p, 1, n)) = n
         /\ \A k \in 1..n : SubSeq(p, 1, n)[k] = p[k]
  BY DEF Paths

\* A path is at or above another when that begins with its names.
LEMMA PrefixRead ==
  ASSUME NEW p \in Paths, NEW q \in Paths
  PROVE  IsPrefix(p, q) <=> Len(p) <= Len(q) /\ \A k \in 1..Len(p) : p[k] = q[k]
<1> DEFINE a == SubSeq(p, 1, Len(p))
           b == SubSeq(q, 1, Len(p))
<1>0. Len(p) \in Nat /\ Len(q) \in Nat
  BY DEF Paths
<1>1. a \in Paths /\ Len(a) = Len(p) /\ \A k \in 1..Len(p) : a[k] = p[k]
  BY <1>0, Cut
<1>2. Len(p) <= Len(q) => b \in Paths /\ Len(b) = Len(p) /\ \A k \in 1..Len(p) : b[k] = q[k]
  BY <1>0, Cut
<1>3. IsPrefix(p, q) <=> Len(p) <= Len(q) /\ a = b
  BY DEF IsPrefix
<1> HIDE DEF a, b
<1>4. ASSUME Len(p) <= Len(q), \A k \in 1..Len(p) : p[k] = q[k] PROVE a = b
  <2>1. b \in Paths /\ Len(a) = Len(b) /\ \A k \in 1..Len(a) : a[k] = b[k]
    BY <1>1, <1>2, <1>4
  <2> QED
    BY <1>1, <2>1, SamePath
<1>5. ASSUME Len(p) <= Len(q), a = b PROVE \A k \in 1..Len(p) : p[k] = q[k]
  BY <1>1, <1>2, <1>5
<1> QED
  BY <1>3, <1>4, <1>5

\* A partial order, in which the paths above a path are a chain.
LEMMA PathOrder ==
  ASSUME NEW p \in Paths, NEW q \in Paths, NEW r \in Paths
  PROVE  /\ IsPrefix(p, p) /\ IsPrefix(<<>>, p)
         /\ IsPrefix(p, q) /\ IsPrefix(q, p) => p = q
         /\ IsPrefix(p, q) /\ IsPrefix(q, r) => IsPrefix(p, r)
         /\ IsPrefix(p, r) /\ IsPrefix(q, r) => IsPrefix(p, q) \/ IsPrefix(q, p)
         /\ IsPrefix(p, q) => Len(p) <= Len(q) /\ (Len(p) = Len(q) => p = q)
         /\ IsPrefix(p, r) /\ IsPrefix(q, r) /\ Len(p) <= Len(q) => IsPrefix(p, q)
<1>0. Len(p) \in Nat /\ Len(q) \in Nat /\ Len(r) \in Nat /\ <<>> \in Paths /\ Len(<<>>) = 0
  BY DEF Paths
<1>1. IsPrefix(p, p) /\ IsPrefix(<<>>, p)
  BY <1>0, PrefixRead
<1>2. IsPrefix(p, q) => Len(p) <= Len(q) /\ (Len(p) = Len(q) => p = q)
  BY <1>0, PrefixRead, SamePath
<1>3. IsPrefix(p, q) /\ IsPrefix(q, p) => p = q
  BY <1>0, <1>2, PrefixRead
<1>4. IsPrefix(p, q) /\ IsPrefix(q, r) => IsPrefix(p, r)
  BY <1>0, PrefixRead
<1>5. ASSUME IsPrefix(p, r), IsPrefix(q, r), Len(p) <= Len(q) PROVE IsPrefix(p, q)
  BY <1>0, <1>5, PrefixRead
<1>6. ASSUME IsPrefix(p, r), IsPrefix(q, r), Len(q) <= Len(p) PROVE IsPrefix(q, p)
  BY <1>0, <1>6, PrefixRead
<1>7. Len(p) <= Len(q) \/ Len(q) <= Len(p)
  BY <1>0
<1> QED
  BY <1>1, <1>2, <1>3, <1>4, <1>5, <1>6, <1>7

\* The folder a path is in is right above it.
LEMMA ParentRead ==
  ASSUME NEW p \in Paths
  PROVE  /\ ParentOf(p) \in Paths /\ IsPrefix(ParentOf(p), p)
         /\ p # <<>> => /\ Len(p) \in Nat \ {0} /\ Len(ParentOf(p)) = Len(p) - 1 /\ IsStrictPrefix(ParentOf(p), p)
                        /\ Last(p) \in Names
         /\ \A q \in Paths : IsStrictPrefix(q, p) => IsPrefix(q, ParentOf(p)) /\ p # <<>>
<1>0. Len(p) \in Nat /\ <<>> \in Paths /\ Len(<<>>) = 0 /\ (p # <<>> => Len(p) # 0 /\ Last(p) \in Names)
  BY DEF Paths, Last
<1>1. CASE p = <<>>
  <2>1. ParentOf(p) = p
    BY <1>1 DEF ParentOf
  <2>2. \A q \in Paths : IsPrefix(q, p) => q = p
    BY <1>1, PathOrder
  <2> QED
    BY <1>0, <1>1, <2>1, <2>2, PathOrder DEF IsStrictPrefix
<1>2. CASE p # <<>>
  <2> DEFINE f == SubSeq(p, 1, Len(p) - 1)
  <2>1. ParentOf(p) = f
    BY <1>2 DEF ParentOf, Front
  <2>2. f \in Paths /\ Len(f) = Len(p) - 1 /\ \A k \in 1..Len(p) - 1 : f[k] = p[k]
    <3>1. Len(p) - 1 \in 0..Len(p)
      BY <1>0, <1>2
    <3> QED
      BY <3>1, Cut
  <2> HIDE DEF f
  <2>3. IsPrefix(f, p) /\ f # p
    BY <1>0, <1>2, <2>2, PrefixRead
  <2>4. ASSUME NEW q \in Paths, IsStrictPrefix(q, p) PROVE IsPrefix(q, f)
    <3>1. Len(q) \in Nat /\ IsPrefix(q, p) /\ Len(q) <= Len(p) /\ Len(q) # Len(p)
      BY <2>4, PathOrder DEF IsStrictPrefix, Paths
    <3>2. Len(q) <= Len(f)
      BY <1>0, <2>2, <3>1
    <3> QED
      BY <2>2, <2>3, <3>1, <3>2, PathOrder
  <2> QED
    BY <1>0, <1>2, <2>1, <2>2, <2>3, <2>4 DEF IsStrictPrefix
<1> QED
  BY <1>1, <1>2

LEMMA PrefixesRead ==
  ASSUME NEW p \in Paths
  PROVE  Prefixes(p) = {q \in Paths : IsPrefix(q, p)}
<1>1. ASSUME NEW q \in Prefixes(p) PROVE q \in Paths /\ IsPrefix(q, p)
  <2>1. PICK n \in 0..Len(p) : q = SubSeq(p, 1, n)
    BY <1>1 DEF Prefixes
  <2>2. q \in Paths /\ Len(q) = n /\ \A k \in 1..n : q[k] = p[k]
    BY <2>1, Cut
  <2>3. n <= Len(p)
    BY DEF Paths
  <2> QED
    BY <2>2, <2>3, PrefixRead
<1>2. ASSUME NEW q \in Paths, IsPrefix(q, p) PROVE q \in Prefixes(p)
  <2>0. Len(p) \in Nat /\ Len(q) \in Nat
    BY DEF Paths
  <2>1. Len(q) \in 0..Len(p) /\ \A k \in 1..Len(q) : q[k] = p[k]
    BY <1>2, <2>0, PrefixRead
  <2>2. q = SubSeq(p, 1, Len(q))
    <3> DEFINE s == SubSeq(p, 1, Len(q))
    <3>1. s \in Paths /\ Len(s) = Len(q) /\ \A k \in 1..Len(q) : s[k] = p[k]
      BY <2>1, Cut
    <3> HIDE DEF s
    <3>2. q = s
      BY <2>1, <3>1, SamePath
    <3> QED
      BY <3>2 DEF s
  <2> QED
    BY <2>1, <2>2 DEF Prefixes
<1> QED
  BY <1>1, <1>2

\* An entry of a folder.
LEMMA EntryRead ==
  ASSUME NEW p \in Paths, NEW n \in Names
  PROVE  /\ Append(p, n) \in Paths /\ Append(p, n) # <<>> /\ ParentOf(Append(p, n)) = p
         /\ Last(Append(p, n)) = n /\ IsStrictPrefix(p, Append(p, n))
<1> DEFINE c == Append(p, n)
<1>1. c \in Paths /\ Len(c) = Len(p) + 1 /\ Len(p) \in Nat /\ c[Len(p) + 1] = n /\ \A k \in 1..Len(p) : c[k] = p[k]
  BY DEF Paths
<1> HIDE DEF c
<1>2. c # <<>>
  BY <1>1
<1>3. IsPrefix(p, c) /\ p # c
  BY <1>1, PrefixRead
<1>4. IsPrefix(p, ParentOf(c)) /\ Len(ParentOf(c)) = Len(p) /\ ParentOf(c) \in Paths
  BY <1>1, <1>2, <1>3, ParentRead DEF IsStrictPrefix
<1>5. ParentOf(c) = p
  BY <1>4, PathOrder
<1>6. Last(c) = n
  BY <1>1 DEF Last
<1> QED
  BY <1>1, <1>2, <1>3, <1>5, <1>6 DEF c, IsStrictPrefix

\* The next folder on the way down.
LEMMA NextDown ==
  ASSUME NEW p \in Paths, NEW q \in Paths, IsStrictPrefix(p, q)
  PROVE  \E r \in Paths : r # <<>> /\ ParentOf(r) = p /\ IsPrefix(r, q) /\ Len(r) = Len(p) + 1
<1> DEFINE r == SubSeq(q, 1, Len(p) + 1)
<1>1. Len(p) \in Nat /\ Len(q) \in Nat /\ Len(p) < Len(q)
  <2>1. Len(p) \in Nat /\ Len(q) \in Nat
    BY DEF Paths
  <2> QED
    BY <2>1, PathOrder DEF IsStrictPrefix
<1>2. r \in Paths /\ Len(r) = Len(p) + 1 /\ \A k \in 1..Len(p) + 1 : r[k] = q[k]
  BY <1>1, Cut
<1> HIDE DEF r
<1>3. IsPrefix(r, q) /\ r # <<>>
  BY <1>1, <1>2, PrefixRead
<1>4. IsPrefix(p, r) /\ Len(ParentOf(r)) = Len(p) /\ p # r /\ ParentOf(r) \in Paths
  BY <1>1, <1>2, <1>3, PathOrder, ParentRead DEF IsStrictPrefix
<1>5. IsPrefix(p, ParentOf(r))
  BY <1>2, <1>4, ParentRead DEF IsStrictPrefix
<1>6. ParentOf(r) = p
  BY <1>4, <1>5, PathOrder
<1> QED
  BY <1>2, <1>3, <1>6

-------------------------------------------------------------------------------
(* Trees.                                                                    *)

LEMMA TreeRead ==
  ASSUME NEW d, IsTree(d)
  PROVE  /\ IsFiniteSet(DOMAIN d) /\ DOMAIN d \in SUBSET Paths /\ <<>> \in DOMAIN d /\ d[<<>>].kind = "dir"
         /\ \A p \in DOMAIN d : /\ d[p] \in Nodes /\ d[p].dev # "none"
                                /\ ParentOf(p) \in DOMAIN d /\ d[ParentOf(p)].kind = "dir"
  BY DEF IsTree, IsDir, HasKind, Exists

\* What is above an entry is a folder.
LEMMA TreeDown ==
  ASSUME NEW d, IsTree(d), NEW p \in DOMAIN d, NEW q \in Paths, IsStrictPrefix(q, p)
  PROVE  q \in DOMAIN d /\ d[q].kind = "dir"
<1> DEFINE Astray(r) == r \in Paths /\ IsStrictPrefix(r, p) /\ ~(r \in DOMAIN d /\ d[r].kind = "dir")
           T == {n \in Nat : \E r : Astray(r) /\ n = Len(p) - Len(r)}
<1>0. p \in Paths /\ Len(p) \in Nat
  BY TreeRead DEF Paths
<1>1. SUFFICES ASSUME Astray(q) PROVE FALSE
  OBVIOUS
<1>2. \A r : Astray(r) => Len(p) - Len(r) \in T
  <2> SUFFICES ASSUME NEW r, Astray(r) PROVE Len(p) - Len(r) \in Nat
    OBVIOUS
  <2>1. Len(r) \in Nat /\ Len(r) <= Len(p)
    BY <1>0, PathOrder DEF IsStrictPrefix, Paths
  <2> QED
    BY <1>0, <2>1
<1>3. T \in SUBSET Nat /\ T # {}
  BY <1>1, <1>2
<1>4. PICK n \in T : \A m \in T : n <= m
  BY <1>3, Least
<1>5. PICK r : Astray(r) /\ n = Len(p) - Len(r)
  BY <1>4
<1>6. PICK s \in Paths : s # <<>> /\ ParentOf(s) = r /\ IsPrefix(s, p) /\ Len(s) = Len(r) + 1
  BY <1>0, <1>5, NextDown
<1>7. Len(r) \in Nat
  BY <1>5 DEF Paths
<1>8. ~(n <= Len(p) - Len(s))
  BY <1>0, <1>5, <1>6, <1>7
<1>9. ~Astray(s)
  BY <1>2, <1>4, <1>8
<1>10. s \in DOMAIN d
  <2>1. CASE s = p
    BY <2>1
  <2>2. CASE s # p
    BY <1>6, <1>9, <2>2 DEF IsStrictPrefix
  <2> QED
    BY <2>1, <2>2
<1>11. r \in DOMAIN d /\ d[r].kind = "dir"
  BY <1>6, <1>10, TreeRead
<1> QED
  BY <1>5, <1>11

\* New nodes, each in a folder that is there or new.
Graft(d, f) ==
  /\ DOMAIN f \in SUBSET Paths /\ IsFiniteSet(DOMAIN f) /\ DOMAIN f \cap DOMAIN d = {}
  /\ \A q \in DOMAIN f : /\ f[q] \in Nodes /\ f[q].dev # "none"
                         /\ \/ ParentOf(q) \in DOMAIN d /\ d[ParentOf(q)].kind = "dir"
                            \/ ParentOf(q) \in DOMAIN f /\ f[ParentOf(q)].kind = "dir"

LEMMA TreeGrows ==
  ASSUME NEW d, IsTree(d), NEW f, Graft(d, f)
  PROVE  /\ IsTree(Plus(d, f)) /\ DOMAIN Plus(d, f) = DOMAIN f \cup DOMAIN d
         /\ \A q \in DOMAIN d : Plus(d, f)[q] = d[q]
         /\ \A q \in DOMAIN f : Plus(d, f)[q] = f[q]
<1> DEFINE e == Plus(d, f)
<1>0. DOMAIN f \cap DOMAIN d = {}
  BY DEF Graft
<1>1. DOMAIN e = DOMAIN f \cup DOMAIN d /\ (\A q \in DOMAIN f : e[q] = f[q]) /\ (\A q \in DOMAIN d : e[q] = d[q])
  BY <1>0 DEF Plus
<1> HIDE DEF e
<1>2. IsFiniteSet(DOMAIN e)
  <2>1. IsFiniteSet(DOMAIN f \cup DOMAIN d)
    BY TreeRead, FS_Union DEF Graft
  <2> QED
    BY <1>1, <2>1
<1>3. \A p \in DOMAIN e : p \in Paths /\ e[p] \in Nodes /\ e[p].dev # "none"
  BY <1>1, TreeRead DEF Graft
<1>4. <<>> \in DOMAIN e /\ e[<<>>].kind = "dir"
  BY <1>1, TreeRead
<1>5. ASSUME NEW p \in DOMAIN e PROVE ParentOf(p) \in DOMAIN e /\ e[ParentOf(p)].kind = "dir"
  BY <1>1, TreeRead DEF Graft
<1>6. IsTree(e)
  BY <1>2, <1>3, <1>4, <1>5 DEF IsTree, IsDir, HasKind, Exists
<1> QED
  BY <1>1, <1>6 DEF e

LEMMA WithoutRead ==
  ASSUME NEW d, NEW gone
  PROVE  DOMAIN Without(d, gone) = DOMAIN d \ gone /\ \A q \in DOMAIN d \ gone : Without(d, gone)[q] = d[q]
  BY DEF Without

\* Nodes taken away with all that is in them.
LEMMA TreeShrinks ==
  ASSUME NEW d, IsTree(d), NEW gone, <<>> \notin gone, \A q \in gone : Children(d, q) \subseteq gone
  PROVE  IsTree(Without(d, gone))
<1> DEFINE e == Without(d, gone)
<1>1. DOMAIN e = DOMAIN d \ gone /\ \A q \in DOMAIN e : e[q] = d[q]
  BY ZenonT(30), WithoutRead
<1> HIDE DEF e
<1>2. IsFiniteSet(DOMAIN e)
  <2>1. IsFiniteSet(DOMAIN d \ gone)
    BY TreeRead, FS_Difference
  <2> QED
    BY <1>1, <2>1
<1>3. \A p \in DOMAIN e : p \in Paths /\ e[p] \in Nodes /\ e[p].dev # "none"
  BY <1>1, TreeRead
<1>4. <<>> \in DOMAIN e /\ e[<<>>].kind = "dir"
  BY <1>1, TreeRead
<1>5. ASSUME NEW p \in DOMAIN e PROVE ParentOf(p) \in DOMAIN e /\ e[ParentOf(p)].kind = "dir"
  <2>1. p \in DOMAIN d /\ p \in Paths /\ ParentOf(p) \in DOMAIN d /\ d[ParentOf(p)].kind = "dir"
    BY <1>1, TreeRead
  <2>2. CASE p = <<>>
    BY <1>4, <2>2 DEF ParentOf
  <2>3. CASE p # <<>>
    <3>1. p \in Children(d, ParentOf(p))
      BY <2>1, <2>3, ParentRead DEF Children, Below
    <3>2. ParentOf(p) \notin gone
      BY <1>1, <3>1
    <3> QED
      BY <1>1, <2>1, <3>2
  <2> QED
    BY <2>2, <2>3
<1>6. IsTree(e)
  BY <1>2, <1>3, <1>4, <1>5 DEF IsTree, IsDir, HasKind, Exists
<1> QED
  BY <1>6 DEF e

\* The deepest folder above a path, or the path itself.
LEMMA DeepestRead ==
  ASSUME NEW d, IsTree(d), NEW p \in Paths
  PROVE  /\ Deepest(d, p) \in Paths /\ IsPrefix(Deepest(d, p), p) /\ Deepest(d, p) \in DOMAIN d
         /\ \A r \in Paths : IsPrefix(r, p) /\ r \in DOMAIN d => Len(r) <= Len(Deepest(d, p))
<1> DEFINE There(r) == r \in Paths /\ IsPrefix(r, p) /\ r \in DOMAIN d
           T == {n \in Nat : \E r : There(r) /\ n = Len(p) - Len(r)}
           Best(q) == There(q) /\ \A r : There(r) => Len(r) <= Len(q)
<1>0. Len(p) \in Nat /\ \A r \in Paths : Len(r) \in Nat /\ (IsPrefix(r, p) => Len(r) <= Len(p))
  BY PathOrder DEF Paths
<1>1. \A r : There(r) => Len(p) - Len(r) \in T
  BY <1>0
<1>2. There(<<>>)
  BY TreeRead, PathOrder DEF Paths
<1>3. T \in SUBSET Nat /\ T # {}
  BY <1>1, <1>2
<1>4. PICK n \in T : \A m \in T : n <= m
  BY <1>3, Least
<1>5. PICK q : There(q) /\ n = Len(p) - Len(q)
  BY <1>4
<1>6. Best(q)
  <2> SUFFICES ASSUME NEW r, There(r) PROVE Len(r) <= Len(q)
    BY <1>5
  <2>1. n <= Len(p) - Len(r)
    BY <1>1, <1>4
  <2> QED
    BY <1>0, <1>5, <2>1
<1>7. Deepest(d, p) = CHOOSE b : Best(b)
  <2>1. Deepest(d, p) = CHOOSE b \in Prefixes(p) : /\ Exists(d, b)
                             /\ \A r \in Prefixes(p) : Exists(d, r) => Len(r) <= Len(b)
    BY DEF Deepest
  <2>2. \A b : Best(b) <=> b \in Prefixes(p) /\ Exists(d, b) /\ \A r \in Prefixes(p) : Exists(d, r) => Len(r) <= Len(b)
    BY PrefixesRead DEF Exists
  <2> HIDE DEF Best
  <2> QED
    BY <2>1, <2>2
<1>8. Best(Deepest(d, p))
  <2> HIDE DEF Best
  <2> QED
    BY <1>6, <1>7
<1> QED
  BY <1>8

-------------------------------------------------------------------------------
(* What the kernel does to a tree is a tree, and how far it reaches.         *)

\* The two disks are the same at a path.
SameAt(d, e, q) == (q \in DOMAIN e <=> q \in DOMAIN d) /\ (q \in DOMAIN d => e[q] = d[q])

\* A link or a file has nothing below it.
LEMMA OnlyFoldersHold ==
  ASSUME NEW d, IsTree(d), NEW p \in Paths, ~IsDir(d, p) \/ Children(d, p) = {}, NEW q \in DOMAIN d
  PROVE  ~IsStrictPrefix(p, q)
<1> SUFFICES ASSUME IsStrictPrefix(p, q) PROVE FALSE
  OBVIOUS
<1>1. q \in Paths /\ IsDir(d, p)
  BY TreeRead, TreeDown DEF IsDir, HasKind, Exists
<1>2. PICK r \in Paths : r # <<>> /\ ParentOf(r) = p /\ IsPrefix(r, q)
  BY <1>1, NextDown
<1>3. r \in DOMAIN d
  <2>1. CASE r = q
    BY <2>1
  <2>2. CASE r # q
    BY <1>2, <2>2, TreeDown DEF IsStrictPrefix
  <2> QED
    BY <2>1, <2>2
<1>4. r \in Children(d, p)
  BY <1>2, <1>3, ParentRead DEF Children, Below
<1> QED
  BY <1>1, <1>4

LEMMA MakeDirMakes ==
  ASSUME NEW d, IsTree(d), NEW p \in Paths, NEW recursive \in BOOLEAN, NEW out \in MakeDir(d, p, recursive)
  PROVE  /\ IsTree(out.disk)
         /\ \A q \in Paths : ~IsPrefix(q, p) \/ q \in DOMAIN d => SameAt(d, out.disk, q)
<1> DEFINE base == Deepest(d, p)
           new == Missing(d, p)
           f == [q \in new |-> Dir(d[base].dev)]
<1>1. ASSUME out.disk = d
      PROVE  IsTree(out.disk) /\ \A q \in Paths : SameAt(d, out.disk, q)
  BY <1>1 DEF SameAt
<1>2. CASE ~Exists(d, p) /\ IsDir(d, base) /\ out.disk = Plus(d, f)
  <2>1. base \in Paths /\ base \in DOMAIN d /\ IsPrefix(base, p) /\ Len(base) \in Nat
        /\ \A r \in Paths : IsPrefix(r, p) /\ r \in DOMAIN d => Len(r) <= Len(base)
    BY DeepestRead DEF Paths
  <2>2. d[base].kind = "dir" /\ d[base].dev \in STRING /\ d[base].dev # "none"
    BY <1>2, <2>1, TreeRead DEF IsDir, HasKind, Nodes
  <2>3. new = {q \in Paths : IsPrefix(q, p) /\ q \notin DOMAIN d}
    BY PrefixesRead DEF Missing, Exists
  <2>4. new \in SUBSET Paths /\ new \cap DOMAIN d = {} /\ DOMAIN f = new
    BY <2>3
  <2>5. IsFiniteSet(new)
    <3> DEFINE g == [n \in 0..Len(p) |-> SubSeq(p, 1, n)]
    <3>1. IsFiniteSet(0..Len(p))
      BY FS_Interval DEF Paths
    <3>2. g \in Surjection(0..Len(p), Prefixes(p))
      BY DEF Surjection, Prefixes
    <3>3. IsFiniteSet(Prefixes(p))
      BY <3>1, <3>2, FS_Surjection
    <3>4. new \in SUBSET Prefixes(p)
      BY DEF Missing
    <3> QED
      BY <3>3, <3>4, FS_Subset
  <2>6. \A q \in new : f[q] = Dir(d[base].dev)
    OBVIOUS
  <2>7. Dir(d[base].dev) \in Nodes /\ Dir(d[base].dev).dev # "none" /\ Dir(d[base].dev).kind = "dir"
    BY <2>2 DEF Dir, Node, Nodes, Paths
  <2>8. ASSUME NEW q \in new
        PROVE  ParentOf(q) = base \/ ParentOf(q) \in new
    <3>1. q \in Paths /\ IsPrefix(q, p) /\ q \notin DOMAIN d /\ q # <<>>
      BY <2>3, TreeRead
    <3>2. ParentOf(q) \in Paths /\ IsPrefix(ParentOf(q), q) /\ Len(ParentOf(q)) = Len(q) - 1 /\ Len(q) \in Nat
      BY <3>1, ParentRead
    <3>3. IsPrefix(ParentOf(q), p)
      BY <3>1, <3>2, PathOrder
    <3>4. CASE ParentOf(q) \notin DOMAIN d
      BY <2>3, <3>2, <3>3, <3>4
    <3>5. CASE ParentOf(q) \in DOMAIN d
      <4>1. Len(ParentOf(q)) <= Len(base)
        BY <2>1, <3>2, <3>3, <3>5
      <4>2. ~(Len(q) <= Len(base))
        <5> SUFFICES ASSUME Len(q) <= Len(base) PROVE FALSE
          OBVIOUS
        <5>1. IsPrefix(q, base)
          BY <2>1, <3>1, PathOrder
        <5>2. q \in DOMAIN d
          BY <2>1, <3>1, <5>1, TreeDown DEF IsStrictPrefix
        <5> QED
          BY <3>1, <5>2
      <4>3. Len(ParentOf(q)) = Len(base)
        BY <2>1, <3>2, <4>1, <4>2
      <4>4. IsPrefix(ParentOf(q), base)
        BY <2>1, <3>2, <3>3, <4>1, PathOrder
      <4>5. ParentOf(q) = base
        BY <2>1, <3>2, <4>3, <4>4, PathOrder
      <4> QED
        BY <4>5
    <3> QED
      BY <3>4, <3>5
  <2> HIDE DEF new, f, base
  <2>9. \A q \in new : /\ f[q] \in Nodes /\ f[q].dev # "none"
                       /\ \/ ParentOf(q) \in DOMAIN d /\ d[ParentOf(q)].kind = "dir"
                          \/ ParentOf(q) \in new /\ f[ParentOf(q)].kind = "dir"
    BY <2>1, <2>2, <2>6, <2>7, <2>8
  <2>10. Graft(d, f)
    BY <2>4, <2>5, <2>9 DEF Graft
  <2>12. IsTree(Plus(d, f)) /\ DOMAIN Plus(d, f) = new \cup DOMAIN d /\ \A q \in DOMAIN d : Plus(d, f)[q] = d[q]
    BY <2>4, <2>10, TreeGrows
  <2>11. \A q \in Paths : ~IsPrefix(q, p) \/ q \in DOMAIN d => SameAt(d, Plus(d, f), q)
    BY <2>3, <2>12 DEF SameAt
  <2> QED
    BY <1>2, <2>12, <2>11
<1>3. out.disk = d \/ (~Exists(d, p) /\ IsDir(d, base) /\ out.disk = Plus(d, f))
  BY DEF MakeDir, Denied, Outcome
<1> QED
  BY <1>1, <1>2, <1>3

LEMMA RemoveRemoves ==
  ASSUME NEW d, IsTree(d), NEW p \in Paths \ {<<>>}, NEW out \in RemoveDir(d, p) \cup RemoveTree(d, p)
  PROVE  /\ IsTree(out.disk)
         /\ \A q \in Paths : ~IsPrefix(p, q) => SameAt(d, out.disk, q)
<1>1. ASSUME NEW gone \in SUBSET {q \in DOMAIN d : Under(p, q)}, out.disk = Without(d, gone),
             \A q \in gone : Children(d, q) \subseteq gone
      PROVE  IsTree(out.disk) /\ \A q \in Paths : ~IsPrefix(p, q) => SameAt(d, out.disk, q)
  <2>1. <<>> \notin gone
    <3>1. <<>> \in Paths /\ p \in Paths /\ p # <<>>
      BY DEF Paths
    <3>2. ~IsPrefix(p, <<>>)
      BY <3>1, PathOrder
    <3> QED
      BY <3>2 DEF Under
  <2>2. IsTree(Without(d, gone))
    BY <1>1, <2>1, TreeShrinks
  <2>3. \A q \in Paths : ~IsPrefix(p, q) => SameAt(d, Without(d, gone), q)
    BY WithoutRead DEF SameAt, Under
  <2> QED
    BY <1>1, <2>2, <2>3
<1>2. ASSUME out.disk = d
      PROVE  IsTree(out.disk) /\ \A q \in Paths : ~IsPrefix(p, q) => SameAt(d, out.disk, q)
  BY <1>2 DEF SameAt
<1>3. CASE out \in RemoveDir(d, p)
  <2>1. out.disk = d \/ (IsDir(d, p) /\ Children(d, p) = {} /\ out.disk = Without(d, {p}))
    BY <1>3 DEF RemoveDir, Denied, Outcome
  <2>2. CASE IsDir(d, p) /\ Children(d, p) = {} /\ out.disk = Without(d, {p})
    <3>1. {p} \in SUBSET {q \in DOMAIN d : Under(p, q)} /\ \A q \in {p} : Children(d, q) \subseteq {p}
      BY <2>2, PathOrder DEF IsDir, HasKind, Exists, Under
    <3> QED
      BY <1>1, <2>2, <3>1
  <2> QED
    BY <1>2, <2>1, <2>2
<1>4. CASE out \in RemoveTree(d, p)
  <2>1. PICK gone \in SUBSET {q \in DOMAIN d : Under(p, q)} : Takable(d, gone) /\ out.disk = Without(d, gone)
    BY <1>4 DEF RemoveTree, Outcome
  <2>2. \A q \in gone : Children(d, q) \subseteq gone
    BY <2>1 DEF Takable
  <2> QED
    BY <1>1, <2>1, <2>2
<1> QED
  BY <1>3, <1>4

\* Where a relocation puts what lies below its source.
LEMMA RebaseNames ==
  ASSUME NEW q \in Paths, NEW from \in Paths, NEW to \in Paths, IsPrefix(from, q)
  PROVE  /\ Rebase(q, from, to) \in Paths /\ Len(Rebase(q, from, to)) = Len(to) + (Len(q) - Len(from))
         /\ Len(q) >= Len(from) /\ Len(q) \in Nat /\ Len(from) \in Nat /\ Len(to) \in Nat
         /\ \A k \in 1..Len(to) : Rebase(q, from, to)[k] = to[k]
         /\ \A k \in 1..Len(q) - Len(from) : Rebase(q, from, to)[Len(to) + k] = q[Len(from) + k]
<1> DEFINE tail == SubSeq(q, Len(from) + 1, Len(q))
<1>1. Len(q) \in Nat /\ Len(from) \in Nat /\ Len(to) \in Nat /\ Len(from) <= Len(q)
  BY PathOrder DEF Paths
<1>2. tail \in Paths /\ Len(tail) = Len(q) - Len(from) /\ \A k \in 1..Len(q) - Len(from) : tail[k] = q[Len(from) + k]
  <2>1. Len(from) + 1 \in 1..Len(q) + 1 /\ Len(q) \in Len(from)..Len(q)
    BY <1>1
  <2>2. tail \in Seq(Names)
    BY <1>1, SubSeqProperties DEF Paths
  <2>3. Len(tail) = Len(q) - Len(from)
    BY <1>1 DEF Paths
  <2>4. ASSUME NEW k \in 1..Len(q) - Len(from) PROVE tail[k] = q[Len(from) + k]
    <3>1. tail[k] = q[Len(from) + 1 + k - 1]
      BY <1>1, <2>4 DEF Paths
    <3>2. Len(from) + 1 + k - 1 = Len(from) + k
      BY <1>1, <2>4
    <3> QED
      BY <3>1, <3>2
  <2> QED
    BY <2>2, <2>3, <2>4 DEF Paths
<1>3. Rebase(q, from, to) = to \o tail
  BY DEF Rebase
<1> HIDE DEF tail
<1>4. to \o tail \in Paths /\ Len(to \o tail) = Len(to) + Len(tail)
  BY <1>2, ConcatProperties DEF Paths
<1>7. \A k \in 1..Len(to) + Len(tail) : (to \o tail)[k] = IF k <= Len(to) THEN to[k] ELSE tail[k - Len(to)]
  BY <1>2, ConcatProperties DEF Paths
<1>5. \A k \in 1..Len(to) : (to \o tail)[k] = to[k]
  BY <1>1, <1>2, <1>7
<1>6. ASSUME NEW k \in 1..Len(tail) PROVE (to \o tail)[Len(to) + k] = tail[k]
  <2>1. Len(to) + k \in 1..Len(to) + Len(tail) /\ ~(Len(to) + k <= Len(to)) /\ (Len(to) + k) - Len(to) = k
    BY <1>1, <1>2
  <2> QED
    BY <1>7, <2>1
<1> QED
  BY <1>1, <1>2, <1>3, <1>4, <1>5, <1>6

LEMMA RebaseRead ==
  ASSUME NEW q \in Paths, NEW from \in Paths, NEW to \in Paths, IsPrefix(from, q)
  PROVE  /\ Rebase(q, from, to) \in Paths /\ IsPrefix(to, Rebase(q, from, to))
         /\ Rebase(Rebase(q, from, to), to, from) = q
         /\ q = from => Rebase(q, from, to) = to
         /\ q # from => ParentOf(Rebase(q, from, to)) = Rebase(ParentOf(q), from, to)
                        /\ IsPrefix(from, ParentOf(q)) /\ Rebase(q, from, to) # <<>>
<1> DEFINE r == Rebase(q, from, to)
<1>1. /\ r \in Paths /\ Len(r) = Len(to) + (Len(q) - Len(from))
      /\ Len(q) >= Len(from) /\ Len(q) \in Nat /\ Len(from) \in Nat /\ Len(to) \in Nat
      /\ \A k \in 1..Len(to) : r[k] = to[k]
      /\ \A k \in 1..Len(q) - Len(from) : r[Len(to) + k] = q[Len(from) + k]
  BY RebaseNames
<1> HIDE DEF r
<1>2. IsPrefix(to, r)
  BY <1>1, PrefixRead
<1>3. Rebase(r, to, from) = q
  <2> DEFINE b == Rebase(r, to, from)
  <2>1. /\ b \in Paths /\ Len(b) = Len(from) + (Len(r) - Len(to))
        /\ \A k \in 1..Len(from) : b[k] = from[k]
        /\ \A k \in 1..Len(r) - Len(to) : b[Len(from) + k] = r[Len(to) + k]
    BY ZenonT(30), <1>1, <1>2, RebaseNames
  <2> HIDE DEF b
  <2>2. \A k \in 1..Len(from) : q[k] = from[k]
    BY PrefixRead
  <2>3. ASSUME NEW k \in 1..Len(b) PROVE b[k] = q[k]
    <3>1. CASE k <= Len(from)
      BY <1>1, <2>1, <2>2, <2>3, <3>1
    <3>2. CASE ~(k <= Len(from))
      <4>1. k - Len(from) \in 1..Len(r) - Len(to) /\ Len(from) + (k - Len(from)) = k
            /\ k - Len(from) \in 1..Len(q) - Len(from)
        BY <1>1, <2>1, <2>3, <3>2
      <4> DEFINE j == k - Len(from)
      <4> HIDE DEF j
      <4>2. j \in 1..Len(r) - Len(to) /\ j \in 1..Len(q) - Len(from) /\ Len(from) + j = k
        BY <4>1 DEF j
      <4>3. b[k] = r[Len(to) + j] /\ r[Len(to) + j] = q[k]
        BY <1>1, <2>1, <4>2
      <4> QED
        BY <4>3
    <3> QED
      BY <3>1, <3>2
  <2>4. b = q
    BY <1>1, <2>1, <2>3, SamePath
  <2> QED
    BY <2>4 DEF b
<1>4. ASSUME q = from PROVE r = to
  <2>1. Len(r) = Len(to) /\ \A k \in 1..Len(r) : r[k] = to[k]
    BY <1>1, <1>4
  <2> QED
    BY <1>1, <2>1, SamePath
<1>5. ASSUME q # from
      PROVE  ParentOf(r) = Rebase(ParentOf(q), from, to) /\ IsPrefix(from, ParentOf(q)) /\ r # <<>>
  <2> DEFINE p == ParentOf(q)
             s == Rebase(p, from, to)
  <2>1. IsStrictPrefix(from, q) /\ q # <<>>
    BY <1>5, ParentRead DEF IsStrictPrefix
  <2>2. p \in Paths /\ IsPrefix(p, q) /\ Len(p) = Len(q) - 1 /\ IsPrefix(from, p) /\ Len(q) # 0
    BY <2>1, ParentRead
  <2>3. \A k \in 1..Len(p) : p[k] = q[k]
    BY <2>2, PrefixRead
  <2>4. Len(q) # Len(from)
    BY <1>5, PathOrder
  <2>5. Len(r) \in Nat \ {0} /\ r # <<>>
    BY <1>1, <2>4
  <2> HIDE DEF p
  <2>6. /\ s \in Paths /\ Len(s) = Len(to) + (Len(p) - Len(from))
        /\ \A k \in 1..Len(to) : s[k] = to[k]
        /\ \A k \in 1..Len(p) - Len(from) : s[Len(to) + k] = p[Len(from) + k]
    <3>1. p \in Paths /\ IsPrefix(from, p)
      BY <2>2
    <3> HIDE <2>2
    <3> QED
      BY ZenonT(30), <3>1, RebaseNames
  <2>7. ParentOf(r) \in Paths /\ Len(ParentOf(r)) = Len(r) - 1 /\ IsPrefix(ParentOf(r), r)
    BY <1>1, <2>5, ParentRead
  <2>8. \A k \in 1..Len(r) - 1 : ParentOf(r)[k] = r[k]
    BY <1>1, <2>7, PrefixRead
  <2> HIDE DEF s
  <2>9. Len(s) = Len(r) - 1
    BY <1>1, <2>2, <2>6
  <2>10. ASSUME NEW k \in 1..Len(s) PROVE s[k] = r[k]
    <3>1. CASE k <= Len(to)
      BY <1>1, <2>6, <2>10, <3>1
    <3>2. CASE ~(k <= Len(to))
      <4> DEFINE j == k - Len(to)
      <4>1. j \in 1..Len(p) - Len(from) /\ j \in 1..Len(q) - Len(from) /\ Len(to) + j = k /\ Len(from) + j \in 1..Len(p)
        BY <1>1, <2>2, <2>4, <2>6, <2>10, <3>2
      <4> HIDE DEF j
      <4>2. s[k] = p[Len(from) + j] /\ r[k] = q[Len(from) + j]
        BY <1>1, <2>6, <4>1
      <4>3. p[Len(from) + j] = q[Len(from) + j]
        BY <2>3, <4>1
      <4> QED
        BY <4>2, <4>3
    <3> QED
      BY <3>1, <3>2
  <2>11. ParentOf(r) = s
    <3>1. \A k \in 1..Len(s) : ParentOf(r)[k] = s[k]
      BY <2>8, <2>9, <2>10
    <3> QED
      BY <2>6, <2>7, <2>9, <3>1, SamePath
  <2> QED
    BY <2>2, <2>5, <2>11 DEF p, s
<1> QED
  BY <1>1, <1>2, <1>3, <1>4, <1>5 DEF r

LEMMA MovedMoves ==
  ASSUME NEW d, IsTree(d), NEW from \in Paths \ {<<>>}, NEW to \in Paths \ {<<>>}, from # to,
         from \in DOMAIN d, ~IsStrictPrefix(from, to), IsDir(d, ParentOf(to)), CanReplace(d, from, to)
  PROVE  /\ IsTree(Moved(d, from, to))
         /\ \A q \in Paths : ~IsPrefix(from, q) /\ ~IsPrefix(to, q) => SameAt(d, Moved(d, from, to), q)
<1> DEFINE moving == {q \in DOMAIN d : Under(from, q)}
           landed == {Rebase(q, from, to) : q \in moving}
           e == Moved(d, from, to)
<1>0. /\ from \in Paths /\ to \in Paths /\ <<>> \in Paths /\ from # <<>> /\ to # <<>> /\ ~IsPrefix(from, to)
      /\ \A q \in DOMAIN d : q \in Paths
  BY TreeRead DEF IsStrictPrefix, Paths
<1>1. /\ DOMAIN e = (DOMAIN d \ (moving \cup {to})) \cup landed
      /\ \A q \in DOMAIN e : e[q] = IF q \in landed THEN d[Rebase(q, to, from)] ELSE d[q]
  BY DEF Moved
<1>2. \A q \in moving : q \in DOMAIN d /\ q \in Paths /\ IsPrefix(from, q)
  BY <1>0 DEF Under
<1>3. \A q \in DOMAIN d : IsPrefix(from, q) => q \in moving
  BY DEF Under
<1>4. \A p \in landed : \E q \in moving : p = Rebase(q, from, to)
  OBVIOUS
<1>5. \A q \in moving : Rebase(q, from, to) \in landed
  OBVIOUS
<1> DEFINE f == [q \in moving |-> Rebase(q, from, to)]
<1>6. IsFiniteSet(landed)
  <2>1. IsFiniteSet(DOMAIN d) /\ moving \in SUBSET DOMAIN d
    BY TreeRead
  <2>2. IsFiniteSet(moving)
    BY <2>1, FS_Subset
  <2>3. f \in Surjection(moving, landed)
    BY DEF Surjection
  <2> QED
    BY <2>2, <2>3, FS_Surjection
<1> HIDE DEF moving, landed, e
<1>7. ASSUME NEW p \in landed
      PROVE  /\ p \in Paths /\ IsPrefix(to, p) /\ Rebase(p, to, from) \in moving
             /\ p = Rebase(Rebase(p, to, from), from, to)
  <2>1. PICK q \in moving : p = Rebase(q, from, to)
    BY <1>4
  <2>2. q \in Paths /\ IsPrefix(from, q)
    BY <1>2
  <2>3. p \in Paths /\ IsPrefix(to, p) /\ Rebase(p, to, from) = q
    BY <1>0, <2>1, <2>2, RebaseRead
  <2> QED
    BY <2>1, <2>3
<1>8. \A p \in landed : e[p] = d[Rebase(p, to, from)]
  BY <1>1
<1>9. \A p \in DOMAIN e \ landed : p \in DOMAIN d /\ p \notin moving /\ p # to /\ e[p] = d[p]
  BY <1>1
<1>10. IsFiniteSet(DOMAIN e)
  <2>1. IsFiniteSet(DOMAIN d \ (moving \cup {to}))
    BY TreeRead, FS_Difference
  <2>2. IsFiniteSet((DOMAIN d \ (moving \cup {to})) \cup landed)
    BY <1>6, <2>1, FS_Union
  <2> QED
    BY <1>1, <2>2
<1>11. \A p \in DOMAIN e : p \in Paths /\ e[p] \in Nodes /\ e[p].dev # "none"
  BY <1>2, <1>7, <1>8, <1>9, TreeRead
\* Where nothing lands and nothing leaves, the disk is as it was.
<1>12. ASSUME NEW q \in Paths, ~IsPrefix(from, q), ~IsPrefix(to, q)
       PROVE  SameAt(d, e, q) /\ (q \in DOMAIN d => q \in DOMAIN e)
  <2>1. q \notin landed /\ q \notin moving /\ q # to
    BY <1>0, <1>2, <1>7, <1>12, PathOrder
  <2> QED
    BY <1>1, <2>1 DEF SameAt
<1>13. <<>> \in DOMAIN e /\ e[<<>>].kind = "dir"
  <2>1. ~IsPrefix(from, <<>>) /\ ~IsPrefix(to, <<>>)
    BY <1>0, PathOrder
  <2> QED
    BY <1>0, <1>12, <2>1, TreeRead DEF SameAt
\* Nothing lay below the destination.
<1>14. \A q \in DOMAIN d : ~IsStrictPrefix(to, q)
  <2>1. CASE ~Exists(d, to)
    <3>1. ~IsDir(d, to)
      BY <2>1 DEF IsDir, HasKind
    <3> QED
      BY <1>0, <3>1, OnlyFoldersHold
  <2>2. CASE ~IsDir(d, to) \/ Children(d, to) = {}
    BY <1>0, <2>2, OnlyFoldersHold
  <2> QED
    BY <2>1, <2>2 DEF CanReplace
<1>15. ASSUME NEW p \in DOMAIN e PROVE ParentOf(p) \in DOMAIN e /\ e[ParentOf(p)].kind = "dir"
  <2>1. CASE p \in landed
    <3>1. PICK q \in moving : p = Rebase(q, from, to)
      BY <1>4, <2>1
    <3>2. q \in DOMAIN d /\ q \in Paths /\ IsPrefix(from, q)
      BY <1>2
    <3>3. CASE q = from
      <4>1. p = to
        BY <1>0, <3>1, <3>2, <3>3, RebaseRead
      <4>2. ParentOf(to) \in DOMAIN d /\ d[ParentOf(to)].kind = "dir"
        BY DEF IsDir, HasKind, Exists
      <4>3. ParentOf(to) \in Paths /\ IsStrictPrefix(ParentOf(to), to)
        BY <1>0, ParentRead
      <4>4. ~IsPrefix(from, ParentOf(to)) /\ ~IsPrefix(to, ParentOf(to))
        BY <1>0, <4>3, PathOrder DEF IsStrictPrefix
      <4> QED
        BY <1>12, <4>1, <4>2, <4>3, <4>4 DEF SameAt
    <3>4. CASE q # from
      <4>1. ParentOf(p) = Rebase(ParentOf(q), from, to) /\ IsPrefix(from, ParentOf(q))
        BY <1>0, <3>1, <3>2, <3>4, RebaseRead
      <4>2. ParentOf(q) \in DOMAIN d /\ d[ParentOf(q)].kind = "dir" /\ ParentOf(q) \in Paths
        BY <1>0, <3>2, TreeRead
      <4>3. ParentOf(q) \in moving /\ ParentOf(p) \in landed
        BY <1>3, <1>5, <4>1, <4>2
      <4>4. Rebase(ParentOf(p), to, from) = ParentOf(q)
        BY <1>0, <4>1, <4>2, RebaseRead
      <4> QED
        BY <1>1, <1>8, <4>2, <4>3, <4>4
    <3> QED
      BY <3>3, <3>4
  <2>2. CASE p \notin landed
    <3>1. p \in DOMAIN d /\ p \notin moving /\ p # to /\ p \in Paths
      BY <1>0, <1>9, <2>2
    <3>2. ParentOf(p) \in DOMAIN d /\ d[ParentOf(p)].kind = "dir" /\ ParentOf(p) \in Paths /\ IsPrefix(ParentOf(p), p)
      BY <1>0, <3>1, TreeRead, ParentRead
    <3>3. ~IsPrefix(from, ParentOf(p))
      BY <1>0, <1>3, <3>1, <3>2, PathOrder
    <3>4. ~IsPrefix(to, ParentOf(p))
      <4>1. IsPrefix(to, ParentOf(p)) => IsPrefix(to, p)
        BY <1>0, <3>1, <3>2, PathOrder
      <4> QED
        BY <1>14, <3>1, <4>1 DEF IsStrictPrefix
    <3> QED
      BY <1>12, <3>2, <3>3, <3>4 DEF SameAt
  <2> QED
    BY <2>1, <2>2
<1>16. IsTree(e)
  BY <1>10, <1>11, <1>13, <1>15 DEF IsTree, IsDir, HasKind, Exists
<1> QED
  BY <1>12, <1>16 DEF e

LEMMA RenameRenames ==
  ASSUME NEW d, IsTree(d), NEW from \in Paths \ {<<>>}, NEW to \in Paths \ {<<>>},
         NEW out \in RenamePath(d, from, to)
  PROVE  /\ IsTree(out.disk)
         /\ \A q \in Paths : ~IsPrefix(from, q) /\ ~IsPrefix(to, q) => SameAt(d, out.disk, q)
<1>1. \/ out.disk = d
      \/ /\ from # to /\ Exists(d, from) /\ ~IsStrictPrefix(from, to) /\ IsDir(d, ParentOf(to))
         /\ CanReplace(d, from, to) /\ out.disk = Moved(d, from, to)
  BY DEF RenamePath, Denied, Outcome
<1>2. CASE out.disk = d
  BY <1>2 DEF SameAt
<1>3. CASE /\ from # to /\ Exists(d, from) /\ ~IsStrictPrefix(from, to) /\ IsDir(d, ParentOf(to))
           /\ CanReplace(d, from, to) /\ out.disk = Moved(d, from, to)
  BY <1>3, MovedMoves DEF Exists
<1> QED
  BY <1>1, <1>2, <1>3

-------------------------------------------------------------------------------
(* What the guard lets through (paths.ts).                                   *)

LEMMA RealpathRead ==
  ASSUME NEW d, NEW p, NEW q \in Realpath(d, p)
  PROVE  q \in DOMAIN d /\ d[q].kind # "link"
  BY DEF Realpath, Solid

\* The part that exists, and the first name after it, which does not.
LEMMA SplitRead ==
  ASSUME NEW d, NEW p \in Paths
  PROVE  \E n \in 0..Len(p) :
           /\ SplitAtExisting(d, p) = [existing |-> SubSeq(p, 1, n), tail |-> SubSeq(p, n + 1, Len(p))]
           /\ n # Len(p) => ~Lstat(d, SubSeq(p, 1, n + 1))
<1> DEFINE There(k) == Lstat(d, SubSeq(p, 1, k))
           Deep(k) == k \in 0..Len(p) /\ There(k) /\ \A j \in (k + 1)..Len(p) : ~There(j)
           T == {m \in Nat : \E k \in 0..Len(p) : There(k) /\ m = Len(p) - k}
           n == CHOOSE k \in 0..Len(p) : There(k) /\ \A j \in (k + 1)..Len(p) : ~There(j)
<1>0. Len(p) \in Nat
  BY DEF Paths
<1>1. There(0)
  <2>1. SubSeq(p, 1, 0) = <<>>
    BY DEF Paths
  <2> QED
    BY <2>1 DEF Lstat
<1> HIDE DEF There
<1>2. T \in SUBSET Nat /\ T # {}
  <2>1. Len(p) - 0 \in T
    BY <1>0, <1>1
  <2> QED
    BY <2>1
<1>3. PICK m \in T : \A o \in T : m <= o
  BY <1>2, Least
<1>4. PICK k \in 0..Len(p) : There(k) /\ m = Len(p) - k
  BY <1>3
<1>5. Deep(k)
  <2> SUFFICES ASSUME NEW j \in (k + 1)..Len(p), There(j) PROVE FALSE
    BY <1>4
  <2>1. j \in 0..Len(p) /\ Len(p) - j \in Nat
    BY <1>0
  <2>2. Len(p) - j \in T
    BY <2>1
  <2>3. m <= Len(p) - j
    BY <1>3, <2>2
  <2> QED
    BY <1>0, <1>4, <2>3
<1>6. Deep(n)
  BY <1>5
<1>7. SplitAtExisting(d, p) = [existing |-> SubSeq(p, 1, n), tail |-> SubSeq(p, n + 1, Len(p))]
  BY DEF SplitAtExisting, There
<1> HIDE DEF n
<1>8. n # Len(p) => ~There(n + 1)
  BY <1>0, <1>6
<1> QED
  BY <1>6, <1>7, <1>8 DEF There

LEMMA RealpathOfRead ==
  ASSUME NEW d, IsTree(d), NEW p \in Paths, NEW r \in RealpathOf(d, p)
  PROVE  r \in Paths /\ ~HasKind(d, r, "link") /\ (p = <<>> => r \in DOMAIN d)
<1>0. Len(p) \in Nat
  BY DEF Paths
<1>1. PICK n \in 0..Len(p) :
        /\ SplitAtExisting(d, p) = [existing |-> SubSeq(p, 1, n), tail |-> SubSeq(p, n + 1, Len(p))]
        /\ n # Len(p) => ~Lstat(d, SubSeq(p, 1, n + 1))
  BY SplitRead
<1>2. PICK q \in Realpath(d, SubSeq(p, 1, n)) : r = q \o SubSeq(p, n + 1, Len(p))
  <2>1. RealpathOf(d, p) = {q \o SplitAtExisting(d, p).tail : q \in Realpath(d, SplitAtExisting(d, p).existing)}
    BY DEF RealpathOf
  <2>2. SplitAtExisting(d, p).existing = SubSeq(p, 1, n) /\ SplitAtExisting(d, p).tail = SubSeq(p, n + 1, Len(p))
    BY <1>1
  <2> QED
    BY <2>1, <2>2
<1>3. q \in DOMAIN d /\ d[q].kind # "link" /\ q \in Paths
  BY RealpathRead, TreeRead
<1>4. CASE n = Len(p)
  <2>1. SubSeq(p, n + 1, Len(p)) = <<>>
    BY <1>0, <1>4 DEF Paths
  <2>2. q \o <<>> = q
    BY <1>3, ConcatEmptySeq DEF Paths
  <2>3. r = q
    BY <1>2, <2>1, <2>2
  <2> QED
    BY <1>3, <2>3 DEF HasKind
<1>5. CASE n # Len(p)
  <2> DEFINE tail == SubSeq(p, n + 1, Len(p))
             x == p[n + 1]
  <2>1. n + 1 \in 1..Len(p) /\ x \in Names /\ n \in Nat /\ Len(p) - n \in Nat \ {0}
    <3>1. n + 1 \in 1..Len(p) /\ n \in Nat /\ Len(p) - n \in Nat \ {0}
      BY <1>0, <1>5
    <3>2. p \in [1..Len(p) -> Names]
      BY DEF Paths
    <3> QED
      BY <3>1, <3>2
  <2>2. tail \in Paths /\ Len(tail) = Len(p) - n /\ tail[1] = x
    <3>1. tail \in Seq(Names)
      BY <1>0, <2>1 DEF Paths
    <3>2. Len(tail) = Len(p) - n
      BY <1>0, <2>1 DEF Paths
    <3>3. tail[1] = p[n + 1]
      BY <1>0, <2>1 DEF Paths
    <3> QED
      BY <3>1, <3>2, <3>3 DEF Paths
  <2> HIDE DEF tail
  <2>3. r = q \o tail
    BY <1>2 DEF tail
  <2>4. /\ r \in Paths /\ Len(r) = Len(q) + Len(tail) /\ Len(q) \in Nat
        /\ \A k \in 1..Len(q) + Len(tail) : r[k] = IF k <= Len(q) THEN q[k] ELSE tail[k - Len(q)]
    <3>1. q \in Seq(Names) /\ tail \in Seq(Names) /\ Len(q) \in Nat
      BY <1>3, <2>2 DEF Paths
    <3>2. /\ q \o tail \in Seq(Names) /\ Len(q \o tail) = Len(q) + Len(tail)
          /\ \A k \in 1..Len(q) + Len(tail) : (q \o tail)[k] = IF k <= Len(q) THEN q[k] ELSE tail[k - Len(q)]
      BY <3>1, ConcatProperties
    <3> QED
      BY <2>3, <3>1, <3>2 DEF Paths
  <2> DEFINE c == Append(q, x)
  <2>5. c \in Paths /\ ParentOf(c) = q /\ IsStrictPrefix(q, c)
    BY <1>3, <2>1, EntryRead
  <2>6. Len(c) = Len(q) + 1 /\ c[Len(q) + 1] = x /\ \A k \in 1..Len(q) : c[k] = q[k]
    BY <1>3, <2>1 DEF Paths
  <2> HIDE DEF x, c
  <2>7. IsPrefix(c, r)
    <3>1. \A k \in 1..Len(q) : r[k] = c[k]
      <4>1. \A k \in 1..Len(q) : k \in 1..Len(q) + Len(tail) /\ k <= Len(q)
        BY <2>1, <2>2, <2>4
      <4> QED
        BY <2>4, <2>6, <4>1
    <3>2. r[Len(q) + 1] = c[Len(q) + 1]
      <4>1. Len(q) + 1 \in 1..Len(q) + Len(tail) /\ ~(Len(q) + 1 <= Len(q)) /\ (Len(q) + 1) - Len(q) = 1
        BY <2>1, <2>2, <2>4
      <4> QED
        BY <2>2, <2>4, <2>6, <4>1
    <3>3. \A k \in 1..Len(c) : c[k] = r[k]
      BY <2>4, <2>6, <3>1, <3>2
    <3> QED
      BY <2>1, <2>2, <2>4, <2>5, <2>6, <3>3, PrefixRead
  <2>8. r \notin DOMAIN d
    <3> SUFFICES ASSUME r \in DOMAIN d PROVE FALSE
      OBVIOUS
    <3>1. c \in DOMAIN d
      BY <2>4, <2>5, <2>7, TreeDown DEF IsStrictPrefix
    <3>2. d[q].kind = "dir"
      BY <2>5, <3>1, TreeRead
    <3> DEFINE t == SubSeq(p, 1, n + 1)
    <3>3. t \in Paths /\ Len(t) = n + 1 /\ \A k \in 1..n + 1 : t[k] = p[k]
      BY <1>0, <2>1, Cut
    <3>4. SubSeq(p, 1, n) \in Paths /\ Len(SubSeq(p, 1, n)) = n /\ \A k \in 1..n : SubSeq(p, 1, n)[k] = p[k]
      BY Cut
    <3>5. t # <<>> /\ Last(t) = x
      BY <2>1, <3>3 DEF Last, x
    <3> HIDE DEF t
    <3>6. ParentOf(t) \in Paths /\ Len(ParentOf(t)) = n /\ IsPrefix(ParentOf(t), t)
      BY <2>1, <3>3, <3>5, ParentRead
    <3>7. \A k \in 1..n : ParentOf(t)[k] = SubSeq(p, 1, n)[k]
      <4>1. \A k \in 1..n : ParentOf(t)[k] = t[k]
        BY <3>3, <3>6, PrefixRead
      <4>2. \A k \in 1..n : k \in 1..n + 1
        BY <1>0, <2>1
      <4> QED
        BY <3>3, <3>4, <4>1, <4>2
    <3>8. ParentOf(t) = SubSeq(p, 1, n)
      BY <3>4, <3>6, <3>7, SamePath
    <3>9. Lstat(d, t)
      BY <1>3, <3>1, <3>2, <3>5, <3>8 DEF Lstat, IsDir, HasKind, Exists, c
    <3> QED
      BY <1>1, <1>5, <3>9 DEF t
  <2> QED
    BY <1>0, <2>1, <2>4, <2>8 DEF HasKind, Exists
<1> QED
  BY <1>4, <1>5

LEMMA ResolveRead ==
  ASSUME NEW d, IsTree(d), NEW rs \in SUBSET Paths, NEW input \in Paths, NEW t \in Resolve(d, rs, input)
  PROVE  t \in Paths /\ (\E r \in rs : Under(r, t)) /\ ~HasKind(d, ParentOf(t), "link")
<1>1. \E r \in rs : Under(r, t)
  BY DEF Resolve, RootFor
<1>2. CASE input = <<>>
  <2>1. t \in RealpathOf(d, <<>>)
    BY <1>2 DEF Resolve
  <2>2. t \in Paths /\ t \in DOMAIN d
    BY <1>2, <2>1, RealpathOfRead
  <2>3. d[ParentOf(t)].kind = "dir"
    BY <2>2, TreeRead
  <2> QED
    BY <1>1, <2>2, <2>3 DEF HasKind
<1>3. CASE input # <<>>
  <2>1. PICK r \in RealpathOf(d, ParentOf(input)) : t = Append(r, Last(input))
    BY <1>3 DEF Resolve
  <2>2. ParentOf(input) \in Paths /\ Last(input) \in Names
    BY <1>3, ParentRead
  <2>3. r \in Paths /\ ~HasKind(d, r, "link")
    BY <2>2, RealpathOfRead
  <2>4. t \in Paths /\ ParentOf(t) = r
    BY <2>1, <2>2, <2>3, EntryRead
  <2> QED
    BY <1>1, <2>3, <2>4
<1> QED
  BY <1>2, <1>3

LEMMA UsableRead ==
  ASSUME NEW d, NEW configured
  PROVE  UsableRoots(d, configured) \subseteq DOMAIN d
  BY RealpathRead DEF UsableRoots

-------------------------------------------------------------------------------
(* The invariant of an item and of the disk it works on.                     *)

CheckNames == {"source", "mount", "free", "parent", "device", "leave", "empty", "references"}
Devices == STRING \cup {"none"}
DiskOps == {"fs.mkdir", "fs.rename", "fs.move", "fs.delete"}

TaskRecords ==
  [op : DiskOps, from : Paths, to : Paths, recursive : BOOLEAN, claimed : BOOLEAN,
   left : Seq(CheckNames), seen : [from : Devices, to : Devices], wasDir : BOOLEAN,
   blocked : BOOLEAN, phase : {"preflight", "done"}, raced : BOOLEAN]

\* The checks still to make are the last of those of the operation.
Behind(t) == Len(Checks(t.op)) - Len(t.left)
Looked(t, check) == \E k \in 1..Behind(t) : Checks(t.op)[k] = check
LeftAreTheLast(t) ==
  /\ Behind(t) \in 0..Len(Checks(t.op))
  /\ \A k \in 1..Len(t.left) : t.left[k] = Checks(t.op)[Behind(t) + k]

\* A root that lies in no other.
Outer(rs, r) == r \in rs /\ \A s \in rs : ~IsStrictPrefix(s, r)

\* An item is about paths in the roots, and what goes away is no root.
Inside(rs, p) == \E r \in rs : Under(r, p)
TaskInside(t, rs) == Inside(rs, t.from) /\ Inside(rs, t.to) /\ (t.op # "fs.mkdir" => t.from \notin rs)

\* No item makes what is there already, an outer root least of all.
DestinationIsFree(t, rs) == ~t.blocked /\ Looked(t, "free") => ~Outer(rs, t.to)

\* What a check has found, on a disk that is still as it was then.
DeviceIn(d, p) == IF Exists(d, p) THEN d[p].dev ELSE "none"
Found(t, d, check) ==
  /\ check = "source" => IsDir(d, t.from) /\ t.wasDir /\ t.seen.from = DeviceIn(d, t.from)
  /\ check = "mount" => ~IsMountPoint(d, t.from)
  /\ check = "free" => ~Exists(d, t.to)
  /\ check = "parent" => /\ t.seen.to = DeviceIn(d, ParentOf(t.to))
                         /\ IF Exists(d, ParentOf(t.to)) THEN Writable(d, ParentOf(t.to))
                            ELSE t.op = "fs.mkdir" /\ t.recursive
  /\ check = "device" => \/ "none" \in {DeviceIn(d, t.from), DeviceIn(d, ParentOf(t.to))}
                         \/ DeviceIn(d, t.from) = DeviceIn(d, ParentOf(t.to))
  /\ check = "leave" => Writable(d, ParentOf(t.from))
  /\ check = "empty" => t.recursive \/ Children(d, t.from) = {}

ChecksHold(t, d) ==
  t.phase = "preflight" /\ ~t.raced =>
    /\ ~HasKind(d, ParentOf(t.to), "link")
    /\ ~t.blocked => \A check \in CheckNames : Looked(t, check) => Found(t, d, check)

TaskGood(t, d, rs) ==
  t \in TaskRecords /\ LeftAreTheLast(t) /\ TaskInside(t, rs) /\ DestinationIsFree(t, rs) /\ ChecksHold(t, d)
TaskInv == task = NoTask \/ TaskGood(task, disk, roots)

RootsStay(d, rs) ==
  /\ rs \in SUBSET Paths
  /\ \A entry \in Mutable : entry[1] \notin rs
  /\ \A r \in rs : Outer(rs, r) => Exists(d, r)
RootInv == IsTree(disk) /\ RootsStay(disk, roots)

LEMMA ChecksRead ==
  ASSUME NEW op \in DiskOps
  PROVE  /\ Checks(op) \in Seq(CheckNames) /\ Len(Checks(op)) \in Nat
         /\ op = "fs.mkdir" => Checks(op) = <<"free", "parent">>
         /\ op \in Relocations => Checks(op) = <<"source", "mount", "free", "parent", "device", "leave">>
         /\ op = "fs.delete" => Checks(op) = <<"source", "mount", "leave", "empty", "references">>
<1>1. op = "fs.mkdir" => Checks(op) = <<"free", "parent">>
  BY DEF Checks, Relocations
<1>2. op \in Relocations => Checks(op) = <<"source", "mount", "free", "parent", "device", "leave">>
  BY DEF Checks, Relocations
<1>3. op = "fs.delete" => Checks(op) = <<"source", "mount", "leave", "empty", "references">>
  BY DEF Checks, Relocations
<1>4. Checks(op) \in Seq(CheckNames)
  <2>1. <<"free", "parent">> \in Seq(CheckNames)
    BY DEF CheckNames
  <2>2. <<"source", "mount", "free", "parent", "device", "leave">> \in Seq(CheckNames)
    BY DEF CheckNames
  <2>3. <<"source", "mount", "leave", "empty", "references">> \in Seq(CheckNames)
    BY DEF CheckNames
  <2>4. op = "fs.mkdir" \/ op \in Relocations \/ op = "fs.delete"
    BY DEF DiskOps, Relocations
  <2> QED
    BY <1>1, <1>2, <1>3, <2>1, <2>2, <2>3, <2>4
<1> QED
  BY <1>1, <1>2, <1>3, <1>4

\* When a preflight is over every check was made.
LEMMA AllLooked ==
  ASSUME NEW t, t.op \in DiskOps, LeftAreTheLast(t), t.left = <<>>
  PROVE  /\ t.op = "fs.mkdir" => Looked(t, "free") /\ Looked(t, "parent")
         /\ t.op \in Relocations => /\ Looked(t, "source") /\ Looked(t, "mount") /\ Looked(t, "free")
                                    /\ Looked(t, "parent") /\ Looked(t, "device") /\ Looked(t, "leave")
         /\ t.op = "fs.delete" => Looked(t, "source") /\ Looked(t, "mount") /\ Looked(t, "leave") /\ Looked(t, "empty")
<1> DEFINE c == Checks(t.op)
<1>1. Behind(t) = Len(c)
  BY ChecksRead DEF Behind
<1>2. \A k \in 1..Len(c) : Looked(t, c[k])
  BY <1>1 DEF Looked
<1>3. CASE t.op = "fs.mkdir"
  <2>1. c = <<"free", "parent">>
    BY <1>3, ChecksRead
  <2>2. Looked(t, c[1]) /\ Looked(t, c[2])
    BY <1>2, <2>1
  <2> QED
    BY <1>3, <2>1, <2>2 DEF Relocations
<1>4. CASE t.op \in Relocations
  <2>1. c = <<"source", "mount", "free", "parent", "device", "leave">>
    BY <1>4, ChecksRead
  <2>2. Looked(t, c[1]) /\ Looked(t, c[2]) /\ Looked(t, c[3]) /\ Looked(t, c[4]) /\ Looked(t, c[5]) /\ Looked(t, c[6])
    BY <1>2, <2>1
  <2> QED
    BY <1>4, <2>1, <2>2 DEF Relocations
<1>5. CASE t.op = "fs.delete"
  <2>1. c = <<"source", "mount", "leave", "empty", "references">>
    BY <1>5, ChecksRead
  <2>2. Looked(t, c[1]) /\ Looked(t, c[2]) /\ Looked(t, c[3]) /\ Looked(t, c[4])
    BY <1>2, <2>1
  <2> QED
    BY <1>5, <2>1, <2>2 DEF Relocations
<1> QED
  BY <1>3, <1>4, <1>5 DEF DiskOps, Relocations

\* Above each path in a root lies an outer root.
LEMMA OuterRoot ==
  ASSUME NEW rs \in SUBSET Paths, NEW p \in Paths, Inside(rs, p)
  PROVE  \E r \in rs : Outer(rs, r) /\ IsPrefix(r, p)
<1> DEFINE T == {n \in Nat : \E r \in rs : IsPrefix(r, p) /\ n = Len(r)}
<1>0. \A r \in rs : r \in Paths /\ Len(r) \in Nat
  BY DEF Paths
<1>1. T \in SUBSET Nat /\ T # {}
  BY <1>0 DEF Inside, Under
<1>2. PICK n \in T : \A m \in T : n <= m
  BY <1>1, Least
<1>3. PICK r \in rs : IsPrefix(r, p) /\ n = Len(r)
  BY <1>2
<1>4. ASSUME NEW s \in rs, IsStrictPrefix(s, r) PROVE FALSE
  <2>1. IsPrefix(s, r) /\ s # r
    BY <1>4 DEF IsStrictPrefix
  <2>2. IsPrefix(s, p) /\ Len(s) <= Len(r) /\ Len(s) # Len(r)
    BY <1>0, <1>3, <2>1, PathOrder
  <2>3. Len(s) \in T
    BY <1>0, <2>2
  <2> QED
    BY <1>0, <1>2, <1>3, <2>2, <2>3
<1> QED
  BY <1>3, <1>4 DEF Outer

\* A mutation reaches nothing but what lies strictly below a root.
LEMMA MutationsReach ==
  ASSUME RootInv, TaskGood(task, disk, roots), ~task.blocked, task.left = <<>>, NEW out \in Mutations
  PROVE  /\ IsTree(out.disk)
         /\ \A q \in Paths : ~SameAt(disk, out.disk, q) => \E r \in roots : IsStrictPrefix(r, q)
<1>0. /\ IsTree(disk) /\ roots \in SUBSET Paths /\ \A r \in roots : Outer(roots, r) => r \in DOMAIN disk
  BY DEF RootInv, RootsStay, Exists
<1>1. /\ task.op \in DiskOps /\ task.from \in Paths /\ task.to \in Paths /\ task.recursive \in BOOLEAN
      /\ Inside(roots, task.from) /\ Inside(roots, task.to) /\ (task.op # "fs.mkdir" => task.from \notin roots)
      /\ LeftAreTheLast(task)
  BY DEF TaskGood, TaskInside, TaskRecords
<1>2. task.op # "fs.delete" => ~Outer(roots, task.to)
  BY <1>1, AllLooked DEF TaskGood, DestinationIsFree, DiskOps, Relocations
<1>3. PICK s \in roots : Outer(roots, s) /\ IsPrefix(s, task.to)
  BY <1>0, <1>1, OuterRoot
<1>4. task.op # "fs.delete" => IsStrictPrefix(s, task.to)
  BY <1>2, <1>3 DEF IsStrictPrefix
<1>5. task.op # "fs.mkdir" => \E r \in roots : IsStrictPrefix(r, task.from)
  BY <1>1 DEF Inside, Under, IsStrictPrefix
<1>6. ASSUME NEW r \in roots, NEW p \in Paths, IsStrictPrefix(r, p), NEW q \in Paths, IsPrefix(p, q)
      PROVE  IsStrictPrefix(r, q) /\ p # <<>>
  <2>1. r \in Paths /\ IsPrefix(r, p) /\ r # p
    BY <1>0, <1>6 DEF IsStrictPrefix
  <2>2. IsPrefix(r, q) /\ p # <<>>
    BY <1>6, <2>1, PathOrder, ParentRead DEF IsStrictPrefix
  <2>3. r # q
    BY <1>6, <2>1, PathOrder
  <2> QED
    BY <2>2, <2>3 DEF IsStrictPrefix
<1>7. CASE task.op = "fs.mkdir"
  <2>1. out \in MakeDir(disk, task.to, task.recursive)
    BY <1>7 DEF Mutations, Relocations
  <2>2. IsTree(out.disk) /\ \A q \in Paths : ~IsPrefix(q, task.to) \/ q \in DOMAIN disk => SameAt(disk, out.disk, q)
    BY <1>0, <1>1, <2>1, MakeDirMakes
  <2>3. ASSUME NEW q \in Paths, ~SameAt(disk, out.disk, q) PROVE IsStrictPrefix(s, q)
    <3>1. IsPrefix(q, task.to) /\ q \notin DOMAIN disk
      BY <2>2, <2>3
    <3>2. s \in Paths /\ s \in DOMAIN disk
      BY <1>0, <1>3
    <3>3. ~IsPrefix(q, s)
      BY <1>0, <3>1, <3>2, TreeDown DEF IsStrictPrefix
    <3>4. IsPrefix(s, q)
      BY <1>1, <1>3, <3>1, <3>2, <3>3, PathOrder
    <3> QED
      BY <3>1, <3>2, <3>4 DEF IsStrictPrefix
  <2> QED
    BY <2>2, <2>3
<1>8. CASE task.op \in Relocations
  <2>1. out \in RenamePath(disk, task.from, task.to)
    BY <1>8 DEF Mutations, Relocations
  <2>2. PICK r \in roots : IsStrictPrefix(r, task.from)
    BY <1>5, <1>8 DEF Relocations
  <2>3. task.op # "fs.delete"
    BY <1>8 DEF Relocations
  <2>4. task.from # <<>> /\ task.to # <<>>
    BY <1>0, <1>1, <1>4, <1>6, <2>2, <2>3, PathOrder
  <2>5. IsTree(out.disk) /\ \A q \in Paths : ~IsPrefix(task.from, q) /\ ~IsPrefix(task.to, q) => SameAt(disk, out.disk, q)
    BY <1>0, <1>1, <2>1, <2>4, RenameRenames
  <2>6. ASSUME NEW q \in Paths, ~SameAt(disk, out.disk, q) PROVE IsStrictPrefix(s, q) \/ IsStrictPrefix(r, q)
    BY <1>1, <1>4, <1>6, <2>2, <2>3, <2>5, <2>6
  <2> QED
    BY <2>5, <2>6
<1>9. CASE task.op = "fs.delete"
  <2>1. out \in RemoveDir(disk, task.from) \cup RemoveTree(disk, task.from)
    BY <1>9 DEF Mutations, Relocations, RemovePath
  <2>2. PICK r \in roots : IsStrictPrefix(r, task.from)
    BY <1>5, <1>9
  <2>3. task.from # <<>>
    BY <1>1, <1>6, <2>2, PathOrder
  <2>4. IsTree(out.disk) /\ \A q \in Paths : ~IsPrefix(task.from, q) => SameAt(disk, out.disk, q)
    BY <1>0, <1>1, <2>1, <2>3, RemoveRemoves
  <2>5. \A q \in Paths : ~SameAt(disk, out.disk, q) => IsStrictPrefix(r, q)
    BY <1>1, <1>6, <2>2, <2>4
  <2> QED
    BY <2>4, <2>5
<1> QED
  BY <1>1, <1>7, <1>8, <1>9 DEF DiskOps, Relocations

\* Such a change takes no outer root away.
LEMMA RootsKept ==
  ASSUME NEW d, NEW e, NEW rs, RootsStay(d, rs),
         \A q \in Paths : ~SameAt(d, e, q) => (q \notin rs \/ \E r \in rs : IsStrictPrefix(r, q))
  PROVE  RootsStay(e, rs)
<1>1. ASSUME NEW r \in rs, Outer(rs, r) PROVE Exists(e, r)
  <2>1. r \in Paths /\ r \in DOMAIN d
    BY <1>1 DEF RootsStay, Exists
  <2>2. SameAt(d, e, r)
    BY <1>1, <2>1 DEF Outer
  <2> QED
    BY <2>1, <2>2 DEF SameAt, Exists
<1> QED
  BY <1>1 DEF RootsStay

LEMMA DiskBegins ==
  ASSUME FilesystemAssumption, DiskInit
  PROVE  RootInv /\ TaskInv
<1>1. IsTree(disk) /\ roots = UsableRoots(disk, Configured) /\ task = NoTask /\ disk \in Disks
  BY DEF FilesystemAssumption, DiskInit
<1>2. roots \subseteq DOMAIN disk
  BY <1>1, UsableRead
<1>3. roots \in SUBSET Paths
  BY <1>1, <1>2, TreeRead
<1>4. \A entry \in Mutable : entry[1] \notin roots
  BY <1>1 DEF FilesystemAssumption
<1> QED
  BY <1>1, <1>2, <1>3, <1>4 DEF RootInv, RootsStay, Exists, TaskInv

\* Others write a leaf of the tree.
LEMMA OthersGrow ==
  ASSUME FilesystemAssumption, RootInv, OtherWrites
  PROVE  RootInv'
<1>0. IsTree(disk) /\ RootsStay(disk, roots) /\ roots' = roots
  BY DEF RootInv, OtherWrites
<1>1. PICK entry \in Mutable :
        LET p == entry[1]
        IN  \/ /\ ~Exists(disk, p) /\ IsDir(disk, ParentOf(p))
               /\ disk' = Plus(disk, [q \in {p} |-> entry[2]])
            \/ /\ Exists(disk, p) /\ Children(disk, p) = {}
               /\ disk' = Without(disk, {p})
  BY DEF OtherWrites
<1> DEFINE p == entry[1]
           f == [q \in {p} |-> entry[2]]
<1>2. p \in Paths /\ p # <<>> /\ entry[2] \in Nodes /\ entry[2].dev # "none" /\ p \notin roots
  BY <1>0 DEF FilesystemAssumption, RootsStay
<1>3. CASE ~Exists(disk, p) /\ IsDir(disk, ParentOf(p)) /\ disk' = Plus(disk, f)
  <2>1. DOMAIN f = {p} /\ f[p] = entry[2]
    OBVIOUS
  <2>2. IsFiniteSet({p})
    BY FS_Singleton
  <2> HIDE DEF f, p
  <2>3. Graft(disk, f)
    BY <1>2, <1>3, <2>1, <2>2 DEF Graft, IsDir, HasKind, Exists
  <2>4. IsTree(disk') /\ DOMAIN disk' = {p} \cup DOMAIN disk /\ \A q \in DOMAIN disk : disk'[q] = disk[q]
    <3>1. IsTree(Plus(disk, f)) /\ DOMAIN Plus(disk, f) = DOMAIN f \cup DOMAIN disk
          /\ \A q \in DOMAIN disk : Plus(disk, f)[q] = disk[q]
      BY <1>0, <2>3, TreeGrows
    <3> QED
      BY <1>3, <2>1, <3>1
  <2>5. \A q \in Paths : ~SameAt(disk, disk', q) => q \notin roots
    BY <1>2, <2>4 DEF SameAt
  <2>6. RootsStay(disk', roots)
    BY <1>0, <2>5, RootsKept
  <2> QED
    BY <1>0, <2>4, <2>6 DEF RootInv
<1>4. CASE Exists(disk, p) /\ Children(disk, p) = {} /\ disk' = Without(disk, {p})
  <2> HIDE DEF p
  <2>1. IsTree(disk')
    BY <1>0, <1>2, <1>4, TreeShrinks
  <2>2. \A q \in Paths : ~SameAt(disk, disk', q) => q \notin roots
    <3>1. DOMAIN disk' = DOMAIN disk \ {p} /\ \A q \in DOMAIN disk \ {p} : disk'[q] = disk[q]
      BY <1>4, WithoutRead
    <3> QED
      BY <1>2, <3>1 DEF SameAt
  <2>3. RootsStay(disk', roots)
    BY <1>0, <2>2, RootsKept
  <2> QED
    BY <1>0, <2>1, <2>3 DEF RootInv
<1> QED
  BY <1>1, <1>3, <1>4

\* A step of an item keeps what is known of it, and of the disk.
LEMMA MutateKeeps ==
  ASSUME RootInv, TaskInv, Mutate
  PROVE  /\ RootInv'
         /\ \A q \in Paths : ~SameAt(disk, disk', q) => \E r \in roots : IsStrictPrefix(r, q)
         /\ TaskInv'
<1>1. TaskGood(task, disk, roots) /\ ~task.blocked /\ task.left = <<>> /\ roots' = roots
  BY DEF Mutate, TaskInv, NoTask, Running
<1>2. PICK out \in Mutations : /\ disk' = out.disk
                               /\ task' = IF out.done THEN [task EXCEPT !.phase = "done"] ELSE NoTask
  BY DEF Mutate
<1>3. IsTree(disk') /\ \A q \in Paths : ~SameAt(disk, disk', q) => \E r \in roots : IsStrictPrefix(r, q)
  BY <1>1, <1>2, MutationsReach
<1>4. RootsStay(disk', roots)
  BY <1>3, RootsKept DEF RootInv
<1>5. CASE out.done
  <2> DEFINE t == [task EXCEPT !.phase = "done"]
  <2>1. task \in TaskRecords
    BY <1>1 DEF TaskGood
  <2>2. t \in TaskRecords /\ t.phase = "done" /\ t.op = task.op /\ t.left = task.left /\ t.from = task.from
        /\ t.to = task.to /\ t.blocked = task.blocked
    BY <2>1 DEF TaskRecords
  <2> HIDE DEF t
  <2>3. LeftAreTheLast(t) /\ TaskInside(t, roots) /\ DestinationIsFree(t, roots) /\ ChecksHold(t, disk')
    BY <1>1, <2>2 DEF TaskGood, LeftAreTheLast, TaskInside, DestinationIsFree, ChecksHold, Looked, Behind
  <2>4. task' = t
    BY <1>2, <1>5 DEF t
  <2> QED
    BY <1>1, <1>3, <1>4, <2>2, <2>3, <2>4 DEF RootInv, TaskInv, TaskGood
<1>6. CASE ~out.done
  BY <1>1, <1>2, <1>3, <1>4, <1>6 DEF RootInv, TaskInv, NoTask
<1> QED
  BY <1>5, <1>6

LEMMA OthersKeep ==
  ASSUME TaskInv, OtherWrites
  PROVE  TaskInv'
<1>1. roots' = roots /\ task' = IF Running THEN [task EXCEPT !.raced = TRUE] ELSE task
  BY DEF OtherWrites
<1>2. CASE task = NoTask
  BY <1>1, <1>2 DEF Running, NoTask, TaskInv
<1>3. CASE TaskGood(task, disk, roots)
  <2> DEFINE t == [task EXCEPT !.raced = TRUE]
  <2>1. task \in TaskRecords /\ Running
    BY <1>3 DEF TaskGood, TaskRecords, DiskOps, Running
  <2>2. t \in TaskRecords /\ t.raced = TRUE /\ t.op = task.op /\ t.left = task.left /\ t.from = task.from
        /\ t.to = task.to /\ t.blocked = task.blocked
    BY <2>1 DEF TaskRecords
  <2> HIDE DEF t
  <2>3. LeftAreTheLast(t) /\ TaskInside(t, roots) /\ DestinationIsFree(t, roots) /\ ChecksHold(t, disk')
    BY <1>3, <2>2 DEF TaskGood, LeftAreTheLast, TaskInside, DestinationIsFree, ChecksHold, Looked, Behind
  <2>4. task' = t
    BY <1>1, <2>1 DEF t
  <2> QED
    BY <1>1, <2>2, <2>3, <2>4 DEF TaskInv, TaskGood
<1> QED
  BY <1>2, <1>3 DEF TaskInv

LEMMA BeginKeeps ==
  ASSUME FilesystemAssumption, RootInv, NEW op \in DiskOps, NEW from \in Targets, NEW to \in Targets,
         NEW recursive \in BOOLEAN, NEW claimed \in BOOLEAN, BeginItem(op, from, to, recursive, claimed)
  PROVE  RootInv' /\ TaskInv'
<1>0. disk' = disk /\ roots' = roots
  BY DEF BeginItem
<1>1. PICK f \in Resolve(disk, roots, from), t \in Resolve(disk, roots, to) :
        /\ op # "fs.mkdir" => AssertMutable(f)
        /\ task' = TaskOf(op, f, t, recursive, claimed)
  BY DEF BeginItem
<1>2. from \in Paths /\ to \in Paths /\ IsTree(disk) /\ roots \in SUBSET Paths
  BY DEF FilesystemAssumption, RootInv, RootsStay
<1>3. f \in Paths /\ Inside(roots, f) /\ t \in Paths /\ Inside(roots, t) /\ ~HasKind(disk, ParentOf(t), "link")
  BY <1>2, ResolveRead DEF Inside
<1>4. op # "fs.mkdir" => f \notin roots
  BY <1>1 DEF AssertMutable, IsRoot
<1> DEFINE r == TaskOf(op, f, t, recursive, claimed)
<1>5. /\ r \in TaskRecords /\ r.op = op /\ r.from = f /\ r.to = t /\ r.left = Checks(op)
  <2>1. Checks(op) \in Seq(CheckNames)
    BY ChecksRead
  <2>2. [from |-> "none", to |-> "none"] \in [from : Devices, to : Devices]
    BY DEF Devices
  <2> HIDE DEF CheckNames
  <2> QED
    BY <1>3, <2>1, <2>2 DEF TaskOf, TaskRecords
<1> HIDE DEF r
<1>6. Behind(r) = 0
  BY <1>5, ChecksRead DEF Behind
<1>7. \A check : ~Looked(r, check)
  BY <1>6 DEF Looked
<1>8. LeftAreTheLast(r)
  BY <1>5, <1>6, ChecksRead DEF LeftAreTheLast
<1>9. TaskInside(r, roots) /\ DestinationIsFree(r, roots) /\ ChecksHold(r, disk)
  BY <1>3, <1>4, <1>5, <1>7 DEF TaskInside, DestinationIsFree, ChecksHold
<1>10. task' = r
  BY <1>1 DEF r
<1> QED
  BY <1>0, <1>5, <1>8, <1>9, <1>10 DEF RootInv, TaskInv, TaskGood

\* A check looks at one thing more.
LEMMA OneMore ==
  ASSUME NEW t \in TaskRecords, NEW u \in TaskRecords, LeftAreTheLast(t), t.left # <<>>,
         u.op = t.op, u.left = Tail(t.left)
  PROVE  /\ LeftAreTheLast(u) /\ Head(t.left) \in CheckNames
         /\ \A check : Looked(u, check) <=> (Looked(t, check) \/ check = Head(t.left))
         /\ t.op = "fs.mkdir" => Head(t.left) \in {"free", "parent"}
         /\ t.op = "fs.delete" => Head(t.left) \notin {"free", "parent", "device"}
         /\ t.op \in Relocations => Head(t.left) # "empty"
         /\ Head(t.left) = "device" => Looked(t, "source") /\ Looked(t, "parent")
         /\ Head(t.left) = "empty" => Looked(t, "source")
         /\ Head(t.left) = "parent" => Looked(t, "free")
<1> DEFINE c == Checks(t.op)
           n == Behind(t)
<1>1. /\ t.op \in DiskOps /\ t.left \in Seq(CheckNames) /\ c \in Seq(CheckNames) /\ n \in 0..Len(c)
      /\ Len(c) \in Nat /\ Len(t.left) \in Nat /\ Len(t.left) > 0
  BY ChecksRead, EmptySeq DEF TaskRecords, LeftAreTheLast
<1>2. n = Len(c) - Len(t.left)
  BY DEF Behind
<1>3. \A k \in 1..Len(t.left) : t.left[k] = c[n + k]
  BY DEF LeftAreTheLast
<1> HIDE DEF c, n
<1>4. /\ Head(t.left) = c[n + 1] /\ n + 1 \in 1..Len(c) /\ Head(t.left) \in CheckNames
      /\ Len(u.left) = Len(t.left) - 1 /\ \A k \in 1..Len(u.left) : u.left[k] = t.left[k + 1]
  <2>1. Head(t.left) = t.left[1] /\ 1 \in 1..Len(t.left)
    BY <1>1
  <2> HIDE DEF CheckNames
  <2>2. t.left[1] \in CheckNames
    BY <1>1, <2>1
  <2>3. n + 1 \in 1..Len(c)
    BY <1>1, <1>2
  <2>4. Len(u.left) = Len(t.left) - 1 /\ \A k \in 1..Len(u.left) : u.left[k] = t.left[k + 1]
    BY <1>1
  <2> QED
    BY <1>3, <2>1, <2>2, <2>3, <2>4
<1>5. Behind(u) = n + 1 /\ Checks(u.op) = c
  <2>1. Checks(u.op) = c
    BY DEF c
  <2>2. Behind(u) = Len(c) - Len(u.left)
    BY <2>1 DEF Behind
  <2>3. Len(u.left) = Len(t.left) - 1
    BY <1>4
  <2>4. \A i, j, k \in Int : i = j - k => i + 1 = j - (k - 1)
    OBVIOUS
  <2>5. n \in Int /\ Len(c) \in Int /\ Len(t.left) \in Int
    BY <1>1
  <2> HIDE DEF Behind
  <2>6. Behind(u) = n + 1
    BY ONLY <1>2, <2>2, <2>3, <2>4, <2>5
  <2> QED
    BY <2>1, <2>6
<1>6. LeftAreTheLast(u)
  <2>1. n + 1 \in 0..Len(c)
    BY <1>1, <1>4
  <2>2. ASSUME NEW k \in 1..Len(u.left) PROVE u.left[k] = c[(n + 1) + k]
    <3>1. k + 1 \in 1..Len(t.left)
      BY <1>1, <1>4
    <3>2. t.left[k + 1] = c[n + (k + 1)]
      BY <1>3, <3>1
    <3>3. n + (k + 1) = (n + 1) + k
      BY <1>1
    <3> QED
      BY <1>4, <3>2, <3>3
  <2> QED
    BY <1>5, <2>1, <2>2 DEF LeftAreTheLast
<1>7. \A check : Looked(t, check) <=> \E k \in 1..n : c[k] = check
  BY DEF Looked, n, c
<1>8. \A check : Looked(u, check) <=> \E k \in 1..(n + 1) : c[k] = check
  BY <1>5 DEF Looked
<1>9. \A check : Looked(u, check) <=> (Looked(t, check) \/ check = Head(t.left))
  BY <1>1, <1>4, <1>7, <1>8
<1>10. CASE t.op = "fs.mkdir"
  <2>1. c = <<"free", "parent">>
    BY <1>1, <1>10, ChecksRead DEF c
  <2>2. n + 1 \in 1..2
    BY <1>4, <2>1
  <2> QED
    BY <1>1, <1>4, <1>6, <1>7, <1>9, <1>10, <2>1, <2>2 DEF Relocations
<1>11. CASE t.op \in Relocations
  <2>1. c = <<"source", "mount", "free", "parent", "device", "leave">>
    BY <1>1, <1>11, ChecksRead DEF c
  <2>2. n + 1 \in 1..6
    BY <1>4, <2>1
  <2>3. Head(t.left) = "device" => n = 4
    BY <1>1, <1>4, <2>1, <2>2
  <2>4. Head(t.left) = "parent" => n = 3
    BY <1>1, <1>4, <2>1, <2>2
  <2>5. Head(t.left) # "empty"
    BY <1>1, <1>4, <2>1, <2>2
  <2>6. n = 4 => Looked(t, "source") /\ Looked(t, "parent")
    BY <1>7, <2>1
  <2>7. n = 3 => Looked(t, "free")
    BY <1>7, <2>1
  <2> QED
    BY <1>4, <1>6, <1>9, <1>11, <2>3, <2>4, <2>5, <2>6, <2>7 DEF Relocations
<1>12. CASE t.op = "fs.delete"
  <2>1. c = <<"source", "mount", "leave", "empty", "references">>
    BY <1>1, <1>12, ChecksRead DEF c
  <2>2. n + 1 \in 1..5
    BY <1>4, <2>1
  <2>3. Head(t.left) = "empty" => n = 3
    BY <1>1, <1>4, <2>1, <2>2
  <2>4. Head(t.left) \notin {"free", "parent", "device"}
    BY <1>1, <1>4, <2>1, <2>2
  <2>5. n = 3 => Looked(t, "source")
    BY <1>7, <2>1
  <2> QED
    BY <1>4, <1>6, <1>9, <1>12, <2>3, <2>4, <2>5 DEF Relocations
<1> QED
  BY <1>1, <1>10, <1>11, <1>12 DEF DiskOps, Relocations

LEMMA CheckKeeps ==
  ASSUME RootInv, TaskInv, Check
  PROVE  TaskInv'
<1>0. /\ TaskGood(task, disk, roots) /\ task.phase = "preflight" /\ task.left # <<>>
      /\ disk' = disk /\ roots' = roots
  BY DEF Check, TaskInv, NoTask, Running
<1> DEFINE c == Head(task.left)
           u == [task EXCEPT !.left = Tail(@), !.blocked = @ \/ Blocks(c), !.seen = See(c),
                             !.wasDir = IF c = "source" THEN IsDir(disk, task.from) ELSE @]
<1>1. task' = u
  BY DEF Check
<1>2. /\ task \in TaskRecords /\ LeftAreTheLast(task) /\ TaskInside(task, roots)
      /\ DestinationIsFree(task, roots) /\ ChecksHold(task, disk)
  BY <1>0 DEF TaskGood
<1>3. task.op \in DiskOps /\ task.from \in Paths /\ task.to \in Paths /\ task.left \in Seq(CheckNames)
      /\ task.blocked \in BOOLEAN /\ task.recursive \in BOOLEAN /\ task.wasDir \in BOOLEAN
      /\ task.seen \in [from : Devices, to : Devices]
  BY <1>2 DEF TaskRecords
<1>4. /\ Blocks(c) \in BOOLEAN /\ See(c) \in [from : Devices, to : Devices] /\ Tail(task.left) \in Seq(CheckNames)
      /\ IsDir(disk, task.from) \in BOOLEAN
  <2>1. Blocks(c) \in BOOLEAN
    BY DEF Blocks
  <2>2. \A p : DeviceAt(p) \in Devices
    BY DEF DeviceAt, RootInv, IsTree, Nodes, Exists, Devices
  <2>3. See(c) \in [from : Devices, to : Devices]
    BY <1>3, <2>2 DEF See
  <2> HIDE DEF CheckNames
  <2>4. Tail(task.left) \in Seq(CheckNames)
    BY <1>0, <1>3
  <2>5. IsDir(disk, task.from) \in BOOLEAN
    BY DEF IsDir, HasKind, Exists
  <2> QED
    BY <2>1, <2>3, <2>4, <2>5
<1>5. /\ u \in TaskRecords /\ u.op = task.op /\ u.from = task.from /\ u.to = task.to
      /\ u.recursive = task.recursive /\ u.left = Tail(task.left) /\ u.blocked = (task.blocked \/ Blocks(c))
      /\ u.seen = See(c) /\ u.wasDir = (IF c = "source" THEN IsDir(disk, task.from) ELSE task.wasDir)
      /\ u.phase = task.phase /\ u.raced = task.raced
  <2> HIDE DEF c, CheckNames
  <2> QED
    BY <1>2, <1>4 DEF TaskRecords
<1> HIDE DEF u, c
<1>6. /\ LeftAreTheLast(u) /\ c \in CheckNames
      /\ \A check : Looked(u, check) <=> (Looked(task, check) \/ check = c)
      /\ c = "device" => Looked(task, "source") /\ Looked(task, "parent")
      /\ c = "empty" => Looked(task, "source")
  BY <1>0, <1>2, <1>5, OneMore DEF c
<1>7. TaskInside(u, roots)
  BY <1>2, <1>5 DEF TaskInside
<1>8. DestinationIsFree(u, roots)
  <2> SUFFICES ASSUME ~u.blocked, Looked(u, "free") PROVE ~Outer(roots, u.to)
    BY DEF DestinationIsFree
  <2>1. ~task.blocked /\ ~Blocks(c)
    BY <1>5
  <2>2. CASE Looked(task, "free")
    BY <1>2, <1>5, <2>1, <2>2 DEF DestinationIsFree
  <2>3. CASE c = "free"
    <3>1. ~Exists(disk, task.to)
      BY <2>1, <2>3 DEF Blocks
    <3> QED
      BY <1>5, <3>1 DEF RootInv, RootsStay, Outer
  <2> QED
    BY <1>6, <2>2, <2>3
<1>9. ChecksHold(u, disk)
  <2> SUFFICES ASSUME u.phase = "preflight", ~u.raced
               PROVE  /\ ~HasKind(disk, ParentOf(u.to), "link")
                      /\ ~u.blocked => \A check \in CheckNames : Looked(u, check) => Found(u, disk, check)
    BY DEF ChecksHold
  <2>1. ~HasKind(disk, ParentOf(u.to), "link")
    BY <1>2, <1>5 DEF ChecksHold
  <2> SUFFICES ASSUME ~u.blocked, NEW check \in CheckNames, Looked(u, check) PROVE Found(u, disk, check)
    BY <2>1
  <2>2. ~task.blocked /\ ~Blocks(c)
    BY <1>5
  <2>3. \A k \in CheckNames : Looked(task, k) => Found(task, disk, k)
    BY <1>2, <1>5, <2>2 DEF ChecksHold
  <2>4. DeviceIn(disk, task.from) = DeviceAt(task.from) /\ DeviceIn(disk, ParentOf(task.to)) = DeviceAt(ParentOf(task.to))
    BY DEF DeviceIn, DeviceAt
  <2>5. /\ u.seen.from = IF c = "source" THEN DeviceAt(task.from) ELSE task.seen.from
        /\ u.seen.to = IF c = "parent" THEN DeviceAt(ParentOf(task.to)) ELSE task.seen.to
    BY <1>3, <1>5 DEF See
  <2>6. CASE Looked(task, check)
    <3>1. Found(task, disk, check)
      BY <2>3, <2>6
    <3>2. check = "source" => u.wasDir /\ u.seen.from = DeviceIn(disk, u.from)
      BY <1>5, <2>4, <2>5, <3>1 DEF Found
    <3>3. check = "parent" => u.seen.to = DeviceIn(disk, ParentOf(u.to))
      BY <1>5, <2>4, <2>5, <3>1 DEF Found
    <3> QED
      BY <1>5, <3>1, <3>2, <3>3 DEF Found
  <2>7. CASE check = c
    <3>1. check = "source" => IsDir(disk, task.from) /\ u.wasDir /\ u.seen.from = DeviceAt(task.from)
      BY <1>5, <2>2, <2>5, <2>7 DEF Blocks, SourceChecks
    <3>2. check = "mount" => ~IsMountPoint(disk, task.from)
      BY <2>2, <2>7 DEF Blocks
    <3>3. check = "free" => ~Exists(disk, task.to)
      BY <2>2, <2>7 DEF Blocks
    <3>4. check = "parent" => /\ u.seen.to = DeviceAt(ParentOf(task.to))
                              /\ IF Exists(disk, ParentOf(task.to)) THEN Writable(disk, ParentOf(task.to))
                                 ELSE task.op = "fs.mkdir" /\ task.recursive
      BY <2>2, <2>5, <2>7 DEF Blocks
    <3>5. check = "device" => \/ "none" \in {DeviceAt(task.from), DeviceAt(ParentOf(task.to))}
                              \/ DeviceAt(task.from) = DeviceAt(ParentOf(task.to))
      <4> SUFFICES ASSUME check = "device" PROVE \/ "none" \in {DeviceAt(task.from), DeviceAt(ParentOf(task.to))}
                                                 \/ DeviceAt(task.from) = DeviceAt(ParentOf(task.to))
        OBVIOUS
      <4>1. Found(task, disk, "source") /\ Found(task, disk, "parent")
        BY <1>6, <2>3, <2>7 DEF CheckNames
      <4>2. task.seen.from = DeviceAt(task.from) /\ task.seen.to = DeviceAt(ParentOf(task.to))
        BY <2>4, <4>1 DEF Found
      <4> QED
        BY <2>2, <2>7, <4>2 DEF Blocks
    <3>6. check = "leave" => Writable(disk, ParentOf(task.from))
      BY <2>2, <2>7 DEF Blocks
    <3>7. check = "empty" => task.recursive \/ Children(disk, task.from) = {}
      <4> SUFFICES ASSUME check = "empty" PROVE task.recursive \/ Children(disk, task.from) = {}
        OBVIOUS
      <4>1. Found(task, disk, "source")
        BY <1>6, <2>3, <2>7 DEF CheckNames
      <4>2. task.wasDir
        BY <4>1 DEF Found
      <4> QED
        BY <2>2, <2>7, <4>2 DEF Blocks
    <3> QED
      BY <1>5, <2>4, <3>1, <3>2, <3>3, <3>4, <3>5, <3>6, <3>7 DEF Found
  <2> QED
    BY <1>6, <2>6, <2>7
<1> QED
  BY <1>0, <1>1, <1>5, <1>6, <1>7, <1>8, <1>9 DEF TaskInv, TaskGood

LEMMA DiskSteps ==
  ASSUME FilesystemBounds, FilesystemAssumption, RootInv, TaskInv, [DiskNext]_diskVars
  PROVE  RootInv' /\ TaskInv'
<1>1. CASE UNCHANGED <<disk, roots, task>>
  BY <1>1 DEF RootInv, TaskInv
<1>2. CASE UNCHANGED <<disk, roots>> /\ task' = NoTask
  BY <1>2 DEF RootInv, TaskInv
<1>3. CASE OtherWrites
  BY <1>3, OthersGrow, OthersKeep
<1>4. CASE BeginMkdir
  BY <1>4, BeginKeeps DEF BeginMkdir, DiskOps
<1>5. CASE BeginRelocation
  BY <1>5, BeginKeeps DEF BeginRelocation, DiskOps, Relocations
<1>6. CASE BeginDelete
  BY <1>6, BeginKeeps DEF BeginDelete, DiskOps
<1>7. CASE Check
  <2>1. RootInv'
    BY <1>7 DEF Check, RootInv
  <2> QED
    BY <1>7, <2>1, CheckKeeps
<1>8. CASE Mutate
  BY <1>8, MutateKeeps
<1>9. Refuse \/ Invalidate => UNCHANGED <<disk, roots>> /\ task' = NoTask
  BY DEF Refuse, Invalidate
<1>10. MeasureBegin \/ MeasureEntry \/ MeasureEnd \/ Expire \/ UNCHANGED diskVars => UNCHANGED <<disk, roots, task>>
  BY DEF MeasureBegin, MeasureEntry, MeasureEnd, Expire, diskVars
<1> QED
  BY <1>1, <1>2, <1>3, <1>4, <1>5, <1>6, <1>7, <1>8, <1>9, <1>10 DEF DiskNext

\* Whatever an item does, it changes nothing but what lies strictly below a root:
\* the refinement of a path by resolution, the preflight's look at the
\* destination and the ban on the roots themselves together keep it there.
THEOREM ItemsStayInside ==
  ASSUME FilesystemBounds, FilesystemAssumption
  PROVE  DiskSpec => StaysInside
<1>1. DiskInit => RootInv /\ TaskInv
  BY DiskBegins
<1>2. RootInv /\ TaskInv /\ [DiskNext]_diskVars => RootInv' /\ TaskInv'
  BY DiskSteps
<1>3. RootInv /\ TaskInv => [OwnStep => \A p \in DOMAIN disk \cup DOMAIN disk' :
                               Changed(p) => \E r \in roots : IsStrictPrefix(r, p)]_diskVars
  <2> SUFFICES ASSUME RootInv, TaskInv, Mutate, NEW p \in DOMAIN disk \cup DOMAIN disk', Changed(p)
               PROVE  \E r \in roots : IsStrictPrefix(r, p)
    BY DEF OwnStep
  <2>1. RootInv' /\ \A q \in Paths : ~SameAt(disk, disk', q) => \E r \in roots : IsStrictPrefix(r, q)
    BY MutateKeeps
  <2>2. p \in Paths
    BY <2>1 DEF RootInv, IsTree
  <2>3. ~SameAt(disk, disk', p)
    BY DEF Changed, SameAt, Exists
  <2> QED
    BY <2>1, <2>2, <2>3
<1> QED
  BY <1>1, <1>2, <1>3, PTL DEF DiskSpec, StaysInside

\* What a passed preflight tells of the mutation, nobody else having written.
LEMMA ForetoldIsDone ==
  ASSUME RootInv, TaskGood(task, disk, roots), task.phase = "preflight", task.left = <<>>,
         ~task.blocked, ~task.raced, ~Unforetold, NEW out \in Mutations
  PROVE  out.done
<1>1. /\ task.op \in DiskOps /\ task.from \in Paths /\ task.to \in Paths /\ task.recursive \in BOOLEAN
      /\ LeftAreTheLast(task)
  BY DEF TaskGood, TaskRecords
<1>2. IsTree(disk)
  BY DEF RootInv
<1>3. ~HasKind(disk, ParentOf(task.to), "link") /\ \A check \in CheckNames : Looked(task, check) => Found(task, disk, check)
  BY DEF TaskGood, ChecksHold
<1>4. task.op # "fs.delete" => /\ ~Exists(disk, task.to)
                               /\ Exists(disk, ParentOf(task.to)) =>
                                    /\ IsDir(disk, ParentOf(task.to)) /\ Writable(disk, ParentOf(task.to))
                               /\ ~Exists(disk, ParentOf(task.to)) => task.op = "fs.mkdir" /\ task.recursive
  <2> SUFFICES ASSUME task.op # "fs.delete"
               PROVE  /\ ~Exists(disk, task.to)
                      /\ Exists(disk, ParentOf(task.to)) =>
                           /\ IsDir(disk, ParentOf(task.to)) /\ Writable(disk, ParentOf(task.to))
                      /\ ~Exists(disk, ParentOf(task.to)) => task.op = "fs.mkdir" /\ task.recursive
    OBVIOUS
  <2>1. Found(task, disk, "free") /\ Found(task, disk, "parent")
    BY <1>1, <1>3, AllLooked DEF CheckNames, DiskOps, Relocations
  <2>2. ~HasKind(disk, ParentOf(task.to), "file")
    BY DEF Unforetold
  <2>3. Exists(disk, ParentOf(task.to)) => disk[ParentOf(task.to)].kind \in {"dir", "file", "link"}
    BY <1>2, TreeRead DEF Exists, Nodes
  <2>4. Exists(disk, ParentOf(task.to)) => IsDir(disk, ParentOf(task.to))
    BY <1>3, <2>2, <2>3 DEF IsDir, HasKind
  <2> QED
    BY <2>1, <2>4 DEF Found
<1>5. CASE task.op = "fs.mkdir"
  <2> DEFINE base == Deepest(disk, task.to)
             parent == ParentOf(task.to)
  <2>1. out \in MakeDir(disk, task.to, task.recursive)
    BY <1>5 DEF Mutations, Relocations
  <2>2. base \in Paths /\ IsPrefix(base, task.to) /\ base \in DOMAIN disk
        /\ \A r \in Paths : IsPrefix(r, task.to) /\ r \in DOMAIN disk => Len(r) <= Len(base)
    BY <1>1, <1>2, DeepestRead
  <2>3. parent \in Paths /\ IsPrefix(parent, task.to) /\ (IsStrictPrefix(base, task.to) => IsPrefix(base, parent))
    BY <1>1, <2>2, ParentRead
  <2>4. IsStrictPrefix(base, task.to)
    BY <1>4, <1>5, <2>2 DEF IsStrictPrefix, Exists
  <2> HIDE DEF base, parent
  <2>5. Exists(disk, parent) => base = parent
    <3> SUFFICES ASSUME parent \in DOMAIN disk PROVE base = parent
      BY DEF Exists
    <3>1. IsPrefix(base, parent) /\ Len(parent) <= Len(base)
      BY <2>2, <2>3, <2>4
    <3>2. Len(base) <= Len(parent) /\ Len(base) \in Nat /\ Len(parent) \in Nat
      BY <2>2, <2>3, <3>1, PathOrder DEF Paths
    <3>3. Len(base) = Len(parent)
      BY <3>1, <3>2
    <3> QED
      BY <2>2, <2>3, <3>1, <3>3, PathOrder
  <2>6. IsDir(disk, base) /\ Writable(disk, base) /\ (task.recursive \/ base = parent)
    BY <1>4, <1>5, <2>5 DEF Unforetold, base, parent
  <2>7. MakeDir(disk, task.to, task.recursive) =
          {Outcome(Plus(disk, [q \in Missing(disk, task.to) |-> Dir(disk[base].dev)]), TRUE)}
    BY <1>4, <1>5, <2>6 DEF MakeDir, base, parent
  <2> QED
    BY <2>1, <2>7 DEF Outcome
<1>6. CASE task.op \in Relocations
  <2> DEFINE from == task.from
             to == task.to
  <2>1. out \in RenamePath(disk, from, to)
    BY <1>6 DEF Mutations, Relocations
  <2>2. Found(task, disk, "source") /\ Found(task, disk, "mount") /\ Found(task, disk, "device") /\ Found(task, disk, "leave")
    BY <1>1, <1>3, <1>6, AllLooked DEF CheckNames
  <2>3. ~Exists(disk, to) /\ IsDir(disk, ParentOf(to)) /\ Writable(disk, ParentOf(to)) /\ Exists(disk, ParentOf(to))
    BY <1>4, <1>6 DEF Relocations
  <2>4. IsDir(disk, from) /\ Exists(disk, from) /\ ~IsMountPoint(disk, from) /\ Writable(disk, ParentOf(from))
    BY <2>2 DEF Found, IsDir, HasKind
  <2>5. DeviceIn(disk, from) = disk[from].dev /\ DeviceIn(disk, ParentOf(to)) = disk[ParentOf(to)].dev
    BY <2>3, <2>4 DEF DeviceIn
  <2>6. disk[from].dev # "none" /\ disk[ParentOf(to)].dev # "none"
    BY <1>2, <2>3, <2>4, TreeRead DEF Exists
  <2>7. disk[from].dev = disk[ParentOf(to)].dev
    BY <2>2, <2>5, <2>6 DEF Found
  <2>8. ~IsStrictPrefix(from, to)
    BY <1>6 DEF Unforetold
  <2>9. CanReplace(disk, from, to) /\ ~IsMountPoint(disk, to) /\ from # to
    BY <2>3, <2>4 DEF CanReplace, IsMountPoint
  <2>10. RenamePath(disk, from, to) = {Outcome(Moved(disk, from, to), TRUE)}
    BY <2>3, <2>4, <2>7, <2>8, <2>9 DEF RenamePath
  <2> QED
    BY <2>1, <2>10 DEF Outcome
<1>7. CASE task.op = "fs.delete"
  <2>1. ~task.recursive
    BY <1>7 DEF Unforetold
  <2>2. out \in RemoveDir(disk, task.from)
    BY <1>7, <2>1 DEF Mutations, Relocations, RemovePath
  <2>3. Found(task, disk, "source") /\ Found(task, disk, "mount") /\ Found(task, disk, "leave") /\ Found(task, disk, "empty")
    BY <1>1, <1>3, <1>7, AllLooked DEF CheckNames
  <2>4. RemoveDir(disk, task.from) = {Outcome(Without(disk, {task.from}), TRUE)}
    BY <2>1, <2>3 DEF Found, RemoveDir
  <2> QED
    BY <2>2, <2>4 DEF Outcome
<1> QED
  BY <1>1, <1>5, <1>6, <1>7 DEF DiskOps, Relocations

\* PassedMeansDone: a preflight that nobody disturbs foretells the mutation, for
\* every tree, root and payload, but for what Unforetold lists.
THEOREM PassedIsDone ==
  ASSUME FilesystemBounds, FilesystemAssumption
  PROVE  DiskSpec => PassedMeansDone
<1>1. DiskInit => RootInv /\ TaskInv
  BY DiskBegins
<1>2. RootInv /\ TaskInv /\ [DiskNext]_diskVars => RootInv' /\ TaskInv'
  BY DiskSteps
<1>3. RootInv /\ TaskInv => [(OwnStep /\ ~task.raced /\ ~Unforetold) => task' # NoTask]_diskVars
  <2> SUFFICES ASSUME RootInv, TaskInv, Mutate, ~task.raced, ~Unforetold PROVE task' # NoTask
    BY DEF OwnStep
  <2>1. TaskGood(task, disk, roots) /\ task.phase = "preflight" /\ task.left = <<>> /\ ~task.blocked
    BY DEF Mutate, TaskInv, NoTask, Running
  <2>2. PICK out \in Mutations : task' = IF out.done THEN [task EXCEPT !.phase = "done"] ELSE NoTask
    BY DEF Mutate
  <2>3. out.done
    BY <2>1, ForetoldIsDone
  <2>4. [task EXCEPT !.phase = "done"].op = task.op /\ task.op # "none"
    BY <2>1 DEF TaskGood, TaskRecords, DiskOps
  <2> QED
    BY <2>2, <2>3, <2>4 DEF NoTask
<1> QED
  BY <1>1, <1>2, <1>3, PTL DEF DiskSpec, PassedMeansDone

-------------------------------------------------------------------------------
(* Measurements: what a walk has still to see, and what is remembered.       *)

Shown == [path : Paths, kind : {"dir", "file", "link"}]
WalkRecords ==
  [path : Paths, pending : Seq(Shown), files : Nat, visited : Nat, truncated : BOOLEAN,
   active : BOOLEAN, overtaken : BOOLEAN]
StoredRecords == [files : Nat, truncated : BOOLEAN, excused : BOOLEAN]

\* The pending entries are there as they were listed, and none is above another.
Lie(d, pending) == \A i \in 1..Len(pending) : pending[i].path \in DOMAIN d /\ pending[i].kind = d[pending[i].path].kind
Beside(pending) == \A i, j \in 1..Len(pending) : i # j => ~IsPrefix(pending[i].path, pending[j].path)

\* The files a walk has still to count.
Rest(d, pending) ==
  {q \in DOMAIN d : d[q].kind = "file" /\ \E i \in 1..Len(pending) : IsPrefix(pending[i].path, q)}

OpenedIn(d, p) == IF HasKind(d, p, "link") THEN d[p].to ELSE p
Held(d, p) == Cardinality(Files(d, OpenedIn(d, p)))

WalkTrue(w, d) ==
  w.active /\ ~w.overtaken =>
    /\ Lie(d, w.pending) /\ Beside(w.pending)
    /\ IF w.truncated THEN w.pending = <<>> /\ w.files <= Held(d, w.path)
       ELSE w.files + Cardinality(Rest(d, w.pending)) = Held(d, w.path)
WalkInv == walk \in WalkRecords /\ WalkTrue(walk, disk)

Honest(m, d, p) == m.excused \/ (IF m.truncated THEN m.files <= Held(d, p) ELSE m.files = Held(d, p))
StoredInv ==
  /\ \A p \in DOMAIN measurements : measurements[p] \in StoredRecords
  /\ (~Running \/ task.phase # "done") => \A p \in DOMAIN measurements : Honest(measurements[p], disk, p)

\* The files below a path are those at or below its entries.
LEMMA FilesRead ==
  ASSUME NEW d, IsTree(d), NEW p \in Paths
  PROVE  /\ Files(d, p) = {q \in DOMAIN d : d[q].kind = "file" /\ \E c \in Children(d, p) : IsPrefix(c, q)}
         /\ IsFiniteSet(Children(d, p)) /\ IsFiniteSet(Files(d, p)) /\ Cardinality(Files(d, p)) \in Nat
<1>0. DOMAIN d \in SUBSET Paths /\ IsFiniteSet(DOMAIN d)
  BY TreeRead
<1>1. ASSUME NEW q \in DOMAIN d, IsStrictPrefix(p, q) PROVE \E c \in Children(d, p) : IsPrefix(c, q)
  <2>1. PICK r \in Paths : r # <<>> /\ ParentOf(r) = p /\ IsPrefix(r, q)
    BY <1>0, <1>1, NextDown
  <2>2. r \in DOMAIN d
    BY <1>0, <1>1, <2>1, TreeDown DEF IsStrictPrefix
  <2>3. IsStrictPrefix(p, r)
    BY <2>1, ParentRead
  <2> QED
    BY <2>1, <2>2, <2>3 DEF Children, Below
<1>2. ASSUME NEW q \in DOMAIN d, NEW c \in Children(d, p), IsPrefix(c, q) PROVE IsStrictPrefix(p, q)
  <2>1. c \in Paths /\ q \in Paths /\ IsPrefix(p, c) /\ p # c
    BY <1>0 DEF Children, Below, IsStrictPrefix
  <2> QED
    BY <1>2, <2>1, PathOrder DEF IsStrictPrefix
<1>3. Files(d, p) = {q \in DOMAIN d : d[q].kind = "file" /\ \E c \in Children(d, p) : IsPrefix(c, q)}
  BY <1>1, <1>2 DEF Files, Below
<1>4. Files(d, p) \in SUBSET DOMAIN d /\ Children(d, p) \in SUBSET DOMAIN d
  BY DEF Files, Below, Children
<1> QED
  BY <1>0, <1>3, <1>4, FS_Subset, FS_CardinalityType

\* Two entries of one folder are beside each other.
LEMMA Siblings ==
  ASSUME NEW d, IsTree(d), NEW p \in Paths, NEW a \in Children(d, p), NEW b \in Children(d, p), IsPrefix(a, b)
  PROVE  a = b
<1>1. a \in Paths /\ b \in Paths /\ IsStrictPrefix(p, a) /\ IsStrictPrefix(p, b) /\ ParentOf(a) = p /\ ParentOf(b) = p
  BY TreeRead DEF Children, Below
<1>2. a # <<>> /\ b # <<>>
  BY <1>1, ParentRead
<1>3. Len(a) = Len(p) + 1 /\ Len(b) = Len(p) + 1
  <2>1. Len(a) \in Nat /\ Len(b) \in Nat /\ Len(p) = Len(a) - 1 /\ Len(p) = Len(b) - 1
    BY <1>1, <1>2, ParentRead
  <2> QED
    BY <2>1
<1> QED
  BY <1>1, <1>3, PathOrder

\* readdir: each entry of a folder once.
LEMMA ListingRead ==
  ASSUME IsTree(disk), NEW p \in Paths, NEW listing \in Listings(p)
  PROVE  /\ listing \in Seq(Shown) /\ Lie(disk, listing) /\ Beside(listing)
         /\ \A i \in 1..Len(listing) : listing[i].path \in Children(disk, p)
         /\ Rest(disk, listing) = Files(disk, p)
<1> DEFINE C == Children(disk, p)
           E == Entries(p)
           g == [q \in C |-> [path |-> q, kind |-> disk[q].kind]]
           n == Cardinality(E)
<1>0. C \in SUBSET DOMAIN disk /\ IsFiniteSet(C) /\ \A q \in C : q \in Paths /\ disk[q].kind \in {"dir", "file", "link"}
  <2>1. C \in SUBSET DOMAIN disk
    BY DEF Children, Below
  <2> QED
    BY <2>1, TreeRead, FilesRead DEF Nodes
<1>1. \A e : e \in E <=> \E q \in C : e = [path |-> q, kind |-> disk[q].kind]
  BY DEF Entries
<1>2. IsFiniteSet(E) /\ n \in Nat
  <2>1. g \in Surjection(C, E)
    BY <1>1 DEF Surjection
  <2> HIDE DEF g, E, C
  <2> QED
    BY <1>0, <2>1, FS_Surjection, FS_CardinalityType
<1>3. \A e \in E : e \in Shown /\ e.path \in C /\ e.kind = disk[e.path].kind
  BY <1>0, <1>1 DEF Shown
<1>4. \A q \in C : \E e \in E : e.path = q
  <2> SUFFICES ASSUME NEW q \in C PROVE \E e \in E : e.path = q
    OBVIOUS
  <2>1. [path |-> q, kind |-> disk[q].kind] \in E /\ [path |-> q, kind |-> disk[q].kind].path = q
    BY <1>1
  <2> QED
    BY <2>1
<1>5. \A e, f \in E : e.path = f.path => e = f
  BY <1>1
<1>6. listing \in [1..n -> E] /\ \A i, j \in 1..n : i # j => listing[i] # listing[j]
  BY DEF Listings, SetToSeqs
<1> HIDE DEF E, n, g, C
<1>7. listing \in Seq(Shown) /\ Len(listing) = n
  BY <1>2, <1>3, <1>6
<1>8. \A e \in E : \E i \in 1..n : listing[i] = e
  <2>1. listing \in Injection(1..n, E)
    BY <1>6 DEF Injection, IsInjective
  <2>2. IsFiniteSet(1..n) /\ Cardinality(1..n) = n
    BY <1>2, FS_Interval
  <2>3. listing \in Surjection(1..n, E)
    BY <1>2, <2>1, <2>2, FS_Injection DEF n
  <2> QED
    BY <2>3 DEF Surjection
<1>9. \A i \in 1..Len(listing) : listing[i] \in E /\ listing[i].path \in C /\ listing[i].path \in DOMAIN disk
                              /\ listing[i].kind = disk[listing[i].path].kind
  BY <1>0, <1>3, <1>6, <1>7
<1>10. Lie(disk, listing)
  BY <1>9 DEF Lie
<1>11. Beside(listing)
  <2> SUFFICES ASSUME NEW i \in 1..Len(listing), NEW j \in 1..Len(listing), i # j,
                      IsPrefix(listing[i].path, listing[j].path)
               PROVE  FALSE
    BY DEF Beside
  <2>1. listing[i].path = listing[j].path
    BY <1>9, Siblings DEF C
  <2> QED
    BY <1>5, <1>6, <1>7, <1>9, <2>1
<1>12. \A q : (\E c \in C : IsPrefix(c, q)) <=> (\E i \in 1..Len(listing) : IsPrefix(listing[i].path, q))
  BY <1>4, <1>7, <1>8, <1>9
<1>13. Rest(disk, listing) = Files(disk, p)
  BY <1>12, FilesRead DEF Rest, C
<1> QED
  BY <1>7, <1>9, <1>10, <1>11, <1>13 DEF C

\* The files a walk has still to count, entry by entry.
FilesFrom(d, p) == {q \in DOMAIN d : d[q].kind = "file" /\ IsPrefix(p, q)}

LEMMA RestRead ==
  ASSUME NEW d, IsTree(d), NEW s \in Seq(Shown)
  PROVE  /\ IsFiniteSet(Rest(d, s)) /\ Cardinality(Rest(d, s)) \in Nat
         /\ s = <<>> => Rest(d, s) = {} /\ Cardinality(Rest(d, s)) = 0
         /\ s # <<>> => Rest(d, s) = FilesFrom(d, Head(s).path) \cup Rest(d, Tail(s))
         /\ \A t \in Seq(Shown) : Rest(d, t \o s) = Rest(d, t) \cup Rest(d, s)
<1>1. IsFiniteSet(Rest(d, s)) /\ Cardinality(Rest(d, s)) \in Nat
  <2>1. Rest(d, s) \in SUBSET DOMAIN d /\ IsFiniteSet(DOMAIN d)
    BY TreeRead DEF Rest
  <2> QED
    BY <2>1, FS_Subset, FS_CardinalityType
<1>2. s = <<>> => Rest(d, s) = {} /\ Cardinality(Rest(d, s)) = 0
  <2>1. s = <<>> => Rest(d, s) = {}
    BY DEF Rest
  <2> QED
    BY <2>1, FS_EmptySet
<1>3. ASSUME s # <<>> PROVE Rest(d, s) = FilesFrom(d, Head(s).path) \cup Rest(d, Tail(s))
  <2> DEFINE t == Tail(s)
  <2>1. Len(s) \in Nat /\ Len(t) = Len(s) - 1 /\ Head(s) = s[1] /\ 1 \in 1..Len(s)
        /\ (\A i \in 1..Len(t) : t[i] = s[i + 1])
    BY <1>3, EmptySeq
  <2> HIDE DEF t
  <2>2. \A i \in 1..Len(s) : i = 1 \/ (i - 1 \in 1..Len(t) /\ t[i - 1] = s[i])
    BY <2>1
  <2>3. \A i \in 1..Len(t) : i + 1 \in 1..Len(s) /\ t[i] = s[i + 1]
    BY <2>1
  <2>4. \A q : (\E i \in 1..Len(s) : IsPrefix(s[i].path, q)) <=>
               (IsPrefix(Head(s).path, q) \/ \E i \in 1..Len(t) : IsPrefix(t[i].path, q))
    BY <2>1, <2>2, <2>3
  <2> QED
    BY <2>4 DEF Rest, FilesFrom, t
<1>4. ASSUME NEW t \in Seq(Shown) PROVE Rest(d, t \o s) = Rest(d, t) \cup Rest(d, s)
  <2> DEFINE u == t \o s
  <2>1. /\ Len(u) = Len(t) + Len(s) /\ Len(t) \in Nat /\ Len(s) \in Nat
        /\ \A i \in 1..Len(t) : u[i] = t[i]
        /\ \A i \in 1..Len(s) : u[Len(t) + i] = s[i]
    BY ConcatProperties
  <2> HIDE DEF u
  <2>2. \A i \in 1..Len(u) : (i \in 1..Len(t) /\ u[i] = t[i]) \/ (i - Len(t) \in 1..Len(s) /\ u[i] = s[i - Len(t)])
    <3> SUFFICES ASSUME NEW i \in 1..Len(u), i \notin 1..Len(t)
                 PROVE  i - Len(t) \in 1..Len(s) /\ u[i] = s[i - Len(t)]
      BY <2>1
    <3>1. i - Len(t) \in 1..Len(s) /\ Len(t) + (i - Len(t)) = i
      BY <2>1
    <3> QED
      BY <2>1, <3>1
  <2>3. \A i \in 1..Len(t) : i \in 1..Len(u) /\ u[i] = t[i]
    BY <2>1
  <2>4. \A i \in 1..Len(s) : Len(t) + i \in 1..Len(u) /\ u[Len(t) + i] = s[i]
    BY <2>1
  <2>5. \A q : (\E i \in 1..Len(u) : IsPrefix(u[i].path, q)) <=>
               ((\E i \in 1..Len(t) : IsPrefix(t[i].path, q)) \/ \E i \in 1..Len(s) : IsPrefix(s[i].path, q))
    BY <2>2, <2>3, <2>4
  <2> QED
    BY <2>5 DEF Rest, u
<1> QED
  BY <1>1, <1>2, <1>3, <1>4

\* One entry seen: what is left to count is what was, but for the file it is.
LEMMA EntrySeen ==
  ASSUME IsTree(disk), NEW s \in Seq(Shown), s # <<>>, Lie(disk, s), Beside(s),
         NEW listing \in IF Head(s).kind = "dir" THEN Listings(Head(s).path) ELSE {<<>>}
  PROVE  LET more == listing \o Tail(s)
         IN  /\ more \in Seq(Shown) /\ Lie(disk, more) /\ Beside(more)
             /\ Cardinality(Rest(disk, s)) =
                  Cardinality(Rest(disk, more)) + (IF Head(s).kind = "file" THEN 1 ELSE 0)
<1> DEFINE h == Head(s)
           t == Tail(s)
           more == listing \o t
<1>0. /\ h \in Shown /\ t \in Seq(Shown) /\ Len(t) \in Nat /\ Len(s) \in Nat /\ Len(s) = Len(t) + 1
      /\ h = s[1] /\ 1 \in 1..Len(s) /\ (\A i \in 1..Len(t) : t[i] = s[i + 1] /\ i + 1 \in 1..Len(s) /\ i + 1 # 1)
  <2> HIDE DEF Shown
  <2>1. Len(s) \in Nat \ {0}
    BY EmptySeq
  <2>2. h = s[1] /\ t \in Seq(Shown) /\ Len(t) = Len(s) - 1 /\ \A i \in 1..Len(t) : t[i] = s[i + 1]
    BY <2>1
  <2> HIDE DEF h, t
  <2>3. s[1] \in Shown
    BY <2>1
  <2> QED
    BY <2>1, <2>2, <2>3
<1> HIDE DEF h, t
<1>1. h.path \in Paths /\ h.path \in DOMAIN disk /\ h.kind = disk[h.path].kind
  BY <1>0 DEF Shown, Lie
<1>2. \A i \in 1..Len(t) : t[i].path \in Paths /\ t[i].path \in DOMAIN disk /\ t[i].kind = disk[t[i].path].kind
  <2> SUFFICES ASSUME NEW i \in 1..Len(t)
               PROVE  t[i].path \in Paths /\ t[i].path \in DOMAIN disk /\ t[i].kind = disk[t[i].path].kind
    OBVIOUS
  <2>1. t[i] = s[i + 1] /\ i + 1 \in 1..Len(s)
    BY <1>0
  <2>2. t[i].path \in DOMAIN disk /\ t[i].kind = disk[t[i].path].kind
    BY <2>1 DEF Lie
  <2> QED
    BY <2>2, TreeRead
<1>3. \A i \in 1..Len(t) : ~IsPrefix(h.path, t[i].path) /\ ~IsPrefix(t[i].path, h.path)
  BY <1>0 DEF Beside
<1>4. \A i, j \in 1..Len(t) : i # j => ~IsPrefix(t[i].path, t[j].path)
  <2> SUFFICES ASSUME NEW i \in 1..Len(t), NEW j \in 1..Len(t), i # j PROVE ~IsPrefix(t[i].path, t[j].path)
    OBVIOUS
  <2>1. t[i] = s[i + 1] /\ t[j] = s[j + 1] /\ i + 1 \in 1..Len(s) /\ j + 1 \in 1..Len(s) /\ i + 1 # j + 1
    BY <1>0
  <2> QED
    BY <2>1 DEF Beside
<1>5. /\ listing \in Seq(Shown) /\ Lie(disk, listing) /\ Beside(listing)
      /\ \A i \in 1..Len(listing) : IsStrictPrefix(h.path, listing[i].path) /\ listing[i].path \in Paths
      /\ Rest(disk, listing) = IF h.kind = "dir" THEN Files(disk, h.path) ELSE {}
  <2>1. CASE h.kind = "dir"
    <3>1. listing \in Listings(h.path)
      BY <2>1 DEF h
    <3>2. /\ listing \in Seq(Shown) /\ Lie(disk, listing) /\ Beside(listing)
          /\ \A i \in 1..Len(listing) : listing[i].path \in Children(disk, h.path)
          /\ Rest(disk, listing) = Files(disk, h.path)
      BY <1>1, <3>1, ListingRead
    <3>3. \A c \in Children(disk, h.path) : IsStrictPrefix(h.path, c) /\ c \in Paths
      BY TreeRead DEF Children, Below
    <3> QED
      BY <2>1, <3>2, <3>3
  <2>2. CASE h.kind # "dir"
    <3>1. listing = <<>>
      BY <2>2 DEF h
    <3>2. listing \in Seq(Shown) /\ Len(listing) = 0
      BY <3>1
    <3>3. Rest(disk, listing) = {}
      BY <3>1, <3>2, RestRead
    <3> QED
      BY <2>2, <3>2, <3>3 DEF Lie, Beside
  <2> QED
    BY <2>1, <2>2
<1>6. /\ more \in Seq(Shown) /\ Len(more) = Len(listing) + Len(t) /\ Len(listing) \in Nat
      /\ \A i \in 1..Len(more) :
           \/ i \in 1..Len(listing) /\ more[i] = listing[i]
           \/ i - Len(listing) \in 1..Len(t) /\ more[i] = t[i - Len(listing)]
  <2>1. /\ Len(more) = Len(listing) + Len(t) /\ Len(listing) \in Nat /\ more \in Seq(Shown)
        /\ \A i \in 1..Len(listing) : more[i] = listing[i]
        /\ \A i \in 1..Len(t) : more[Len(listing) + i] = t[i]
    BY <1>0, <1>5, ConcatProperties
  <2> HIDE DEF more
  <2>2. ASSUME NEW i \in 1..Len(more), i \notin 1..Len(listing)
        PROVE  i - Len(listing) \in 1..Len(t) /\ more[i] = t[i - Len(listing)]
    <3>1. i - Len(listing) \in 1..Len(t) /\ Len(listing) + (i - Len(listing)) = i
      BY <1>0, <2>1, <2>2
    <3> QED
      BY <2>1, <3>1
  <2> QED
    BY <2>1, <2>2
<1> HIDE DEF more
<1>7. Lie(disk, more)
  <2> SUFFICES ASSUME NEW i \in 1..Len(more)
               PROVE  more[i].path \in DOMAIN disk /\ more[i].kind = disk[more[i].path].kind
    BY DEF Lie
  <2>1. CASE i \in 1..Len(listing) /\ more[i] = listing[i]
    BY <1>5, <2>1 DEF Lie
  <2>2. CASE i - Len(listing) \in 1..Len(t) /\ more[i] = t[i - Len(listing)]
    BY <1>2, <2>2
  <2> QED
    BY <1>6, <2>1, <2>2
<1>8. \A i \in 1..Len(listing), j \in 1..Len(t) :
        ~IsPrefix(listing[i].path, t[j].path) /\ ~IsPrefix(t[j].path, listing[i].path)
  <2> SUFFICES ASSUME NEW i \in 1..Len(listing), NEW j \in 1..Len(t)
               PROVE  ~IsPrefix(listing[i].path, t[j].path) /\ ~IsPrefix(t[j].path, listing[i].path)
    OBVIOUS
  <2> DEFINE a == listing[i].path
             b == t[j].path
  <2>1. a \in Paths /\ b \in Paths /\ IsStrictPrefix(h.path, a) /\ ~IsPrefix(h.path, b) /\ ~IsPrefix(b, h.path)
    BY <1>2, <1>3, <1>5
  <2> HIDE DEF a, b
  <2>2. IsPrefix(h.path, a)
    BY <2>1 DEF IsStrictPrefix
  <2>3. ~IsPrefix(a, b)
    BY <1>1, <2>1, <2>2, PathOrder
  <2>4. ~IsPrefix(b, a)
    BY <1>1, <2>1, <2>2, PathOrder
  <2> QED
    BY <2>3, <2>4 DEF a, b
<1>9. Beside(more)
  <2> SUFFICES ASSUME NEW i \in 1..Len(more), NEW j \in 1..Len(more), i # j PROVE ~IsPrefix(more[i].path, more[j].path)
    BY DEF Beside
  <2>1. CASE i \in 1..Len(listing) /\ more[i] = listing[i] /\ j \in 1..Len(listing) /\ more[j] = listing[j]
    BY <1>5, <2>1 DEF Beside
  <2>2. CASE i \in 1..Len(listing) /\ more[i] = listing[i] /\ j - Len(listing) \in 1..Len(t) /\ more[j] = t[j - Len(listing)]
    BY <1>8, <2>2
  <2>3. CASE i - Len(listing) \in 1..Len(t) /\ more[i] = t[i - Len(listing)] /\ j \in 1..Len(listing) /\ more[j] = listing[j]
    BY <1>8, <2>3
  <2>4. CASE i - Len(listing) \in 1..Len(t) /\ more[i] = t[i - Len(listing)] /\ j - Len(listing) \in 1..Len(t)
             /\ more[j] = t[j - Len(listing)]
    <3>1. i - Len(listing) # j - Len(listing)
      BY <1>6
    <3> QED
      BY <1>4, <2>4, <3>1
  <2> QED
    BY <1>6, <2>1, <2>2, <2>3, <2>4
<1>10. /\ Rest(disk, s) = FilesFrom(disk, h.path) \cup Rest(disk, t)
       /\ Rest(disk, more) = Rest(disk, listing) \cup Rest(disk, t)
       /\ IsFiniteSet(Rest(disk, more)) /\ Cardinality(Rest(disk, more)) \in Nat
  <2>1. Rest(disk, s) = FilesFrom(disk, h.path) \cup Rest(disk, t)
    BY RestRead DEF h, t
  <2>2. Rest(disk, more) = Rest(disk, listing) \cup Rest(disk, t)
    BY <1>0, <1>5, RestRead DEF more
  <2>3. IsFiniteSet(Rest(disk, more)) /\ Cardinality(Rest(disk, more)) \in Nat
    BY <1>6, RestRead
  <2> QED
    BY <2>1, <2>2, <2>3
<1>11. FilesFrom(disk, h.path) = Files(disk, h.path) \cup (IF h.kind = "file" THEN {h.path} ELSE {})
  <2>1. \A q \in DOMAIN disk : IsPrefix(h.path, q) <=> (IsStrictPrefix(h.path, q) \/ q = h.path)
    BY <1>1, PathOrder DEF IsStrictPrefix
  <2> QED
    BY <1>1, <2>1 DEF FilesFrom, Files, Below
<1>12. h.kind # "dir" => Files(disk, h.path) = {}
  BY <1>1, TreeDown DEF Files, Below
<1>13. CASE h.kind = "file"
  <2>1. Rest(disk, more) = Rest(disk, t) /\ Rest(disk, s) = Rest(disk, more) \cup {h.path}
    BY <1>5, <1>10, <1>11, <1>12, <1>13
  <2>2. h.path \notin Rest(disk, more)
    BY <1>3, <2>1 DEF Rest
  <2>3. Cardinality(Rest(disk, s)) = Cardinality(Rest(disk, more)) + 1
    BY <1>10, <2>1, <2>2, FS_AddElement
  <2> QED
    BY <1>6, <1>7, <1>9, <1>13, <2>3 DEF h, t, more
<1>14. CASE h.kind # "file"
  <2>1. Rest(disk, s) = Rest(disk, more)
    BY <1>5, <1>10, <1>11, <1>12, <1>14
  <2> QED
    <3>1. Cardinality(Rest(disk, s)) = Cardinality(Rest(disk, more)) + 0
      <4>1. Cardinality(Rest(disk, more)) \in Nat /\ Cardinality(Rest(disk, s)) = Cardinality(Rest(disk, more))
        BY ONLY <1>10, <2>1
      <4> QED
        BY ONLY <4>1
    <3> QED
      BY <1>6, <1>7, <1>9, <1>14, <3>1 DEF h, t, more
<1> QED
  BY <1>13, <1>14

LEMMA HeldRead ==
  ASSUME NEW d, IsTree(d), NEW p \in Paths
  PROVE  OpenedIn(d, p) \in Paths /\ Held(d, p) \in Nat
<1>1. OpenedIn(d, p) \in Paths
  BY TreeRead DEF OpenedIn, HasKind, Exists, Nodes
<1> QED
  BY <1>1, FilesRead DEF Held

LEMMA OvertakenKeeps ==
  ASSUME WalkInv, Overtaken
  PROVE  WalkInv'
<1> DEFINE w == [walk EXCEPT !.overtaken = @ \/ (walk.active /\ disk' # disk)]
<1>1. walk' = w
  BY DEF Overtaken
<1>2. walk \in WalkRecords /\ WalkTrue(walk, disk) /\ (walk.active /\ disk' # disk) \in BOOLEAN
  BY DEF WalkInv, WalkRecords
<1>3. /\ w \in WalkRecords /\ w.path = walk.path /\ w.pending = walk.pending /\ w.files = walk.files
      /\ w.truncated = walk.truncated /\ w.active = walk.active
      /\ w.overtaken = (walk.overtaken \/ (walk.active /\ disk' # disk))
  BY <1>2 DEF WalkRecords
<1> HIDE DEF w
<1>4. WalkTrue(w, disk')
  <2>1. CASE disk' = disk
    BY <1>2, <1>3, <2>1 DEF WalkTrue
  <2>2. CASE disk' # disk
    BY <1>3, <2>2 DEF WalkTrue
  <2> QED
    BY <2>1, <2>2
<1> QED
  BY <1>1, <1>3, <1>4 DEF WalkInv

LEMMA WalkBegins ==
  ASSUME FilesystemAssumption, RootInv, MeasureBegin
  PROVE  WalkInv'
<1>0. IsTree(disk) /\ roots \in SUBSET Paths /\ disk' = disk
  BY DEF RootInv, RootsStay, MeasureBegin
<1>1. PICK p \in UNION {Resolve(disk, roots, input) : input \in Measured} :
        \E listing \in Listings(Opened(p)) :
          walk' = [NoWalk EXCEPT !.path = p, !.pending = listing, !.active = TRUE]
  BY DEF MeasureBegin
<1>2. PICK listing \in Listings(Opened(p)) :
        walk' = [NoWalk EXCEPT !.path = p, !.pending = listing, !.active = TRUE]
  BY <1>1
<1>3. p \in Paths
  <2>1. PICK input \in Measured : p \in Resolve(disk, roots, input)
    OBVIOUS
  <2>2. input \in Paths
    BY DEF FilesystemAssumption
  <2> QED
    BY <1>0, <2>1, <2>2, ResolveRead
<1>4. Opened(p) = OpenedIn(disk, p) /\ Opened(p) \in Paths /\ Held(disk, p) \in Nat
  BY <1>0, <1>3, HeldRead DEF Opened, OpenedIn
<1>5. listing \in Seq(Shown) /\ Lie(disk, listing) /\ Beside(listing) /\ Rest(disk, listing) = Files(disk, Opened(p))
  BY <1>0, <1>2, <1>4, ListingRead
<1> DEFINE w == [path |-> p, pending |-> listing, files |-> 0, visited |-> 0, truncated |-> FALSE,
                 active |-> TRUE, overtaken |-> FALSE]
<1>6. walk' = w
  BY <1>2 DEF NoWalk
<1>7. w \in WalkRecords
  <2> HIDE DEF Shown
  <2> QED
    BY <1>3, <1>5 DEF WalkRecords
<1>8. 0 + Cardinality(Rest(disk, listing)) = Held(disk, p)
  <2>1. Cardinality(Rest(disk, listing)) = Held(disk, p)
    BY <1>4, <1>5 DEF Held
  <2> QED
    BY <1>4, <2>1
<1>9. WalkTrue(w, disk)
  BY <1>5, <1>8 DEF WalkTrue
<1> QED
  BY <1>0, <1>6, <1>7, <1>9 DEF WalkInv

LEMMA WalkGoesOn ==
  ASSUME FilesystemBounds, RootInv, WalkInv, MeasureEntry
  PROVE  WalkInv'
<1> DEFINE s == walk.pending
           h == Head(s)
<1>0. /\ IsTree(disk) /\ disk' = disk /\ walk \in WalkRecords /\ WalkTrue(walk, disk) /\ walk.active /\ s # <<>>
      /\ s \in Seq(Shown) /\ walk.path \in Paths /\ walk.files \in Nat /\ walk.visited \in Nat
      /\ Held(disk, walk.path) \in Nat
  BY HeldRead DEF RootInv, WalkInv, MeasureEntry, WalkRecords
<1>1. CASE walk.visited >= Cap
  <2> DEFINE w == [walk EXCEPT !.pending = <<>>, !.truncated = TRUE]
  <2>1. walk' = w
    BY <1>1 DEF MeasureEntry
  <2>2. /\ w \in WalkRecords /\ w.path = walk.path /\ w.pending = <<>> /\ w.files = walk.files
        /\ w.truncated = TRUE /\ w.active = walk.active /\ w.overtaken = walk.overtaken
    <3>1. <<>> \in Seq(Shown)
      OBVIOUS
    <3> HIDE DEF Shown
    <3> QED
      BY <1>0, <3>1 DEF WalkRecords
  <2> HIDE DEF w
  <2>3. ASSUME ~walk.overtaken PROVE walk.files <= Held(disk, walk.path) /\ Lie(disk, <<>>) /\ Beside(<<>>)
    <3>1. Lie(disk, <<>>) /\ Beside(<<>>)
      BY DEF Lie, Beside
    <3>2. Cardinality(Rest(disk, s)) \in Nat
      BY <1>0, RestRead
    <3>3. walk.files <= Held(disk, walk.path) \/ walk.files + Cardinality(Rest(disk, s)) = Held(disk, walk.path)
      BY <1>0, <2>3 DEF WalkTrue
    <3>4. walk.files <= Held(disk, walk.path)
      BY <1>0, <3>2, <3>3
    <3> QED
      BY <3>1, <3>4
  <2>4. WalkTrue(w, disk)
    BY <2>2, <2>3 DEF WalkTrue
  <2> QED
    BY <1>0, <2>1, <2>2, <2>4 DEF WalkInv
<1>2. CASE ~(walk.visited >= Cap)
  <2>1. PICK listing \in IF h.kind = "dir" THEN Listings(h.path) ELSE {<<>>} :
          walk' = [walk EXCEPT !.visited = @ + 1, !.pending = listing \o Tail(@),
                               !.files = IF h.kind = "file" THEN @ + 1 ELSE @]
    BY <1>2 DEF MeasureEntry
  <2> DEFINE more == listing \o Tail(s)
             n == IF h.kind = "file" THEN 1 ELSE 0
             w == [walk EXCEPT !.visited = walk.visited + 1, !.pending = more, !.files = walk.files + n]
  <2>2. walk' = w
    <3>1. (IF h.kind = "file" THEN walk.files + 1 ELSE walk.files) = walk.files + n
      BY <1>0
    <3> QED
      BY <2>1, <3>1
  <2>3. walk.overtaken \/ (/\ ~walk.truncated /\ Lie(disk, s) /\ Beside(s)
                           /\ walk.files + Cardinality(Rest(disk, s)) = Held(disk, walk.path))
    BY <1>0 DEF WalkTrue
  <2>4. ~walk.overtaken => /\ more \in Seq(Shown) /\ Lie(disk, more) /\ Beside(more)
                           /\ Cardinality(Rest(disk, s)) = Cardinality(Rest(disk, more)) + n
    BY <1>0, <2>1, <2>3, EntrySeen
  <2>5. more \in Seq(Shown)
    <3>1. h \in Shown /\ Tail(s) \in Seq(Shown)
      <4> HIDE DEF Shown
      <4> QED
        BY <1>0, EmptySeq
    <3>2. listing \in Seq(Shown)
      <4>1. CASE h.kind = "dir"
        <5>1. h.path \in Paths /\ listing \in Listings(h.path)
          BY <2>1, <3>1, <4>1 DEF Shown
        <5> QED
          BY <1>0, <5>1, ListingRead
      <4>2. CASE h.kind # "dir"
        BY <2>1, <4>2
      <4> QED
        BY <4>1, <4>2
    <3> HIDE DEF Shown
    <3> QED
      BY <3>1, <3>2, ConcatProperties
  <2>6. n \in Nat
    OBVIOUS
  <2> HIDE DEF more, n, h
  <2>7. /\ w \in WalkRecords /\ w.path = walk.path /\ w.pending = more /\ w.files = walk.files + n
        /\ w.truncated = walk.truncated /\ w.active = walk.active /\ w.overtaken = walk.overtaken
    <3>1. walk.visited + 1 \in Nat /\ walk.files + n \in Nat
      BY <1>0, <2>6
    <3> HIDE DEF Shown
    <3> QED
      BY <1>0, <2>5, <3>1 DEF WalkRecords
  <2> HIDE DEF w
  <2>8. ~walk.overtaken => (walk.files + n) + Cardinality(Rest(disk, more)) = Held(disk, walk.path)
    <3>1. Cardinality(Rest(disk, more)) \in Nat
      BY <1>0, <2>5, RestRead
    <3> QED
      BY <1>0, <2>3, <2>4, <2>6, <3>1
  <2>9. WalkTrue(w, disk)
    BY <2>3, <2>4, <2>7, <2>8 DEF WalkTrue
  <2> QED
    BY <1>0, <2>2, <2>7, <2>9 DEF WalkInv
<1> QED
  BY <1>1, <1>2

LEMMA WalkSteps ==
  ASSUME FilesystemBounds, FilesystemAssumption, RootInv, WalkInv, [DiskNext]_diskVars
  PROVE  WalkInv'
<1>1. CASE UNCHANGED <<disk, walk>>
  BY <1>1 DEF WalkInv
<1>2. CASE Overtaken
  BY <1>2, OvertakenKeeps
<1>3. CASE MeasureBegin
  BY <1>3, WalkBegins
<1>4. CASE MeasureEntry
  BY <1>4, WalkGoesOn
<1>5. CASE MeasureEnd
  <2>1. walk' = NoWalk
    BY <1>5 DEF MeasureEnd
  <2>2. NoWalk \in WalkRecords /\ NoWalk.active = FALSE
    <3>1. <<>> \in Seq(Shown) /\ <<>> \in Paths
      BY DEF Paths
    <3> HIDE DEF Shown
    <3> QED
      BY <3>1 DEF NoWalk, WalkRecords
  <2> QED
    BY <2>1, <2>2 DEF WalkInv, WalkTrue
<1>6. OtherWrites \/ Mutate => Overtaken
  BY DEF OtherWrites, Mutate
<1>7. BeginMkdir \/ BeginRelocation \/ BeginDelete => UNCHANGED <<disk, walk>>
  BY DEF BeginMkdir, BeginRelocation, BeginDelete, BeginItem
<1>8. Check \/ Refuse \/ Invalidate \/ Expire \/ UNCHANGED diskVars => UNCHANGED <<disk, walk>>
  BY DEF Check, Refuse, Invalidate, Expire, diskVars
<1> QED
  BY <1>1, <1>2, <1>3, <1>4, <1>5, <1>6, <1>7, <1>8 DEF DiskNext

\* A mutation is done, and nobody told the shared service of it yet.
Finished(t) == t.op # "none" /\ t.phase = "done"

LEMMA ExcusedKeeps ==
  ASSUME StoredInv, Excused, Finished(task)' \/ ~Finished(task)
  PROVE  StoredInv'
<1>1. /\ DOMAIN measurements' = DOMAIN measurements
      /\ \A p \in DOMAIN measurements :
           measurements'[p] = [measurements[p] EXCEPT !.excused = @ \/ disk' # disk]
  BY DEF Excused
<1>2. ASSUME NEW p \in DOMAIN measurements
      PROVE  /\ measurements'[p] \in StoredRecords
             /\ measurements'[p].files = measurements[p].files
             /\ measurements'[p].truncated = measurements[p].truncated
             /\ measurements'[p].excused = (measurements[p].excused \/ disk' # disk)
  BY <1>1 DEF StoredInv, StoredRecords
<1>3. ASSUME ~Finished(task)', NEW p \in DOMAIN measurements
      PROVE  Honest(measurements'[p], disk', p)
  <2>1. Honest(measurements[p], disk, p)
    BY <1>3 DEF StoredInv, Finished, Running
  <2>2. CASE disk' = disk
    BY <1>2, <2>1, <2>2 DEF Honest
  <2>3. CASE disk' # disk
    BY <1>2, <2>3 DEF Honest
  <2> QED
    BY <2>2, <2>3
<1> QED
  BY <1>1, <1>2, <1>3 DEF StoredInv, Finished, Running

LEMMA WalkEnds ==
  ASSUME RootInv, WalkInv, StoredInv, MeasureEnd
  PROVE  StoredInv'
<1> DEFINE m == [files |-> walk.files, truncated |-> walk.truncated, excused |-> walk.overtaken]
           new == [p \in {walk.path} |-> m]
<1>1. /\ walk.active /\ walk.pending = <<>> /\ disk' = disk /\ task' = task /\ measurements' = Plus(measurements, new)
      /\ walk.path \in Paths /\ walk.files \in Nat /\ walk.truncated \in BOOLEAN /\ walk.overtaken \in BOOLEAN
      /\ walk.pending \in Seq(Shown)
  BY DEF MeasureEnd, WalkInv, WalkRecords
<1>2. m \in StoredRecords
  BY <1>1 DEF StoredRecords
<1>3. Honest(m, disk, walk.path)
  <2> SUFFICES ASSUME ~walk.overtaken
               PROVE  IF walk.truncated THEN walk.files <= Held(disk, walk.path) ELSE walk.files = Held(disk, walk.path)
    BY DEF Honest
  <2>1. Cardinality(Rest(disk, walk.pending)) = 0
    BY <1>1, RestRead DEF RootInv
  <2> QED
    BY <1>1, <2>1 DEF WalkInv, WalkTrue
<1>4. /\ DOMAIN measurements' = DOMAIN measurements \cup {walk.path} /\ measurements'[walk.path] = m
      /\ \A p \in DOMAIN measurements \ {walk.path} : measurements'[p] = measurements[p]
  BY <1>1 DEF Plus
<1> HIDE DEF m, new
<1>5. \A p \in DOMAIN measurements' : p = walk.path \/ p \in DOMAIN measurements \ {walk.path}
  BY <1>4
<1>6. \A p \in DOMAIN measurements' : measurements'[p] \in StoredRecords
  BY <1>2, <1>4, <1>5 DEF StoredInv
<1>7. ~Finished(task) => \A p \in DOMAIN measurements' : Honest(measurements'[p], disk, p)
  BY <1>3, <1>4, <1>5 DEF StoredInv, Finished, Running
<1> QED
  BY <1>1, <1>6, <1>7 DEF StoredInv, Finished, Running

LEMMA StoredSteps ==
  ASSUME FilesystemBounds, FilesystemAssumption, RootInv, TaskInv, WalkInv, StoredInv, [DiskNext]_diskVars
  PROVE  StoredInv'
<1>1. CASE UNCHANGED <<disk, measurements>> /\ (Finished(task)' \/ ~Finished(task))
  BY <1>1 DEF StoredInv, Finished, Running
<1>2. CASE OtherWrites
  <2>1. Finished(task)' \/ ~Finished(task)
    <3> SUFFICES ASSUME Finished(task) PROVE Finished(task')
      OBVIOUS
    <3>1. task \in TaskRecords
      BY DEF TaskInv, TaskGood, Finished, NoTask
    <3>2. task' = [task EXCEPT !.raced = TRUE]
      BY <1>2 DEF OtherWrites, Running, Finished
    <3> QED
      BY <3>1, <3>2 DEF Finished, TaskRecords
  <2> QED
    BY <1>2, <2>1, ExcusedKeeps DEF OtherWrites
<1>3. CASE Mutate
  <2>1. ~Finished(task)
    BY <1>3 DEF Mutate, Finished
  <2>2. PICK out \in Mutations : /\ task' = IF out.done THEN [task EXCEPT !.phase = "done"] ELSE NoTask
                                 /\ IF out.done THEN UNCHANGED measurements ELSE Excused
    BY <1>3 DEF Mutate
  <2>3. CASE out.done
    <3>1. task \in TaskRecords /\ Running
      BY <1>3 DEF Mutate, TaskInv, TaskGood, Running, NoTask
    <3>2. Finished(task')
      BY <2>2, <2>3, <3>1 DEF Finished, TaskRecords, Running
    <3> QED
      BY <2>2, <2>3, <3>2 DEF StoredInv, Finished, Running
  <2>4. CASE ~out.done
    BY <2>1, <2>2, <2>4, ExcusedKeeps
  <2> QED
    BY <2>3, <2>4
<1>4. CASE Invalidate
  BY <1>4 DEF Invalidate, StoredInv
<1>5. CASE MeasureEnd
  BY <1>5, WalkEnds
<1>6. CASE Expire
  <2>1. PICK p \in DOMAIN measurements : measurements' = [q \in DOMAIN measurements \ {p} |-> measurements[q]]
    BY <1>6 DEF Expire
  <2>2. UNCHANGED <<disk, task>>
    BY <1>6 DEF Expire
  <2> QED
    BY <2>1, <2>2 DEF StoredInv, Running
<1>7. BeginMkdir \/ BeginRelocation \/ BeginDelete => UNCHANGED <<disk, measurements>> /\ ~Finished(task)
  BY DEF BeginMkdir, BeginRelocation, BeginDelete, BeginItem, Running, Finished
<1>8. Check \/ Refuse => UNCHANGED <<disk, measurements>> /\ ~Finished(task)
  BY DEF Check, Refuse, Finished
<1>9. MeasureBegin \/ MeasureEntry \/ UNCHANGED diskVars => UNCHANGED <<disk, measurements>> /\ (Finished(task)' \/ ~Finished(task))
  BY DEF MeasureBegin, MeasureEntry, diskVars
<1> QED
  BY <1>1, <1>2, <1>3, <1>4, <1>5, <1>6, <1>7, <1>8, <1>9 DEF DiskNext

\* HandedOutIsFresh: what the service remembers of a folder is what the folder
\* holds, or at least so much, however walks, items and others interleave.
THEOREM MeasurementsAreTrue ==
  ASSUME FilesystemBounds, FilesystemAssumption
  PROVE  DiskSpec => []HandedOutIsFresh
<1> DEFINE Inv == RootInv /\ TaskInv /\ WalkInv /\ StoredInv
<1>1. DiskInit => Inv
  <2> SUFFICES ASSUME DiskInit PROVE Inv
    OBVIOUS
  <2>1. RootInv /\ TaskInv
    BY DiskBegins
  <2>2. walk = NoWalk /\ NoWalk \in WalkRecords /\ NoWalk.active = FALSE
    <3>1. <<>> \in Seq(Shown) /\ <<>> \in Paths
      BY DEF Paths
    <3> HIDE DEF Shown
    <3> QED
      BY <3>1 DEF NoWalk, WalkRecords, DiskInit
  <2>3. WalkInv
    BY <2>2 DEF WalkInv, WalkTrue
  <2>4. StoredInv
    BY DEF DiskInit, StoredInv
  <2> QED
    BY <2>1, <2>3, <2>4
<1>2. Inv /\ [DiskNext]_diskVars => Inv'
  BY DiskSteps, WalkSteps, StoredSteps
<1>3. Inv => HandedOutIsFresh
  <2>1. \A p : Held(disk, p) = Measurement(p)
    BY DEF Held, Measurement, OpenedIn, Opened
  <2> QED
    BY <2>1 DEF StoredInv, Honest, HandedOutIsFresh
<1> QED
  BY <1>1, <1>2, <1>3, PTL DEF DiskSpec

===============================================================================
