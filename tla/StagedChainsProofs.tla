-------------------------- MODULE StagedChainsProofs --------------------------
(***************************************************************************)
(* The chains of the web store, the delete guard they end in, and the      *)
(* dialogs that ask for a verdict before they stage: proofs.               *)
(***************************************************************************)
EXTENDS StagedChains, Dialogs, FiniteSetTheorems, SequenceTheorems, WellFoundedInduction, TLAPS

-------------------------------------------------------------------------------
(* The delete guard, for every set of claims.                                *)

\* A list that was switched off adds nothing unattended.
LEMMA SwitchedOff ==
  ASSUME NEW list \in List
  PROVE  ~SetEnabled(list).automatic /\ SetEnabled(list).id = list.id
  BY DEF SetEnabled, List

\* A collection that was unmonitored is not monitored.
LEMMA Unmonitored ==
  ASSUME NEW c \in Collection
  PROVE  ~Unmonitor(c).monitored /\ Unmonitor(c).id = c.id
  BY DEF Unmonitor, Collection

\* Once the bridge was run no list in range is automatic.
LEMMA ListsBridged ==
  ASSUME NEW claims \in Claims, NEW ticked \in SUBSET Bridges, "importLists" \in ticked
  PROVE  Automatic(Bridged(claims, ticked)) = {}
<1>1. SUFFICES ASSUME NEW l \in Automatic(Bridged(claims, ticked)) PROVE FALSE
  OBVIOUS
<1>2. l \in Bridged(claims, ticked).lists /\ Enabled(l) /\ l.automatic
  BY DEF Automatic, Live
<1>3. Bridged(claims, ticked).lists
        = {IF list.id \in DisableListTargets(claims) THEN SetEnabled(list) ELSE list : list \in claims.lists}
  BY DEF Bridged, Claims
<1>4. PICK list \in claims.lists :
        l = IF list.id \in DisableListTargets(claims) THEN SetEnabled(list) ELSE list
  BY <1>2, <1>3
<1>5. list \in List
  BY DEF Claims
<1>6. CASE list.id \in DisableListTargets(claims)
  BY <1>2, <1>4, <1>5, <1>6, SwitchedOff
<1>7. CASE list.id \notin DisableListTargets(claims)
  <2>1. list \notin Live(claims)
    BY <1>7 DEF DisableListTargets
  <2>2. ~Enabled(list)
    BY <2>1 DEF Live
  <2> QED
    BY <1>2, <1>4, <1>7, <2>2
<1> QED
  BY <1>6, <1>7

\* Once the bridge was run no collection in range is monitored.
LEMMA CollectionsBridged ==
  ASSUME NEW claims \in Claims, NEW ticked \in SUBSET Bridges, "collections" \in ticked
  PROVE  Monitored(Bridged(claims, ticked)) = {}
<1>1. SUFFICES ASSUME NEW m \in Monitored(Bridged(claims, ticked)) PROVE FALSE
  OBVIOUS
<1>2. m \in Bridged(claims, ticked).collections /\ m.monitored
  BY DEF Monitored
<1>3. Bridged(claims, ticked).collections
        = {IF c.id \in DisableCollectionTargets(claims) THEN Unmonitor(c) ELSE c : c \in claims.collections}
  BY DEF Bridged, Claims
<1>4. PICK c \in claims.collections :
        m = IF c.id \in DisableCollectionTargets(claims) THEN Unmonitor(c) ELSE c
  BY <1>2, <1>3
<1>5. c \in Collection
  BY DEF Claims
<1>6. CASE c.id \in DisableCollectionTargets(claims)
  BY <1>2, <1>4, <1>5, <1>6, Unmonitored
<1>7. CASE c.id \notin DisableCollectionTargets(claims)
  <2>1. c \notin Aimed(claims)
    BY <1>7 DEF DisableCollectionTargets
  <2>2. ~c.monitored
    BY <2>1 DEF Aimed
  <2> QED
    BY <1>2, <1>4, <1>7, <2>2
<1> QED
  BY <1>6, <1>7

\* What a bridge that was not run leaves is as it was.
LEMMA Untouched ==
  ASSUME NEW claims \in Claims, NEW ticked \in SUBSET Bridges
  PROVE  /\ Bridged(claims, ticked).media = claims.media
         /\ Bridged(claims, ticked).complete = claims.complete
         /\ "rootFolders" \in ticked => Bridged(claims, ticked).rootFolders = {}
         /\ "rootFolders" \notin ticked => Bridged(claims, ticked).rootFolders = claims.rootFolders
         /\ "importLists" \notin ticked => Bridged(claims, ticked).lists = claims.lists
         /\ "collections" \notin ticked => Bridged(claims, ticked).collections = claims.collections
  BY DEF Bridged, Claims, UnassignTargets

\* delete-bridge.ts and referenceChecks agree: a delete that passes on the promise
\* of the bridge passes without the promise once the bridge was run, and by force
\* for no more than it was forced for.
THEOREM BridgeKeepsItsPromise ==
  ASSUME NEW claims \in Claims, NEW force \in BOOLEAN, NEW ticked \in SUBSET Bridges
  PROVE  PromiseKept(claims, force, ticked)
<1> DEFINE after == Bridged(claims, ticked)
<1>1. SUFFICES ASSUME Passes(claims, force, ticked) PROVE Passes(after, force, {})
  BY DEF PromiseKept
<1>2. RootFolderCheck(after, force, {}) # "blocker"
  <2>1. RootFolderCheck(claims, force, ticked) # "blocker"
    BY <1>1 DEF Passes, ReferenceChecks
  <2> QED
    BY <2>1, Untouched DEF RootFolderCheck, Waive
<1>3. MediaCheck(after, force) # "blocker"
  <2>1. MediaCheck(claims, force) # "blocker"
    BY <1>1 DEF Passes, ReferenceChecks
  <2> QED
    BY <2>1, Untouched DEF MediaCheck
<1>4. ImportListCheck(after, force, {}) # "blocker"
  <2>1. CASE "importLists" \in ticked
    <3>1. Automatic(after) = {}
      BY <2>1, ListsBridged
    <3> QED
      BY <3>1 DEF ImportListCheck
  <2>2. CASE "importLists" \notin ticked
    <3>1. ImportListCheck(claims, force, ticked) # "blocker"
      BY <1>1 DEF Passes, ReferenceChecks
    <3>2. Automatic(after) = Automatic(claims) /\ Live(after) = Live(claims)
      BY <2>2, Untouched DEF Automatic, Live
    <3> QED
      BY <2>2, <3>1, <3>2 DEF ImportListCheck
  <2> QED
    BY <2>1, <2>2
<1>5. CollectionCheck(after, force, {}) # "blocker"
  <2>1. CASE "collections" \in ticked
    <3>1. Monitored(after) = {}
      BY <2>1, CollectionsBridged
    <3> QED
      BY <3>1 DEF CollectionCheck
  <2>2. CASE "collections" \notin ticked
    <3>1. CollectionCheck(claims, force, ticked) # "blocker"
      BY <1>1 DEF Passes, ReferenceChecks
    <3>2. Monitored(after) = Monitored(claims) /\ Aimed(after) = Aimed(claims)
      BY <2>2, Untouched DEF Monitored, Aimed
    <3> QED
      BY <2>2, <3>1, <3>2 DEF CollectionCheck
  <2> QED
    BY <2>1, <2>2
<1>6. UnknownCheck(after, force) # "blocker"
  <2>1. UnknownCheck(claims, force) # "blocker"
    BY <1>1 DEF Passes, ReferenceChecks
  <2> QED
    BY <2>1, Untouched DEF UnknownCheck
<1> QED
  BY <1>2, <1>3, <1>4, <1>5, <1>6 DEF Passes, ReferenceChecks

\* An unforced delete that passes without promises finds nothing the fleet would
\* lose and nothing that would bring the folder back unattended.
THEOREM PassedIsUnclaimed ==
  ASSUME NEW claims \in Claims, Passes(claims, FALSE, {})
  PROVE  Unclaimed(claims)
<1>1. "blocker" \notin {RootFolderCheck(claims, FALSE, {}), MediaCheck(claims, FALSE),
                        ImportListCheck(claims, FALSE, {}), CollectionCheck(claims, FALSE, {}),
                        UnknownCheck(claims, FALSE)}
  BY DEF Passes, ReferenceChecks
<1>2. claims.rootFolders = {} /\ claims.media = {}
  BY <1>1 DEF RootFolderCheck, MediaCheck, Waive
<1>3. Automatic(claims) = {} /\ Monitored(claims) = {}
  BY <1>1 DEF ImportListCheck, CollectionCheck, Waive
<1>4. claims.complete
  BY <1>1 DEF UnknownCheck, Waive
<1> QED
  BY <1>2, <1>3, <1>4 DEF Unclaimed

-------------------------------------------------------------------------------
(* The chains: what is in the fleet, in the queue and in a plan.             *)

Ops ==
  {"fs.mkdir", "fs.rename", "fs.delete", "rootFolder.create", "rootFolder.delete",
   "media.moveRootFolder", "importList.update", "importList.setEnabled", "collection.update"}
Statuses == {"pending", "succeeded", "failed", "skipped", "removed"}
Args == [ids : SUBSET Ids, at : Path, to : Path, flag : BOOLEAN]
Items == [op : Ops, instance : Ids \cup {"disk"}, args : Args, dep : Nat, status : Statuses]
\* As the dialogs make them.
Fresh == {item \in Items : item.status = "pending"}

\* The media a move names are somewhere.
Tracked(item) ==
  item.op = "media.moveRootFolder" => \A m \in item.args.ids : m \in Media /\ world.path[m] # <<>>

-------------------------------------------------------------------------------
(* Paths.                                                                    *)

\* What Append puts at the end, Front takes away and Last is.
LEMMA FrontOfAppend ==
  ASSUME NEW S, NEW root \in Seq(S), NEW x \in S
  PROVE  /\ Append(root, x) \in Seq(S) /\ Append(root, x) # <<>>
         /\ Front(Append(root, x)) = root /\ Last(Append(root, x)) = x
<1>1. Append(root, x) \in Seq(S) /\ Append(root, x) # <<>>
  BY AppendProperties
<1>2. Len(Append(root, x)) = Len(root) + 1 /\ Append(root, x)[Len(root) + 1] = x
  BY AppendProperties
<1>3. SubSeq(Append(root, x), 1, Len(root)) = root
  <2>1. \A n \in 1..Len(root) : Append(root, x)[n] \in S /\ Append(root, x)[n] = root[n]
    OBVIOUS
  <2>2. /\ SubSeq(Append(root, x), 1, Len(root)) \in Seq(S)
        /\ Len(SubSeq(Append(root, x), 1, Len(root))) = Len(root)
        /\ \A n \in 1..Len(root) : SubSeq(Append(root, x), 1, Len(root))[n] = root[n]
    BY <2>1
  <2> QED
    BY <2>2, SeqEqual
<1> QED
  BY <1>1, <1>2, <1>3 DEF Front, Last

\* Moving a medium keeps its folder's name and replaces the folder it is in.
LEMMA Rehomed ==
  ASSUME NEW p \in Path, p # <<>>, NEW root \in Path
  PROVE  /\ Rehome(p, root) \in Path /\ Rehome(p, root) # <<>>
         /\ Front(Rehome(p, root)) = root /\ Last(Rehome(p, root)) = Last(p)
<1>1. Last(p) \in STRING
  BY DEF Path, Last
<1> QED
  BY <1>1, FrontOfAppend DEF Rehome, Path

LEMMA RewrittenTyped ==
  ASSUME NEW p \in Path, NEW from \in Path, NEW to \in Path
  PROVE  RewritePathPrefix(p, from, to) \in Path
<1>1. SubSeq(p, Len(from) + 1, Len(p)) \in Path
  BY DEF Path
<1>2. to \o SubSeq(p, Len(from) + 1, Len(p)) \in Path
  BY <1>1 DEF Path
<1> QED
  BY <1>2 DEF RewritePathPrefix

-------------------------------------------------------------------------------
(* What an item does to the world.                                           *)

\* An item's effect leaves what it is not about.
LEMMA AfterFrame ==
  ASSUME world \in World, NEW item \in Items
  PROVE  /\ item.op # "media.moveRootFolder" => After(item).path = world.path
         /\ item.op \notin {"rootFolder.create", "rootFolder.delete"} => After(item).roots = world.roots
         /\ item.op \notin {"importList.update", "importList.setEnabled"} => After(item).list = world.list
         /\ item.op # "collection.update" => After(item).coll = world.coll
         /\ item.op \notin {"fs.rename", "fs.delete", "media.moveRootFolder"} => After(item).files = world.files
  BY DEF After, World, Items, Ops

LEMMA AfterDirs ==
  ASSUME world \in World, NEW item \in Items,
         item.op \in {"fs.mkdir", "fs.rename", "fs.delete"}
  PROVE  After(item) \in World
<1> item.args \in Args
  BY DEF Items
<1> item.args.at \in Path /\ item.args.to \in Path
  BY DEF Args
<1>1. CASE item.op = "fs.mkdir"
  BY <1>1 DEF After, World
<1>2. CASE item.op = "fs.rename"
  <2>1. \A d \in Path : RewritePathPrefix(d, item.args.at, item.args.to) \in Path
    BY RewrittenTyped
  <2>2. {RewritePathPrefix(d, item.args.at, item.args.to) : d \in world.dirs} \in SUBSET Path
    BY <2>1 DEF World
  <2>3. [m \in Media |-> RewritePathPrefix(world.files[m], item.args.at, item.args.to)] \in [Media -> Path]
    BY <2>1 DEF World
  <2> QED
    BY <1>2, <2>2, <2>3 DEF After, World
<1>3. CASE item.op = "fs.delete"
  <2>1. [m \in Media |-> IF Under(item.args.at, world.files[m]) THEN <<>> ELSE world.files[m]] \in [Media -> Path]
    <3>1. <<>> \in Path
      BY DEF Path
    <3> QED
      BY <3>1 DEF World
  <2>2. {d \in world.dirs : ~Under(item.args.at, d)} \in SUBSET Path
    BY DEF World
  <2> QED
    BY <1>3, <2>1, <2>2 DEF After, World
<1> QED
  BY <1>1, <1>2, <1>3

LEMMA AfterArr ==
  ASSUME world \in World, NEW item \in Items, Tracked(item),
         item.op \notin {"fs.mkdir", "fs.rename", "fs.delete"}
  PROVE  After(item) \in World
<1> item.args \in Args /\ item.op \in Ops
  BY DEF Items
<1> item.args.at \in Path /\ item.args.to \in Path
  BY DEF Args
<1>1. CASE item.op = "rootFolder.create"
  BY <1>1 DEF After, World
<1>2. CASE item.op = "rootFolder.delete"
  BY <1>2 DEF After, World
<1>3. CASE item.op = "media.moveRootFolder"
  <2>1. \A m \in item.args.ids : Rehome(world.path[m], item.args.to) \in Path
    BY <1>3, Rehomed DEF Tracked, World
  <2>2. [m \in Media |-> IF m \in item.args.ids THEN Rehome(world.path[m], item.args.to) ELSE world.path[m]] \in [Media -> Path]
    BY <2>1 DEF World
  <2>3. [m \in Media |-> IF m \in item.args.ids /\ item.args.flag /\ world.files[m] = world.path[m]
                         THEN Rehome(world.files[m], item.args.to) ELSE world.files[m]] \in [Media -> Path]
    BY <2>1 DEF World
  <2> QED
    BY <1>3, <2>2, <2>3 DEF After, World
<1>4. CASE item.op = "importList.update"
  <2>1. [l \in Lists |-> IF l \in item.args.ids THEN [world.list[l] EXCEPT !.at = item.args.to] ELSE world.list[l]]
          \in [Lists -> [at : Path, flags : List]]
    BY DEF World
  <2> QED
    BY <1>4, <2>1 DEF After, World
<1>5. CASE item.op = "importList.setEnabled"
  <2>1. \A list \in List : SetEnabled(list) \in List
    BY DEF SetEnabled, List
  <2>2. [l \in Lists |-> IF l \in item.args.ids THEN [world.list[l] EXCEPT !.flags = SetEnabled(world.list[l].flags)] ELSE world.list[l]]
          \in [Lists -> [at : Path, flags : List]]
    BY <2>1 DEF World
  <2>3. After(item) = [world EXCEPT !.list = [l \in Lists |->
          IF l \in item.args.ids THEN [world.list[l] EXCEPT !.flags = SetEnabled(world.list[l].flags)] ELSE world.list[l]]]
    BY <1>5 DEF After
  <2> QED
    BY <2>2, <2>3 DEF World
<1>6. CASE item.op = "collection.update"
  <2>1. \A c \in Collection : Unmonitor(c) \in Collection
    BY DEF Unmonitor, Collection
  <2>2. [c \in Collections |-> IF c \notin item.args.ids THEN world.coll[c]
           ELSE IF item.args.flag THEN [world.coll[c] EXCEPT !.flags = Unmonitor(world.coll[c].flags)] ELSE [world.coll[c] EXCEPT !.at = item.args.to]]
          \in [Collections -> [at : Path, flags : Collection]]
    BY <2>1 DEF World
  <2>3. After(item) = [world EXCEPT !.coll = [c \in Collections |-> IF c \notin item.args.ids THEN world.coll[c]
           ELSE IF item.args.flag THEN [world.coll[c] EXCEPT !.flags = Unmonitor(world.coll[c].flags)] ELSE [world.coll[c] EXCEPT !.at = item.args.to]]]
    BY <1>6 DEF After
  <2> QED
    BY <2>2, <2>3 DEF World
<1> QED
  BY <1>1, <1>2, <1>3, <1>4, <1>5, <1>6 DEF Ops

\* Whatever an item does, the world stays one.
LEMMA AfterTyped ==
  ASSUME world \in World, NEW item \in Items, Tracked(item)
  PROVE  After(item) \in World
  BY AfterDirs, AfterArr

-------------------------------------------------------------------------------
(* The queue follows a plan: the items staged so far are its first ones, the *)
(* requests still to be sent hold the others, and no item is ever anything   *)
(* but its status apart from what was planned.                               *)

Same(item, planned) ==
  /\ item.op = planned.op /\ item.instance = planned.instance
  /\ item.args = planned.args /\ item.dep = planned.dep

\* The batches hold the items of the plan behind the first n; none is empty.
Cut(plan, n, batches) ==
  /\ batches \in Seq(Seq(Items))
  /\ \E cut \in [0..Len(batches) -> 0..Len(plan)] :
       /\ cut[0] = n /\ cut[Len(batches)] = Len(plan)
       /\ \A t \in 1..Len(batches) :
            /\ batches[t] # <<>> /\ cut[t] = cut[t - 1] + Len(batches[t])
            /\ \A b \in 1..Len(batches[t]) : batches[t][b] = plan[cut[t - 1] + b]

Follows(plan) ==
  /\ queue \in Seq(Items) /\ Len(queue) <= Len(plan)
  /\ \A k \in 1..Len(queue) : Same(queue[k], plan[k])
  /\ todo # <<>> => Cut(plan, Len(queue), todo)

\* One request of the plan after the other: the queue grows along the plan.
LEMMA Posted ==
  ASSUME NEW plan \in Seq(Items), Follows(plan), todo # <<>>
  PROVE  /\ queue \o Head(todo) \in Seq(Items) /\ Head(todo) # <<>>
         /\ Len(queue \o Head(todo)) = Len(queue) + Len(Head(todo)) /\ Len(queue \o Head(todo)) <= Len(plan)
         /\ \A k \in 1..Len(queue) : (queue \o Head(todo))[k] = queue[k]
         /\ \A k \in Len(queue) + 1..Len(queue \o Head(todo)) : (queue \o Head(todo))[k] = plan[k]
         /\ Tail(todo) # <<>> => Cut(plan, Len(queue \o Head(todo)), Tail(todo))
         /\ Tail(todo) = <<>> => Len(queue \o Head(todo)) = Len(plan)
<1> DEFINE n == Len(queue)
           head == Head(todo)
           q == queue \o head
<1>1. queue \in Seq(Items) /\ n \in Nat /\ todo \in Seq(Seq(Items)) /\ Len(plan) \in Nat
  BY DEF Follows, Cut
<1>2. PICK cut \in [0..Len(todo) -> 0..Len(plan)] :
        /\ cut[0] = n /\ cut[Len(todo)] = Len(plan)
        /\ \A t \in 1..Len(todo) :
             /\ todo[t] # <<>> /\ cut[t] = cut[t - 1] + Len(todo[t])
             /\ \A b \in 1..Len(todo[t]) : todo[t][b] = plan[cut[t - 1] + b]
  BY DEF Follows, Cut
<1>3. Len(todo) \in Nat \ {0} /\ head = todo[1] /\ head \in Seq(Items) /\ Len(head) \in Nat
  <2>1. Len(todo) \in Nat \ {0} /\ head = todo[1] /\ head \in Seq(Items)
    BY <1>1
  <2> QED
    BY <2>1, LenProperties
<1>4. cut[1] = n + Len(head) /\ cut[1] <= Len(plan)
  <2>1. 1 \in 1..Len(todo) /\ 1 \in 0..Len(todo) /\ 1 - 1 = 0
    BY <1>3
  <2>2. cut[1] = cut[1 - 1] + Len(todo[1]) /\ cut[1] \in 0..Len(plan)
    BY <1>2, <2>1
  <2>3. cut[0] = n /\ cut[1 - 1] = cut[0]
    BY <1>2, <2>1
  <2> QED
    BY <1>1, <1>3, <2>2, <2>3
<1>5. q \in Seq(Items) /\ Len(q) = n + Len(head)
      /\ \A i \in 1..n + Len(head) : q[i] = IF i <= n THEN queue[i] ELSE head[i - n]
  BY <1>1, <1>3, ConcatProperties
<1>6. ASSUME NEW k \in n + 1..Len(q) PROVE q[k] = plan[k]
  <2>1. k - n \in 1..Len(head) /\ q[k] = head[k - n]
    BY <1>1, <1>3, <1>5
  <2>2. 1 \in 1..Len(todo) /\ 1 - 1 = 0
    BY <1>3
  <2>3. \A b \in 1..Len(todo[1]) : todo[1][b] = plan[cut[1 - 1] + b]
    BY <1>2, <2>2
  <2>4. cut[1 - 1] = n
    BY <1>2, <2>2
  <2>5. todo[1][k - n] = plan[cut[1 - 1] + (k - n)]
    BY <1>3, <2>1, <2>3
  <2> QED
    BY <1>1, <1>3, <1>5, <2>1, <2>4, <2>5
<1>7. ASSUME Tail(todo) # <<>> PROVE Cut(plan, Len(q), Tail(todo))
  <2>1. Tail(todo) \in Seq(Seq(Items)) /\ Len(Tail(todo)) = Len(todo) - 1
        /\ \A i \in 1..Len(todo) - 1 : Tail(todo)[i] = todo[i + 1]
    BY <1>1, HeadTailProperties
  <2> DEFINE next == [t \in 0..Len(Tail(todo)) |-> cut[t + 1]]
  <2>2. next \in [0..Len(Tail(todo)) -> 0..Len(plan)]
    BY <1>2, <1>3, <2>1
  <2>3. next[0] = Len(q) /\ next[Len(Tail(todo))] = Len(plan)
    BY <1>2, <1>3, <1>4, <1>5, <2>1
  <2>4. ASSUME NEW t \in 1..Len(Tail(todo))
        PROVE  /\ Tail(todo)[t] # <<>> /\ next[t] = next[t - 1] + Len(Tail(todo)[t])
               /\ \A b \in 1..Len(Tail(todo)[t]) : Tail(todo)[t][b] = plan[next[t - 1] + b]
    <3>1. t + 1 \in 1..Len(todo) /\ Tail(todo)[t] = todo[t + 1] /\ next[t] = cut[t + 1] /\ next[t - 1] = cut[t]
      BY <1>3, <2>1
    <3>2. todo[t + 1] # <<>> /\ cut[t + 1] = cut[(t + 1) - 1] + Len(todo[t + 1])
          /\ \A b \in 1..Len(todo[t + 1]) : todo[t + 1][b] = plan[cut[(t + 1) - 1] + b]
      BY <1>2, <3>1
    <3>3. (t + 1) - 1 = t
      BY <2>1
    <3> QED
      BY <3>1, <3>2, <3>3
  <2> HIDE DEF next
  <2> QED
    BY <2>1, <2>2, <2>3, <2>4 DEF Cut
<1>8. ASSUME Tail(todo) = <<>> PROVE Len(q) = Len(plan)
  <2>1. Len(Tail(todo)) = Len(todo) - 1 /\ Len(Tail(todo)) = 0
    BY <1>1, <1>8, HeadTailProperties
  <2>2. Len(todo) = 1
    BY <1>3, <2>1
  <2> QED
    BY <1>2, <1>4, <1>5, <2>2
<1>9. head # <<>>
  <2>1. 1 \in 1..Len(todo)
    BY <1>3
  <2> QED
    BY <1>2, <1>3, <2>1
<1> QED
  BY <1>1, <1>4, <1>5, <1>6, <1>7, <1>8, <1>9

LEMMA PostFollows ==
  ASSUME NEW plan \in Seq(Items), Follows(plan), PostAnswered \/ PostFailed
  PROVE  /\ Follows(plan)' /\ world' = world /\ alone' = alone
         /\ Len(queue) <= Len(queue') /\ \A k \in 1..Len(queue) : queue'[k] = queue[k]
         /\ \A k \in Len(queue) + 1..Len(queue') : queue'[k] = plan[k]
         /\ PostAnswered /\ todo' = <<>> => Len(queue') = Len(plan)
         /\ queue' = <<>> => todo' = <<>>
<1>1. todo # <<>> /\ world' = world /\ alone' = alone
  BY DEF PostAnswered, PostFailed, History
<1>2. queue \in Seq(Items) /\ Len(queue) \in Nat /\ Len(plan) \in Nat /\ Len(queue) <= Len(plan)
      /\ \A k \in 1..Len(queue) : Same(queue[k], plan[k])
  BY DEF Follows
<1>3. todo \in Seq(Seq(Items))
  BY <1>1 DEF Follows, Cut
<1>4. Head(todo) \in Seq(Items)
  BY <1>1, <1>3
<1>5. Len(Head(todo)) \in Nat
  BY <1>4, LenProperties
<1>6. ASSUME queue' = queue \o Head(todo), todo' \in {<<>>, Tail(todo)}
      PROVE  /\ Follows(plan)'
             /\ Len(queue) <= Len(queue') /\ \A k \in 1..Len(queue) : queue'[k] = queue[k]
             /\ \A k \in Len(queue) + 1..Len(queue') : queue'[k] = plan[k]
  <2>1. /\ queue' \in Seq(Items)
        /\ Len(queue') = Len(queue) + Len(Head(todo)) /\ Len(queue') <= Len(plan)
        /\ \A k \in 1..Len(queue) : queue'[k] = queue[k]
        /\ \A k \in Len(queue) + 1..Len(queue') : queue'[k] = plan[k]
        /\ Tail(todo) # <<>> => Cut(plan, Len(queue'), Tail(todo))
    BY <1>1, <1>6, Posted
  <2>2. ASSUME NEW k \in 1..Len(queue') PROVE Same(queue'[k], plan[k])
    <3>1. k \in 1..Len(queue) \/ k \in Len(queue) + 1..Len(queue')
      BY <1>2, <1>5, <2>1
    <3> QED
      BY <1>2, <2>1, <3>1 DEF Same
  <2>3. todo' # <<>> => Cut(plan, Len(queue'), todo')
    BY <1>6, <2>1
  <2>4. Len(queue) <= Len(queue')
    BY <1>2, <1>5, <2>1
  <2>5. Follows(plan)'
    BY <2>1, <2>2, <2>3 DEF Follows
  <2> QED
    BY <2>1, <2>4, <2>5
<1>8. ASSUME PostAnswered, todo' = <<>> PROVE Len(queue') = Len(plan)
  <2>1. queue' = queue \o Head(todo) /\ Tail(todo) = <<>>
    BY <1>8 DEF PostAnswered
  <2>2. Len(queue \o Head(todo)) = Len(plan)
    BY <1>1, <2>1, Posted
  <2> QED
    BY <2>1, <2>2
<1>7. CASE queue' = queue /\ todo' = <<>>
  BY <1>1, <1>2, <1>7, <1>8 DEF Follows
<1>9. ASSUME queue' = <<>> PROVE todo' = <<>>
  <2>1. CASE queue' = queue \o Head(todo)
    <3>1. Head(todo) # <<>>
      BY <1>1, Posted
    <3>2. Len(queue') = Len(queue) + Len(Head(todo)) /\ Len(Head(todo)) # 0
      BY <1>2, <1>4, <2>1, <3>1
    <3> QED
      BY <1>2, <1>5, <1>9, <3>2
  <2> QED
    BY <2>1 DEF PostAnswered, PostFailed
<1> QED
  BY <1>1, <1>6, <1>7, <1>8, <1>9 DEF PostAnswered, PostFailed

\* What runs, retries or removes an item settles a status; the world changes only
\* by the item that runs.
LEMMA QueueStep ==
  ASSUME queue \in Seq(Items), Execute \/ Retry \/ RemoveItem
  PROVE  /\ todo' = todo /\ dialog' = dialog /\ alone' = alone /\ idCache' = idCache
         /\ queue' \in Seq(Items) /\ Len(queue') = Len(queue)
         /\ \A j \in 1..Len(queue) : Same(queue'[j], queue[j])
         /\ \A j \in 1..Len(queue) : queue'[j].status = "succeeded" =>
              queue[j].status = "succeeded" \/ (ProducerSucceeded(j) /\ world' = After(queue[j]))
         /\ world' = world \/ \E k \in 1..Len(queue) :
              /\ ProducerSucceeded(k) /\ Accepts(queue[k]) /\ world' = After(queue[k])
              /\ \A j \in 1..Len(queue) \ {k} : queue'[j] = queue[j]
<1> DEFINE n == Len(queue)
<1>1. n \in Nat /\ DOMAIN queue = 1..n /\ \A j \in 1..n : queue[j] \in Items
  OBVIOUS
<1>2. ASSUME NEW k \in 1..n, NEW status \in Statuses, queue' = [queue EXCEPT ![k].status = status]
      PROVE  /\ queue' \in Seq(Items) /\ Len(queue') = n
             /\ \A j \in 1..n : Same(queue'[j], queue[j])
             /\ \A j \in 1..n \ {k} : queue'[j] = queue[j]
             /\ queue'[k].status = status
  <2>1. [queue[k] EXCEPT !.status = status] \in Items
    BY <1>1 DEF Items
  <2>2. queue' = [queue EXCEPT ![k] = [queue[k] EXCEPT !.status = status]]
    BY <1>2
  <2>3. queue' \in Seq(Items) /\ Len(queue') = n
    BY <2>1, <2>2, ExceptSeq
  <2>4. queue'[k] = [queue[k] EXCEPT !.status = status] /\ \A j \in 1..n \ {k} : queue'[j] = queue[j]
    BY <1>1, <2>2
  <2>5. queue'[k].status = status /\ Same(queue'[k], queue[k])
    BY <1>1, <2>4 DEF Items, Same
  <2> QED
    BY <2>3, <2>4, <2>5 DEF Same
<1>3. CASE Execute
  <2>1. PICK k \in 1..n : Skip(k) \/ Succeed(k) \/ Fail(k)
    BY <1>1, <1>3 DEF Execute
  <2>2. todo' = todo /\ dialog' = dialog /\ alone' = alone /\ idCache' = idCache
    BY <1>3 DEF Execute
  <2>3. CASE Skip(k)
    <3>1. queue' = [queue EXCEPT ![k].status = "skipped"] /\ world' = world
      BY <2>3 DEF Skip, Settle
    <3>2. queue'[k].status = "skipped"
      BY <1>2, <3>1 DEF Statuses
    <3> QED
      BY <1>2, <2>2, <3>1, <3>2 DEF Statuses
  <2>4. CASE Succeed(k)
    <3>1. queue' = [queue EXCEPT ![k].status = "succeeded"] /\ world' = After(queue[k])
          /\ ProducerSucceeded(k) /\ Accepts(queue[k])
      BY <2>4 DEF Succeed, Settle
    <3> QED
      BY <1>2, <2>2, <3>1 DEF Statuses
  <2>5. CASE Fail(k)
    <3>1. queue' = [queue EXCEPT ![k].status = "failed"] /\ ProducerSucceeded(k)
          /\ (world' = world \/ (Accepts(queue[k]) /\ world' = After(queue[k])))
      BY <2>5 DEF Fail, Settle
    <3>2. queue'[k].status = "failed"
      BY <1>2, <3>1 DEF Statuses
    <3> QED
      BY <1>2, <2>2, <3>1, <3>2 DEF Statuses
  <2> QED
    BY <2>1, <2>3, <2>4, <2>5
<1>4. CASE Retry
  <2>1. PICK k \in 1..n : queue' = [queue EXCEPT ![k].status = "pending"]
    BY <1>1, <1>4 DEF Retry, Settle
  <2>2. queue'[k].status = "pending"
    BY <1>2, <2>1 DEF Statuses
  <2> QED
    BY <1>2, <1>4, <2>1, <2>2 DEF Statuses, Retry
<1>5. CASE RemoveItem
  <2>1. PICK k \in 1..n : queue' = [j \in 1..n |-> IF j \in Dependents(k) THEN [queue[j] EXCEPT !.status = "removed"] ELSE queue[j]]
    BY <1>1, <1>5 DEF RemoveItem
  <2> HIDE DEF Dependents
  <2>2. \A j \in 1..n : /\ [queue[j] EXCEPT !.status = "removed"] \in Items
                        /\ Same([queue[j] EXCEPT !.status = "removed"], queue[j])
                        /\ [queue[j] EXCEPT !.status = "removed"].status = "removed"
    BY <1>1 DEF Items, Same, Statuses
  <2>3. queue' \in Seq(Items) /\ Len(queue') = n
    <3>1. queue' \in [1..n -> Items]
      BY <1>1, <2>1, <2>2
    <3> QED
      BY <1>1, <3>1, LenProperties
  <2>4. \A j \in 1..n : Same(queue'[j], queue[j]) /\ (queue'[j].status = "removed" \/ queue'[j] = queue[j])
    BY <2>1, <2>2 DEF Same
  <2> QED
    BY <1>5, <2>3, <2>4 DEF RemoveItem
<1> QED
  BY <1>3, <1>4, <1>5

LEMMA QueueFollows ==
  ASSUME NEW plan \in Seq(Items), Follows(plan), Execute \/ Retry \/ RemoveItem
  PROVE  Follows(plan)'
<1>1. queue \in Seq(Items) /\ Len(queue) <= Len(plan)
      /\ (\A k \in 1..Len(queue) : Same(queue[k], plan[k])) /\ (todo # <<>> => Cut(plan, Len(queue), todo))
  BY DEF Follows
<1>2. todo' = todo /\ queue' \in Seq(Items) /\ Len(queue') = Len(queue)
      /\ \A j \in 1..Len(queue) : Same(queue'[j], queue[j])
  BY <1>1, QueueStep
<1>3. \A j \in 1..Len(queue) : Same(queue'[j], plan[j])
  BY <1>1, <1>2 DEF Same
<1> QED
  BY <1>1, <1>2, <1>3 DEF Follows

-------------------------------------------------------------------------------
(* Lists of a set, and plans put together from them.                         *)

\* SetToSeq lists a finite set: its elements, each of them, each once.
LEMMA Listed ==
  ASSUME NEW S, IsFiniteSet(S)
  PROVE  /\ SetToSeq(S) \in Seq(S)
         /\ \A x \in S : \E n \in 1..Len(SetToSeq(S)) : SetToSeq(S)[n] = x
         /\ \A a, b \in 1..Len(SetToSeq(S)) : SetToSeq(S)[a] = SetToSeq(S)[b] => a = b
<1> DEFINE size == Cardinality(S)
           list == SetToSeq(S)
<1>1. size \in Nat /\ \E g \in [1..size -> S] : IsInjective(g)
  BY FS_CardinalityType DEF ExistsBijection, Bijection, Injection
<1>2. list \in Injection(1..size, S)
  BY <1>1 DEF SetToSeq, Injection
<1>3. Cardinality(1..size) = size
  BY <1>1, FS_Interval
<1>4. list \in Surjection(1..size, S)
  BY <1>2, <1>3, FS_Injection
<1>5. list \in [1..size -> S] /\ IsInjective(list)
  BY <1>2 DEF Injection
<1>6. list \in Seq(S) /\ Len(list) = size /\ DOMAIN list = 1..size
  BY <1>1, <1>5
<1>7. \A x \in S : \E n \in 1..size : list[n] = x
  BY <1>4 DEF Surjection
<1>8. \A a, b \in 1..size : list[a] = list[b] => a = b
  BY <1>5, <1>6 DEF IsInjective
<1> HIDE DEF list, size
<1>9. QED
  BY <1>6, <1>7, <1>8 DEF list

LEMMA ImageFinite ==
  ASSUME NEW S, IsFiniteSet(S), NEW f, DOMAIN f = S, f = [x \in S |-> f[x]]
  PROVE  IsFiniteSet({f[x] : x \in S})
<1>1. f \in Surjection(S, {f[x] : x \in S})
  BY DEF Surjection
<1> QED
  BY <1>1, FS_Surjection

LEMMA RootsFinite ==
  ASSUME \A i \in Instances : IsFiniteSet(world.roots[i])
  PROVE  IsFiniteSet(RootsBelow)
<1> DEFINE below(i) == {<<i, r>> : r \in {r \in world.roots[i] : Under(From, r)}}
<1>1. ASSUME NEW i \in Instances PROVE IsFiniteSet(below(i))
  <2>1. IsFiniteSet({r \in world.roots[i] : Under(From, r)})
    BY FS_Subset
  <2> DEFINE R == {r \in world.roots[i] : Under(From, r)}
             f == [r \in R |-> <<i, r>>]
  <2>2. IsFiniteSet({f[r] : r \in R})
    BY <2>1, ImageFinite
  <2>3. {f[r] : r \in R} = below(i)
    OBVIOUS
  <2> QED
    BY <2>2, <2>3
<1> HIDE DEF below
<1>2. IsFiniteSet({below(i) : i \in Instances})
  <2> DEFINE f == [i \in Instances |-> below(i)]
  <2>1. IsFiniteSet({f[i] : i \in Instances})
    BY ImageFinite, ChainBounds
  <2>2. {f[i] : i \in Instances} = {below(i) : i \in Instances}
    OBVIOUS
  <2> QED
    BY <2>1, <2>2
<1>3. IsFiniteSet(UNION {below(i) : i \in Instances})
  BY <1>1, <1>2, FS_UNION
<1> QED
  BY <1>3 DEF RootsBelow, below

\* One request per item.
LEMMA Singles ==
  ASSUME NEW plan \in Seq(Items)
  PROVE  Cut(plan, 0, [k \in DOMAIN plan |-> <<plan[k]>>])
<1> DEFINE batches == [k \in DOMAIN plan |-> <<plan[k]>>]
           cut == [t \in 0..Len(plan) |-> t]
<1>1. Len(plan) \in Nat /\ DOMAIN plan = 1..Len(plan) /\ \A k \in 1..Len(plan) : plan[k] \in Items
  OBVIOUS
<1>2. \A k \in 1..Len(plan) : <<plan[k]>> \in Seq(Items) /\ Len(<<plan[k]>>) = 1 /\ <<plan[k]>>[1] = plan[k]
  BY <1>1
<1>3. batches \in [1..Len(plan) -> Seq(Items)]
  BY <1>1, <1>2
<1>4. batches \in Seq(Seq(Items)) /\ Len(batches) = Len(plan)
  BY <1>1, <1>3, LenProperties
<1>5. cut \in [0..Len(batches) -> 0..Len(plan)] /\ cut[0] = 0 /\ cut[Len(batches)] = Len(plan)
  BY <1>1, <1>4
<1>6. ASSUME NEW t \in 1..Len(batches)
      PROVE  /\ batches[t] # <<>> /\ cut[t] = cut[t - 1] + Len(batches[t])
             /\ \A b \in 1..Len(batches[t]) : batches[t][b] = plan[cut[t - 1] + b]
  <2>1. batches[t] = <<plan[t]>> /\ cut[t] = t /\ cut[t - 1] = t - 1 /\ t \in Nat
    BY <1>1, <1>4
  <2>2. Len(batches[t]) = 1 /\ batches[t][1] = plan[t]
    BY <1>2, <1>4, <2>1
  <2>3. ASSUME NEW b \in 1..Len(batches[t]) PROVE batches[t][b] = plan[cut[t - 1] + b]
    <3>1. b = 1 /\ cut[t - 1] + b = t
      BY <2>1, <2>2
    <3> QED
      BY <2>2, <3>1
  <2> QED
    BY <2>1, <2>2, <2>3
<1> HIDE DEF batches, cut
<1>7. Cut(plan, 0, batches)
  BY <1>4, <1>5, <1>6 DEF Cut
<1> QED
  BY <1>7 DEF batches

\* What is in a sequence, and in two of them one behind the other.
LEMMA Members ==
  ASSUME NEW S, NEW s \in Seq(S)
  PROVE  /\ \A k \in 1..Len(s) : s[k] \in ToSet(s)
         /\ \A x \in ToSet(s) : \E k \in 1..Len(s) : s[k] = x
  BY DEF ToSet

LEMMA Joined ==
  ASSUME NEW S, NEW a \in Seq(S), NEW b \in Seq(S)
  PROVE  /\ a \o b \in Seq(S) /\ Len(a \o b) = Len(a) + Len(b)
         /\ \A k \in 1..Len(a) : (a \o b)[k] = a[k]
         /\ \A k \in 1..Len(b) : (a \o b)[Len(a) + k] = b[k]
         /\ ToSet(a \o b) = ToSet(a) \cup ToSet(b)
<1>1. Len(a) \in Nat /\ Len(b) \in Nat
  OBVIOUS
<1> DEFINE s == a \o b
<1>2. /\ s \in Seq(S) /\ Len(s) = Len(a) + Len(b)
      /\ \A k \in 1..Len(a) + Len(b) : s[k] = IF k <= Len(a) THEN a[k] ELSE b[k - Len(a)]
  BY ConcatProperties
<1> HIDE DEF s
<1>3. \A k \in 1..Len(a) : s[k] = a[k] /\ k \in 1..Len(s)
  BY <1>1, <1>2
<1>4. ASSUME NEW k \in 1..Len(b) PROVE s[Len(a) + k] = b[k] /\ Len(a) + k \in 1..Len(s)
  <2>1. Len(a) + k \in 1..Len(a) + Len(b) /\ ~(Len(a) + k <= Len(a)) /\ (Len(a) + k) - Len(a) = k
    BY <1>1
  <2> QED
    BY <1>2, <2>1
<1>5. ASSUME NEW x \in ToSet(s) PROVE x \in ToSet(a) \cup ToSet(b)
  <2>1. PICK k \in 1..Len(s) : s[k] = x
    BY <1>2, Members
  <2>2. CASE k <= Len(a)
    <3>1. k \in 1..Len(a)
      BY <1>1, <1>2, <2>2
    <3>2. a[k] \in ToSet(a)
      BY <3>1, Members
    <3>3. s[k] = a[k]
      BY <1>3, <3>1
    <3> QED
      BY <2>1, <3>2, <3>3
  <2>3. CASE ~(k <= Len(a))
    <3>1. k - Len(a) \in 1..Len(b) /\ Len(a) + (k - Len(a)) = k
      BY <1>1, <1>2, <2>3
    <3>2. b[k - Len(a)] \in ToSet(b)
      BY <3>1, Members
    <3>3. s[Len(a) + (k - Len(a))] = b[k - Len(a)]
      BY <1>4, <3>1
    <3>4. s[k] = b[k - Len(a)]
      BY <3>1, <3>3
    <3> QED
      BY <2>1, <3>2, <3>4
  <2> QED
    BY <2>2, <2>3
<1>6. ASSUME NEW x \in ToSet(a) PROVE x \in ToSet(s)
  <2>1. PICK k \in 1..Len(a) : a[k] = x
    BY Members
  <2>2. k \in 1..Len(s) /\ s[k] = x
    BY <1>3, <2>1
  <2> QED
    BY <1>2, <2>2, Members
<1>7. ASSUME NEW x \in ToSet(b) PROVE x \in ToSet(s)
  <2>1. PICK k \in 1..Len(b) : b[k] = x
    BY Members
  <2>2. Len(a) + k \in 1..Len(s) /\ s[Len(a) + k] = x
    BY <1>4, <2>1
  <2> QED
    BY <1>2, <2>2, Members
<1>8. ToSet(s) = ToSet(a) \cup ToSet(b)
  BY <1>5, <1>6, <1>7
<1> QED
  BY <1>2, <1>3, <1>4, <1>8 DEF s

LEMMA JoinedSet ==
  ASSUME NEW S, NEW a \in Seq(S), NEW b \in Seq(S)
  PROVE  ToSet(a \o b) = ToSet(a) \cup ToSet(b)
  BY Joined

\* Nothing is listed twice.
Once(s) == \A a, b \in 1..Len(s) : s[a] = s[b] => a = b

LEMMA UnderRead ==
  ASSUME NEW S, NEW from \in Seq(S), NEW p \in Seq(S)
  PROVE  Under(from, p) <=> Len(from) <= Len(p) /\ \A k \in 1..Len(from) : p[k] = from[k]
<1> DEFINE a == SubSeq(from, 1, Len(from))
           b == SubSeq(p, 1, Len(from))
<1>1. a \in Seq(S) /\ Len(a) = Len(from) /\ \A k \in 1..Len(from) : a[k] = from[k]
  OBVIOUS
<1>2. Len(from) <= Len(p) => b \in Seq(S) /\ Len(b) = Len(from) /\ \A k \in 1..Len(from) : b[k] = p[k]
  OBVIOUS
<1>3. Under(from, p) <=> Len(from) <= Len(p) /\ a = b
  BY DEF Under, IsPrefix
<1> HIDE DEF a, b
<1>4. ASSUME Len(from) <= Len(p), \A k \in 1..Len(from) : p[k] = from[k] PROVE a = b
  <2>1. b \in Seq(S) /\ Len(b) = Len(a) /\ \A k \in 1..Len(a) : a[k] = b[k]
    BY <1>1, <1>2, <1>4
  <2> QED
    BY <1>1, <2>1, SeqEqual
<1> QED
  BY <1>1, <1>2, <1>3, <1>4

LEMMA UnderItself ==
  ASSUME NEW S, NEW p \in Seq(S)
  PROVE  Under(p, p)
<1>1. Len(p) \in Nat
  OBVIOUS
<1> QED
  BY <1>1, UnderRead

LEMMA UnderRewritten ==
  ASSUME NEW from \in Path, NEW to \in Path, NEW p \in Path, Under(from, p)
  PROVE  Under(to, RewritePathPrefix(p, from, to))
<1> DEFINE r == SubSeq(p, Len(from) + 1, Len(p))
           j == to \o r
<1>1. r \in Seq(STRING) /\ to \in Seq(STRING) /\ RewritePathPrefix(p, from, to) = j
  BY DEF Path, RewritePathPrefix
<1> HIDE DEF r
<1>2. j \in Seq(STRING) /\ Len(j) = Len(to) + Len(r) /\ (\A k \in 1..Len(to) : j[k] = to[k])
  BY <1>1, Joined
<1>3. Len(to) \in Nat /\ Len(r) \in Nat
  BY <1>1
<1> HIDE DEF j
<1>4. Under(to, j)
  BY <1>1, <1>2, <1>3, UnderRead
<1> QED
  BY <1>1, <1>4

LEMMA ListedSet ==
  ASSUME NEW S, IsFiniteSet(S), NEW T, S \subseteq T
  PROVE  SetToSeq(S) \in Seq(T) /\ ToSet(SetToSeq(S)) = S /\ Once(SetToSeq(S))
<1> DEFINE s == SetToSeq(S)
<1>1. s \in Seq(S) /\ (\A x \in S : \E n \in 1..Len(s) : s[n] = x) /\ Once(s)
  BY Listed DEF Once
<1> HIDE DEF s
<1>2. \A x \in ToSet(s) : x \in S
  BY <1>1, Members
<1>3. \A x \in S : x \in ToSet(s)
  BY <1>1, Members
<1>4. s \in Seq(T)
  BY <1>1
<1> QED
  BY <1>1, <1>2, <1>3, <1>4 DEF s

\* A sequence made of another, element by element.
LEMMA Mapped ==
  ASSUME NEW S, NEW T, NEW s \in Seq(S), NEW f \in [S -> T], NEW t, t = [k \in DOMAIN s |-> f[s[k]]]
  PROVE  /\ t \in Seq(T) /\ Len(t) = Len(s) /\ \A k \in 1..Len(s) : t[k] = f[s[k]]
         /\ ToSet(t) = {f[x] : x \in ToSet(s)}
<1>1. DOMAIN s = 1..Len(s) /\ Len(s) \in Nat /\ \A k \in 1..Len(s) : s[k] \in S
  OBVIOUS
<1>2. t \in [1..Len(s) -> T] /\ \A k \in 1..Len(s) : t[k] = f[s[k]]
  BY <1>1
<1>3. t \in Seq(T) /\ Len(t) = Len(s)
  BY <1>1, <1>2, LenProperties
<1>4. ASSUME NEW y \in ToSet(t) PROVE y \in {f[x] : x \in ToSet(s)}
  <2>1. PICK k \in 1..Len(t) : t[k] = y
    BY <1>3, Members
  <2>2. s[k] \in ToSet(s) /\ y = f[s[k]]
    BY <1>2, <1>3, <2>1, Members
  <2> QED
    BY <2>2
<1>5. ASSUME NEW x \in ToSet(s) PROVE f[x] \in ToSet(t)
  <2>1. PICK k \in 1..Len(s) : s[k] = x
    BY Members
  <2>2. t[k] = f[x] /\ k \in 1..Len(t)
    BY <1>2, <1>3, <2>1
  <2> QED
    BY <1>3, <2>2, Members
<1> QED
  BY <1>2, <1>3, <1>4, <1>5

-------------------------------------------------------------------------------
(* The plan of a delete.                                                     *)

LEMMA ItemTyped ==
  ASSUME NEW op \in Ops, NEW i \in Ids \cup {"disk"}, NEW args \in Args, NEW dep \in Nat
  PROVE  /\ Item(op, i, args, dep) \in Fresh
         /\ Item(op, i, args, dep).op = op /\ Item(op, i, args, dep).instance = i
         /\ Item(op, i, args, dep).args = args /\ Item(op, i, args, dep).dep = dep
        
  BY DEF Item, Items, Fresh, Statuses

LEMMA ArgsTyped ==
  ASSUME NEW ids \in SUBSET Ids, NEW at \in Path, NEW to \in Path, NEW flag \in BOOLEAN
  PROVE  /\ NoArgs \in Args
         /\ [NoArgs EXCEPT !.at = at] \in Args
         /\ [NoArgs EXCEPT !.at = at, !.to = to] \in Args
         /\ [NoArgs EXCEPT !.at = at, !.flag = flag] \in Args
         /\ [NoArgs EXCEPT !.ids = ids] \in Args
         /\ [NoArgs EXCEPT !.ids = ids, !.to = to] \in Args
         /\ [NoArgs EXCEPT !.ids = ids, !.flag = flag] \in Args
         /\ [NoArgs EXCEPT !.ids = ids, !.to = to, !.flag = flag] \in Args
<1>1. <<>> \in Path
  BY DEF Path
<1> QED
  BY <1>1 DEF NoArgs, Args

\* What each constructor makes.
LEMMA MkdirMade ==
  ASSUME NEW p \in Path
  PROVE  /\ Mkdir(p) \in Fresh /\ Mkdir(p).op = "fs.mkdir"
         /\ Mkdir(p).instance = "disk"
         /\ Mkdir(p).args.at = p
         /\ Mkdir(p).dep = 0
<1> DEFINE args == [NoArgs EXCEPT !.at = p]
<1>1. args \in Args
  BY ArgsTyped
<1>3. args.at = p
  BY DEF NoArgs
<1>2. Mkdir(p) = Item("fs.mkdir", "disk", args, 0)
  BY DEF Mkdir
<1> HIDE DEF args
<1> QED
  BY <1>1, <1>2, <1>3, ItemTyped DEF Ops

LEMMA RenameMade ==
  ASSUME NEW p \in Path, NEW q \in Path
  PROVE  /\ RenameItem(p, q) \in Fresh /\ RenameItem(p, q).op = "fs.rename"
         /\ RenameItem(p, q).instance = "disk"
         /\ RenameItem(p, q).args.at = p
         /\ RenameItem(p, q).args.to = q
         /\ RenameItem(p, q).dep = 0
<1> DEFINE args == [NoArgs EXCEPT !.at = p, !.to = q]
<1>1. args \in Args
  BY ArgsTyped
<1>3. args.at = p /\ args.to = q
  BY DEF NoArgs
<1>2. RenameItem(p, q) = Item("fs.rename", "disk", args, 0)
  BY DEF RenameItem
<1> HIDE DEF args
<1>4. "fs.rename" \in Ops /\ "disk" \in Ids \cup {"disk"} /\ 0 \in Nat
  BY DEF Ops
<1>5. Item("fs.rename", "disk", args, 0) \in Fresh /\ Item("fs.rename", "disk", args, 0).args = args
  BY <1>1, <1>4, ItemTyped
<1> QED
  BY <1>1, <1>2, <1>3, <1>4, <1>5, ItemTyped

LEMMA DeleteMade ==
  ASSUME NEW p \in Path, NEW force \in BOOLEAN, NEW dep \in Nat
  PROVE  /\ DeleteItem(p, force, dep) \in Fresh /\ DeleteItem(p, force, dep).op = "fs.delete"
         /\ DeleteItem(p, force, dep).instance = "disk"
         /\ DeleteItem(p, force, dep).args.at = p
         /\ DeleteItem(p, force, dep).args.flag = force
         /\ DeleteItem(p, force, dep).dep = dep
<1> DEFINE args == [NoArgs EXCEPT !.at = p, !.flag = force]
<1>1. args \in Args
  BY ArgsTyped
<1>3. args.at = p /\ args.flag = force
  BY DEF NoArgs
<1>2. DeleteItem(p, force, dep) = Item("fs.delete", "disk", args, dep)
  BY DEF DeleteItem
<1> HIDE DEF args
<1>4. "fs.delete" \in Ops /\ "disk" \in Ids \cup {"disk"}
  BY DEF Ops
<1>5. /\ Item("fs.delete", "disk", args, dep) \in Fresh
      /\ Item("fs.delete", "disk", args, dep).op = "fs.delete" /\ Item("fs.delete", "disk", args, dep).instance = "disk"
      /\ Item("fs.delete", "disk", args, dep).args = args /\ Item("fs.delete", "disk", args, dep).dep = dep
  BY <1>1, <1>4, ItemTyped
<1> QED
  BY <1>2, <1>3, <1>5

LEMMA CreateMade ==
  ASSUME NEW i \in Ids, NEW p \in Path, NEW dep \in Nat
  PROVE  /\ CreateRoot(i, p, dep) \in Fresh /\ CreateRoot(i, p, dep).op = "rootFolder.create"
         /\ CreateRoot(i, p, dep).instance = i
         /\ CreateRoot(i, p, dep).args.at = p
         /\ CreateRoot(i, p, dep).dep = dep
<1> DEFINE args == [NoArgs EXCEPT !.at = p]
<1>1. args \in Args
  BY ArgsTyped
<1>3. args.at = p
  BY DEF NoArgs
<1>2. CreateRoot(i, p, dep) = Item("rootFolder.create", i, args, dep)
  BY DEF CreateRoot
<1> HIDE DEF args
<1> QED
  BY <1>1, <1>2, <1>3, ItemTyped DEF Ops

LEMMA DropMade ==
  ASSUME NEW i \in Ids, NEW p \in Path, NEW dep \in Nat
  PROVE  /\ DropRoot(i, p, dep) \in Fresh /\ DropRoot(i, p, dep).op = "rootFolder.delete"
         /\ DropRoot(i, p, dep).instance = i
         /\ DropRoot(i, p, dep).args.at = p
         /\ DropRoot(i, p, dep).dep = dep
<1> DEFINE args == [NoArgs EXCEPT !.at = p]
<1>1. args \in Args
  BY ArgsTyped
<1>3. args.at = p
  BY DEF NoArgs
<1>2. DropRoot(i, p, dep) = Item("rootFolder.delete", i, args, dep)
  BY DEF DropRoot
<1> HIDE DEF args
<1> QED
  BY <1>1, <1>2, <1>3, ItemTyped DEF Ops

LEMMA MoveMade ==
  ASSUME NEW i \in Ids, NEW ids \in SUBSET Ids, NEW p \in Path, NEW moveFiles \in BOOLEAN, NEW dep \in Nat
  PROVE  MoveMedia(i, ids, p, moveFiles, dep) \in Fresh
<1> DEFINE args == [NoArgs EXCEPT !.ids = ids, !.to = p, !.flag = moveFiles]
<1>1. args \in Args
  BY ArgsTyped
<1>2. MoveMedia(i, ids, p, moveFiles, dep) = Item("media.moveRootFolder", i, args, dep)
  BY DEF MoveMedia
<1> HIDE DEF args
<1> QED
  BY <1>1, <1>2, ItemTyped DEF Ops

LEMMA DisableMade ==
  ASSUME NEW l \in Lists, NEW dep \in Nat
  PROVE  /\ DisableList(l, dep) \in Fresh /\ DisableList(l, dep).op = "importList.setEnabled"
         /\ DisableList(l, dep).instance = Owner[l]
         /\ DisableList(l, dep).args.ids = {l}
         /\ DisableList(l, dep).dep = dep
<1> DEFINE args == [NoArgs EXCEPT !.ids = {l}]
<1>4. {l} \in SUBSET Ids /\ Owner[l] \in Ids
  BY ChainBounds
<1>1. args \in Args
  BY ArgsTyped, <1>4, Destination
<1>3. args.ids = {l}
  BY DEF NoArgs
<1>2. DisableList(l, dep) = Item("importList.setEnabled", Owner[l], args, dep)
  BY DEF DisableList
<1> HIDE DEF args
<1> QED
  BY <1>1, <1>2, <1>3, <1>4, ItemTyped DEF Ops

LEMMA AimMade ==
  ASSUME NEW l \in Lists, NEW p \in Path, NEW dep \in Nat
  PROVE  /\ AimList(l, p, dep) \in Fresh /\ AimList(l, p, dep).op = "importList.update"
         /\ AimList(l, p, dep).instance = Owner[l]
         /\ AimList(l, p, dep).args.ids = {l}
         /\ AimList(l, p, dep).args.to = p
         /\ AimList(l, p, dep).dep = dep
<1> DEFINE args == [NoArgs EXCEPT !.ids = {l}, !.to = p]
<1>4. {l} \in SUBSET Ids /\ Owner[l] \in Ids
  BY ChainBounds
<1>1. args \in Args
  BY ArgsTyped, <1>4, Destination
<1>3. args.ids = {l} /\ args.to = p
  BY DEF NoArgs
<1>2. AimList(l, p, dep) = Item("importList.update", Owner[l], args, dep)
  BY DEF AimList
<1> HIDE DEF args
<1> QED
  BY <1>1, <1>2, <1>3, <1>4, ItemTyped DEF Ops

LEMMA RecollectMade ==
  ASSUME NEW i \in Ids, NEW ids \in SUBSET Ids, NEW p \in Path, NEW dep \in Nat
  PROVE  /\ AimCollections(i, ids, p, dep) \in Fresh /\ AimCollections(i, ids, p, dep).op = "collection.update"
         /\ AimCollections(i, ids, p, dep).instance = i
         /\ AimCollections(i, ids, p, dep).args.ids = ids
         /\ AimCollections(i, ids, p, dep).args.to = p
         /\ AimCollections(i, ids, p, dep).dep = dep
<1> DEFINE args == [NoArgs EXCEPT !.ids = ids, !.to = p]
<1>1. args \in Args
  BY ArgsTyped
<1>3. args.ids = ids /\ args.to = p
  BY DEF NoArgs
<1>2. AimCollections(i, ids, p, dep) = Item("collection.update", i, args, dep)
  BY DEF AimCollections
<1> HIDE DEF args
<1> QED
  BY <1>1, <1>2, <1>3, ItemTyped DEF Ops

\* What the items of a delete's chain are for.
Drops(item, i, r) == item.op = "rootFolder.delete" /\ item.instance = i /\ item.args.at = r
Disables(item, l) == item.op = "importList.setEnabled" /\ l \in item.args.ids
Unmonitoring(item) == item.op = "collection.update" /\ item.args.flag
Unmonitors(item, c) == Unmonitoring(item) /\ c \in item.args.ids

LEMMA UnmonitorMade ==
  ASSUME NEW i \in Ids, NEW ids \in SUBSET Ids, NEW dep \in Nat
  PROVE  /\ UnmonitorAll(i, ids, dep) \in Fresh /\ Unmonitoring(UnmonitorAll(i, ids, dep))
         /\ \A c \in ids : Unmonitors(UnmonitorAll(i, ids, dep), c)
<1> DEFINE args == [NoArgs EXCEPT !.ids = ids, !.flag = TRUE]
<1>1. args \in Args
  BY ArgsTyped, Destination
<1>3. args.ids = ids /\ args.flag
  BY DEF NoArgs
<1>2. UnmonitorAll(i, ids, dep) = Item("collection.update", i, args, dep)
  BY DEF UnmonitorAll
<1> HIDE DEF args
<1>4. Item("collection.update", i, args, dep) \in Fresh
  BY <1>1, ItemTyped DEF Ops
<1>5. Item("collection.update", i, args, dep).op = "collection.update" /\ Item("collection.update", i, args, dep).args = args
  BY DEF Item
<1> QED
  BY <1>2, <1>3, <1>4, <1>5 DEF Unmonitoring, Unmonitors

\* The delete comes last, and all that is in front of it clears claims.
DeleteItems(plan) ==
  /\ Len(plan) # 0 /\ plan[Len(plan)].op = "fs.delete"
  /\ \A k \in 1..Len(plan) - 1 :
       plan[k].op \in {"rootFolder.delete", "importList.setEnabled"} \/ Unmonitoring(plan[k])

LEMMA DeletePlanned ==
  ASSUME world \in World, \A i \in Instances : IsFiniteSet(world.roots[i]),
         NEW ticked \in SUBSET Bridges, NEW force \in BOOLEAN
  PROVE  \E plan \in Seq(Fresh) :
           /\ DeletePlan(ticked, force) = [k \in DOMAIN plan |-> <<plan[k]>>]
           /\ DeleteItems(plan) /\ plan[Len(plan)].args.flag = force
           /\ "rootFolders" \in ticked => \A i \in Instances : \A r \in world.roots[i] :
                Under(From, r) => \E k \in 1..Len(plan) - 1 : Drops(plan[k], i, r)
           /\ "importLists" \in ticked => \A l \in Lists :
                Under(From, world.list[l].at) /\ Enabled(world.list[l].flags) => \E k \in 1..Len(plan) - 1 : Disables(plan[k], l)
           /\ "collections" \in ticked => \A c \in Collections :
                Under(From, world.coll[c].at) /\ (world.coll[c].flags.monitored \/ world.coll[c].flags.searchOnAdd)
                => \E k \in 1..Len(plan) - 1 : Unmonitors(plan[k], c)
<1> DEFINE R == {p \in RootsBelow : "rootFolders" \in ticked}
           L == {l \in Lists : "importLists" \in ticked /\ Under(From, world.list[l].at) /\ Enabled(world.list[l].flags)}
           aimed(i) == {c \in Collections : Owner[c] = i /\ Under(From, world.coll[c].at)
                          /\ (world.coll[c].flags.monitored \/ world.coll[c].flags.searchOnAdd)}
           C == {i \in Instances : "collections" \in ticked /\ aimed(i) # {}}
           rs == SetToSeq(R)
           ls == SetToSeq(L)
           cs == SetToSeq(C)
           drops == [k \in DOMAIN rs |-> DropRoot(rs[k][1], rs[k][2], 0)]
           switches == [k \in DOMAIN ls |-> DisableList(ls[k], 0)]
           unmonitors == [k \in DOMAIN cs |-> UnmonitorAll(cs[k], aimed(cs[k]), 0)]
           items == drops \o switches \o unmonitors \o <<DeleteItem(From, force, 0)>>
           plan == [k \in DOMAIN items |-> [items[k] EXCEPT !.dep = k - 1]]
<1>1. /\ Ids \subseteq STRING /\ Media \cup Lists \cup Collections \cup Instances \subseteq Ids
      /\ \A x \in Media \cup Lists \cup Collections : Owner[x] \in Instances
      /\ From \in Path /\ <<>> \in Path
  BY ChainBounds, Destination DEF Path
<1>2. IsFiniteSet(R) /\ IsFiniteSet(L) /\ IsFiniteSet(C)
  BY RootsFinite, ChainBounds, FS_Subset
<1>3. /\ rs \in Seq(R) /\ \A x \in R : \E n \in 1..Len(rs) : rs[n] = x
      /\ ls \in Seq(L) /\ \A x \in L : \E n \in 1..Len(ls) : ls[n] = x
      /\ cs \in Seq(C) /\ \A x \in C : \E n \in 1..Len(cs) : cs[n] = x
  BY <1>2, Listed
<1> HIDE DEF rs, ls, cs
<1>4. \A p \in R : p[1] \in Instances /\ p[2] \in Path
  BY DEF RootsBelow, World
<1>5. /\ drops \in Seq(Fresh) /\ Len(drops) = Len(rs)
      /\ \A k \in 1..Len(rs) : Drops(drops[k], rs[k][1], rs[k][2])
  <2>1. ASSUME NEW k \in 1..Len(rs)
        PROVE  DropRoot(rs[k][1], rs[k][2], 0) \in Fresh /\ Drops(DropRoot(rs[k][1], rs[k][2], 0), rs[k][1], rs[k][2])
    <3>1. rs[k] \in R
      BY <1>3
    <3>2. rs[k][1] \in Ids /\ rs[k][2] \in Path
      BY <1>1, <1>4, <3>1
    <3> QED
      BY <3>2, DropMade DEF Drops
  <2>2. DOMAIN rs = 1..Len(rs) /\ Len(rs) \in Nat
    BY <1>3
  <2>3. drops \in [1..Len(rs) -> Fresh]
    BY <2>1, <2>2
  <2> QED
    BY <2>1, <2>2, <2>3, LenProperties
<1>6. /\ switches \in Seq(Fresh) /\ Len(switches) = Len(ls)
      /\ \A k \in 1..Len(ls) : Disables(switches[k], ls[k])
  <2>1. ASSUME NEW k \in 1..Len(ls)
        PROVE  DisableList(ls[k], 0) \in Fresh /\ Disables(DisableList(ls[k], 0), ls[k])
    <3>1. ls[k] \in L
      BY <1>3
    <3>2. ls[k] \in Lists
      BY <3>1
    <3> QED
      BY <3>2, DisableMade DEF Disables
  <2>2. DOMAIN ls = 1..Len(ls) /\ Len(ls) \in Nat
    BY <1>3
  <2>3. switches \in [1..Len(ls) -> Fresh]
    BY <2>1, <2>2
  <2> QED
    BY <2>1, <2>2, <2>3, LenProperties
<1>7. /\ unmonitors \in Seq(Fresh) /\ Len(unmonitors) = Len(cs)
      /\ \A k \in 1..Len(cs) : Unmonitoring(unmonitors[k]) /\ \A c \in aimed(cs[k]) : Unmonitors(unmonitors[k], c)
  <2>1. ASSUME NEW k \in 1..Len(cs)
        PROVE  LET u == UnmonitorAll(cs[k], aimed(cs[k]), 0)
               IN  u \in Fresh /\ Unmonitoring(u) /\ \A c \in aimed(cs[k]) : Unmonitors(u, c)
    <3>1. cs[k] \in C
      BY <1>3
    <3>2. aimed(cs[k]) \in SUBSET Ids
      BY <1>1
    <3>3. cs[k] \in Ids
      BY <1>1, <3>1
    <3> HIDE DEF aimed
    <3> QED
      BY <3>2, <3>3, UnmonitorMade
  <2>2. DOMAIN cs = 1..Len(cs) /\ Len(cs) \in Nat
    BY <1>3
  <2> HIDE DEF aimed
  <2>3. unmonitors \in [1..Len(cs) -> Fresh]
    BY <2>1, <2>2
  <2> QED
    BY <2>1, <2>2, <2>3, LenProperties
<1> DEFINE d == DeleteItem(From, force, 0)
<1>8. d \in Fresh /\ d.op = "fs.delete" /\ d.args.flag = force
  BY <1>1, DeleteMade
<1>9. DeletePlan(ticked, force) = [k \in DOMAIN items |-> <<[items[k] EXCEPT !.dep = k - 1]>>]
  BY DEF DeletePlan, rs, ls, cs
<1> DEFINE two == drops \o switches
           front == two \o unmonitors
<1>17. items = front \o <<d>>
  BY DEF d
<1> HIDE DEF d, drops, switches, unmonitors, items
<1>18. front \in Seq(Fresh) /\ ToSet(front) = ToSet(drops) \cup ToSet(switches) \cup ToSet(unmonitors)
  <2>1. two \in Seq(Fresh) /\ ToSet(two) = ToSet(drops) \cup ToSet(switches)
    BY <1>5, <1>6, Joined
  <2> HIDE DEF two
  <2>2. front \in Seq(Fresh) /\ ToSet(front) = ToSet(two) \cup ToSet(unmonitors)
    BY <1>7, <2>1, Joined
  <2> QED
    BY <2>1, <2>2
<1> HIDE DEF two, front
<1>10. /\ items \in Seq(Fresh) /\ Len(items) \in Nat \ {0} /\ items[Len(items)] = d
       /\ \A k \in 1..Len(items) - 1 : items[k] \in ToSet(front)
       /\ \A x \in ToSet(front) : \E k \in 1..Len(items) - 1 : items[k] = x
  <2> DEFINE last == <<d>>
  <2>1. last \in Seq(Fresh) /\ Len(last) = 1 /\ last[1] = d
    BY <1>8
  <2> HIDE DEF last
  <2>2. /\ items \in Seq(Fresh) /\ Len(items) = Len(front) + 1 /\ items[Len(front) + 1] = d
        /\ \A k \in 1..Len(front) : items[k] = front[k]
    BY <1>17, <1>18, <2>1, Joined DEF last
  <2>3. Len(front) \in Nat /\ Len(items) - 1 = Len(front)
    BY <1>18, <2>2
  <2> QED
    BY <1>18, <2>2, <2>3, Members
<1>11. /\ plan \in Seq(Fresh) /\ Len(plan) = Len(items) /\ DOMAIN plan = DOMAIN items
       /\ \A k \in 1..Len(items) : plan[k].op = items[k].op /\ plan[k].instance = items[k].instance /\ plan[k].args = items[k].args
  <2>1. ASSUME NEW k \in 1..Len(items)
        PROVE  /\ [items[k] EXCEPT !.dep = k - 1] \in Fresh
               /\ [items[k] EXCEPT !.dep = k - 1].op = items[k].op
               /\ [items[k] EXCEPT !.dep = k - 1].instance = items[k].instance
               /\ [items[k] EXCEPT !.dep = k - 1].args = items[k].args
    <3>1. items[k] \in Fresh /\ k - 1 \in Nat
      BY <1>10
    <3> QED
      BY <3>1 DEF Items, Fresh
  <2>2. DOMAIN items = 1..Len(items)
    BY <1>10
  <2>3. plan \in [1..Len(items) -> Fresh]
    BY <2>1, <2>2
  <2>4. plan \in Seq(Fresh) /\ Len(plan) = Len(items) /\ DOMAIN plan = DOMAIN items
    BY <1>10, <2>2, <2>3, LenProperties
  <2>5. \A k \in 1..Len(items) : plan[k] = [items[k] EXCEPT !.dep = k - 1]
    BY <2>2
  <2> QED
    BY <2>1, <2>4, <2>5
<1>12. DeletePlan(ticked, force) = [k \in DOMAIN plan |-> <<plan[k]>>]
  BY <1>9, <1>11
<1> HIDE DEF plan
<1>13. DeleteItems(plan) /\ plan[Len(plan)].args.flag = force
  <2>0. Len(plan) = Len(items) /\ Len(items) \in Nat \ {0}
    BY <1>10, <1>11
  <2>1. Len(plan) \in 1..Len(items) /\ plan[Len(plan)].op = "fs.delete" /\ plan[Len(plan)].args.flag = force
    BY <1>8, <1>10, <1>11, <2>0
  <2>2. ASSUME NEW k \in 1..Len(plan) - 1
        PROVE  \/ plan[k].op \in {"rootFolder.delete", "importList.setEnabled"}
               \/ Unmonitoring(plan[k])
    <3>1. k \in 1..Len(items) /\ k \in 1..Len(items) - 1 /\ plan[k].op = items[k].op /\ plan[k].args = items[k].args
      BY <1>11, <2>0
    <3>2. items[k] \in ToSet(drops) \/ items[k] \in ToSet(switches) \/ items[k] \in ToSet(unmonitors)
      BY <1>10, <1>18, <3>1
    <3>3. \/ \E n \in 1..Len(drops) : items[k] = drops[n]
          \/ \E n \in 1..Len(switches) : items[k] = switches[n]
          \/ \E n \in 1..Len(unmonitors) : items[k] = unmonitors[n]
      <4>1. CASE items[k] \in ToSet(drops)
        BY <1>5, <4>1, Members
      <4>2. CASE items[k] \in ToSet(switches)
        BY <1>6, <4>2, Members
      <4>3. CASE items[k] \in ToSet(unmonitors)
        BY <1>7, <4>3, Members
      <4> QED
        BY <3>2, <4>1, <4>2, <4>3
    <3> QED
      BY <1>5, <1>6, <1>7, <3>1, <3>3 DEF Drops, Disables, Unmonitoring
  <2> QED
    BY <1>10, <1>11, <2>1, <2>2 DEF DeleteItems
<1>14. ASSUME "rootFolders" \in ticked, NEW i \in Instances, NEW r \in world.roots[i], Under(From, r)
       PROVE  \E k \in 1..Len(plan) - 1 : Drops(plan[k], i, r)
  <2>1. <<i, r>> \in R
    BY <1>14 DEF RootsBelow
  <2>2. PICK n \in 1..Len(rs) : rs[n] = <<i, r>>
    BY <1>3, <2>1
  <2>3. Drops(drops[n], i, r)
    BY <1>5, <2>2
  <2>4. PICK k \in 1..Len(items) - 1 : items[k] = drops[n]
    BY <1>5, <1>10, <1>18, Members
  <2>5. k \in 1..Len(plan) - 1 /\ k \in 1..Len(items)
    BY <1>10, <1>11
  <2> QED
    BY <1>11, <2>3, <2>4, <2>5 DEF Drops
<1>15. ASSUME "importLists" \in ticked, NEW l \in Lists, Under(From, world.list[l].at), Enabled(world.list[l].flags)
       PROVE  \E k \in 1..Len(plan) - 1 : Disables(plan[k], l)
  <2>1. l \in L
    BY <1>15
  <2>2. PICK n \in 1..Len(ls) : ls[n] = l
    BY <1>3, <2>1
  <2>3. Disables(switches[n], l)
    BY <1>6, <2>2
  <2>4. PICK k \in 1..Len(items) - 1 : items[k] = switches[n]
    BY <1>6, <1>10, <1>18, Members
  <2>5. k \in 1..Len(plan) - 1 /\ k \in 1..Len(items)
    BY <1>10, <1>11
  <2> QED
    BY <1>11, <2>3, <2>4, <2>5 DEF Disables
<1>16. ASSUME "collections" \in ticked, NEW c \in Collections, Under(From, world.coll[c].at),
              world.coll[c].flags.monitored \/ world.coll[c].flags.searchOnAdd
       PROVE  \E k \in 1..Len(plan) - 1 : Unmonitors(plan[k], c)
  <2>1. c \in aimed(Owner[c]) /\ Owner[c] \in C
    BY <1>1, <1>16
  <2>2. PICK n \in 1..Len(cs) : cs[n] = Owner[c]
    BY <1>3, <2>1
  <2> HIDE DEF aimed
  <2>3. Unmonitors(unmonitors[n], c)
    BY <1>7, <2>1, <2>2
  <2>4. PICK k \in 1..Len(items) - 1 : items[k] = unmonitors[n]
    BY <1>7, <1>10, <1>18, Members
  <2>5. k \in 1..Len(plan) - 1 /\ k \in 1..Len(items)
    BY <1>10, <1>11
  <2> QED
    BY <1>11, <2>3, <2>4, <2>5 DEF Unmonitors, Unmonitoring
<1> QED
  BY <1>11, <1>12, <1>13, <1>14, <1>15, <1>16

-------------------------------------------------------------------------------
(* A delete's chain clears what the delete was confirmed for.                *)

\* The item at this place of the plan has not done what it is for.
Waiting(k) == k \in 1..Len(queue) => queue[k].status # "succeeded"

\* Each claim that would block the delete has an item in front of it to come.
Cleared(plan) ==
  /\ \A i \in Instances : \A r \in world.roots[i] :
       Under(From, r) => \E k \in 1..Len(plan) - 1 : Drops(plan[k], i, r) /\ Waiting(k)
  /\ \A m \in Media : world.path[m] # <<>> => ~Under(From, world.path[m])
  /\ \A l \in Lists : Under(From, world.list[l].at) /\ Enabled(world.list[l].flags) /\ world.list[l].flags.automatic
       => \E k \in 1..Len(plan) - 1 : Disables(plan[k], l) /\ Waiting(k)
  /\ \A c \in Collections : Under(From, world.coll[c].at) /\ world.coll[c].flags.monitored
       => \E k \in 1..Len(plan) - 1 : Unmonitors(plan[k], c) /\ Waiting(k)

\* The claims a delete of From meets, one by one.
LEMMA ClaimsRead ==
  /\ ClaimsAt(From).rootFolders = {i \in Instances : \E r \in world.roots[i] : Under(From, r)}
  /\ ClaimsAt(From).media = {m \in Media : world.path[m] # <<>> /\ Under(From, world.path[m])}
  /\ Automatic(ClaimsAt(From)) = {f \in ClaimsAt(From).lists : Enabled(f) /\ f.automatic}
  /\ ClaimsAt(From).lists = {world.list[l].flags : l \in {l \in Lists : Under(From, world.list[l].at)}}
  /\ Monitored(ClaimsAt(From)) = {f \in ClaimsAt(From).collections : f.monitored}
  /\ ClaimsAt(From).collections = {world.coll[c].flags : c \in {c \in Collections : Under(From, world.coll[c].at)}}
  /\ ClaimsAt(From).complete
  BY DEF ClaimsAt, Automatic, Live, Monitored

\* Where nothing is claimed the delete passes, and by force it passes anyway.
LEMMA PassesWhenClear ==
  ASSUME NEW force \in BOOLEAN,
         ~force => /\ \A i \in Instances : \A r \in world.roots[i] : ~Under(From, r)
                   /\ \A m \in Media : world.path[m] # <<>> => ~Under(From, world.path[m])
                   /\ \A l \in Lists : ~(Under(From, world.list[l].at) /\ Enabled(world.list[l].flags) /\ world.list[l].flags.automatic)
                   /\ \A c \in Collections : ~(Under(From, world.coll[c].at) /\ world.coll[c].flags.monitored)
  PROVE  Passes(ClaimsAt(From), force, {})
<1> DEFINE claims == ClaimsAt(From)
<1>1. ~force => claims.rootFolders = {} /\ claims.media = {}
  BY ClaimsRead
<1>2. ~force => Automatic(claims) = {}
  <2>1. SUFFICES ASSUME ~force, NEW f \in Automatic(claims) PROVE FALSE
    OBVIOUS
  <2>2. PICK l \in Lists : Under(From, world.list[l].at) /\ f = world.list[l].flags
    BY <2>1, ClaimsRead
  <2> QED
    BY <2>1, <2>2, ClaimsRead
<1>3. ~force => Monitored(claims) = {}
  <2>1. SUFFICES ASSUME ~force, NEW f \in Monitored(claims) PROVE FALSE
    OBVIOUS
  <2>2. PICK c \in Collections : Under(From, world.coll[c].at) /\ f = world.coll[c].flags
    BY <2>1, ClaimsRead
  <2> QED
    BY <2>1, <2>2, ClaimsRead
<1>4. claims.complete
  BY ClaimsRead
<1> HIDE DEF claims
<1>5. RootFolderCheck(claims, force, {}) # "blocker" /\ MediaCheck(claims, force) # "blocker"
  BY <1>1 DEF RootFolderCheck, MediaCheck, Waive
<1>6. ImportListCheck(claims, force, {}) # "blocker"
  BY <1>2 DEF ImportListCheck, Waive
<1>7. CollectionCheck(claims, force, {}) # "blocker"
  BY <1>3 DEF CollectionCheck, Waive
<1>8. UnknownCheck(claims, force) # "blocker"
  BY <1>4 DEF UnknownCheck, Waive
<1>9. Passes(claims, force, {})
  BY <1>5, <1>6, <1>7, <1>8 DEF Passes, ReferenceChecks
<1> QED
  BY <1>9 DEF claims

\* What a delete that passes on the promise of its bridge leaves to be cleared.
LEMMA PassesOnPromise ==
  ASSUME NEW ticked \in SUBSET Bridges, Passes(ClaimsAt(From), FALSE, ticked)
  PROVE  /\ \A m \in Media : world.path[m] # <<>> => ~Under(From, world.path[m])
         /\ "rootFolders" \notin ticked => \A i \in Instances : \A r \in world.roots[i] : ~Under(From, r)
         /\ "importLists" \notin ticked => \A l \in Lists :
              ~(Under(From, world.list[l].at) /\ Enabled(world.list[l].flags) /\ world.list[l].flags.automatic)
         /\ "collections" \notin ticked => \A c \in Collections : ~(Under(From, world.coll[c].at) /\ world.coll[c].flags.monitored)
<1> DEFINE claims == ClaimsAt(From)
<1>1. /\ RootFolderCheck(claims, FALSE, ticked) # "blocker" /\ MediaCheck(claims, FALSE) # "blocker"
      /\ ImportListCheck(claims, FALSE, ticked) # "blocker" /\ CollectionCheck(claims, FALSE, ticked) # "blocker"
  BY DEF Passes, ReferenceChecks
<1> HIDE DEF claims
<1>2. claims.media = {} /\ ("rootFolders" \notin ticked => claims.rootFolders = {})
  BY <1>1 DEF RootFolderCheck, MediaCheck, Waive
<1>3. "importLists" \notin ticked => Automatic(claims) = {}
  BY <1>1 DEF ImportListCheck, Waive
<1>4. "collections" \notin ticked => Monitored(claims) = {}
  BY <1>1 DEF CollectionCheck, Waive
<1>5. ASSUME NEW m \in Media, world.path[m] # <<>>, Under(From, world.path[m]) PROVE FALSE
  BY <1>2, <1>5, ClaimsRead DEF claims
<1>6. ASSUME "rootFolders" \notin ticked, NEW i \in Instances, NEW r \in world.roots[i], Under(From, r) PROVE FALSE
  <2>1. i \in claims.rootFolders
    BY <1>6, ClaimsRead DEF claims
  <2> QED
    BY <1>2, <1>6, <2>1
<1>7. ASSUME "importLists" \notin ticked, NEW l \in Lists, Under(From, world.list[l].at), Enabled(world.list[l].flags),
             world.list[l].flags.automatic
      PROVE  FALSE
  <2>1. world.list[l].flags \in Automatic(claims)
    BY <1>7, ClaimsRead DEF claims
  <2> QED
    BY <1>3, <1>7, <2>1
<1>8. ASSUME "collections" \notin ticked, NEW c \in Collections, Under(From, world.coll[c].at), world.coll[c].flags.monitored
      PROVE  FALSE
  <2>1. world.coll[c].flags \in Monitored(claims)
    BY <1>8, ClaimsRead DEF claims
  <2> QED
    BY <1>4, <1>8, <2>1
<1> QED
  BY <1>5, <1>6, <1>7, <1>8

\* What an item of a delete's chain makes of the claims: no new one, and its own
\* is gone.
LEMMA ClaimsAfter ==
  ASSUME world \in World, NEW item \in Items,
         item.op \in {"rootFolder.delete", "importList.setEnabled", "fs.delete"} \/ Unmonitoring(item),
         NEW w, w = After(item)
  PROVE  /\ w.path = world.path
         /\ \A i \in Instances : \A r \in w.roots[i] : r \in world.roots[i] /\ ~Drops(item, i, r)
         /\ \A l \in Lists : w.list[l].flags.automatic => w.list[l] = world.list[l] /\ ~Disables(item, l)
         /\ \A l \in Lists : w.list[l].at = world.list[l].at
         /\ \A c \in Collections : w.coll[c].flags.monitored => w.coll[c] = world.coll[c] /\ ~Unmonitors(item, c)
         /\ \A c \in Collections : w.coll[c].at = world.coll[c].at
<1>1. w.path = world.path
  BY AfterFrame DEF Unmonitoring
<1>2. ASSUME NEW i \in Instances, NEW r \in w.roots[i] PROVE r \in world.roots[i] /\ ~Drops(item, i, r)
  <2>1. CASE item.op = "rootFolder.delete"
    <3>1. w.roots = [world.roots EXCEPT ![item.instance] = @ \ {item.args.at}]
      BY <2>1 DEF After, World
    <3>2. w.roots[i] = IF i = item.instance THEN world.roots[i] \ {item.args.at} ELSE world.roots[i]
      BY <3>1 DEF World
    <3> QED
      BY <1>2, <3>2 DEF Drops
  <2>2. CASE item.op # "rootFolder.delete"
    <3>1. w.roots = world.roots
      BY <2>2, AfterFrame DEF Unmonitoring
    <3> QED
      BY <1>2, <2>2, <3>1 DEF Drops
  <2> QED
    BY <2>1, <2>2
<1>3. ASSUME NEW l \in Lists
      PROVE  /\ w.list[l].flags.automatic => w.list[l] = world.list[l] /\ ~Disables(item, l)
             /\ w.list[l].at = world.list[l].at
  <2>1. CASE item.op = "importList.setEnabled"
    <3>1. w.list = [k \in Lists |-> IF k \in item.args.ids
                      THEN [world.list[k] EXCEPT !.flags = SetEnabled(world.list[k].flags)] ELSE world.list[k]]
      BY <2>1 DEF After, World
    <3>2. world.list[l] \in [at : Path, flags : List]
      BY DEF World
    <3>3. CASE l \in item.args.ids
      <4>1. w.list[l] = [world.list[l] EXCEPT !.flags = SetEnabled(world.list[l].flags)]
        BY <3>1, <3>3
      <4>2. w.list[l].flags = SetEnabled(world.list[l].flags) /\ w.list[l].at = world.list[l].at
        BY <3>2, <4>1
      <4>3. ~w.list[l].flags.automatic
        BY <3>2, <4>2, SwitchedOff
      <4> QED
        BY <4>2, <4>3
    <3>4. CASE l \notin item.args.ids
      <4>1. w.list[l] = world.list[l]
        BY <3>1, <3>4
      <4> QED
        BY <3>4, <4>1 DEF Disables
    <3> QED
      BY <3>3, <3>4
  <2>2. CASE item.op # "importList.setEnabled"
    <3>1. w.list = world.list
      BY <2>2, AfterFrame DEF Unmonitoring
    <3> QED
      BY <2>2, <3>1 DEF Disables
  <2> QED
    BY <2>1, <2>2
<1>4. ASSUME NEW c \in Collections
      PROVE  /\ w.coll[c].flags.monitored => w.coll[c] = world.coll[c] /\ ~Unmonitors(item, c)
             /\ w.coll[c].at = world.coll[c].at
  <2>1. CASE Unmonitoring(item)
    <3>0. item.op = "collection.update" /\ item.args.flag
      BY <2>1 DEF Unmonitoring
    <3>1. w.coll = [k \in Collections |-> IF k \notin item.args.ids THEN world.coll[k]
                      ELSE [world.coll[k] EXCEPT !.flags = Unmonitor(world.coll[k].flags)]]
      BY <3>0 DEF After, World
    <3>2. world.coll[c] \in [at : Path, flags : Collection]
      BY DEF World
    <3>3. CASE c \in item.args.ids
      <4>1. w.coll[c] = [world.coll[c] EXCEPT !.flags = Unmonitor(world.coll[c].flags)]
        BY <3>1, <3>3
      <4>2. w.coll[c].flags = Unmonitor(world.coll[c].flags) /\ w.coll[c].at = world.coll[c].at
        BY <3>2, <4>1
      <4>3. ~w.coll[c].flags.monitored
        BY <3>2, <4>2, Unmonitored
      <4> QED
        BY <4>2, <4>3
    <3>4. CASE c \notin item.args.ids
      <4>1. w.coll[c] = world.coll[c]
        BY <3>1, <3>4
      <4> QED
        BY <3>4, <4>1 DEF Unmonitors
    <3> QED
      BY <3>3, <3>4
  <2>2. CASE ~Unmonitoring(item)
    <3>1. w.coll = world.coll
      BY <2>2, AfterFrame
    <3> QED
      BY <2>2, <3>1 DEF Unmonitors
  <2> QED
    BY <2>1, <2>2
<1> QED
  BY <1>1, <1>2, <1>3, <1>4

\* An item that comes to have succeeded did what the plan had it for.
LEMMA ClearedKept ==
  ASSUME world \in World, NEW plan \in Seq(Items), Follows(plan), DeleteItems(plan), Cleared(plan),
         Execute \/ Retry \/ RemoveItem
  PROVE  Cleared(plan)'
<1>1. queue \in Seq(Items) /\ Len(queue) \in Nat /\ \A k \in 1..Len(queue) : Same(queue[k], plan[k])
  BY DEF Follows
<1>2. /\ Len(queue') = Len(queue)
      /\ \A k \in 1..Len(queue) : queue'[k].status = "succeeded" => queue[k].status = "succeeded" \/ world' = After(queue[k])
      /\ world' = world \/ \E k \in 1..Len(queue) : world' = After(queue[k])
  BY <1>1, QueueStep
<1>3. ASSUME NEW k \in 1..Len(queue)
      PROVE  /\ queue[k] \in Items
             /\ queue[k].op \in {"rootFolder.delete", "importList.setEnabled", "fs.delete"} \/ Unmonitoring(queue[k])
             /\ \A i, r : Drops(plan[k], i, r) => Drops(queue[k], i, r)
             /\ \A l : Disables(plan[k], l) => Disables(queue[k], l)
             /\ \A c : Unmonitors(plan[k], c) => Unmonitors(queue[k], c)
  <2>1. queue[k] \in Items /\ queue[k].op = plan[k].op /\ queue[k].instance = plan[k].instance /\ queue[k].args = plan[k].args
    BY <1>1 DEF Same
  <2>2. Len(plan) \in Nat /\ k \in 1..Len(plan)
    BY <1>1 DEF Follows
  <2>3. plan[k].op \in {"rootFolder.delete", "importList.setEnabled", "fs.delete"} \/ Unmonitoring(plan[k])
    <3>1. CASE k = Len(plan)
      BY <3>1 DEF DeleteItems
    <3>2. CASE k # Len(plan)
      <4>1. k \in 1..Len(plan) - 1
        BY <2>2, <3>2
      <4> QED
        BY <4>1 DEF DeleteItems
    <3> QED
      BY <3>1, <3>2
  <2> QED
    BY <2>1, <2>3 DEF Drops, Disables, Unmonitors, Unmonitoring
<1>4. /\ world'.path = world.path
      /\ \A i \in Instances : \A r \in world'.roots[i] : r \in world.roots[i]
      /\ \A l \in Lists : world'.list[l].flags.automatic => world'.list[l] = world.list[l]
      /\ \A l \in Lists : world'.list[l].at = world.list[l].at
      /\ \A c \in Collections : world'.coll[c].flags.monitored => world'.coll[c] = world.coll[c]
      /\ \A c \in Collections : world'.coll[c].at = world.coll[c].at
  <2>1. CASE world' = world
    BY <2>1
  <2>2. CASE \E k \in 1..Len(queue) : world' = After(queue[k])
    <3>1. PICK k \in 1..Len(queue) : world' = After(queue[k])
      BY <2>2
    <3> QED
      BY <1>3, <3>1, ClaimsAfter
  <2> QED
    BY <1>2, <2>1, <2>2
<1>5. ASSUME NEW k \in 1..Len(plan) - 1, Waiting(k)
      PROVE  Waiting(k)' \/ (k \in 1..Len(queue) /\ world' = After(queue[k]))
  BY <1>2, <1>5 DEF Waiting
<1>6. ASSUME NEW i \in Instances, NEW r \in world'.roots[i], Under(From, r)
      PROVE  \E k \in 1..Len(plan) - 1 : Drops(plan[k], i, r) /\ Waiting(k)'
  <2>1. PICK k \in 1..Len(plan) - 1 : Drops(plan[k], i, r) /\ Waiting(k)
    BY <1>4, <1>6 DEF Cleared
  <2>2. ASSUME k \in 1..Len(queue), world' = After(queue[k]) PROVE FALSE
    <3>1. Drops(queue[k], i, r)
      BY <1>3, <2>1, <2>2
    <3>2. ~Drops(queue[k], i, r)
      BY <1>3, <1>6, <2>2, ClaimsAfter
    <3> QED
      BY <3>1, <3>2
  <2> QED
    BY <1>5, <2>1, <2>2
<1>7. ASSUME NEW l \in Lists, Under(From, world'.list[l].at), Enabled(world'.list[l].flags), world'.list[l].flags.automatic
      PROVE  \E k \in 1..Len(plan) - 1 : Disables(plan[k], l) /\ Waiting(k)'
  <2>0. world'.list[l] = world.list[l]
    BY <1>4, <1>7
  <2>1. PICK k \in 1..Len(plan) - 1 : Disables(plan[k], l) /\ Waiting(k)
    BY <1>7, <2>0 DEF Cleared
  <2>2. ASSUME k \in 1..Len(queue), world' = After(queue[k]) PROVE FALSE
    <3>1. Disables(queue[k], l)
      BY <1>3, <2>1, <2>2
    <3>2. ~Disables(queue[k], l)
      BY <1>3, <1>7, <2>2, ClaimsAfter
    <3> QED
      BY <3>1, <3>2
  <2> QED
    BY <1>5, <2>1, <2>2
<1>8. ASSUME NEW c \in Collections, Under(From, world'.coll[c].at), world'.coll[c].flags.monitored
      PROVE  \E k \in 1..Len(plan) - 1 : Unmonitors(plan[k], c) /\ Waiting(k)'
  <2>0. world'.coll[c] = world.coll[c]
    BY <1>4, <1>8
  <2>1. PICK k \in 1..Len(plan) - 1 : Unmonitors(plan[k], c) /\ Waiting(k)
    BY <1>8, <2>0 DEF Cleared
  <2>2. ASSUME k \in 1..Len(queue), world' = After(queue[k]) PROVE FALSE
    <3>1. Unmonitors(queue[k], c)
      BY <1>3, <2>1, <2>2
    <3>2. ~Unmonitors(queue[k], c)
      BY <1>3, <1>8, <2>2, ClaimsAfter
    <3> QED
      BY <3>1, <3>2
  <2> QED
    BY <1>5, <2>1, <2>2
<1>9. \A m \in Media : world'.path[m] # <<>> => ~Under(From, world'.path[m])
  BY <1>4 DEF Cleared
<1> QED
  BY <1>6, <1>7, <1>8, <1>9 DEF Cleared

-------------------------------------------------------------------------------
(* The plans that move: what of them their drops wait for.                   *)

Moving(item) == item.op = "media.moveRootFolder"
Dropping(item) == item.op = "rootFolder.delete"

\* A drop waits for the move of all that is to leave its folder.
Gated(plan) ==
  \A d, m \in ToSet(plan) :
    Dropping(d) /\ Moving(m) /\ m.instance = d.instance /\ m.args.to = RewritePathPrefix(d.args.at, From, To)
    => d.dep \in DOMAIN plan /\ Moving(plan[d.dep]) /\ m.args.ids \subseteq plan[d.dep].args.ids
\* Nothing moves to where something is dropped.
Away(plan) == \A d, m \in ToSet(plan) : Dropping(d) /\ Moving(m) => d.args.at # m.args.to
\* What is moved is moved to the new place.
Heading(plan) == \A m \in ToSet(plan) : Moving(m) => Under(To, m.args.to)

MoveItems(plan) ==
  /\ \A item \in ToSet(plan) : item.op # "fs.delete" /\ Tracked(item)
  /\ Gated(plan) /\ Away(plan) /\ Heading(plan)

LEMMA NothingBehind ==
  ASSUME NEW S, NEW s \in Seq(S)
  PROVE  s \o <<>> = s
<1>1. <<>> \in Seq(S) /\ Len(<<>>) = 0 /\ Len(s) \in Nat
  OBVIOUS
<1>2. s \o <<>> \in Seq(S) /\ Len(s \o <<>>) = Len(s) /\ \A k \in 1..Len(s) : (s \o <<>>)[k] = s[k]
  BY <1>1, Joined
<1> QED
  BY <1>2, SeqEqual

\* The first batch, and one more.
LEMMA CutFirst ==
  ASSUME NEW s \in Seq(Items)
  PROVE  Cut(s, 0, Batch(s))
<1>1. CASE s = <<>>
  <2> DEFINE cut == [t \in 0..0 |-> 0]
  <2>1. Batch(s) = <<>> /\ Len(Batch(s)) = 0 /\ Len(s) = 0 /\ Batch(s) \in Seq(Seq(Items))
    BY <1>1 DEF Batch
  <2>2. cut \in [0..0 -> 0..0] /\ cut[0] = 0
    OBVIOUS
  <2> HIDE DEF cut
  <2> QED
    BY <2>1, <2>2 DEF Cut
<1>2. CASE s # <<>>
  <2> DEFINE cut == [t \in 0..1 |-> IF t = 0 THEN 0 ELSE Len(s)]
             batches == <<s>>
  <2>1. batches \in Seq(Seq(Items)) /\ Len(batches) = 1 /\ batches[1] = s /\ Len(s) \in Nat
    OBVIOUS
  <2>2. cut \in [0..1 -> 0..Len(s)] /\ cut[0] = 0 /\ cut[1] = Len(s)
    BY <2>1
  <2>3. Batch(s) = batches
    BY <1>2 DEF Batch
  <2> HIDE DEF cut, batches
  <2>4. ASSUME NEW t \in 1..1
        PROVE  /\ batches[t] # <<>> /\ cut[t] = cut[t - 1] + Len(batches[t])
               /\ \A b \in 1..Len(batches[t]) : batches[t][b] = s[cut[t - 1] + b]
    <3>1. t = 1 /\ t - 1 = 0
      OBVIOUS
    <3> QED
      BY <1>2, <2>1, <2>2, <3>1
  <2>5. Cut(s, 0, batches)
    BY <2>1, <2>2, <2>4 DEF Cut
  <2> QED
    BY <2>3, <2>5
<1> QED
  BY <1>1, <1>2

LEMMA CutNext ==
  ASSUME NEW plan \in Seq(Items), NEW batches, Cut(plan, 0, batches), NEW s \in Seq(Items)
  PROVE  Cut(plan \o s, 0, batches \o Batch(s))
<1>1. batches \in Seq(Seq(Items))
  BY DEF Cut
<1>2. CASE s = <<>>
  <2>1. plan \o s = plan /\ batches \o Batch(s) = batches
    BY <1>1, <1>2, NothingBehind DEF Batch
  <2> QED
    BY <2>1
<1>3. CASE s # <<>>
  <2> DEFINE n == Len(batches)
             last == <<s>>
             longer == batches \o last
             whole == plan \o s
  <2>1. PICK cut \in [0..n -> 0..Len(plan)] :
          /\ cut[0] = 0 /\ cut[n] = Len(plan)
          /\ \A t \in 1..n : /\ batches[t] # <<>> /\ cut[t] = cut[t - 1] + Len(batches[t])
                             /\ \A b \in 1..Len(batches[t]) : batches[t][b] = plan[cut[t - 1] + b]
    BY DEF Cut
  <2>2. last \in Seq(Seq(Items)) /\ Len(last) = 1 /\ last[1] = s
    OBVIOUS
  <2>3. n \in Nat /\ Len(plan) \in Nat /\ Len(s) \in Nat /\ n = Len(batches)
    BY <1>1
  <2> DEFINE lists == Seq(Items)
  <2>10. batches \in Seq(lists) /\ last \in Seq(lists)
    BY <1>1, <2>2
  <2> HIDE DEF last, lists, n
  <2>4. /\ longer \in Seq(Seq(Items)) /\ Len(longer) = n + 1 /\ \A t \in 1..n : longer[t] = batches[t]
        /\ longer[n + 1] = s
    <3>1. /\ longer \in Seq(lists) /\ Len(longer) = n + Len(last) /\ \A t \in 1..n : longer[t] = batches[t]
          /\ \A t \in 1..Len(last) : longer[n + t] = last[t]
      BY <2>3, <2>10, Joined
    <3>2. 1 \in 1..Len(last) /\ last[1] = s
      BY <2>2
    <3> QED
      BY <2>2, <3>1, <3>2 DEF lists
  <2>5. /\ whole \in Seq(Items) /\ Len(whole) = Len(plan) + Len(s)
        /\ \A k \in 1..Len(plan) : whole[k] = plan[k]
        /\ \A k \in 1..Len(s) : whole[Len(plan) + k] = s[k]
    BY Joined
  <2>6. Batch(s) = last
    BY <1>3 DEF Batch, last
  <2> DEFINE cut2 == [t \in 0..n + 1 |-> IF t <= n THEN cut[t] ELSE Len(plan) + Len(s)]
  <2>7. /\ cut2 \in [0..n + 1 -> 0..Len(plan) + Len(s)] /\ cut2[0] = 0 /\ cut2[n + 1] = Len(plan) + Len(s)
        /\ \A t \in 0..n : cut2[t] = cut[t]
    BY <2>1, <2>3
  <2> HIDE DEF cut2, longer, whole
  <2>8. ASSUME NEW t \in 1..n + 1
        PROVE  /\ longer[t] # <<>> /\ cut2[t] = cut2[t - 1] + Len(longer[t])
               /\ \A b \in 1..Len(longer[t]) : longer[t][b] = whole[cut2[t - 1] + b]
    <3>1. CASE t = n + 1
      <4>1. t - 1 = n /\ cut2[t - 1] = Len(plan) /\ longer[t] = s
        <5>1. t - 1 = n /\ n \in 0..n
          BY <2>3, <3>1
        <5>2. cut2[n] = Len(plan)
          BY <2>1, <2>7, <5>1
        <5> QED
          BY <2>4, <3>1, <5>1, <5>2
      <4> QED
        BY <1>3, <2>5, <2>7, <3>1, <4>1
    <3>2. CASE t # n + 1
      <4>1. t \in 1..n /\ t - 1 \in 0..n /\ longer[t] = batches[t] /\ cut2[t] = cut[t] /\ cut2[t - 1] = cut[t - 1]
        <5>1. t \in 1..n /\ t - 1 \in 0..n /\ t \in 0..n
          BY <2>3, <3>2
        <5> QED
          BY <2>4, <2>7, <5>1
      <4>2. batches[t] # <<>> /\ cut[t] = cut[t - 1] + Len(batches[t]) /\ cut[t] \in 0..Len(plan) /\ cut[t - 1] \in 0..Len(plan)
        BY <2>1, <4>1
      <4>3. ASSUME NEW b \in 1..Len(batches[t]) PROVE batches[t][b] = whole[cut2[t - 1] + b]
        <5>1. batches[t] \in Seq(Items)
          BY <1>1, <2>3, <4>1
        <5>2. Len(batches[t]) \in Nat
          BY <5>1
        <5>3. cut[t - 1] + b \in 1..Len(plan)
          BY <2>3, <4>2, <5>2
        <5>4. batches[t][b] = plan[cut[t - 1] + b]
          BY <2>1, <4>1
        <5> QED
          BY <2>5, <4>1, <5>3, <5>4
      <4> QED
        BY <4>1, <4>2, <4>3
    <3> QED
      BY <3>1, <3>2
  <2>9. Cut(whole, 0, longer)
    <3>1. cut2 \in [0..Len(longer) -> 0..Len(whole)] /\ cut2[0] = 0 /\ cut2[Len(longer)] = Len(whole)
      BY <2>4, <2>5, <2>7
    <3>2. \A t \in 1..Len(longer) : /\ longer[t] # <<>> /\ cut2[t] = cut2[t - 1] + Len(longer[t])
                                   /\ \A b \in 1..Len(longer[t]) : longer[t][b] = whole[cut2[t - 1] + b]
      BY <2>4, <2>8
    <3>3. longer \in Seq(Seq(Items))
      BY <2>4
    <3> QED
      BY <3>1, <3>2, <3>3 DEF Cut
  <2> QED
    BY <2>6, <2>9 DEF whole, longer
<1> QED
  BY <1>2, <1>3

LEMMA FreshItems ==
  ASSUME NEW s \in Seq(Fresh)
  PROVE  s \in Seq(Items) /\ \A k \in 1..Len(s) : s[k] \in Items /\ s[k].status = "pending"
  BY DEF Fresh

\* Items no property is about.
Quiet(item) == item.op \notin {"fs.delete", "fs.rename", "rootFolder.delete", "media.moveRootFolder"}

\* An item made of each element of a list.
LEMMA MadeOf ==
  ASSUME NEW S, NEW s \in Seq(S), NEW f, DOMAIN f = DOMAIN s, f = [k \in DOMAIN s |-> f[k]],
         \A k \in 1..Len(s) : f[k] \in Fresh
  PROVE  f \in Seq(Fresh) /\ Len(f) = Len(s)
<1>1. DOMAIN s = 1..Len(s) /\ Len(s) \in Nat
  OBVIOUS
<1>2. f \in [1..Len(s) -> Fresh]
  BY <1>1
<1> QED
  BY <1>1, <1>2, LenProperties

LEMMA PlacedOf ==
  ASSUME NEW S, NEW s \in Seq(S), NEW e \in ToSet(s)
  PROVE  PlaceOf(s, e) \in 1..Len(s) /\ s[PlaceOf(s, e)] = e
<1>1. \E k \in DOMAIN s : s[k] = e
  BY DEF ToSet
<1>2. DOMAIN s = 1..Len(s)
  OBVIOUS
<1> QED
  BY <1>1, <1>2 DEF PlaceOf

-------------------------------------------------------------------------------
(* Where a chain leads: what of its plan brings each medium to its files.    *)

Creating(item, i, p) == item.op = "rootFolder.create" /\ item.instance = i /\ item.args.at = p
Renaming(item) == item.op = "fs.rename"
Moves(item, x) == Moving(item) /\ x \in item.args.ids
\* The last move of a medium.
Lands(plan, k, x) ==
  k \in 1..Len(plan) /\ Moves(plan[k], x) /\ \A j \in 1..Len(plan) : Moves(plan[j], x) => j <= k

\* An instance moves its own media.
Owned(plan) ==
  \A a \in 1..Len(plan) : Moving(plan[a]) =>
    plan[a].instance \in Instances /\ \A x \in plan[a].args.ids : Owner[x] = plan[a].instance
\* A remap takes the files along.
Carried(plan) == \A a \in 1..Len(plan) : ~Renaming(plan[a]) /\ (Moving(plan[a]) => plan[a].args.flag /\ plan[a].args.to = To)
\* A reconcile renames the folder first, and the last move of a medium that has a goal
\* goes to that goal.
Guided(plan, goal) ==
  /\ goal \in [DOMAIN goal -> Path] /\ DOMAIN goal \subseteq Media
  /\ \A a \in 1..Len(plan) :
       /\ Renaming(plan[a]) => a = 1 /\ plan[a].args.at = From /\ plan[a].args.to = To
       /\ Moving(plan[a]) => ~plan[a].args.flag
       /\ \A x \in DOMAIN goal : Moves(plan[a], x) =>
            goal[x] # <<>> /\ \E k \in 1..Len(plan) : Lands(plan, k, x) /\ plan[k].args.to = Front(goal[x])
  /\ 1 \in 1..Len(plan) /\ Renaming(plan[1])

\* So far: what ran is what is first; where a move goes to there is a root folder, or
\* one is still to be made; a medium that was landed is at its goal, and the files of
\* all are, once renamed.
InTurn ==
  \A k \in 1..Len(queue) :
    /\ queue[k].status \in {"pending", "succeeded"}
    /\ queue[k].status = "succeeded" => \A j \in 1..k - 1 : queue[j].status = "succeeded"
Homed(plan) ==
  \A a \in 1..Len(plan) : Moving(plan[a]) =>
    \/ plan[a].args.to \in world.roots[plan[a].instance]
    \/ \E b \in 1..Len(plan) : Waiting(b) /\ Creating(plan[b], plan[a].instance, plan[a].args.to)
Led(plan, goal) ==
  \A a \in 1..Len(plan) : \A x \in DOMAIN goal : Moves(plan[a], x) =>
    /\ Last(world.path[x]) = Last(goal[x])
    /\ Waiting(1) => RewritePathPrefix(world.files[x], From, To) = goal[x]
    /\ ~Waiting(1) => world.files[x] = goal[x]
    /\ Lands(plan, a, x) /\ ~Waiting(a) => world.path[x] = goal[x]
WellAimed(plan) ==
  /\ InTurn /\ Owned(plan) /\ Homed(plan)
  /\ todo = <<>> => Len(queue) = Len(plan)
  /\ \/ Carried(plan) /\ world.files = world.path
     \/ \E goal : Guided(plan, goal) /\ Led(plan, goal) /\ known.direct \subseteq DOMAIN goal

\* Where a move goes there is a root folder, or the plan makes one.
Settles(plan) ==
  \A a \in 1..Len(plan) : Moving(plan[a]) =>
    \/ plan[a].args.to \in world.roots[plan[a].instance]
    \/ \E b \in 1..Len(plan) : Creating(plan[b], plan[a].instance, plan[a].args.to)

\* Induction over the naturals: a set of them has a least one.
LEMMA Least ==
  ASSUME NEW T \in SUBSET Nat, T # {}
  PROVE  \E n \in T : \A m \in T : n <= m
<1> DEFINE R == {ss \in Nat \X Nat : ss[1] < ss[2]}
<1>1. IsWellFoundedOn(R, Nat)
  BY NatLessThanWellFounded, Zenon DEF OpToRel
<1> HIDE DEF R
<1>2. PICK n \in T : \A m \in T : ~(<<m, n>> \in R)
  BY <1>1, WFMin
<1>3. \A m \in T : ~(m < n)
  BY <1>2 DEF R
<1> QED
  BY <1>3

-------------------------------------------------------------------------------
(* What a dialog shows of a plan: a line for each item but the collections.  *)

Plain(item) == item.op # "collection.update"
Told(plan, lines) ==
  /\ \A k \in 1..Len(plan) : Plain(plan[k]) => Step(plan[k]) \in lines
  /\ \A line \in lines : \E k \in 1..Len(plan) : Plain(plan[k]) /\ Step(plan[k]) = line
  /\ \A j, k \in 1..Len(plan) : Plain(plan[j]) /\ Plain(plan[k]) /\ Step(plan[j]) = Step(plan[k]) => j = k

LEMMA LineRead ==
  ASSUME NEW item
  PROVE  /\ Step(item).op = item.op /\ Step(item).instance = item.instance
         /\ Step(item).at = item.args.at /\ Step(item).to = item.args.to
         /\ Step(item).lists = item.args.ids \cap Lists
  BY DEF Step

\* Two plans of which no line is the same, one behind the other.
LEMMA ToldJoined ==
  ASSUME NEW a \in Seq(Fresh), NEW b \in Seq(Fresh), NEW X, NEW Y, Told(a, X), Told(b, Y), X \cap Y = {}
  PROVE  Told(a \o b, X \cup Y)
<1> DEFINE s == a \o b
           n == Len(a)
<1>1. n \in Nat /\ Len(b) \in Nat
  OBVIOUS
<1>2. /\ Len(s) = n + Len(b) /\ \A k \in 1..n : s[k] = a[k]
      /\ \A k \in 1..Len(b) : s[n + k] = b[k]
  BY Joined
<1> HIDE DEF s, n
<1>3. ASSUME NEW k \in 1..Len(s)
      PROVE  \/ k \in 1..n /\ s[k] = a[k]
             \/ k - n \in 1..Len(b) /\ s[k] = b[k - n]
  <2>1. CASE k <= n
    BY <1>1, <1>2, <2>1
  <2>2. CASE ~(k <= n)
    <3>1. k - n \in 1..Len(b) /\ n + (k - n) = k
      BY <1>1, <1>2, <2>2
    <3> QED
      BY <1>2, <3>1
  <2> QED
    BY <2>1, <2>2
<1>4. /\ \A k \in 1..n : Plain(a[k]) => Step(a[k]) \in X
      /\ \A k \in 1..Len(b) : Plain(b[k]) => Step(b[k]) \in Y
  BY DEF Told, n
<1>5. ASSUME NEW line \in X \cup Y
      PROVE  \E k \in 1..Len(s) : Plain(s[k]) /\ Step(s[k]) = line
  <2>1. CASE line \in X
    <3>1. PICK k \in 1..n : Plain(a[k]) /\ Step(a[k]) = line
      BY <2>1 DEF Told, n
    <3>2. k \in 1..Len(s) /\ s[k] = a[k]
      BY <1>1, <1>2
    <3> QED
      BY <3>1, <3>2
  <2>2. CASE line \in Y
    <3>1. PICK k \in 1..Len(b) : Plain(b[k]) /\ Step(b[k]) = line
      BY <2>2 DEF Told
    <3>2. n + k \in 1..Len(s) /\ s[n + k] = b[k]
      BY <1>1, <1>2
    <3> QED
      BY <3>1, <3>2
  <2> QED
    BY <2>1, <2>2
<1>6. ASSUME NEW j \in 1..Len(s), NEW k \in 1..Len(s), Plain(s[j]), Plain(s[k]), Step(s[j]) = Step(s[k])
      PROVE  j = k
  <2>1. CASE j \in 1..n /\ k \in 1..n /\ s[j] = a[j] /\ s[k] = a[k]
    BY <1>6, <2>1 DEF Told, n
  <2>2. CASE j - n \in 1..Len(b) /\ k - n \in 1..Len(b) /\ s[j] = b[j - n] /\ s[k] = b[k - n]
    <3>1. j - n = k - n
      BY <1>6, <2>2 DEF Told
    <3> QED
      BY <1>1, <3>1
  <2>3. CASE j \in 1..n /\ s[j] = a[j] /\ k - n \in 1..Len(b) /\ s[k] = b[k - n]
    <3>1. Step(s[j]) \in X /\ Step(s[k]) \in Y
      BY <1>4, <1>6, <2>3
    <3> QED
      BY <1>6, <3>1
  <2>4. CASE k \in 1..n /\ s[k] = a[k] /\ j - n \in 1..Len(b) /\ s[j] = b[j - n]
    <3>1. Step(s[k]) \in X /\ Step(s[j]) \in Y
      BY <1>4, <1>6, <2>4
    <3> QED
      BY <1>6, <3>1
  <2> QED
    BY <1>3, <2>1, <2>2, <2>3, <2>4
<1>7. \A k \in 1..Len(s) : Plain(s[k]) => Step(s[k]) \in X \cup Y
  BY <1>3, <1>4
<1>8. Told(s, X \cup Y)
  BY <1>5, <1>6, <1>7 DEF Told
<1> QED
  BY <1>8 DEF s

LEMMA ToldOne ==
  ASSUME NEW item, Plain(item), NEW s, Len(s) = 1, s[1] = item
  PROVE  Told(s, {Step(item)})
<1>1. 1..Len(s) = {1}
  OBVIOUS
<1> QED
  BY <1>1 DEF Told

\* Nothing but collections has no lines.
LEMMA ToldNothing ==
  ASSUME NEW plan, \A k \in 1..Len(plan) : ~Plain(plan[k])
  PROVE  Told(plan, {})
  BY DEF Told

LEMMA StepsJoined ==
  ASSUME NEW X, NEW Y
  PROVE  Steps(X \cup Y) = Steps(X) \cup Steps(Y)
  BY DEF Steps

\* The requests a plan is cut into hold each of its items, each once.
Places(batches) == UNION {{<<t, b>> : b \in {b \in DOMAIN batches[t] : Plain(batches[t][b])}} : t \in DOMAIN batches}

LEMMA ToldRequests ==
  ASSUME NEW plan \in Seq(Items), NEW batches, Cut(plan, 0, batches), NEW lines, Told(plan, lines)
  PROVE  /\ {Step(batches[p[1]][p[2]]) : p \in Places(batches)} = lines
         /\ \A p, q \in Places(batches) : Step(batches[p[1]][p[2]]) = Step(batches[q[1]][q[2]]) => p = q
<1> DEFINE n == Len(batches)
           N == Len(plan)
<1>1. PICK cut \in [0..n -> 0..N] :
        /\ cut[0] = 0 /\ cut[n] = N
        /\ \A t \in 1..n : /\ cut[t] = cut[t - 1] + Len(batches[t])
                           /\ \A b \in 1..Len(batches[t]) : batches[t][b] = plan[cut[t - 1] + b]
  BY DEF Cut
<1>2. batches \in Seq(Seq(Items)) /\ n \in Nat /\ N \in Nat /\ DOMAIN batches = 1..n
  BY DEF Cut
<1>3. \A t \in 1..n : Len(batches[t]) \in Nat /\ DOMAIN batches[t] = 1..Len(batches[t])
  <2>1. \A t \in 1..n : batches[t] \in Seq(Items)
    BY <1>2
  <2> QED
    BY <2>1
<1> HIDE DEF n, N
<1>4. ASSUME NEW t \in 0..n, NEW u \in 0..n, t <= u PROVE cut[t] <= cut[u]
  <2> DEFINE T == {v \in 0..n : t <= v /\ ~(cut[t] <= cut[v])}
  <2>1. ASSUME T # {} PROVE FALSE
    <3>1. T \subseteq Nat
      BY <1>2
    <3>2. PICK v \in T : \A w \in T : v <= w
      <4> HIDE DEF T
      <4> QED
        BY <2>1, <3>1, Least
    <3>3. v \in 0..n /\ t <= v /\ ~(cut[t] <= cut[v]) /\ cut[v] \in 0..N /\ cut[t] \in 0..N
      BY <3>2
    <3>4. v # t
      BY <1>2, <3>3
    <3>5. v \in 1..n /\ v - 1 \in 0..n /\ t <= v - 1 /\ ~(v <= v - 1)
      BY <1>2, <3>3, <3>4
    <3>6. cut[t] <= cut[v - 1] /\ cut[v - 1] \in 0..N
      BY <3>2, <3>5
    <3>7. cut[v] = cut[v - 1] + Len(batches[v]) /\ Len(batches[v]) \in Nat
      BY <1>1, <1>3, <3>5
    <3> QED
      BY <1>2, <3>3, <3>6, <3>7
  <2> QED
    BY <1>4, <2>1
<1> DEFINE Spot(p) == cut[p[1] - 1] + p[2]
<1>5. ASSUME NEW p \in Places(batches)
      PROVE  /\ p = <<p[1], p[2]>> /\ p[1] \in 1..n /\ p[2] \in 1..Len(batches[p[1]])
             /\ Spot(p) \in 1..N /\ Plain(plan[Spot(p)]) /\ batches[p[1]][p[2]] = plan[Spot(p)]
             /\ cut[p[1] - 1] < Spot(p) /\ Spot(p) <= cut[p[1]]
  <2>1. PICK t \in 1..n : \E b \in 1..Len(batches[t]) : p = <<t, b>> /\ Plain(batches[t][b])
    BY <1>2, <1>3 DEF Places
  <2>2. PICK b \in 1..Len(batches[t]) : p = <<t, b>> /\ Plain(batches[t][b])
    BY <2>1
  <2>3. t - 1 \in 0..n /\ t \in 0..n
    BY <1>2
  <2>4. cut[t - 1] \in 0..N /\ cut[t] \in 0..N /\ cut[t] = cut[t - 1] + Len(batches[t]) /\ Len(batches[t]) \in Nat
    BY <1>1, <1>3, <2>3
  <2>5. cut[t - 1] + b \in 1..N /\ cut[t - 1] < cut[t - 1] + b /\ cut[t - 1] + b <= cut[t]
    BY <1>2, <2>4
  <2>6. batches[t][b] = plan[cut[t - 1] + b]
    BY <1>1
  <2>7. p[1] = t /\ p[2] = b
    BY <2>2
  <2> QED
    BY <2>2, <2>5, <2>6, <2>7
<1>6. ASSUME NEW k \in 1..N, Plain(plan[k])
      PROVE  \E p \in Places(batches) : Step(batches[p[1]][p[2]]) = Step(plan[k])
  <2> DEFINE T == {t \in 0..n : k <= cut[t]}
  <2>1. T # {} /\ T \subseteq Nat
    <3>1. n \in T
      BY <1>1, <1>2
    <3> QED
      BY <1>2, <3>1
  <2>2. PICK t \in T : \A u \in T : t <= u
    <3> HIDE DEF T
    <3> QED
      BY <2>1, Least
  <2>3. t \in 0..n /\ k <= cut[t] /\ t # 0
    BY <1>1, <1>2, <2>2
  <2>4. t \in 1..n /\ t - 1 \in 0..n /\ ~(t <= t - 1)
    BY <1>2, <2>3
  <2>5. ~(k <= cut[t - 1])
    BY <2>2, <2>4
  <2>6. cut[t - 1] \in 0..N /\ cut[t] = cut[t - 1] + Len(batches[t]) /\ Len(batches[t]) \in Nat
    BY <1>1, <1>3, <2>4
  <2> DEFINE b == k - cut[t - 1]
  <2>7. b \in 1..Len(batches[t]) /\ cut[t - 1] + b = k
    BY <1>2, <2>3, <2>5, <2>6
  <2> HIDE DEF b
  <2>8. batches[t][b] = plan[k]
    BY <1>1, <2>4, <2>7
  <2>9. <<t, b>> \in Places(batches)
    BY <1>2, <1>3, <1>6, <2>4, <2>7, <2>8 DEF Places
  <2> QED
    BY <2>8, <2>9
<1>7. ASSUME NEW p \in Places(batches), NEW q \in Places(batches),
             Step(batches[p[1]][p[2]]) = Step(batches[q[1]][q[2]])
      PROVE  p = q
  <2> DEFINE t == p[1]
             u == q[1]
  <2>1. /\ t \in 1..n /\ cut[t - 1] < Spot(p) /\ Spot(p) <= cut[t] /\ Spot(p) \in 1..N /\ p[2] \in 1..Len(batches[t])
        /\ u \in 1..n /\ cut[u - 1] < Spot(q) /\ Spot(q) <= cut[u] /\ Spot(q) \in 1..N /\ q[2] \in 1..Len(batches[u])
    BY <1>5
  <2>2. Spot(p) = Spot(q)
    BY <1>5, <1>7 DEF Told, N
  <2>3. Spot(p) = cut[t - 1] + p[2] /\ Spot(q) = cut[u - 1] + q[2]
    OBVIOUS
  <2> HIDE DEF t, u, Spot
  <2>4. /\ t \in 0..n /\ u \in 0..n /\ t - 1 \in 0..n /\ u - 1 \in 0..n
        /\ cut[t] \in 0..N /\ cut[u] \in 0..N /\ cut[t - 1] \in 0..N /\ cut[u - 1] \in 0..N
    <3>1. t \in 0..n /\ u \in 0..n /\ t - 1 \in 0..n /\ u - 1 \in 0..n
      BY <1>2, <2>1
    <3> QED
      BY <3>1
  <2>5. ~(t < u)
    <3>1. SUFFICES ASSUME t < u PROVE FALSE
      OBVIOUS
    <3>2. t <= u - 1
      BY <1>2, <2>4, <3>1
    <3>3. cut[t] <= cut[u - 1]
      BY <1>4, <2>4, <3>2
    <3> QED
      BY <1>2, <2>1, <2>2, <2>4, <3>3
  <2>6. ~(u < t)
    <3>1. SUFFICES ASSUME u < t PROVE FALSE
      OBVIOUS
    <3>2. u <= t - 1
      BY <1>2, <2>4, <3>1
    <3>3. cut[u] <= cut[t - 1]
      BY <1>4, <2>4, <3>2
    <3> QED
      BY <1>2, <2>1, <2>2, <2>4, <3>3
  <2>7. t = u
    BY <1>2, <2>4, <2>5, <2>6
  <2>8. p[2] = q[2]
    <3>1. Len(batches[t]) \in Nat
      BY <1>3, <2>1
    <3>2. cut[t - 1] + p[2] = cut[t - 1] + q[2] /\ p[2] \in 1..Len(batches[t]) /\ q[2] \in 1..Len(batches[t])
      BY <2>1, <2>2, <2>3, <2>7
    <3> DEFINE x == cut[t - 1]
               size == Len(batches[t])
               y == p[2]
               z == q[2]
    <3>3. x \in 0..N /\ size \in Nat /\ x + y = x + z /\ y \in 1..size /\ z \in 1..size
      BY <2>4, <3>1, <3>2
    <3> HIDE DEF x, size, y, z
    <3>4. y = z
      BY <1>2, <3>3
    <3> QED
      BY <3>4 DEF y, z
  <2> QED
    BY <1>5, <2>7, <2>8 DEF t, u
<1>8. ASSUME NEW p \in Places(batches) PROVE Step(batches[p[1]][p[2]]) \in lines
  BY <1>5 DEF Told, N
<1>9. ASSUME NEW line \in lines PROVE \E p \in Places(batches) : Step(batches[p[1]][p[2]]) = line
  <2>1. PICK k \in 1..N : Plain(plan[k]) /\ Step(plan[k]) = line
    BY DEF Told, N
  <2> QED
    BY <1>6, <2>1
<1> QED
  BY <1>7, <1>8, <1>9

\* What the lines of items tell, and that they do not tell what an item waits for.
LEMMA CreateLine ==
  ASSUME NEW i, NEW p, NEW dep
  PROVE  /\ Step(CreateRoot(i, p, dep)) = Step(CreateRoot(i, p, 0))
         /\ Step(CreateRoot(i, p, dep)).op = "rootFolder.create"
         /\ Step(CreateRoot(i, p, dep)).instance = i /\ Step(CreateRoot(i, p, dep)).at = p
  BY DEF Step, CreateRoot, Item, NoArgs

LEMMA DropLine ==
  ASSUME NEW i, NEW p, NEW dep
  PROVE  /\ Step(DropRoot(i, p, dep)) = Step(DropRoot(i, p, 0))
         /\ Step(DropRoot(i, p, dep)).op = "rootFolder.delete"
         /\ Step(DropRoot(i, p, dep)).instance = i /\ Step(DropRoot(i, p, dep)).at = p
  BY DEF Step, DropRoot, Item, NoArgs

LEMMA AimLine ==
  ASSUME NEW l, NEW p, NEW dep
  PROVE  /\ Step(AimList(l, p, dep)) = Step(AimList(l, p, 0)) /\ Step(AimList(l, p, dep)).op = "importList.update"
         /\ Step(AimList(l, p, dep)).lists = {l} \cap Lists
  BY DEF Step, AimList, Item, NoArgs

LEMMA DiskLines ==
  ASSUME NEW p, NEW q
  PROVE  Step(Mkdir(p)).op = "fs.mkdir" /\ Step(RenameItem(p, q)).op = "fs.rename"
  BY DEF Step, Mkdir, RenameItem, Item

-------------------------------------------------------------------------------
(* The plan of a remap.                                                      *)

\* What is shown of a remap of these media.
RemapLines(chosen, ids, mkdir, removeOld, relist) ==
  Steps({Mkdir(To) : x \in {y \in {To} : mkdir}}
    \cup {CreateRoot(i, To, 0) : i \in {i \in chosen : To \notin world.roots[i]}}
    \cup {MoveMedia(i, ids[i], To, TRUE, 0) : i \in {i \in chosen : ids[i] # {}}}
    \cup {AimList(l, RewritePathPrefix(world.list[l].at, From, To), 0) : l \in ToSet(ListTargets(chosen, relist))}
    \cup {DropRoot(i, From, 0) : i \in {i \in chosen : removeOld}})

LEMMA RemapPlanned ==
  ASSUME world \in World, NEW chosen \in SUBSET Instances, NEW ids \in [chosen -> SUBSET Ids],
         \A i \in chosen : \A m \in ids[i] : m \in Media /\ world.path[m] # <<>> /\ Owner[m] = i,
         NEW mkdir \in BOOLEAN, NEW removeOld \in BOOLEAN, NEW relist \in BOOLEAN, NEW recollect \in BOOLEAN
  PROVE  \E plan \in Seq(Fresh) :
           /\ Cut(plan, 0, RemapPlan(chosen, ids, mkdir, removeOld, relist, recollect))
           /\ MoveItems(plan) /\ Carried(plan) /\ Owned(plan) /\ Settles(plan)
           /\ Told(plan, RemapLines(chosen, ids, mkdir, removeOld, relist))
<1> DEFINE heads == IF mkdir THEN <<Mkdir(To)>> ELSE <<>>
           creators == SetToSeq({i \in chosen : To \notin world.roots[i]})
           movers == SetToSeq({i \in chosen : ids[i] # {}})
           created(i) == IF i \in ToSet(creators) THEN Len(heads) + PlaceOf(creators, i) ELSE 0
           moved(i) == IF i \in ToSet(movers) THEN Len(heads) + Len(creators) + PlaceOf(movers, i) ELSE 0
           gate(i) == IF moved(i) # 0 THEN moved(i) ELSE IF created(i) # 0 THEN created(i) ELSE Len(heads)
           lists == ListTargets(chosen, relist)
           colls == CollectionTargets(chosen, recollect)
           leavers == SetToSeq({i \in chosen : removeOld})
           creates == [k \in DOMAIN creators |-> CreateRoot(creators[k], To, Len(heads))]
           moves == [k \in DOMAIN movers |-> MoveMedia(movers[k], ids[movers[k]], To, TRUE, created(movers[k]))]
           aims == [k \in DOMAIN lists |->
                      AimList(lists[k], RewritePathPrefix(world.list[lists[k]].at, From, To), gate(Owner[lists[k]]))]
           recollects == [k \in DOMAIN colls |->
                            AimCollections(Owner[colls[k]], {colls[k]}, RewritePathPrefix(world.coll[colls[k]].at, From, To),
                                           gate(Owner[colls[k]]))]
           drops == [k \in DOMAIN leavers |-> DropRoot(leavers[k], From, gate(leavers[k]))]
<1>1. /\ Media \cup Lists \cup Collections \cup Instances \subseteq Ids
      /\ \A x \in Media \cup Lists \cup Collections : Owner[x] \in Instances
      /\ From \in Path /\ To \in Path /\ From # To
  BY ChainBounds, Destination
<1>2. /\ creators \in Seq(chosen) /\ movers \in Seq(chosen) /\ leavers \in Seq(chosen)
      /\ ToSet(creators) = {i \in chosen : To \notin world.roots[i]} /\ Once(creators)
      /\ ToSet(movers) = {i \in chosen : ids[i] # {}} /\ Once(movers)
      /\ ToSet(leavers) = {i \in chosen : removeOld} /\ Once(leavers)
  <2>1. IsFiniteSet(chosen)
    BY ChainBounds, FS_Subset
  <2>2. IsFiniteSet({i \in chosen : To \notin world.roots[i]}) /\ IsFiniteSet({i \in chosen : ids[i] # {}})
        /\ IsFiniteSet({i \in chosen : removeOld})
    BY <2>1, FS_Subset
  <2>3. creators \in Seq(chosen) /\ ToSet(creators) = {i \in chosen : To \notin world.roots[i]} /\ Once(creators)
    BY <2>2, ListedSet
  <2>4. movers \in Seq(chosen) /\ ToSet(movers) = {i \in chosen : ids[i] # {}} /\ Once(movers)
    BY <2>2, ListedSet
  <2>5. leavers \in Seq(chosen) /\ ToSet(leavers) = {i \in chosen : removeOld} /\ Once(leavers)
    BY <2>2, ListedSet
  <2> QED
    BY <2>3, <2>4, <2>5
<1>3. lists \in Seq(Lists) /\ Once(lists) /\ colls \in Seq(Collections)
  <2> DEFINE L == StrandedLists(chosen)
             C == StrandedCollections(chosen)
  <2>1. L \subseteq Lists /\ C \subseteq Collections
    BY DEF StrandedLists, StrandedCollections
  <2>2. IsFiniteSet(L) /\ IsFiniteSet(C)
    BY <2>1, ChainBounds, FS_Subset
  <2> HIDE DEF L, C
  <2>3. SetToSeq(L) \in Seq(Lists) /\ Once(SetToSeq(L)) /\ SetToSeq(C) \in Seq(Collections)
    BY <2>1, <2>2, ListedSet
  <2>4. Once(<<>>)
    BY DEF Once
  <2> QED
    BY <2>3, <2>4 DEF ListTargets, CollectionTargets, L, C
<1>4. heads \in Seq(Fresh) /\ Len(heads) \in Nat /\ \A item \in ToSet(heads) : Quiet(item)
  <2>1. Mkdir(To) \in Fresh /\ Quiet(Mkdir(To))
    BY <1>1, MkdirMade DEF Quiet
  <2>2. heads \in Seq(Fresh)
    BY <2>1
  <2>3. \A k \in 1..Len(heads) : heads[k] = Mkdir(To)
    OBVIOUS
  <2> HIDE DEF heads
  <2> QED
    BY <2>1, <2>2, <2>3, Members
<1> HIDE DEF heads, creators, movers, lists, colls, leavers
<1>5. ASSUME NEW i PROVE created(i) \in Nat /\ gate(i) \in Nat
             /\ (i \in ToSet(movers) => gate(i) = Len(heads) + Len(creators) + PlaceOf(movers, i)
                                        /\ PlaceOf(movers, i) \in 1..Len(movers) /\ movers[PlaceOf(movers, i)] = i)
  <2>1. Len(creators) \in Nat /\ Len(movers) \in Nat
    BY <1>2
  <2>2. i \in ToSet(creators) => PlaceOf(creators, i) \in 1..Len(creators)
    BY <1>2, PlacedOf
  <2>3. i \in ToSet(movers) => PlaceOf(movers, i) \in 1..Len(movers) /\ movers[PlaceOf(movers, i)] = i
    BY <1>2, PlacedOf
  <2>4. created(i) \in Nat
    BY <1>4, <2>1, <2>2
  <2> HIDE DEF created
  <2>5. moved(i) \in Nat /\ (i \in ToSet(movers) => moved(i) # 0)
    BY <1>4, <2>1, <2>3
  <2> QED
    BY <1>4, <2>3, <2>4, <2>5
<1> HIDE DEF created, gate
<1>6. creates \in Seq(Fresh) /\ Len(creates) = Len(creators) /\ (\A item \in ToSet(creates) : Quiet(item))
      /\ \A k \in 1..Len(creators) : Creating(creates[k], creators[k], To)
  <2>1. ASSUME NEW k \in 1..Len(creators)
        PROVE  /\ CreateRoot(creators[k], To, Len(heads)) \in Fresh /\ Quiet(CreateRoot(creators[k], To, Len(heads)))
               /\ Creating(CreateRoot(creators[k], To, Len(heads)), creators[k], To)
    <3>1. creators[k] \in Ids
      BY <1>1, <1>2
    <3> DEFINE i == creators[k]
               dep == Len(heads)
    <3>2. i \in Ids /\ dep \in Nat
      BY <1>4, <3>1
    <3> HIDE DEF i, dep
    <3>3. /\ CreateRoot(i, To, dep) \in Fresh /\ Quiet(CreateRoot(i, To, dep))
          /\ Creating(CreateRoot(i, To, dep), i, To)
      BY <1>1, <3>2, CreateMade DEF Quiet, Creating
    <3> QED
      BY <3>3 DEF i, dep
  <2>2. DOMAIN creators = 1..Len(creators)
    BY <1>2
  <2>3. creates \in Seq(Fresh) /\ Len(creates) = Len(creators)
    BY <1>2, <2>1, <2>2, MadeOf
  <2>4. \A k \in 1..Len(creates) : Quiet(creates[k]) /\ Creating(creates[k], creators[k], To)
    BY <2>1, <2>2, <2>3
  <2> HIDE DEF creates
  <2> QED
    BY <2>3, <2>4, Members
<1>7. /\ moves \in Seq(Fresh) /\ Len(moves) = Len(movers)
      /\ \A k \in 1..Len(movers) : /\ Moving(moves[k]) /\ Tracked(moves[k]) /\ moves[k].instance = movers[k]
                                   /\ moves[k].args.ids = ids[movers[k]] /\ moves[k].args.to = To /\ moves[k].args.flag = TRUE
  <2>1. ASSUME NEW k \in 1..Len(movers), NEW move, move = MoveMedia(movers[k], ids[movers[k]], To, TRUE, created(movers[k]))
        PROVE  /\ move \in Fresh /\ Moving(move) /\ Tracked(move) /\ move.instance = movers[k]
               /\ move.args.ids = ids[movers[k]] /\ move.args.to = To /\ move.args.flag = TRUE
    <3>1. movers[k] \in chosen
      BY <1>2
    <3>2. movers[k] \in Ids /\ ids[movers[k]] \in SUBSET Ids /\ created(movers[k]) \in Nat
      BY <1>1, <1>5, <3>1
    <3>3. \A m \in ids[movers[k]] : m \in Media /\ world.path[m] # <<>>
      BY <3>1
    <3> DEFINE i == movers[k]
               mine == ids[i]
               dep == created(i)
    <3> HIDE DEF mine, dep, i
    <3>4. i \in Ids /\ mine \in SUBSET Ids /\ dep \in Nat /\ move = MoveMedia(i, mine, To, TRUE, dep)
      BY <2>1, <3>2 DEF mine, dep, i
    <3>5. move \in Fresh
      BY <1>1, <3>4, MoveMade
    <3>6. move.op = "media.moveRootFolder" /\ move.instance = i /\ move.args.ids = mine /\ move.args.to = To /\ move.args.flag = TRUE
      BY <3>4 DEF MoveMedia, Item, NoArgs
    <3>7. Moving(move) /\ Tracked(move)
      BY <3>3, <3>6 DEF Moving, Tracked, mine, i
    <3> QED
      BY <3>5, <3>6, <3>7 DEF mine, i
  <2>2. DOMAIN movers = 1..Len(movers)
    BY <1>2
  <2>3. \A k \in 1..Len(movers) : moves[k] = MoveMedia(movers[k], ids[movers[k]], To, TRUE, created(movers[k]))
    BY <2>2
  <2>4. DOMAIN moves = DOMAIN movers /\ moves = [k \in DOMAIN movers |-> moves[k]]
    OBVIOUS
  <2> HIDE DEF moves
  <2>5. \A k \in 1..Len(movers) : /\ moves[k] \in Fresh /\ Moving(moves[k]) /\ Tracked(moves[k]) /\ moves[k].instance = movers[k]
                                  /\ moves[k].args.ids = ids[movers[k]] /\ moves[k].args.to = To /\ moves[k].args.flag = TRUE
    BY <2>1, <2>3
  <2>6. moves \in Seq(Fresh) /\ Len(moves) = Len(movers)
    BY <1>2, <2>4, <2>5, MadeOf
  <2> QED
    BY <2>5, <2>6
<1>8. aims \in Seq(Fresh) /\ Len(aims) = Len(lists) /\ \A item \in ToSet(aims) : Quiet(item)
  <2>1. ASSUME NEW k \in 1..Len(lists), NEW aim,
               aim = AimList(lists[k], RewritePathPrefix(world.list[lists[k]].at, From, To), gate(Owner[lists[k]]))
        PROVE  aim \in Fresh /\ Quiet(aim)
    <3>1. lists[k] \in Lists /\ world.list[lists[k]].at \in Path
      BY <1>3 DEF World
    <3>2. RewritePathPrefix(world.list[lists[k]].at, From, To) \in Path /\ gate(Owner[lists[k]]) \in Nat
      BY <1>1, <1>5, <3>1, RewrittenTyped
    <3> DEFINE l == lists[k]
               p == RewritePathPrefix(world.list[l].at, From, To)
               dep == gate(Owner[l])
    <3> HIDE DEF l, p, dep
    <3>3. l \in Lists /\ p \in Path /\ dep \in Nat /\ aim = AimList(l, p, dep)
      BY <2>1, <3>1, <3>2 DEF l, p, dep
    <3> QED
      BY <3>3, AimMade DEF Quiet
  <2>2. DOMAIN lists = 1..Len(lists)
    BY <1>3
  <2>3. \A k \in 1..Len(lists) :
          aims[k] = AimList(lists[k], RewritePathPrefix(world.list[lists[k]].at, From, To), gate(Owner[lists[k]]))
    BY <2>2
  <2>4. DOMAIN aims = DOMAIN lists /\ aims = [k \in DOMAIN lists |-> aims[k]]
    OBVIOUS
  <2> HIDE DEF aims
  <2>5. \A k \in 1..Len(lists) : aims[k] \in Fresh /\ Quiet(aims[k])
    BY <2>1, <2>3
  <2>6. aims \in Seq(Fresh) /\ Len(aims) = Len(lists)
    BY <1>3, <2>4, <2>5, MadeOf
  <2> QED
    BY <2>5, <2>6, Members
<1>9. /\ recollects \in Seq(Fresh) /\ \A item \in ToSet(recollects) : Quiet(item)
      /\ \A k \in 1..Len(recollects) : ~Plain(recollects[k])
  <2>1. ASSUME NEW k \in 1..Len(colls), NEW item,
               item = AimCollections(Owner[colls[k]], {colls[k]}, RewritePathPrefix(world.coll[colls[k]].at, From, To), gate(Owner[colls[k]]))
        PROVE  item \in Fresh /\ Quiet(item) /\ ~Plain(item)
    <3>1. colls[k] \in Collections /\ world.coll[colls[k]].at \in Path
      BY <1>3 DEF World
    <3>2. /\ RewritePathPrefix(world.coll[colls[k]].at, From, To) \in Path /\ gate(Owner[colls[k]]) \in Nat
          /\ Owner[colls[k]] \in Ids /\ {colls[k]} \in SUBSET Ids
      BY <1>1, <1>5, <3>1, RewrittenTyped
    <3> DEFINE i == Owner[colls[k]]
               one == {colls[k]}
               p == RewritePathPrefix(world.coll[colls[k]].at, From, To)
               dep == gate(i)
    <3>3. i \in Ids /\ one \in SUBSET Ids /\ p \in Path /\ dep \in Nat /\ item = AimCollections(i, one, p, dep)
      BY <2>1, <3>1, <3>2
    <3> HIDE DEF i, one, p, dep
    <3> QED
      BY <3>3, RecollectMade DEF Quiet, Plain
  <2>2. DOMAIN colls = 1..Len(colls)
    BY <1>3
  <2>3. \A k \in 1..Len(colls) :
          recollects[k] = AimCollections(Owner[colls[k]], {colls[k]}, RewritePathPrefix(world.coll[colls[k]].at, From, To), gate(Owner[colls[k]]))
    BY <2>2
  <2>4. DOMAIN recollects = DOMAIN colls /\ recollects = [k \in DOMAIN colls |-> recollects[k]]
    OBVIOUS
  <2> HIDE DEF recollects
  <2>5. \A k \in 1..Len(colls) : recollects[k] \in Fresh /\ Quiet(recollects[k]) /\ ~Plain(recollects[k])
    BY <2>1, <2>3
  <2>6. recollects \in Seq(Fresh) /\ Len(recollects) = Len(colls)
    BY <1>3, <2>4, <2>5, MadeOf
  <2> QED
    BY <2>5, <2>6, Members
<1>10. /\ drops \in Seq(Fresh) /\ Len(drops) = Len(leavers)
       /\ \A k \in 1..Len(leavers) : /\ Dropping(drops[k]) /\ drops[k].instance = leavers[k]
                                     /\ drops[k].args.at = From /\ drops[k].dep = gate(leavers[k])
  <2>1. ASSUME NEW k \in 1..Len(leavers), NEW drop, drop = DropRoot(leavers[k], From, gate(leavers[k]))
        PROVE  /\ drop \in Fresh /\ Dropping(drop) /\ drop.instance = leavers[k]
               /\ drop.args.at = From /\ drop.dep = gate(leavers[k])
    <3>1. leavers[k] \in Ids /\ gate(leavers[k]) \in Nat
      BY <1>1, <1>2, <1>5
    <3> DEFINE i == leavers[k]
               dep == gate(i)
    <3>2. i \in Ids /\ dep \in Nat /\ drop = DropRoot(i, From, dep)
      BY <2>1, <3>1
    <3> HIDE DEF i, dep
    <3>3. /\ drop \in Fresh /\ drop.op = "rootFolder.delete" /\ drop.instance = i
          /\ drop.args.at = From /\ drop.dep = dep
      BY <1>1, <3>2, DropMade
    <3> QED
      BY <3>3 DEF Dropping, i, dep
  <2>2. DOMAIN leavers = 1..Len(leavers)
    BY <1>2
  <2>3. \A k \in 1..Len(leavers) : drops[k] = DropRoot(leavers[k], From, gate(leavers[k]))
    BY <2>2
  <2>4. DOMAIN drops = DOMAIN leavers /\ drops = [k \in DOMAIN leavers |-> drops[k]]
    OBVIOUS
  <2> HIDE DEF drops
  <2>5. \A k \in 1..Len(leavers) : /\ drops[k] \in Fresh /\ Dropping(drops[k]) /\ drops[k].instance = leavers[k]
                                   /\ drops[k].args.at = From /\ drops[k].dep = gate(leavers[k])
    BY <2>1, <2>3
  <2>6. drops \in Seq(Fresh) /\ Len(drops) = Len(leavers)
    BY <1>2, <2>4, <2>5, MadeOf
  <2> QED
    BY <2>5, <2>6
<1> DEFINE plan1 == heads \o creates
           plan2 == plan1 \o moves
           plan3 == plan2 \o aims
           plan4 == plan3 \o recollects
           plan == plan4 \o drops
           batches1 == Batch(heads) \o Batch(creates)
           batches2 == batches1 \o Batch(moves)
           batches3 == batches2 \o Batch(aims)
           batches4 == batches3 \o Batch(recollects)
           batches == batches4 \o Batch(drops)
<1>11. RemapPlan(chosen, ids, mkdir, removeOld, relist, recollect) = batches
  BY DEF RemapPlan, heads, creators, movers, created, gate, lists, colls, leavers
<1> HIDE DEF creates, moves, aims, recollects, drops
<1>12. plan1 \in Seq(Fresh) /\ Cut(plan1, 0, batches1) /\ Len(plan1) = Len(heads) + Len(creators)
       /\ ToSet(plan1) = ToSet(heads) \cup ToSet(creates)
  <2>1. Cut(heads, 0, Batch(heads)) /\ heads \in Seq(Items) /\ creates \in Seq(Items)
    BY <1>4, <1>6, FreshItems, CutFirst
  <2> DEFINE first == Batch(heads)
  <2> HIDE DEF first
  <2>2. Cut(heads, 0, first)
    BY <2>1 DEF first
  <2>3. Cut(heads \o creates, 0, first \o Batch(creates))
    BY <2>1, <2>2, CutNext
  <2> QED
    <3>1. plan1 \in Seq(Fresh) /\ Len(plan1) = Len(heads) + Len(creates) /\ ToSet(plan1) = ToSet(heads) \cup ToSet(creates)
      <4>1. ToSet(plan1) = ToSet(heads) \cup ToSet(creates)
        BY <1>4, <1>6, JoinedSet
      <4>2. plan1 \in Seq(Fresh) /\ Len(plan1) = Len(heads) + Len(creates)
        BY <1>4, <1>6
      <4> QED
        BY <4>1, <4>2
    <3>2. Cut(plan1, 0, batches1)
      BY <2>3 DEF first
    <3> HIDE DEF plan1, batches1
    <3> QED
      BY <1>6, <3>1, <3>2
<1> HIDE DEF plan1, batches1
<1>13. plan2 \in Seq(Fresh) /\ Cut(plan2, 0, batches2)
       /\ ToSet(plan2) = ToSet(plan1) \cup ToSet(moves) /\ Len(plan2) = Len(plan1) + Len(moves)
       /\ \A k \in 1..Len(moves) : plan2[Len(plan1) + k] = moves[k]
  <2>0. plan1 \in Seq(Fresh) /\ moves \in Seq(Fresh)
    BY <1>7, <1>12
  <2>1. plan1 \in Seq(Items) /\ moves \in Seq(Items)
    BY <2>0, FreshItems
  <2>2. Cut(plan2, 0, batches2)
    BY <1>7, <1>12, <2>1, CutNext
  <2>3. ToSet(plan2) = ToSet(plan1) \cup ToSet(moves)
    BY <1>7, <1>12, JoinedSet
  <2>4. plan2 \in Seq(Fresh) /\ Len(plan2) = Len(plan1) + Len(moves)
    BY <2>0
  <2>5. \A k \in 1..Len(moves) : plan2[Len(plan1) + k] = moves[k]
    BY <2>0
  <2> HIDE DEF batches2, plan2
  <2> QED
    BY <2>2, <2>3, <2>4, <2>5
<1> HIDE DEF plan2, batches2
<1>14. plan3 \in Seq(Fresh) /\ Cut(plan3, 0, batches3) /\ Len(plan3) = Len(plan2) + Len(aims)
       /\ ToSet(plan3) = ToSet(plan2) \cup ToSet(aims) /\ \A k \in 1..Len(plan2) : plan3[k] = plan2[k]
  <2>0. plan2 \in Seq(Fresh) /\ aims \in Seq(Fresh)
    BY <1>8, <1>13
  <2>1. plan2 \in Seq(Items) /\ aims \in Seq(Items)
    BY <2>0, FreshItems
  <2>2. Cut(plan3, 0, batches3)
    BY <1>8, <1>13, <2>1, CutNext
  <2>3. ToSet(plan3) = ToSet(plan2) \cup ToSet(aims)
    BY <1>8, <1>13, JoinedSet
  <2>4. plan3 \in Seq(Fresh) /\ Len(plan3) = Len(plan2) + Len(aims)
    BY <2>0
  <2>5. \A k \in 1..Len(plan2) : plan3[k] = plan2[k]
    BY <2>0
  <2> HIDE DEF batches3, plan3
  <2> QED
    BY <2>2, <2>3, <2>4, <2>5
<1> HIDE DEF plan3, batches3
<1>15. plan4 \in Seq(Fresh) /\ Cut(plan4, 0, batches4) /\ Len(plan4) = Len(plan3) + Len(recollects)
       /\ ToSet(plan4) = ToSet(plan3) \cup ToSet(recollects) /\ \A k \in 1..Len(plan3) : plan4[k] = plan3[k]
  <2>0. plan3 \in Seq(Fresh) /\ recollects \in Seq(Fresh)
    BY <1>9, <1>14
  <2>1. plan3 \in Seq(Items) /\ recollects \in Seq(Items)
    BY <2>0, FreshItems
  <2>2. Cut(plan4, 0, batches4)
    BY <1>9, <1>14, <2>1, CutNext
  <2>3. ToSet(plan4) = ToSet(plan3) \cup ToSet(recollects)
    BY <1>9, <1>14, JoinedSet
  <2>4. plan4 \in Seq(Fresh) /\ Len(plan4) = Len(plan3) + Len(recollects)
    BY <2>0
  <2>5. \A k \in 1..Len(plan3) : plan4[k] = plan3[k]
    BY <2>0
  <2> HIDE DEF batches4, plan4
  <2> QED
    BY <2>2, <2>3, <2>4, <2>5
<1> HIDE DEF plan4, batches4
<1>16. plan \in Seq(Fresh) /\ Cut(plan, 0, batches) /\ Len(plan) = Len(plan4) + Len(drops)
       /\ ToSet(plan) = ToSet(plan4) \cup ToSet(drops) /\ \A k \in 1..Len(plan4) : plan[k] = plan4[k]
  <2>0. plan4 \in Seq(Fresh) /\ drops \in Seq(Fresh)
    BY <1>10, <1>15
  <2>1. plan4 \in Seq(Items) /\ drops \in Seq(Items)
    BY <2>0, FreshItems
  <2>2. Cut(plan, 0, batches)
    BY <1>10, <1>15, <2>1, CutNext
  <2>3. ToSet(plan) = ToSet(plan4) \cup ToSet(drops)
    BY <1>10, <1>15, JoinedSet
  <2>4. plan \in Seq(Fresh) /\ Len(plan) = Len(plan4) + Len(drops)
    BY <2>0
  <2>5. \A k \in 1..Len(plan4) : plan[k] = plan4[k]
    BY <2>0
  <2> HIDE DEF batches, plan
  <2> QED
    BY <2>2, <2>3, <2>4, <2>5
<1> HIDE DEF plan, batches
<1>17. ASSUME NEW item \in ToSet(plan)
       PROVE  Quiet(item) \/ item \in ToSet(moves) \/ item \in ToSet(drops)
  BY <1>4, <1>6, <1>8, <1>9, <1>12, <1>13, <1>14, <1>15, <1>16
<1>18. ASSUME NEW k \in 1..Len(moves)
       PROVE  Len(plan1) + k \in 1..Len(plan) /\ plan[Len(plan1) + k] = moves[k]
  <2>1. /\ Len(plan1) \in Nat /\ Len(plan2) \in Nat /\ Len(plan3) \in Nat /\ Len(plan4) \in Nat /\ Len(moves) \in Nat
        /\ Len(aims) \in Nat /\ Len(recollects) \in Nat /\ Len(drops) \in Nat
    BY <1>7, <1>8, <1>9, <1>10, <1>12, <1>13, <1>14, <1>15
  <2>2. /\ Len(plan1) + k \in 1..Len(plan2) /\ Len(plan1) + k \in 1..Len(plan3)
        /\ Len(plan1) + k \in 1..Len(plan4) /\ Len(plan1) + k \in 1..Len(plan)
    BY <1>13, <1>14, <1>15, <1>16, <2>1
  <2> QED
    BY <1>13, <1>14, <1>15, <1>16, <2>2
<1>19. ASSUME NEW item \in ToSet(moves)
       PROVE  \E k \in 1..Len(movers) : item = moves[k]
  BY <1>7, Members
<1>20. ASSUME NEW item \in ToSet(drops)
       PROVE  \E k \in 1..Len(leavers) : item = drops[k]
  BY <1>10, Members
<1>21. ASSUME NEW item \in ToSet(plan)
       PROVE  /\ item.op # "fs.delete" /\ Tracked(item)
              /\ Moving(item) => item \in ToSet(moves)
              /\ Dropping(item) => item \in ToSet(drops)
  <2>1. CASE Quiet(item)
    BY <2>1 DEF Quiet, Tracked, Moving, Dropping
  <2>2. CASE item \in ToSet(moves)
    <3>1. PICK k \in 1..Len(movers) : item = moves[k]
      BY <1>19, <2>2
    <3>2. Moving(item) /\ Tracked(item)
      BY <1>7, <3>1
    <3> QED
      BY <2>2, <3>2 DEF Moving, Dropping
  <2>3. CASE item \in ToSet(drops)
    <3>1. PICK k \in 1..Len(leavers) : item = drops[k]
      BY <1>20, <2>3
    <3>2. Dropping(item)
      BY <1>10, <3>1
    <3> QED
      BY <2>3, <3>2 DEF Moving, Dropping, Tracked
  <2> QED
    BY <1>17, <2>1, <2>2, <2>3
<1>22. ASSUME NEW d \in ToSet(plan), NEW m \in ToSet(plan), Dropping(d), Moving(m)
       PROVE  /\ d.args.at # m.args.to
              /\ m.instance = d.instance => d.dep \in DOMAIN plan /\ Moving(plan[d.dep]) /\ m.args.ids \subseteq plan[d.dep].args.ids
  <2>1. PICK x \in 1..Len(leavers) : d = drops[x]
    BY <1>20, <1>21, <1>22
  <2>2. PICK y \in 1..Len(movers) : m = moves[y]
    BY <1>19, <1>21, <1>22
  <2>3. d.args.at = From /\ d.instance = leavers[x] /\ d.dep = gate(leavers[x])
    BY <1>10, <2>1
  <2>4. m.args.to = To /\ m.instance = movers[y] /\ m.args.ids = ids[movers[y]]
    BY <1>7, <2>2
  <2>5. ASSUME m.instance = d.instance
        PROVE  d.dep \in DOMAIN plan /\ Moving(plan[d.dep]) /\ m.args.ids \subseteq plan[d.dep].args.ids
    <3> DEFINE i == movers[y]
               z == PlaceOf(movers, i)
    <3>1. i = leavers[x] /\ i \in ToSet(movers)
      BY <1>2, <2>3, <2>4, <2>5, Members
    <3>2. gate(i) = Len(plan1) + z /\ z \in 1..Len(movers) /\ movers[z] = i
      BY <1>5, <1>12, <3>1
    <3> HIDE DEF i, z
    <3>3. d.dep = Len(plan1) + z
      BY <2>3, <3>1, <3>2
    <3>4. z \in 1..Len(moves) /\ moves[z].args.ids = ids[i] /\ Moving(moves[z])
      BY <1>7, <3>2
    <3>5. Len(plan1) + z \in 1..Len(plan) /\ plan[Len(plan1) + z] = moves[z]
      BY <1>18, <3>4
    <3>6. m.args.ids = ids[i]
      BY <2>4 DEF i
    <3>7. DOMAIN plan = 1..Len(plan)
      BY <1>16
    <3> QED
      BY <3>3, <3>4, <3>5, <3>6, <3>7
  <2> QED
    BY <1>1, <2>3, <2>4, <2>5
<1>40. Heading(plan)
  <2>1. Under(To, To)
    <3>1. To \in Seq(STRING)
      BY Destination DEF Path
    <3> QED
      BY <3>1, UnderItself
  <2>2. ASSUME NEW m \in ToSet(plan), Moving(m) PROVE m.args.to = To
    <3>1. PICK y \in 1..Len(movers) : m = moves[y]
      BY <1>19, <1>21, <2>2
    <3> QED
      BY <1>7, <3>1
  <2> QED
    BY <2>1, <2>2 DEF Heading
<1>23. MoveItems(plan)
  BY <1>21, <1>22, <1>40 DEF MoveItems, Gated, Away
<1>24. ASSUME NEW a \in 1..Len(plan), Moving(plan[a])
       PROVE  \E k \in 1..Len(movers) : plan[a] = moves[k]
  <2>1. plan[a] \in ToSet(plan)
    BY <1>16, Members
  <2> QED
    BY <1>19, <1>21, <1>24, <2>1
<1>25. Carried(plan)
  <2>1. ASSUME NEW a \in 1..Len(plan)
        PROVE  ~Renaming(plan[a]) /\ (Moving(plan[a]) => plan[a].args.flag /\ plan[a].args.to = To)
    <3>1. plan[a] \in ToSet(plan)
      BY <1>16, Members
    <3>2. ~Renaming(plan[a])
      <4>1. CASE Quiet(plan[a])
        BY <4>1 DEF Quiet, Renaming
      <4>2. CASE plan[a] \in ToSet(moves)
        BY <1>7, <1>19, <4>2 DEF Moving, Renaming
      <4>3. CASE plan[a] \in ToSet(drops)
        BY <1>10, <1>20, <4>3 DEF Dropping, Renaming
      <4> QED
        BY <1>17, <3>1, <4>1, <4>2, <4>3
    <3>3. Moving(plan[a]) => plan[a].args.flag /\ plan[a].args.to = To
      BY <1>7, <1>24
    <3> QED
      BY <3>2, <3>3
  <2> QED
    BY <2>1 DEF Carried
<1>26. Owned(plan) /\ Settles(plan)
  <2>1. ASSUME NEW a \in 1..Len(plan), Moving(plan[a])
        PROVE  /\ plan[a].instance \in Instances /\ \A x \in plan[a].args.ids : Owner[x] = plan[a].instance
               /\ \/ plan[a].args.to \in world.roots[plan[a].instance]
                  \/ \E b \in 1..Len(plan) : Creating(plan[b], plan[a].instance, plan[a].args.to)
    <3>1. PICK k \in 1..Len(movers) : plan[a] = moves[k]
      BY <1>24, <2>1
    <3>2. PICK i \in chosen : i = movers[k]
      BY <1>2
    <3>3. plan[a].instance = i /\ plan[a].args.ids = ids[i] /\ plan[a].args.to = To
      BY <1>7, <3>1, <3>2
    <3>4. ASSUME To \notin world.roots[i] PROVE \E b \in 1..Len(plan) : Creating(plan[b], i, To)
      <4>1. i \in ToSet(creators)
        BY <1>2, <3>4
      <4>2. PICK c \in 1..Len(creators) : creators[c] = i
        BY <1>2, <4>1, Members
      <4>3. Creating(creates[c], i, To) /\ creates[c] \in ToSet(creates)
        BY <1>6, <4>2, Members
      <4>4. creates[c] \in ToSet(plan)
        BY <1>12, <1>13, <1>14, <1>15, <1>16, <4>3
      <4>5. PICK b \in 1..Len(plan) : plan[b] = creates[c]
        BY <1>16, <4>4, Members
      <4> QED
        BY <4>3, <4>5
    <3> QED
      BY <3>3, <3>4
  <2> QED
    BY <2>1 DEF Owned, Settles
<1> DEFINE creating(i) == CreateRoot(i, To, 0)
           moving(i) == MoveMedia(i, ids[i], To, TRUE, 0)
           aiming(l) == AimList(l, RewritePathPrefix(world.list[l].at, From, To), 0)
           dropping(i) == DropRoot(i, From, 0)
           headLines == Steps({Mkdir(To) : x \in {y \in {To} : mkdir}})
           createLines == Steps({creating(i) : i \in ToSet(creators)})
           moveLines == Steps({moving(i) : i \in ToSet(movers)})
           aimLines == Steps({aiming(l) : l \in ToSet(lists)})
           dropLines == Steps({dropping(i) : i \in ToSet(leavers)})
<1>27. /\ \A line \in headLines : line.op = "fs.mkdir"
       /\ \A line \in createLines : line.op = "rootFolder.create"
       /\ \A line \in moveLines : line.op = "media.moveRootFolder"
       /\ \A line \in aimLines : line.op = "importList.update"
       /\ \A line \in dropLines : line.op = "rootFolder.delete"
  <2>1. /\ Step(Mkdir(To)).op = "fs.mkdir"
        /\ \A i : Step(creating(i)).op = "rootFolder.create"
        /\ \A i : Step(moving(i)).op = "media.moveRootFolder"
        /\ \A l : Step(aiming(l)).op = "importList.update"
        /\ \A i : Step(dropping(i)).op = "rootFolder.delete"
    <3>1. ASSUME NEW i PROVE Step(creating(i)).op = "rootFolder.create"
      BY CreateLine
    <3>2. ASSUME NEW i PROVE Step(moving(i)).op = "media.moveRootFolder"
      BY DEF MoveMedia, Item, NoArgs, Step
    <3>3. ASSUME NEW l PROVE Step(aiming(l)).op = "importList.update"
      BY AimLine
    <3>4. ASSUME NEW i PROVE Step(dropping(i)).op = "rootFolder.delete"
      BY DropLine
    <3> HIDE DEF creating, moving, aiming, dropping
    <3> QED
      BY DiskLines, <3>1, <3>2, <3>3, <3>4
  <2> HIDE DEF creating, moving, aiming, dropping
  <2> QED
    BY <2>1 DEF Steps
<1>28. Told(heads, headLines)
  <2>1. Plain(Mkdir(To))
    BY <1>1, MkdirMade DEF Plain
  <2>2. CASE mkdir
    <3>1. Len(heads) = 1 /\ heads[1] = Mkdir(To)
      BY <2>2 DEF heads
    <3>2. headLines = {Step(Mkdir(To))}
      BY <2>2 DEF Steps
    <3> HIDE DEF headLines
    <3>3. 1..Len(heads) = {1}
      BY <3>1
    <3> QED
      BY <2>1, <3>1, <3>2, <3>3 DEF Told
  <2>3. CASE ~mkdir
    <3>1. Len(heads) = 0
      BY <2>3 DEF heads
    <3>2. headLines = {}
      BY <2>3 DEF Steps
    <3> HIDE DEF headLines
    <3>3. 1..Len(heads) = {}
      BY <3>1
    <3> QED
      BY <3>2, <3>3, ToldNothing
  <2> QED
    BY <2>2, <2>3
<1>29. Told(creates, createLines)
  <2>1. \A k \in 1..Len(creators) : creates[k] = CreateRoot(creators[k], To, Len(heads))
    <3>1. DOMAIN creators = 1..Len(creators)
      BY <1>2
    <3> QED
      BY <3>1, Zenon DEF creates
  <2>2. ASSUME NEW x \in chosen
        PROVE  Step(creating(x)).op = "rootFolder.create" /\ Step(creating(x)).instance = x
    BY CreateLine DEF creating
  <2>3. ASSUME NEW k \in 1..Len(creators) PROVE Step(creates[k]) = Step(creating(creators[k])) /\ creators[k] \in ToSet(creators) /\ creators[k] \in chosen
    <3>1. Step(creates[k]) = Step(creating(creators[k]))
      <4>1. creates[k] = CreateRoot(creators[k], To, Len(heads))
        BY <2>1, Zenon
      <4>2. Step(CreateRoot(creators[k], To, Len(heads))) = Step(creating(creators[k]))
        BY CreateLine DEF creating
      <4> QED
        BY <4>1, <4>2, Zenon
    <3> QED
      BY <1>2, <3>1, Members
  <2> HIDE DEF creating
  <2>4. ASSUME NEW k \in 1..Len(creates) PROVE Plain(creates[k]) /\ Step(creates[k]) \in createLines /\ Step(creates[k]).instance = creators[k]
    <3>1. k \in 1..Len(creators) /\ Step(creates[k]).op = "rootFolder.create"
      BY <1>6, <2>2, <2>3
    <3> QED
      BY <2>2, <2>3, <3>1, LineRead DEF Plain, Steps
  <2>5. ASSUME NEW l \in createLines PROVE \E k \in 1..Len(creates) : Plain(creates[k]) /\ Step(creates[k]) = l
    <3>1. PICK x \in ToSet(creators) : l = Step(creating(x))
      BY DEF Steps
    <3>2. PICK k \in 1..Len(creators) : creators[k] = x
      BY <1>2, Members
    <3> QED
      BY <1>6, <2>3, <2>4, <3>1, <3>2
  <2>6. ASSUME NEW j \in 1..Len(creates), NEW k \in 1..Len(creates), Step(creates[j]) = Step(creates[k]) PROVE j = k
    <3>1. creators[j] = creators[k]
      BY <2>4, <2>6
    <3> QED
      BY <1>2, <1>6, <3>1 DEF Once
  <2> HIDE DEF createLines
  <2> QED
    BY <2>4, <2>5, <2>6 DEF Told
<1>30. Told(moves, moveLines)
  <2>1. \A k \in 1..Len(movers) : moves[k] = MoveMedia(movers[k], ids[movers[k]], To, TRUE, created(movers[k]))
    <3>1. DOMAIN movers = 1..Len(movers)
      BY <1>2
    <3> QED
      BY <3>1, Zenon DEF moves
  <2>2. ASSUME NEW x \in chosen
        PROVE  Step(moving(x)).op = "media.moveRootFolder" /\ Step(moving(x)).instance = x
    BY DEF moving, MoveMedia, Item, NoArgs, Step
  <2>3. ASSUME NEW k \in 1..Len(movers) PROVE Step(moves[k]) = Step(moving(movers[k])) /\ movers[k] \in ToSet(movers) /\ movers[k] \in chosen
    <3>1. Step(moves[k]) = Step(moving(movers[k]))
      <4>1. moves[k] = MoveMedia(movers[k], ids[movers[k]], To, TRUE, created(movers[k]))
        BY <2>1, Zenon
      <4>2. Step(MoveMedia(movers[k], ids[movers[k]], To, TRUE, created(movers[k]))) = Step(moving(movers[k]))
        BY DEF moving, MoveMedia, Item, NoArgs, Step
      <4> QED
        BY <4>1, <4>2, Zenon
    <3> QED
      BY <1>2, <3>1, Members
  <2> HIDE DEF moving
  <2>4. ASSUME NEW k \in 1..Len(moves) PROVE Plain(moves[k]) /\ Step(moves[k]) \in moveLines /\ Step(moves[k]).instance = movers[k]
    <3>1. k \in 1..Len(movers) /\ Step(moves[k]).op = "media.moveRootFolder"
      BY <1>7, <2>2, <2>3
    <3> QED
      BY <2>2, <2>3, <3>1, LineRead DEF Plain, Steps
  <2>5. ASSUME NEW l \in moveLines PROVE \E k \in 1..Len(moves) : Plain(moves[k]) /\ Step(moves[k]) = l
    <3>1. PICK x \in ToSet(movers) : l = Step(moving(x))
      BY DEF Steps
    <3>2. PICK k \in 1..Len(movers) : movers[k] = x
      BY <1>2, Members
    <3> QED
      BY <1>7, <2>3, <2>4, <3>1, <3>2
  <2>6. ASSUME NEW j \in 1..Len(moves), NEW k \in 1..Len(moves), Step(moves[j]) = Step(moves[k]) PROVE j = k
    <3>1. movers[j] = movers[k]
      BY <2>4, <2>6
    <3> QED
      BY <1>2, <1>7, <3>1 DEF Once
  <2> HIDE DEF moveLines
  <2> QED
    BY <2>4, <2>5, <2>6 DEF Told
<1>31. Told(aims, aimLines)
  <2>1. \A k \in 1..Len(lists) : aims[k] = AimList(lists[k], RewritePathPrefix(world.list[lists[k]].at, From, To), gate(Owner[lists[k]]))
    <3>1. DOMAIN lists = 1..Len(lists)
      BY <1>3
    <3> QED
      BY <3>1, Zenon DEF aims
  <2>2. ASSUME NEW x \in Lists
        PROVE  Step(aiming(x)).op = "importList.update" /\ Step(aiming(x)).lists = {x}
    BY AimLine DEF aiming
  <2>3. ASSUME NEW k \in 1..Len(lists) PROVE Step(aims[k]) = Step(aiming(lists[k])) /\ lists[k] \in ToSet(lists) /\ lists[k] \in Lists
    <3>1. Step(aims[k]) = Step(aiming(lists[k]))
      <4>1. aims[k] = AimList(lists[k], RewritePathPrefix(world.list[lists[k]].at, From, To), gate(Owner[lists[k]]))
        BY <2>1, Zenon
      <4>2. Step(AimList(lists[k], RewritePathPrefix(world.list[lists[k]].at, From, To), gate(Owner[lists[k]]))) = Step(aiming(lists[k]))
        BY AimLine DEF aiming
      <4> QED
        BY <4>1, <4>2, Zenon
    <3> QED
      BY <1>3, <3>1, Members
  <2> HIDE DEF aiming
  <2>4. ASSUME NEW k \in 1..Len(aims) PROVE Plain(aims[k]) /\ Step(aims[k]) \in aimLines /\ Step(aims[k]).lists = {lists[k]}
    <3>1. k \in 1..Len(lists) /\ Step(aims[k]).op = "importList.update"
      BY <1>8, <2>2, <2>3
    <3> QED
      BY <2>2, <2>3, <3>1, LineRead DEF Plain, Steps
  <2>5. ASSUME NEW l \in aimLines PROVE \E k \in 1..Len(aims) : Plain(aims[k]) /\ Step(aims[k]) = l
    <3>1. PICK x \in ToSet(lists) : l = Step(aiming(x))
      BY DEF Steps
    <3>2. PICK k \in 1..Len(lists) : lists[k] = x
      BY <1>3, Members
    <3> QED
      BY <1>8, <2>3, <2>4, <3>1, <3>2
  <2>6. ASSUME NEW j \in 1..Len(aims), NEW k \in 1..Len(aims), Step(aims[j]) = Step(aims[k]) PROVE j = k
    <3>2. {lists[j]} = {lists[k]}
      BY <2>4, <2>6, Zenon
    <3>1. lists[j] = lists[k]
      BY <3>2
    <3> QED
      BY <1>3, <1>8, <3>1 DEF Once
  <2> HIDE DEF aimLines
  <2> QED
    BY <2>4, <2>5, <2>6 DEF Told
<1>32. Told(drops, dropLines)
  <2>1. \A k \in 1..Len(leavers) : drops[k] = DropRoot(leavers[k], From, gate(leavers[k]))
    <3>1. DOMAIN leavers = 1..Len(leavers)
      BY <1>2
    <3> QED
      BY <3>1, Zenon DEF drops
  <2>2. ASSUME NEW x \in chosen
        PROVE  Step(dropping(x)).op = "rootFolder.delete" /\ Step(dropping(x)).instance = x
    BY DropLine DEF dropping
  <2>3. ASSUME NEW k \in 1..Len(leavers) PROVE Step(drops[k]) = Step(dropping(leavers[k])) /\ leavers[k] \in ToSet(leavers) /\ leavers[k] \in chosen
    <3>1. Step(drops[k]) = Step(dropping(leavers[k]))
      <4>1. drops[k] = DropRoot(leavers[k], From, gate(leavers[k]))
        BY <2>1, Zenon
      <4>2. Step(DropRoot(leavers[k], From, gate(leavers[k]))) = Step(dropping(leavers[k]))
        BY DropLine DEF dropping
      <4> QED
        BY <4>1, <4>2, Zenon
    <3> QED
      BY <1>2, <3>1, Members
  <2> HIDE DEF dropping
  <2>4. ASSUME NEW k \in 1..Len(drops) PROVE Plain(drops[k]) /\ Step(drops[k]) \in dropLines /\ Step(drops[k]).instance = leavers[k]
    <3>1. k \in 1..Len(leavers) /\ Step(drops[k]).op = "rootFolder.delete"
      BY <1>10, <2>2, <2>3
    <3> QED
      BY <2>2, <2>3, <3>1, LineRead DEF Plain, Steps
  <2>5. ASSUME NEW l \in dropLines PROVE \E k \in 1..Len(drops) : Plain(drops[k]) /\ Step(drops[k]) = l
    <3>1. PICK x \in ToSet(leavers) : l = Step(dropping(x))
      BY DEF Steps
    <3>2. PICK k \in 1..Len(leavers) : leavers[k] = x
      BY <1>2, Members
    <3> QED
      BY <1>10, <2>3, <2>4, <3>1, <3>2
  <2>6. ASSUME NEW j \in 1..Len(drops), NEW k \in 1..Len(drops), Step(drops[j]) = Step(drops[k]) PROVE j = k
    <3>1. leavers[j] = leavers[k]
      BY <2>4, <2>6
    <3> QED
      BY <1>2, <1>10, <3>1 DEF Once
  <2> HIDE DEF dropLines
  <2> QED
    BY <2>4, <2>5, <2>6 DEF Told
<1>33. Told(recollects, {})
  <2>1. ASSUME NEW k \in 1..Len(recollects) PROVE ~Plain(recollects[k])
    BY <1>9
  <2> QED
    BY <2>1, ToldNothing
<1>34. RemapLines(chosen, ids, mkdir, removeOld, relist)
         = (((headLines \cup createLines) \cup moveLines) \cup aimLines) \cup dropLines
  <2> DEFINE A == {Mkdir(To) : x \in {y \in {To} : mkdir}}
             B == {creating(i) : i \in ToSet(creators)}
             C == {moving(i) : i \in ToSet(movers)}
             D == {aiming(l) : l \in ToSet(lists)}
             E == {dropping(i) : i \in ToSet(leavers)}
  <2>1. /\ {CreateRoot(i, To, 0) : i \in {i \in chosen : To \notin world.roots[i]}} = B
        /\ {MoveMedia(i, ids[i], To, TRUE, 0) : i \in {i \in chosen : ids[i] # {}}} = C
        /\ {DropRoot(i, From, 0) : i \in {i \in chosen : removeOld}} = E
    BY <1>2, Zenon
  <2>2. {AimList(l, RewritePathPrefix(world.list[l].at, From, To), 0) : l \in ToSet(ListTargets(chosen, relist))} = D
    BY Zenon DEF lists
  <2>3. headLines = Steps(A) /\ createLines = Steps(B) /\ moveLines = Steps(C) /\ aimLines = Steps(D) /\ dropLines = Steps(E)
    OBVIOUS
  <2>5. A = {Mkdir(To) : x \in {y \in {To} : mkdir}}
    OBVIOUS
  <2> HIDE DEF A, B, C, D, E, headLines, createLines, moveLines, aimLines, dropLines
  <2>4. RemapLines(chosen, ids, mkdir, removeOld, relist) = Steps((((A \cup B) \cup C) \cup D) \cup E)
    BY <2>1, <2>2, <2>5, Zenon DEF RemapLines
  <2>6. Steps((((A \cup B) \cup C) \cup D) \cup E) = (((Steps(A) \cup Steps(B)) \cup Steps(C)) \cup Steps(D)) \cup Steps(E)
    <3>1. Steps(A \cup B) = Steps(A) \cup Steps(B)
      BY StepsJoined
    <3>2. Steps((A \cup B) \cup C) = Steps(A \cup B) \cup Steps(C)
      BY StepsJoined
    <3>3. Steps(((A \cup B) \cup C) \cup D) = Steps((A \cup B) \cup C) \cup Steps(D)
      BY StepsJoined
    <3>4. Steps((((A \cup B) \cup C) \cup D) \cup E) = Steps(((A \cup B) \cup C) \cup D) \cup Steps(E)
      BY StepsJoined
    <3> QED
      BY <3>1, <3>2, <3>3, <3>4, Zenon
  <2> QED
    BY <2>3, <2>4, <2>6, Zenon
<1> HIDE DEF headLines, createLines, moveLines, aimLines, dropLines
<1>35. Told(plan1, headLines \cup createLines)
  BY <1>4, <1>6, <1>27, <1>28, <1>29, ToldJoined DEF plan1
<1>36. Told(plan2, (headLines \cup createLines) \cup moveLines)
  BY <1>7, <1>12, <1>27, <1>30, <1>35, ToldJoined DEF plan2
<1>37. Told(plan3, ((headLines \cup createLines) \cup moveLines) \cup aimLines)
  BY <1>8, <1>13, <1>27, <1>31, <1>36, ToldJoined DEF plan3
<1>38. Told(plan4, ((headLines \cup createLines) \cup moveLines) \cup aimLines)
  <2>1. Told(plan4, (((headLines \cup createLines) \cup moveLines) \cup aimLines) \cup {})
    BY <1>9, <1>14, <1>33, <1>37, ToldJoined DEF plan4
  <2> QED
    BY <2>1
<1>39. Told(plan, (((headLines \cup createLines) \cup moveLines) \cup aimLines) \cup dropLines)
  BY <1>10, <1>15, <1>27, <1>32, <1>38, ToldJoined DEF plan
<1> QED
  BY <1>11, <1>16, <1>23, <1>25, <1>26, <1>34, <1>39

-------------------------------------------------------------------------------
(* The plan of a reconcile, one root folder after the other.                 *)

\* What a rename makes of the folders below it: one of each, none of the old ones.
LEMMA Rewritten ==
  ASSUME NEW S, NEW from \in Seq(S), NEW to \in Seq(S), NEW p \in Seq(S), NEW q \in Seq(S), Under(from, p), Under(from, q)
  PROVE  /\ RewritePathPrefix(p, from, to) = RewritePathPrefix(q, from, to) => p = q
         /\ RewritePathPrefix(p, from, to) = q => Under(from, to) \/ Under(to, from)
<1> DEFINE rest(s) == SubSeq(s, Len(from) + 1, Len(s))
           new(s) == RewritePathPrefix(s, from, to)
<1>1. ASSUME NEW s \in Seq(S), Under(from, s)
      PROVE  /\ new(s) \in Seq(S) /\ Len(new(s)) = Len(to) + (Len(s) - Len(from)) /\ Len(from) <= Len(s)
             /\ \A k \in 1..Len(to) : new(s)[k] = to[k]
             /\ \A k \in 1..Len(s) - Len(from) : new(s)[Len(to) + k] = s[Len(from) + k]
  <2>1. Len(from) <= Len(s) /\ Len(from) \in Nat /\ Len(to) \in Nat /\ Len(s) \in Nat
    BY <1>1, UnderRead
  <2>2. /\ rest(s) \in Seq(S) /\ Len(rest(s)) = Len(s) - Len(from)
        /\ \A k \in 1..Len(s) - Len(from) : rest(s)[k] = s[Len(from) + k]
    BY <2>1
  <2>3. new(s) = to \o rest(s)
    BY <1>1 DEF RewritePathPrefix
  <2> DEFINE r == rest(s)
             j == to \o r
  <2>4. /\ r \in Seq(S) /\ Len(r) = Len(s) - Len(from)
        /\ \A k \in 1..Len(s) - Len(from) : r[k] = s[Len(from) + k]
    BY <2>2
  <2> HIDE DEF r, new
  <2>5. /\ j \in Seq(S) /\ Len(j) = Len(to) + Len(r)
        /\ \A k \in 1..Len(to) : j[k] = to[k]
        /\ \A k \in 1..Len(r) : j[Len(to) + k] = r[k]
    <3>1. r \in Seq(S)
      BY <2>4
    <3> QED
      BY <3>1, Joined
  <2>8. new(s) = j
    BY <2>3 DEF r
  <2> HIDE DEF j
  <2> QED
    BY <2>1, <2>4, <2>5, <2>8
<1> HIDE DEF new
<1>2. /\ Len(from) \in Nat /\ Len(to) \in Nat /\ Len(p) \in Nat /\ Len(q) \in Nat
      /\ \A k \in 1..Len(from) : p[k] = from[k] /\ q[k] = from[k]
  BY UnderRead
<1>3. ASSUME new(p) = new(q) PROVE p = q
  <2>1. Len(p) = Len(q) /\ Len(from) <= Len(p)
    BY <1>1, <1>2, <1>3
  <2>2. ASSUME NEW k \in 1..Len(p) PROVE p[k] = q[k]
    <3>1. CASE k <= Len(from)
      BY <1>2, <3>1
    <3>2. CASE k > Len(from)
      <4> DEFINE j == k - Len(from)
      <4>1. j \in 1..Len(p) - Len(from) /\ j \in 1..Len(q) - Len(from) /\ Len(from) + j = k
        BY <1>2, <2>1, <3>2
      <4> HIDE DEF j
      <4>2. new(p)[Len(to) + j] = p[Len(from) + j] /\ new(q)[Len(to) + j] = q[Len(from) + j]
        BY <1>1, <4>1
      <4> QED
        BY <1>3, <4>1, <4>2
    <3> QED
      BY <1>2, <3>1, <3>2
  <2> QED
    BY <2>1, <2>2, SeqEqual
<1>4. ASSUME new(p) = q PROVE Under(from, to) \/ Under(to, from)
  <2>1. Len(to) <= Len(q) /\ Len(from) <= Len(q) /\ \A k \in 1..Len(to) : q[k] = to[k]
    BY <1>1, <1>2, <1>4
  <2>2. CASE Len(from) <= Len(to)
    <3>1. \A k \in 1..Len(from) : to[k] = from[k]
      BY <1>2, <2>1, <2>2
    <3> QED
      BY <2>2, <3>1, UnderRead
  <2>3. CASE Len(to) <= Len(from)
    <3>1. \A k \in 1..Len(to) : from[k] = to[k]
      BY <1>2, <2>1, <2>3
    <3> QED
      BY <2>3, <3>1, UnderRead
  <2> QED
    BY <1>2, <2>2, <2>3
<1> QED
  BY <1>3, <1>4 DEF new

\* Front and Last take a path apart.
LEMMA TakenApart ==
  ASSUME NEW p \in Path, p # <<>>
  PROVE  /\ Front(p) \in Path /\ Last(p) \in STRING /\ Len(p) = Len(Front(p)) + 1
         /\ p = Append(Front(p), Last(p)) /\ Under(Front(p), p)
<1> DEFINE f == Front(p)
           x == Last(p)
           n == Len(p)
<1>1. n \in Nat \ {0} /\ n \in 1..n /\ \A k \in 1..n : p[k] \in STRING
  BY DEF Path
<1>2. f \in Seq(STRING) /\ Len(f) = n - 1 /\ \A k \in 1..n - 1 : f[k] = p[k]
  <2> DEFINE m == n - 1
  <2>1. m \in 0..n /\ p \in Seq(STRING) /\ f = SubSeq(p, 1, m)
    BY <1>1 DEF Front, Path
  <2> HIDE DEF m, f
  <2>2. f \in Seq(STRING) /\ Len(f) = m /\ \A k \in 1..m : f[k] = p[k]
    BY <1>1, <2>1
  <2> QED
    BY <2>2 DEF m
<1>3. x = p[n] /\ x \in STRING
  BY <1>1 DEF Last
<1> HIDE DEF f, x
<1>4. Append(f, x) \in Seq(STRING) /\ Len(Append(f, x)) = n /\ \A k \in 1..n : Append(f, x)[k] = p[k]
  <2>1. Append(f, x) \in Seq(STRING) /\ Len(Append(f, x)) = n
    BY <1>1, <1>2, <1>3, AppendProperties
  <2>2. ASSUME NEW k \in 1..n PROVE Append(f, x)[k] = p[k]
    <3>1. CASE k = n
      <4>1. Append(f, x)[Len(f) + 1] = x
        BY <1>2, <1>3, AppendProperties
      <4> QED
        BY <1>1, <1>2, <1>3, <3>1, <4>1
    <3>2. CASE k # n
      <4>1. k \in 1..Len(f)
        BY <1>1, <1>2, <3>2
      <4>2. Append(f, x)[k] = f[k]
        BY <1>2, <1>3, <4>1, AppendProperties
      <4> QED
        BY <1>2, <4>1, <4>2
    <3> QED
      BY <3>1, <3>2
  <2> QED
    BY <2>1, <2>2
<1>5. p = Append(f, x)
  BY <1>1, <1>4, SeqEqual DEF Path
<1>6. Under(f, p)
  <2>1. Len(f) <= Len(p) /\ \A k \in 1..Len(f) : p[k] = f[k]
    BY <1>1, <1>2
  <2> QED
    BY <1>2, <2>1, UnderRead DEF Path
<1> QED
  BY <1>1, <1>2, <1>3, <1>5, <1>6 DEF f, x, Path

\* What is below a folder and not that folder is in a folder at or below it.
LEMMA BelowFront ==
  ASSUME NEW r \in Path, NEW p \in Path, p # <<>>, Under(r, p), r # p
  PROVE  Under(r, Front(p)) /\ (Len(Front(p)) <= Len(r) => r = Front(p))
<1> DEFINE f == Front(p)
<1>1. f \in Path /\ Len(p) = Len(f) + 1 /\ Under(f, p)
  BY TakenApart
<1> HIDE DEF f
<1>2. /\ Len(f) \in Nat /\ Len(r) \in Nat /\ Len(r) <= Len(p) /\ \A k \in 1..Len(r) : p[k] = r[k]
  BY <1>1, UnderRead DEF Path
<1>3. \A k \in 1..Len(f) : p[k] = f[k]
  BY <1>1, UnderRead DEF Path
<1>4. Len(r) <= Len(f)
  <2>1. ASSUME Len(r) = Len(p) PROVE FALSE
    BY <1>2, <2>1, SeqEqual DEF Path
  <2> QED
    BY <1>1, <1>2, <2>1
<1>5. \A k \in 1..Len(r) : f[k] = r[k]
  BY <1>2, <1>3, <1>4
<1>6. Under(r, f)
  BY <1>1, <1>4, <1>5, UnderRead DEF Path
<1>7. Len(f) <= Len(r) => r = f
  <2>1. ASSUME Len(f) <= Len(r) PROVE Len(r) = Len(f)
    BY <1>2, <1>4, <2>1
  <2> QED
    BY <1>1, <1>5, <2>1, SeqEqual DEF Path
<1> QED
  BY <1>6, <1>7 DEF f

LEMMA UnderAcross ==
  ASSUME NEW a \in Path, NEW b \in Path, NEW c \in Path, Under(a, b), Under(b, c)
  PROVE  Under(a, c)
<1>1. Len(a) <= Len(b) /\ \A k \in 1..Len(a) : b[k] = a[k]
  BY UnderRead DEF Path
<1>2. Len(b) <= Len(c) /\ \A k \in 1..Len(b) : c[k] = b[k]
  BY UnderRead DEF Path
<1>3. Len(a) \in Nat /\ Len(b) \in Nat /\ Len(c) \in Nat
  BY DEF Path
<1>4. Len(a) <= Len(c) /\ \A k \in 1..Len(a) : c[k] = a[k]
  BY <1>1, <1>2, <1>3
<1> QED
  BY <1>4, UnderRead DEF Path

\* A rename leaves what a folder is called in the folder it is in.
LEMMA RenamedInside ==
  ASSUME NEW f \in Path, NEW x \in STRING, NEW from \in Path, NEW to \in Path, Under(from, f)
  PROVE  RewritePathPrefix(Append(f, x), from, to) = Append(RewritePathPrefix(f, from, to), x)
<1> DEFINE p == Append(f, x)
           n == Len(from)
           a == SubSeq(f, n + 1, Len(f))
           b == SubSeq(p, n + 1, Len(p))
<1>1. p \in Seq(STRING) /\ Len(p) = Len(f) + 1 /\ p[Len(f) + 1] = x /\ \A k \in 1..Len(f) : p[k] = f[k]
  <2>1. f \in Seq(STRING)
    BY DEF Path
  <2>2. p \in Seq(STRING) /\ Len(p) = Len(f) + 1 /\ p[Len(f) + 1] = x
    BY <2>1, AppendProperties
  <2>3. \A k \in 1..Len(f) : p[k] = f[k]
    BY <2>1
  <2> QED
    BY <2>2, <2>3
<1>2. n \in Nat /\ Len(f) \in Nat /\ n <= Len(f)
  BY UnderRead DEF Path
<1> HIDE DEF p, n
<1>3. Under(from, p)
  <2>1. Under(f, p)
    BY <1>1, <1>2, UnderRead DEF Path
  <2> QED
    BY <1>1, <2>1, UnderAcross DEF Path
<1>4. a \in Seq(STRING) /\ Len(a) = Len(f) - n /\ \A k \in 1..Len(f) - n : a[k] = f[n + k]
  BY <1>2 DEF Path
<1>5. b \in Seq(STRING) /\ Len(b) = (Len(f) - n) + 1 /\ \A k \in 1..(Len(f) - n) + 1 : b[k] = p[n + k]
  BY <1>1, <1>2
<1>6. RewritePathPrefix(p, from, to) = to \o b /\ RewritePathPrefix(f, from, to) = to \o a
  BY <1>3 DEF RewritePathPrefix, n
<1> HIDE DEF a, b
<1> DEFINE l == to \o b
           s == to \o a
<1>7. to \in Seq(STRING) /\ Len(to) \in Nat
  BY DEF Path
<1>8. /\ l \in Seq(STRING) /\ Len(l) = Len(to) + Len(b)
      /\ \A k \in 1..Len(to) : l[k] = to[k]
      /\ \A k \in 1..Len(b) : l[Len(to) + k] = b[k]
  BY <1>5, <1>7, Joined
<1>9. /\ s \in Seq(STRING) /\ Len(s) = Len(to) + Len(a)
      /\ \A k \in 1..Len(to) : s[k] = to[k]
      /\ \A k \in 1..Len(a) : s[Len(to) + k] = a[k]
  BY <1>4, <1>7, Joined
<1> HIDE DEF l, s
<1>10. /\ Append(s, x) \in Seq(STRING) /\ Len(Append(s, x)) = Len(s) + 1
       /\ Append(s, x)[Len(s) + 1] = x /\ \A k \in 1..Len(s) : Append(s, x)[k] = s[k]
  <2>1. Append(s, x) \in Seq(STRING) /\ Len(Append(s, x)) = Len(s) + 1 /\ Append(s, x)[Len(s) + 1] = x
    BY <1>9, AppendProperties
  <2>3. s \in Seq(STRING) /\ x \in STRING
    BY <1>9
  <2>2. \A k \in 1..Len(s) : Append(s, x)[k] = s[k]
    BY <2>3
  <2> QED
    BY <2>1, <2>2
<1> DEFINE r == Append(s, x)
<1> HIDE DEF r
<1>11. r \in Seq(STRING) /\ Len(r) = Len(to) + (Len(f) - n) + 1 /\ Len(l) = Len(r)
  <2>1. r \in Seq(STRING) /\ Len(r) = Len(s) + 1
    BY <1>10 DEF r
  <2>2. Len(s) = Len(to) + (Len(f) - n) /\ Len(l) = Len(to) + ((Len(f) - n) + 1)
    BY <1>4, <1>5, <1>8, <1>9
  <2> QED
    BY <1>2, <1>7, <2>1, <2>2
<1>12. ASSUME NEW k \in 1..Len(l) PROVE l[k] = r[k]
  <2>1. CASE k <= Len(to)
    <3>1. k \in 1..Len(to) /\ k \in 1..Len(s)
      BY <1>2, <1>4, <1>7, <1>9, <2>1
    <3>2. r[k] = s[k]
      BY <1>10, <3>1 DEF r
    <3> QED
      BY <1>8, <1>9, <3>1, <3>2
  <2>2. CASE k > Len(to) /\ k # Len(l)
    <3> DEFINE j == k - Len(to)
    <3>1. j \in 1..Len(a) /\ j \in 1..Len(b) /\ Len(to) + j = k /\ k \in 1..Len(s) /\ n + j \in 1..Len(f)
      <4>1. Len(a) = Len(f) - n /\ Len(b) = (Len(f) - n) + 1 /\ Len(l) = Len(to) + Len(b) /\ Len(s) = Len(to) + Len(a)
        BY <1>4, <1>5, <1>8, <1>9
      <4> QED
        BY <1>2, <1>7, <2>2, <4>1
    <3> HIDE DEF j
    <3>2. l[k] = p[n + j]
      <4>1. l[k] = b[j]
        BY <1>8, <3>1
      <4>2. j \in 1..(Len(f) - n) + 1
        BY <1>5, <3>1
      <4> QED
        BY <1>5, <4>1, <4>2
    <3>3. r[k] = f[n + j]
      <4>1. r[k] = s[k]
        BY <1>10, <3>1 DEF r
      <4>2. s[k] = a[j]
        BY <1>9, <3>1
      <4>3. a[j] = f[n + j]
        BY <1>4, <3>1
      <4> QED
        BY <4>1, <4>2, <4>3
    <3> QED
      BY <1>1, <3>1, <3>2, <3>3
  <2>3. CASE k = Len(l)
    <3> DEFINE j == (Len(f) - n) + 1
    <3>1. j \in 1..Len(b) /\ Len(to) + j = k /\ n + j = Len(f) + 1 /\ k = Len(s) + 1
      BY <1>2, <1>4, <1>5, <1>7, <1>8, <1>9, <2>3
    <3>2. l[k] = b[j] /\ b[j] = p[n + j]
      BY <1>5, <1>8, <3>1
    <3> QED
      BY <1>1, <1>10, <3>1, <3>2 DEF r
  <2> QED
    BY <1>7, <2>1, <2>2, <2>3
<1>13. l = r
  BY <1>8, <1>11, <1>12, SeqEqual
<1> QED
  BY <1>6, <1>13 DEF l, r, s, p

-------------------------------------------------------------------------------
(* The batch of one root folder, and the plan all of them make.              *)

\* The move and the drop staged for the root folder t.
AlignMove(item, t, counts) ==
  /\ Moving(item) /\ item.instance = t[1] /\ item.args.to = RewritePathPrefix(t[2], From, To)
  /\ item.args.ids = counts[t].ids /\ counts[t].ids # {} /\ ~item.args.flag
AlignDrop(item, t) == Dropping(item) /\ item.instance = t[1] /\ item.args.at = t[2]

Aligned(plan, counts) ==
  /\ plan \in Seq(Fresh) /\ 1 \in 1..Len(plan) /\ plan[1] = RenameItem(From, To)
  /\ \A k \in 2..Len(plan) :
       \/ Quiet(plan[k])
       \/ \E t \in RootsBelow : AlignMove(plan[k], t, counts)
       \/ \E t \in RootsBelow : AlignDrop(plan[k], t) /\
            (counts[t].ids # {} => plan[k].dep \in 1..Len(plan) /\ AlignMove(plan[plan[k].dep], t, counts))

\* A batch for t that is staged behind place n.
Fits(b, t, n, counts) ==
  /\ b \in Seq(Fresh) /\ 1 \in 1..Len(b) /\ Creating(b[1], t[1], RewritePathPrefix(t[2], From, To))
  /\ counts[t].ids # {} => 2 \in 1..Len(b) /\ AlignMove(b[2], t, counts)
  /\ \A k \in 1..Len(b) :
       \/ Quiet(b[k])
       \/ AlignMove(b[k], t, counts) /\ k = 2
       \/ AlignDrop(b[k], t) /\ (counts[t].ids # {} => b[k].dep = n + 2)

\* What is shown of a root folder.
AlignItems(t, counts, removeOld) ==
  LET new == RewritePathPrefix(t[2], From, To)
  IN  ({CreateRoot(t[1], new, 0)}
        \cup {MoveMedia(t[1], counts[t].ids, new, FALSE, 0) : x \in {y \in {t} : counts[t].ids # {}}})
        \cup {DropRoot(t[1], t[2], 0) : x \in {y \in {t} : removeOld}}
AlignLines(t, counts, removeOld) == Steps(AlignItems(t, counts, removeOld))

LEMMA AlignBatchMade ==
  ASSUME world \in World, NEW i \in Instances, NEW r \in Path, NEW counts, counts[<<i, r>>].ids \in SUBSET Ids,
         NEW removeOld \in BOOLEAN, NEW n \in Nat,
         NEW b, b = AlignBatch(i, r, counts[<<i, r>>].ids, removeOld, n)
  PROVE  Fits(b, <<i, r>>, n, counts) /\ Told(b, AlignLines(<<i, r>>, counts, removeOld))
<1> DEFINE t == <<i, r>>
           ids == counts[t].ids
           new == RewritePathPrefix(r, From, To)
           create == CreateRoot(i, new, 1)
           move == MoveMedia(i, ids, new, FALSE, n + 1)
           align == IF ids = {} THEN n + 1 ELSE n + 2
           drop == DropRoot(i, r, align)
           C == {c \in Collections : Owner[c] = i /\ Under(From, world.coll[c].at)
                        /\ (\E p \in RootsBelow : p[1] = i /\ Under(p[2], world.coll[c].at)) /\ Nearest(i, world.coll[c].at) = r}
           colls == SetToSeq(C)
           moves == IF ids = {} THEN <<>> ELSE <<move>>
           aims == [k \in DOMAIN colls |->
                      AimCollections(i, {colls[k]}, RewritePathPrefix(world.coll[colls[k]].at, From, To), align)]
           drops == IF removeOld THEN <<drop>> ELSE <<>>
           heads == <<create>>
<1>1. /\ From \in Path /\ To \in Path /\ i \in Ids /\ Collections \subseteq Ids /\ new \in Path
      /\ ids \in SUBSET Ids /\ align \in Nat /\ n + 1 \in Nat
  BY ChainBounds, Destination, RewrittenTyped
<1>2. create \in Fresh /\ Quiet(create) /\ Creating(create, i, new)
  <2> HIDE DEF new
  <2> QED
    BY <1>1, CreateMade DEF Quiet, Creating
<1>3. move \in Fresh /\ (ids # {} => AlignMove(move, t, counts))
  <2> HIDE DEF new
  <2>1. move \in Fresh
    BY <1>1, MoveMade
  <2> DEFINE mine == ids
  <2>2. mine = counts[t].ids
    OBVIOUS
  <2> HIDE DEF mine
  <2>3. Moving(MoveMedia(i, mine, new, FALSE, n + 1)) /\ MoveMedia(i, mine, new, FALSE, n + 1).instance = i
        /\ MoveMedia(i, mine, new, FALSE, n + 1).args.to = new /\ MoveMedia(i, mine, new, FALSE, n + 1).args.ids = mine
        /\ MoveMedia(i, mine, new, FALSE, n + 1).args.flag = FALSE
    BY DEF MoveMedia, Item, NoArgs, Moving
  <2>4. t[1] = i /\ t[2] = r
    OBVIOUS
  <2>5. new = RewritePathPrefix(t[2], From, To)
    BY <2>4 DEF new
  <2> HIDE DEF t
  <2>6. move = MoveMedia(i, mine, new, FALSE, n + 1)
    BY <2>2
  <2> HIDE DEF move
  <2>7. /\ Moving(move) /\ move.instance = t[1] /\ move.args.to = RewritePathPrefix(t[2], From, To) /\ move.args.ids = counts[t].ids
        /\ move.args.flag = FALSE
    BY <2>2, <2>3, <2>4, <2>5, <2>6
  <2> QED
    BY <2>1, <2>7 DEF AlignMove
<1>4. drop \in Fresh /\ AlignDrop(drop, t) /\ drop.dep = align
  <2> DEFINE dep == align
  <2>1. dep \in Nat /\ dep = align
    BY <1>1
  <2> HIDE DEF dep
  <2>2. DropRoot(i, r, dep) \in Fresh /\ DropRoot(i, r, dep).op = "rootFolder.delete" /\ DropRoot(i, r, dep).instance = i
        /\ DropRoot(i, r, dep).args.at = r /\ DropRoot(i, r, dep).dep = dep
    <3>1. i \in Ids /\ r \in Path /\ dep \in Nat
      BY <1>1, <2>1
    <3> QED
      BY <3>1, DropMade
  <2>3. t[1] = i /\ t[2] = r
    OBVIOUS
  <2> HIDE DEF t
  <2> QED
    BY <2>1, <2>2, <2>3 DEF AlignDrop, Dropping, dep
<1> HIDE DEF create, move, drop, align, new
<1>5. colls \in Seq(Collections)
  <2>1. C \subseteq Collections /\ IsFiniteSet(C)
    BY ChainBounds, FS_Subset
  <2> HIDE DEF C
  <2> QED
    BY <2>1, ListedSet
<1> HIDE DEF C, colls
<1>6. aims \in Seq(Fresh) /\ \A k \in 1..Len(aims) : Quiet(aims[k]) /\ ~Plain(aims[k])
  <2>1. ASSUME NEW k \in 1..Len(colls), NEW item,
               item = AimCollections(i, {colls[k]}, RewritePathPrefix(world.coll[colls[k]].at, From, To), align)
        PROVE  item \in Fresh /\ Quiet(item) /\ ~Plain(item)
    <3>1. colls[k] \in Collections /\ world.coll[colls[k]].at \in Path
      BY <1>5 DEF World
    <3>2. /\ RewritePathPrefix(world.coll[colls[k]].at, From, To) \in Path /\ {colls[k]} \in SUBSET Ids
      BY <1>1, <3>1, RewrittenTyped
    <3> DEFINE one == {colls[k]}
               p == RewritePathPrefix(world.coll[colls[k]].at, From, To)
    <3>3. one \in SUBSET Ids /\ p \in Path /\ item = AimCollections(i, one, p, align)
      BY <2>1, <3>1, <3>2
    <3> HIDE DEF one, p
    <3> QED
      BY <1>1, <3>3, RecollectMade DEF Quiet, Plain
  <2>2. DOMAIN colls = 1..Len(colls)
    BY <1>5
  <2>3. \A k \in 1..Len(colls) :
          aims[k] = AimCollections(i, {colls[k]}, RewritePathPrefix(world.coll[colls[k]].at, From, To), align)
    BY <2>2
  <2>4. DOMAIN aims = DOMAIN colls /\ aims = [k \in DOMAIN colls |-> aims[k]]
    OBVIOUS
  <2> HIDE DEF aims
  <2>5. \A k \in 1..Len(colls) : aims[k] \in Fresh /\ Quiet(aims[k]) /\ ~Plain(aims[k])
    BY <2>1, <2>3
  <2>6. aims \in Seq(Fresh) /\ Len(aims) = Len(colls)
    BY <1>5, <2>4, <2>5, MadeOf
  <2> QED
    BY <2>5, <2>6
<1>7. b = ((heads \o moves) \o aims) \o drops
  BY DEF AlignBatch, create, move, drop, align, new, colls, C
<1> HIDE DEF aims
<1>8. heads \in Seq(Fresh) /\ Len(heads) = 1 /\ heads[1] = create
  BY <1>2
<1>9. moves \in Seq(Fresh) /\ (ids = {} => Len(moves) = 0) /\ (ids # {} => Len(moves) = 1 /\ moves[1] = move)
  BY <1>3
<1>10. drops \in Seq(Fresh) /\ \A k \in 1..Len(drops) : drops[k] = drop
  BY <1>4
<1>20. /\ ~removeOld => Len(drops) = 0
       /\ removeOld => Len(drops) = 1 /\ drops[1] = drop
  OBVIOUS
<1> HIDE DEF heads, moves, drops
<1> DEFINE b1 == heads \o moves
           b2 == b1 \o aims
           b3 == b2 \o drops
<1>11. /\ b1 \in Seq(Fresh) /\ 1 \in 1..Len(b1) /\ b1[1] = create
       /\ ids = {} => Len(b1) = 1
       /\ ids # {} => Len(b1) = 2 /\ b1[2] = move
  <2>1. /\ b1 \in Seq(Fresh) /\ Len(b1) = Len(heads) + Len(moves)
        /\ \A k \in 1..Len(heads) : b1[k] = heads[k]
        /\ \A k \in 1..Len(moves) : b1[Len(heads) + k] = moves[k]
    <3>1. heads \in Seq(Fresh) /\ moves \in Seq(Fresh)
      BY <1>8, <1>9
    <3> QED
      BY <3>1, Joined
  <2> HIDE DEF b1
  <2>2. Len(b1) = 1 + Len(moves) /\ b1[1] = create /\ \A k \in 1..Len(moves) : b1[1 + k] = moves[k]
    BY <1>8, <2>1
  <2>3. ASSUME ids # {} PROVE Len(b1) = 2 /\ b1[2] = move
    <3>1. Len(moves) = 1 /\ moves[1] = move
      BY <1>9, <2>3
    <3> QED
      BY <2>2, <3>1
  <2>4. ASSUME ids = {} PROVE Len(b1) = 1
    <3>1. Len(moves) = 0
      BY <1>9, <2>4
    <3> QED
      BY <2>2, <3>1
  <2>5. CASE ids = {}
    BY <2>1, <2>2, <2>4, <2>5
  <2>6. CASE ids # {}
    <3>1. Len(b1) = 2 /\ b1[2] = move
      BY <2>3, <2>6
    <3>2. 1 \in 1..2
      OBVIOUS
    <3>3. 1 \in 1..Len(b1)
      BY <3>1, <3>2, Zenon
    <3>4. b1 \in Seq(Fresh) /\ b1[1] = create
      BY <2>1, <2>2
    <3> QED
      BY <2>6, <3>1, <3>3, <3>4
  <2> QED
    BY <2>5, <2>6
<1> HIDE DEF b1
<1>12. /\ b2 \in Seq(Fresh) /\ Len(b2) = Len(b1) + Len(aims) /\ Len(aims) \in Nat
       /\ \A k \in 1..Len(b1) : b2[k] = b1[k]
       /\ \A k \in 1..Len(aims) : b2[Len(b1) + k] = aims[k]
  BY <1>6, <1>11, Joined
<1> HIDE DEF b2
<1>13. /\ b3 \in Seq(Fresh) /\ Len(b3) = Len(b2) + Len(drops) /\ Len(drops) \in Nat
       /\ \A k \in 1..Len(b2) : b3[k] = b2[k]
       /\ \A k \in 1..Len(drops) : b3[Len(b2) + k] = drops[k]
  <2>1. b2 \in Seq(Fresh) /\ drops \in Seq(Fresh)
    BY <1>10, <1>12
  <2> HIDE DEF b3
  <2>2. Len(drops) \in Nat
    BY <2>1
  <2> QED
    BY <2>1, <2>2, Joined DEF b3
<1>14. b3 = b
  BY <1>7 DEF b2, b1
<1> HIDE DEF b3
<1>18. Len(b1) \in 1..2 /\ Len(b2) \in Nat /\ Len(b2) >= Len(b1) /\ Len(b) \in Nat /\ Len(b) >= Len(b2)
  <2>1. Len(b1) \in 1..2
    BY <1>11
  <2> QED
    BY <1>12, <1>13, <1>14, <2>1
<1>15. ASSUME NEW k \in 1..Len(b)
       PROVE  \/ Quiet(b[k]) \/ (AlignMove(b[k], t, counts) /\ k = 2)
              \/ (AlignDrop(b[k], t) /\ (ids # {} => b[k].dep = n + 2))
  <2>1. CASE k <= Len(b1)
    <3>1. k \in 1..Len(b1) /\ k \in 1..Len(b2)
      BY <1>18, <2>1
    <3>2. b[k] = b1[k]
      BY <1>12, <1>13, <1>14, <3>1
    <3>3. CASE k = 1
      BY <1>2, <1>11, <3>2, <3>3
    <3>4. CASE k # 1
      <4>1. ids # {} /\ k = 2
        <5>1. k \in 1..2 /\ Len(b1) # 1
          <6> DEFINE size == Len(b1)
          <6>1. size \in 1..2 /\ k \in 1..size
            BY <1>18, <3>1
          <6> HIDE DEF size
          <6>2. k \in 1..2 /\ size # 1
            BY <3>4, <6>1
          <6> QED
            BY <6>2 DEF size
        <5> QED
          <6>1. ids # {}
            BY <1>11, <5>1
          <6>2. k = 2
            BY <3>4, <5>1
          <6> QED
            BY <6>1, <6>2
      <4> QED
        BY <1>3, <1>11, <3>2, <4>1
    <3> QED
      BY <3>3, <3>4
  <2>2. CASE k > Len(b1) /\ k <= Len(b2)
    <3> DEFINE x == k - Len(b1)
    <3>1. x \in 1..Len(aims) /\ Len(b1) + x = k /\ k \in 1..Len(b2)
      BY <1>12, <1>18, <2>2
    <3> HIDE DEF x
    <3>2. b[k] = aims[x]
      BY <1>12, <1>13, <1>14, <3>1
    <3> QED
      BY <1>6, <3>1, <3>2
  <2>3. CASE k > Len(b2)
    <3> DEFINE x == k - Len(b2)
    <3>1. x \in 1..Len(drops) /\ Len(b2) + x = k
      <4>1. Len(b) = Len(b2) + Len(drops) /\ Len(drops) \in Nat
        BY <1>13, <1>14
      <4> QED
        BY <1>18, <2>3, <4>1
    <3> HIDE DEF x
    <3>2. b[k] = drop
      BY <1>10, <1>13, <1>14, <3>1
    <3>3. ids # {} => align = n + 2
      BY DEF align
    <3> QED
      BY <1>4, <3>2, <3>3
  <2> QED
    BY <1>18, <2>1, <2>2, <2>3
<1>16. ids # {} => 2 \in 1..Len(b) /\ AlignMove(b[2], t, counts)
  <2>1. ASSUME ids # {} PROVE 2 \in 1..Len(b) /\ b[2] = move
    <3>1. Len(b1) = 2 /\ b1[2] = move
      BY <1>11, <2>1
    <3>2. 2 \in 1..Len(b1) /\ 2 \in 1..Len(b2) /\ 2 \in 1..Len(b)
      BY <1>18, <3>1
    <3> QED
      BY <1>12, <1>13, <1>14, <3>1, <3>2
  <2> QED
    BY <1>3, <2>1
<1>17. b \in Seq(Fresh) /\ 1 \in 1..Len(b) /\ Creating(b[1], i, new)
  <2>1. 1 \in 1..Len(b1) /\ 1 \in 1..Len(b2) /\ 1 \in 1..Len(b)
    <3> DEFINE s1 == Len(b1)
               s2 == Len(b2)
               s3 == Len(b)
    <3>1. s1 \in 1..2 /\ s2 \in Nat /\ s2 >= s1 /\ s3 \in Nat /\ s3 >= s2
      BY <1>18
    <3> HIDE DEF s1, s2, s3
    <3>2. 1 \in 1..s1 /\ 1 \in 1..s2 /\ 1 \in 1..s3
      BY <3>1
    <3> QED
      BY <3>2 DEF s1, s2, s3
  <2>2. b[1] = create
    BY <1>11, <1>12, <1>13, <1>14, <2>1
  <2> QED
    BY <1>2, <1>13, <1>14, <2>1, <2>2
<1>19. t[1] = i /\ new = RewritePathPrefix(t[2], From, To)
  BY DEF new
<1>21. Fits(b, t, n, counts)
  BY <1>15, <1>16, <1>17, <1>19 DEF Fits
<1> DEFINE drawn == IF ids = {} THEN {} ELSE {Step(move)}
           left == IF removeOld THEN {Step(drop)} ELSE {}
<1>22. /\ Plain(create) /\ Step(create).op = "rootFolder.create"
       /\ Plain(move) /\ Step(move).op = "media.moveRootFolder"
       /\ Plain(drop) /\ Step(drop).op = "rootFolder.delete"
  <2>1. /\ create.op = "rootFolder.create" /\ move.op = "media.moveRootFolder" /\ drop.op = "rootFolder.delete"
    BY DEF create, move, drop, CreateRoot, MoveMedia, DropRoot, Item
  <2> QED
    BY <2>1, LineRead DEF Plain
<1>23. Told(heads, {Step(create)}) /\ Told(moves, drawn) /\ Told(aims, {}) /\ Told(drops, left)
  <2>1. Told(heads, {Step(create)})
    BY <1>8, <1>22, ToldOne
  <2>2. Told(moves, drawn)
    <3>1. CASE ids = {}
      <4>1. Len(moves) = 0 /\ 1..0 = {}
        BY <1>9, <3>1
      <4> QED
        BY <3>1, <4>1, ToldNothing
    <3>2. CASE ids # {}
      BY <1>9, <1>22, <3>2, ToldOne
    <3> QED
      BY <3>1, <3>2
  <2>3. Told(aims, {})
    BY <1>6, ToldNothing
  <2>4. Told(drops, left)
    <3>1. CASE ~removeOld
      <4>1. Len(drops) = 0 /\ 1..0 = {}
        BY <1>20, <3>1
      <4> QED
        BY <3>1, <4>1, ToldNothing
    <3>2. CASE removeOld
      BY <1>20, <1>22, <3>2, ToldOne
    <3> QED
      BY <3>1, <3>2
  <2> QED
    BY <2>1, <2>2, <2>3, <2>4
<1>24. /\ \A line \in drawn : line.op = "media.moveRootFolder"
       /\ \A line \in left : line.op = "rootFolder.delete"
  BY <1>22
<1>25. AlignLines(t, counts, removeOld) = ({Step(create)} \cup drawn) \cup left
  <2>1. AlignItems(t, counts, removeOld)
          = ({CreateRoot(i, new, 0)} \cup {MoveMedia(i, ids, new, FALSE, 0) : x \in {y \in {t} : ids # {}}})
              \cup {DropRoot(i, r, 0) : x \in {y \in {t} : removeOld}}
    BY Zenon DEF AlignItems, new
  <2> DEFINE A == {CreateRoot(i, new, 0)}
             B == {MoveMedia(i, ids, new, FALSE, 0) : x \in {y \in {t} : ids # {}}}
             D == {DropRoot(i, r, 0) : x \in {y \in {t} : removeOld}}
  <2>2. Step(CreateRoot(i, new, 0)) = Step(create)
    BY CreateLine DEF create
  <2>3. Step(MoveMedia(i, ids, new, FALSE, 0)) = Step(move)
    BY DEF move, MoveMedia, Item, NoArgs, Step
  <2>4. Step(DropRoot(i, r, 0)) = Step(drop)
    BY DropLine DEF drop
  <2>5. Steps(A) = {Step(create)}
    BY <2>2 DEF Steps
  <2>6. Steps(B) = drawn
    <3> DEFINE one == MoveMedia(i, ids, new, FALSE, 0)
    <3>1. Step(one) = Step(move) /\ B = {one : x \in {y \in {t} : ids # {}}}
      BY <2>3
    <3> HIDE DEF one, B
    <3> QED
      BY <3>1 DEF Steps
  <2>7. Steps(D) = left
    BY <2>4 DEF Steps
  <2> HIDE DEF A, B, D, drawn, left
  <2>8. Steps((A \cup B) \cup D) = (Steps(A) \cup Steps(B)) \cup Steps(D)
    <3>1. Steps(A \cup B) = Steps(A) \cup Steps(B)
      BY StepsJoined
    <3>2. Steps((A \cup B) \cup D) = Steps(A \cup B) \cup Steps(D)
      BY StepsJoined
    <3> QED
      BY <3>1, <3>2
  <2>9. AlignLines(t, counts, removeOld) = Steps((A \cup B) \cup D)
    BY <2>1, Zenon DEF AlignLines, A, B, D
  <2> QED
    BY <2>5, <2>6, <2>7, <2>8, <2>9, Zenon
<1> HIDE DEF drawn, left
<1>26. Told(b1, {Step(create)} \cup drawn)
  BY <1>8, <1>9, <1>22, <1>23, <1>24, ToldJoined DEF b1
<1>27. Told(b2, {Step(create)} \cup drawn)
  <2>1. Told(b2, ({Step(create)} \cup drawn) \cup {})
    BY <1>6, <1>11, <1>23, <1>26, ToldJoined DEF b2
  <2>2. ({Step(create)} \cup drawn) \cup {} = {Step(create)} \cup drawn
    OBVIOUS
  <2> QED
    BY <2>1, <2>2
<1>28. Told(b3, ({Step(create)} \cup drawn) \cup left)
  BY <1>10, <1>12, <1>22, <1>23, <1>24, <1>27, ToldJoined DEF b3
<1> QED
  BY <1>14, <1>21, <1>25, <1>28

\* One more root folder behind a plan.
LEMMA AlignedMore ==
  ASSUME NEW counts, NEW plan, Aligned(plan, counts), NEW t \in RootsBelow, NEW b, Fits(b, t, Len(plan), counts)
  PROVE  Aligned(plan \o b, counts)
<1> DEFINE n == Len(plan)
           s == plan \o b
<1>1. plan \in Seq(Fresh) /\ n \in Nat /\ Len(b) \in Nat /\ 1 \in 1..n /\ plan[1] = RenameItem(From, To)
  BY DEF Aligned, Fits
<1>2. /\ s \in Seq(Fresh) /\ Len(s) = n + Len(b) /\ \A k \in 1..n : s[k] = plan[k]
      /\ \A k \in 1..Len(b) : s[n + k] = b[k]
  BY <1>1, Joined DEF Fits
<1> HIDE DEF s
<1>3. ASSUME NEW k \in 2..n
      PROVE  \/ Quiet(s[k])
             \/ \E u \in RootsBelow : AlignMove(s[k], u, counts)
             \/ \E u \in RootsBelow : AlignDrop(s[k], u) /\
                  (counts[u].ids # {} => s[k].dep \in 1..Len(s) /\ AlignMove(s[s[k].dep], u, counts))
  <2>1. s[k] = plan[k]
    BY <1>1, <1>2
  <2>2. \/ Quiet(plan[k])
        \/ \E u \in RootsBelow : AlignMove(plan[k], u, counts)
        \/ \E u \in RootsBelow : AlignDrop(plan[k], u) /\
             (counts[u].ids # {} => plan[k].dep \in 1..n /\ AlignMove(plan[plan[k].dep], u, counts))
    BY DEF Aligned
  <2>3. ASSUME NEW u \in RootsBelow, AlignDrop(plan[k], u),
               counts[u].ids # {} => plan[k].dep \in 1..n /\ AlignMove(plan[plan[k].dep], u, counts)
        PROVE  AlignDrop(s[k], u) /\ (counts[u].ids # {} => s[k].dep \in 1..Len(s) /\ AlignMove(s[s[k].dep], u, counts))
    <3>1. ASSUME counts[u].ids # {} PROVE s[k].dep \in 1..Len(s) /\ AlignMove(s[s[k].dep], u, counts)
      <4> DEFINE j == plan[k].dep
      <4>1. j \in 1..n /\ AlignMove(plan[j], u, counts) /\ s[k].dep = j
        BY <2>1, <2>3, <3>1
      <4> HIDE DEF j
      <4>2. j \in 1..Len(s) /\ s[j] = plan[j]
        BY <1>1, <1>2, <4>1
      <4> QED
        BY <4>1, <4>2
    <3> QED
      BY <2>1, <2>3, <3>1
  <2> QED
    BY <2>1, <2>2, <2>3
<1>4. ASSUME NEW k \in 1..Len(b)
      PROVE  \/ Quiet(s[n + k])
             \/ AlignMove(s[n + k], t, counts)
             \/ AlignDrop(s[n + k], t) /\
                  (counts[t].ids # {} => s[n + k].dep \in 1..Len(s) /\ AlignMove(s[s[n + k].dep], t, counts))
  <2>1. s[n + k] = b[k]
    BY <1>2
  <2>2. counts[t].ids # {} => n + 2 \in 1..Len(s) /\ AlignMove(s[n + 2], t, counts)
    BY <1>1, <1>2 DEF Fits
  <2> QED
    BY <2>1, <2>2 DEF Fits
<1>5. ASSUME NEW k \in 2..Len(s)
      PROVE  \/ Quiet(s[k])
             \/ \E u \in RootsBelow : AlignMove(s[k], u, counts)
             \/ \E u \in RootsBelow : AlignDrop(s[k], u) /\
                  (counts[u].ids # {} => s[k].dep \in 1..Len(s) /\ AlignMove(s[s[k].dep], u, counts))
  <2>1. CASE k \in 2..n
    BY <1>3, <2>1
  <2>2. CASE k > n
    <3> DEFINE j == k - n
    <3>1. j \in 1..Len(b) /\ n + j = k
      BY <1>1, <1>2, <2>2
    <3> HIDE DEF j
    <3> QED
      BY <1>4, <3>1
  <2>3. k \in 2..n \/ k > n
    BY <1>1, <1>2
  <2> QED
    BY <2>1, <2>2, <2>3
<1>7. 1 \in 1..Len(s) /\ s[1] = RenameItem(From, To)
  BY <1>1, <1>2
<1>6. Aligned(s, counts)
  BY <1>2, <1>5, <1>7 DEF Aligned
<1> QED
  BY <1>6 DEF s

\* The moves of the first n root folders are where they are said to be, and each has its
\* root folder made.
Ordered(plan, at, n, targets, counts) ==
  /\ \A c \in 1..n : at[c] <= Len(plan) + 1 /\ \A d \in 1..n : c < d => at[c] < at[d]
  /\ \A c \in 1..n : counts[targets[c]].ids # {} => at[c] \in 1..Len(plan) /\ AlignMove(plan[at[c]], targets[c], counts)
  /\ \A k \in 1..Len(plan) : Moving(plan[k]) =>
       /\ \E c \in 1..n : k = at[c] /\ AlignMove(plan[k], targets[c], counts)
       /\ \E b \in 1..Len(plan) : Creating(plan[b], plan[k].instance, plan[k].args.to)

LEMMA OrderedMore ==
  ASSUME NEW counts, NEW targets, NEW L \in Nat, NEW at \in [1..L -> Nat], NEW n \in 1..L,
         NEW plan \in Seq(Fresh), Ordered(plan, at, n - 1, targets, counts), at[n] = Len(plan) + 2,
         NEW b, Fits(b, targets[n], Len(plan), counts)
  PROVE  Ordered(plan \o b, at, n, targets, counts)
<1> DEFINE N == Len(plan)
           s == plan \o b
           t == targets[n]
<1>1. N \in Nat /\ Len(b) \in Nat /\ 1 \in 1..Len(b) /\ b \in Seq(Fresh)
  BY DEF Fits
<1>2. /\ Len(s) = N + Len(b) /\ \A k \in 1..N : s[k] = plan[k]
      /\ \A k \in 1..Len(b) : s[N + k] = b[k]
  BY <1>1, Joined
<1> HIDE DEF s
<1>3. \A c \in 1..n : c = n \/ c \in 1..n - 1
  OBVIOUS
<1>4. ASSUME NEW c \in 1..n
      PROVE  at[c] <= Len(s) + 1 /\ \A d \in 1..n : c < d => at[c] < at[d]
  <2>1. at[c] \in Nat /\ at[n] = N + 2
    OBVIOUS
  <2>2. CASE c = n
    BY <1>1, <1>2, <2>1, <2>2
  <2>3. CASE c \in 1..n - 1
    <3>1. at[c] <= N + 1 /\ \A d \in 1..n - 1 : c < d => at[c] < at[d]
      BY <2>3 DEF Ordered
    <3>2. at[c] < at[n]
      BY <1>1, <2>1, <3>1
    <3>3. at[c] <= Len(s) + 1
      BY <1>1, <1>2, <2>1, <3>1
    <3>4. \A d \in 1..n : c < d => at[c] < at[d]
      BY <1>3, <3>1, <3>2
    <3> QED
      BY <3>3, <3>4
  <2> QED
    BY <1>3, <2>2, <2>3
<1>5. ASSUME NEW c \in 1..n, counts[targets[c]].ids # {}
      PROVE  at[c] \in 1..Len(s) /\ AlignMove(s[at[c]], targets[c], counts)
  <2>1. CASE c = n
    <3>1. 2 \in 1..Len(b) /\ AlignMove(b[2], t, counts)
      BY <1>5, <2>1 DEF Fits
    <3>2. at[c] = N + 2 /\ s[N + 2] = b[2]
      BY <1>2, <2>1, <3>1
    <3> QED
      BY <1>1, <1>2, <2>1, <3>1, <3>2
  <2>2. CASE c \in 1..n - 1
    <3>1. at[c] \in 1..N /\ AlignMove(plan[at[c]], targets[c], counts)
      BY <1>5, <2>2 DEF Ordered
    <3>2. at[c] \in 1..Len(s) /\ s[at[c]] = plan[at[c]]
      BY <1>1, <1>2, <3>1
    <3> QED
      BY <3>1, <3>2
  <2> QED
    BY <1>3, <2>1, <2>2
<1>6. ASSUME NEW k \in 1..Len(s), Moving(s[k])
      PROVE  /\ \E c \in 1..n : k = at[c] /\ AlignMove(s[k], targets[c], counts)
             /\ \E a \in 1..Len(s) : Creating(s[a], s[k].instance, s[k].args.to)
  <2>1. CASE k \in 1..N
    <3>1. s[k] = plan[k]
      BY <1>2, <2>1
    <3>2. PICK c \in 1..n - 1 : k = at[c] /\ AlignMove(plan[k], targets[c], counts)
      BY <1>6, <2>1, <3>1 DEF Ordered
    <3>3. PICK a \in 1..N : Creating(plan[a], plan[k].instance, plan[k].args.to)
      BY <1>6, <2>1, <3>1 DEF Ordered
    <3>4. c \in 1..n /\ a \in 1..Len(s) /\ s[a] = plan[a]
      BY <1>1, <1>2
    <3> QED
      BY <3>1, <3>2, <3>3, <3>4
  <2>2. CASE k \notin 1..N
    <3> DEFINE j == k - N
    <3>1. j \in 1..Len(b) /\ N + j = k
      BY <1>1, <1>2, <2>2
    <3> HIDE DEF j
    <3>2. s[k] = b[j]
      BY <1>2, <3>1
    <3>3. AlignMove(b[j], t, counts) /\ j = 2
      <4>1. ~Quiet(b[j]) /\ ~AlignDrop(b[j], t)
        BY <1>6, <3>2 DEF Quiet, AlignDrop, Moving, Dropping
      <4> QED
        BY <3>1, <4>1 DEF Fits
    <3>4. k = at[n] /\ AlignMove(s[k], t, counts)
      BY <3>1, <3>2, <3>3
    <3>5. N + 1 \in 1..Len(s) /\ s[N + 1] = b[1]
      BY <1>1, <1>2
    <3>6. Creating(b[1], t[1], RewritePathPrefix(t[2], From, To))
      BY DEF Fits
    <3>7. Creating(s[N + 1], s[k].instance, s[k].args.to)
      BY <3>4, <3>5, <3>6 DEF AlignMove
    <3>8. n \in 1..n
      OBVIOUS
    <3> QED
      BY <3>4, <3>5, <3>7, <3>8
  <2> QED
    BY <2>1, <2>2
<1>7. Ordered(s, at, n, targets, counts)
  BY <1>4, <1>5, <1>6 DEF Ordered
<1> QED
  BY <1>7 DEF s

\* The lines of two root folders are not the same.
LEMMA AlignLineRead ==
  ASSUME NEW t, NEW counts, NEW removeOld, NEW line \in AlignLines(t, counts, removeOld)
  PROVE  /\ line.instance = t[1]
         /\ \/ line.op = "rootFolder.create" /\ line.at = RewritePathPrefix(t[2], From, To)
            \/ line.op = "media.moveRootFolder" /\ line.to = RewritePathPrefix(t[2], From, To)
            \/ line.op = "rootFolder.delete" /\ line.at = t[2]
<1> DEFINE new == RewritePathPrefix(t[2], From, To)
<1>1. PICK item \in AlignItems(t, counts, removeOld) : line = Step(item)
  BY DEF AlignLines, Steps
<1>2. \/ item = CreateRoot(t[1], new, 0)
      \/ item = MoveMedia(t[1], counts[t].ids, new, FALSE, 0)
      \/ item = DropRoot(t[1], t[2], 0)
  BY DEF AlignItems
<1> HIDE DEF new
<1>3. CASE item = CreateRoot(t[1], new, 0)
  BY <1>1, <1>3, CreateLine DEF new
<1>4. CASE item = MoveMedia(t[1], counts[t].ids, new, FALSE, 0)
  <2>1. item.op = "media.moveRootFolder" /\ item.instance = t[1] /\ item.args.to = new
    BY <1>4 DEF MoveMedia, Item, NoArgs
  <2> QED
    BY <1>1, <2>1, LineRead DEF new
<1>5. CASE item = DropRoot(t[1], t[2], 0)
  BY <1>1, <1>5, DropLine
<1> QED
  BY <1>2, <1>3, <1>4, <1>5

LEMMA AlignLinesApart ==
  ASSUME world \in World, "reconcile" \in Kinds, NEW t \in RootsBelow, NEW u \in RootsBelow, NEW counts, NEW removeOld,
         NEW line \in AlignLines(t, counts, removeOld), line \in AlignLines(u, counts, removeOld)
  PROVE  t = u
<1>1. PICK i \in Instances, r \in Path : t = <<i, r>> /\ Under(From, r)
  BY DEF RootsBelow, World
<1>2. PICK j \in Instances, q \in Path : u = <<j, q>> /\ Under(From, q)
  BY DEF RootsBelow, World
<1>3. t[1] = i /\ t[2] = r /\ u[1] = j /\ u[2] = q
  BY <1>1, <1>2
<1>4. RewritePathPrefix(r, From, To) = RewritePathPrefix(q, From, To) => r = q
  <2>1. From \in Path /\ To \in Path /\ ~Under(From, To) /\ ~Under(To, From) /\ Path = Seq(STRING)
    BY Destination DEF Path
  <2> QED
    BY <1>1, <1>2, <2>1, Rewritten
<1>5. i = j /\ r = q
  BY <1>3, <1>4, AlignLineRead
<1> QED
  BY <1>1, <1>2, <1>5

ReconcileLines(targets, n, counts, removeOld) ==
  {Step(RenameItem(From, To))} \cup UNION {AlignLines(targets[c], counts, removeOld) : c \in 1..n}

LEMMA ReconcilePlanned ==
  ASSUME world \in World, "reconcile" \in Kinds, NEW targets \in Seq(RootsBelow), Once(targets),
         NEW counts, \A t \in RootsBelow : counts[t].ids \in SUBSET Ids /\ \A m \in counts[t].ids : m \in Media /\ world.path[m] # <<>>,
         NEW removeOld \in BOOLEAN
  PROVE  \E plan \in Seq(Fresh) :
           /\ ReconcilePlan(targets, counts, removeOld) = [k \in DOMAIN plan |-> <<plan[k]>>] /\ MoveItems(plan)
           /\ Aligned(plan, counts) /\ \E at \in [1..Len(targets) -> Nat] : Ordered(plan, at, Len(targets), targets, counts)
           /\ Told(plan, ReconcileLines(targets, Len(targets), counts, removeOld))
<1> DEFINE first == <<RenameItem(From, To)>>
           L == Len(targets)
           More(prev, n) == prev \o AlignBatch(targets[n][1], targets[n][2], counts[targets[n]].ids, removeOld, Len(prev))
           upTo == CHOOSE f : f = [n \in 0..L |-> IF n = 0 THEN first ELSE More(f[n - 1], n)]
           at == [n \in 1..L |-> Len(upTo[n - 1]) + 2]
<1>1. From \in Path /\ To \in Path /\ ~Under(From, To) /\ ~Under(To, From)
  BY Destination
<1>2. ASSUME NEW t \in RootsBelow
      PROVE  \E i \in Instances : \E r \in Path : t = <<i, r>> /\ Under(From, r)
  BY DEF RootsBelow, World
<1>3. L \in Nat
  OBVIOUS
<1>4. ReconcilePlan(targets, counts, removeOld) = [k \in DOMAIN upTo[L] |-> <<upTo[L][k]>>]
  BY Zenon DEF ReconcilePlan
<1>5. ASSUME NEW n \in 1..L, NEW plan, Aligned(plan, counts)
      PROVE  /\ Aligned(More(plan, n), counts)
             /\ \E b : /\ More(plan, n) = plan \o b /\ Fits(b, targets[n], Len(plan), counts)
                       /\ Told(b, AlignLines(targets[n], counts, removeOld))
  <2> DEFINE t == targets[n]
             b == AlignBatch(t[1], t[2], counts[t].ids, removeOld, Len(plan))
  <2>1. t \in RootsBelow
    OBVIOUS
  <2> HIDE DEF t
  <2>2. PICK i \in Instances, r \in Path : t = <<i, r>> /\ Under(From, r)
    BY <1>2, <2>1
  <2>3. t[1] = i /\ t[2] = r
    BY <2>2
  <2>4. counts[<<i, r>>].ids \in SUBSET Ids
    BY <2>1, <2>2
  <2>5. Len(plan) \in Nat
    BY <1>5 DEF Aligned
  <2>6. b = AlignBatch(i, r, counts[<<i, r>>].ids, removeOld, Len(plan))
    BY <2>2, <2>3
  <2>7. More(plan, n) = plan \o b
    BY DEF t
  <2> HIDE DEF b, More
  <2>8. Fits(b, <<i, r>>, Len(plan), counts) /\ Told(b, AlignLines(<<i, r>>, counts, removeOld))
    BY <2>4, <2>5, <2>6, AlignBatchMade
  <2>10. Fits(b, t, Len(plan), counts) /\ Told(b, AlignLines(t, counts, removeOld))
    BY <2>2, <2>8, Zenon
  <2>9. Aligned(plan \o b, counts)
    BY <1>5, <2>1, <2>10, AlignedMore
  <2>11. Fits(b, targets[n], Len(plan), counts) /\ Told(b, AlignLines(targets[n], counts, removeOld))
    BY <2>10 DEF t
  <2> QED
    BY <2>7, <2>9, <2>11
<1>6. Aligned(first, counts) /\ \A f : Ordered(first, f, 0, targets, counts)
  <2>1. RenameItem(From, To) \in Fresh /\ ~Moving(RenameItem(From, To))
    BY <1>1, RenameMade DEF Moving
  <2>2. first \in Seq(Fresh) /\ Len(first) = 1 /\ first[1] = RenameItem(From, To)
    BY <2>1
  <2> HIDE DEF first
  <2>3. Aligned(first, counts)
    <3>1. 2..Len(first) = {} /\ 1 \in 1..Len(first)
      BY <2>2
    <3> QED
      BY <2>2, <3>1 DEF Aligned
  <2>4. ASSUME NEW f PROVE Ordered(first, f, 0, targets, counts)
    <3>1. 1..0 = {} /\ \A k \in 1..Len(first) : ~Moving(first[k])
      BY <2>1, <2>2
    <3> QED
      BY <3>1 DEF Ordered
  <2> QED
    BY <2>3, <2>4
<1> HIDE DEF More, first, L
\* The function is there: where it were not, there would be a least place.
<1>7. \E f : f = [n \in 0..L |-> IF n = 0 THEN first ELSE More(f[n - 1], n)]
  <2> DEFINE There(j) == \E f : f = [n \in 0..j |-> IF n = 0 THEN first ELSE More(f[n - 1], n)]
             T == {j \in Nat : ~There(j)}
  <2>1. There(0)
    <3> DEFINE f == [n \in 0..0 |-> first]
    <3>1. f = [n \in 0..0 |-> IF n = 0 THEN first ELSE More(f[n - 1], n)]
      OBVIOUS
    <3> HIDE DEF f
    <3> QED
      BY <3>1
  <2>2. ASSUME NEW j \in Nat, There(j) PROVE There(j + 1)
    <3>1. PICK f : f = [n \in 0..j |-> IF n = 0 THEN first ELSE More(f[n - 1], n)]
      BY <2>2
    <3> DEFINE g == [n \in 0..j + 1 |-> IF n = j + 1 THEN More(f[j], j + 1) ELSE f[n]]
    <3>2. DOMAIN g = 0..j + 1 /\ g[j + 1] = More(f[j], j + 1) /\ \A n \in 0..j : g[n] = f[n]
      OBVIOUS
    <3>3. g = [n \in 0..j + 1 |-> g[n]]
      OBVIOUS
    <3> HIDE DEF g
    <3>4. ASSUME NEW n \in 0..j + 1
          PROVE  g[n] = IF n = 0 THEN first ELSE More(g[n - 1], n)
      <4>1. CASE n = j + 1
        <5>1. n # 0 /\ n - 1 = j /\ j \in 0..j
          BY <4>1
        <5>2. g[n - 1] = f[j]
          BY <3>2, <5>1
        <5> QED
          BY <3>2, <4>1, <5>1, <5>2
      <4>2. CASE n # j + 1
        <5>1. n \in 0..j
          BY <4>2
        <5>2. f[n] = IF n = 0 THEN first ELSE More(f[n - 1], n)
          BY <3>1, <5>1
        <5>3. n # 0 => n - 1 \in 0..j
          BY <5>1
        <5> QED
          BY <3>2, <5>1, <5>2, <5>3
      <4> QED
        BY <4>1, <4>2
    <3>5. g = [n \in 0..j + 1 |-> IF n = 0 THEN first ELSE More(g[n - 1], n)]
      BY <3>3, <3>4
    <3> QED
      BY <3>5
  <2> HIDE DEF There
  <2>3. ASSUME T # {} PROVE FALSE
    <3>1. PICK j \in T : \A m \in T : j <= m
      BY <2>3, Least
    <3>2. j # 0
      BY <2>1, <3>1
    <3>3. j - 1 \in Nat /\ ~(j <= j - 1) /\ (j - 1) + 1 = j
      BY <3>1, <3>2
    <3>4. There(j - 1)
      BY <3>1, <3>3
    <3>5. There((j - 1) + 1)
      BY <2>2, <3>3, <3>4
    <3> QED
      BY <3>1, <3>3, <3>5
  <2>4. There(L)
    BY <1>3, <2>3
  <2> QED
    BY <2>4 DEF There
<1>8. upTo = [n \in 0..L |-> IF n = 0 THEN first ELSE More(upTo[n - 1], n)]
  BY <1>7, Zenon
<1> HIDE DEF upTo, at
<1>9. upTo[0] = first /\ \A n \in 1..L : upTo[n] = More(upTo[n - 1], n)
  <2>1. 0 \in 0..L
    BY <1>3
  <2>2. upTo[0] = first
    BY <1>8, <2>1
  <2>3. ASSUME NEW n \in 1..L PROVE upTo[n] = More(upTo[n - 1], n)
    <3>1. n \in 0..L /\ n # 0
      BY <1>3
    <3> QED
      BY <1>8, <3>1
  <2> QED
    BY <2>2, <2>3
<1>15. \A n \in 0..L : Aligned(upTo[n], counts)
  <2> DEFINE T == {n \in 0..L : ~Aligned(upTo[n], counts)}
  <2>1. ASSUME T # {} PROVE FALSE
    <3>1. T \subseteq Nat
      OBVIOUS
    <3>2. PICK n \in T : \A m \in T : n <= m
      <4> HIDE DEF T
      <4> QED
        BY <2>1, <3>1, Least
    <3>3. n # 0
      BY <1>6, <1>9, <3>2
    <3>4. n \in 1..L /\ n - 1 \in 0..L /\ ~(n <= n - 1)
      BY <1>3, <3>2, <3>3
    <3>5. Aligned(upTo[n - 1], counts)
      BY <3>2, <3>4
    <3>6. Aligned(More(upTo[n - 1], n), counts)
      BY <1>5, <3>4, <3>5
    <3> QED
      BY <1>9, <3>2, <3>4, <3>6
  <2> QED
    BY <2>1
<1>16. at \in [1..L -> Nat] /\ \A n \in 1..L : at[n] = Len(upTo[n - 1]) + 2
  <2>1. ASSUME NEW n \in 1..L PROVE Len(upTo[n - 1]) + 2 \in Nat
    <3>1. n - 1 \in 0..L
      BY <1>3
    <3>2. upTo[n - 1] \in Seq(Fresh)
      BY <1>15, <3>1 DEF Aligned
    <3>3. Len(upTo[n - 1]) \in Nat
      BY <3>2
    <3> QED
      BY <3>3
  <2> QED
    BY <2>1 DEF at
<1>17. \A n \in 0..L : Ordered(upTo[n], at, n, targets, counts)
  <2> DEFINE T == {n \in 0..L : ~Ordered(upTo[n], at, n, targets, counts)}
  <2>1. ASSUME T # {} PROVE FALSE
    <3>1. T \subseteq Nat
      OBVIOUS
    <3>2. PICK n \in T : \A m \in T : n <= m
      <4> HIDE DEF T
      <4> QED
        BY <2>1, <3>1, Least
    <3>3. n # 0
      BY <1>6, <1>9, <3>2
    <3>4. n \in 1..L /\ n - 1 \in 0..L /\ ~(n <= n - 1)
      BY <1>3, <3>2, <3>3
    <3> DEFINE prev == upTo[n - 1]
    <3>5. Ordered(prev, at, n - 1, targets, counts) /\ Aligned(prev, counts)
      BY <1>15, <3>2, <3>4
    <3>6. at[n] = Len(prev) + 2 /\ upTo[n] = More(prev, n)
      BY <1>9, <1>16, <3>4
    <3> HIDE DEF prev
    <3>7. PICK b : More(prev, n) = prev \o b /\ Fits(b, targets[n], Len(prev), counts)
      BY <1>5, <3>4, <3>5
    <3>8. prev \in Seq(Fresh)
      BY <3>5 DEF Aligned
    <3>9. Ordered(prev \o b, at, n, targets, counts)
      BY <1>3, <1>16, <3>4, <3>5, <3>6, <3>7, <3>8, OrderedMore
    <3> QED
      BY <3>2, <3>6, <3>7, <3>9
  <2> QED
    BY <2>1
<1>19. \A n \in 0..L : Told(upTo[n], ReconcileLines(targets, n, counts, removeOld))
  <2> DEFINE lines(n) == ReconcileLines(targets, n, counts, removeOld)
             T == {n \in 0..L : ~Told(upTo[n], lines(n))}
  <2>1. Told(first, lines(0))
    <3>1. RenameItem(From, To) \in Fresh /\ Plain(RenameItem(From, To))
      BY <1>1, RenameMade DEF Plain
    <3>2. Len(first) = 1 /\ first[1] = RenameItem(From, To)
      BY DEF first
    <3>3. lines(0) = {Step(RenameItem(From, To))}
      BY DEF ReconcileLines
    <3> QED
      BY <3>1, <3>2, <3>3, ToldOne
  <2>2. ASSUME NEW n \in 1..L
        PROVE  /\ lines(n) = lines(n - 1) \cup AlignLines(targets[n], counts, removeOld)
               /\ lines(n - 1) \cap AlignLines(targets[n], counts, removeOld) = {}
    <3>1. 1..n = (1..n - 1) \cup {n}
      BY <1>3
    <3>2. lines(n) = lines(n - 1) \cup AlignLines(targets[n], counts, removeOld)
      BY <3>1 DEF ReconcileLines
    <3>3. ASSUME NEW line \in lines(n - 1), line \in AlignLines(targets[n], counts, removeOld) PROVE FALSE
      <4>1. line.op # "fs.rename"
        BY <3>3, AlignLineRead
      <4>2. line # Step(RenameItem(From, To))
        BY <4>1, DiskLines
      <4>3. PICK c \in 1..n - 1 : line \in AlignLines(targets[c], counts, removeOld)
        BY <4>2 DEF ReconcileLines
      <4>4. c \in 1..L /\ c # n
        BY <1>3
      <4>5. targets[c] \in RootsBelow /\ targets[n] \in RootsBelow
        BY <4>4 DEF L
      <4>6. targets[c] = targets[n]
        BY <3>3, <4>3, <4>5, AlignLinesApart
      <4> QED
        BY <4>4, <4>6 DEF Once, L
    <3> QED
      BY <3>2, <3>3
  <2> HIDE DEF lines
  <2>3. ASSUME T # {} PROVE FALSE
    <3>1. T \subseteq Nat
      OBVIOUS
    <3>2. PICK n \in T : \A m \in T : n <= m
      <4> HIDE DEF T
      <4> QED
        BY <2>3, <3>1, Least
    <3>3. n # 0
      BY <2>1, <1>9, <3>2
    <3>4. n \in 1..L /\ n - 1 \in 0..L /\ ~(n <= n - 1)
      BY <1>3, <3>2, <3>3
    <3> DEFINE prev == upTo[n - 1]
    <3>5. Told(prev, lines(n - 1)) /\ Aligned(prev, counts)
      BY <1>15, <3>2, <3>4
    <3>6. upTo[n] = More(prev, n)
      BY <1>9, <3>4
    <3> HIDE DEF prev
    <3>7. PICK b : /\ More(prev, n) = prev \o b /\ Fits(b, targets[n], Len(prev), counts)
                   /\ Told(b, AlignLines(targets[n], counts, removeOld))
      BY <1>5, <3>4, <3>5
    <3>8. prev \in Seq(Fresh) /\ b \in Seq(Fresh)
      BY <3>5, <3>7 DEF Aligned, Fits
    <3>9. Told(prev \o b, lines(n - 1) \cup AlignLines(targets[n], counts, removeOld))
      BY <2>2, <3>4, <3>5, <3>7, <3>8, ToldJoined
    <3> QED
      BY <2>2, <3>2, <3>4, <3>6, <3>7, <3>9
  <2> QED
    BY <2>3 DEF lines
<1>10. Aligned(upTo[L], counts) /\ Ordered(upTo[L], at, L, targets, counts)
  <2>1. L \in 0..L
    BY <1>3
  <2> QED
    BY <1>15, <1>17, <2>1
<1> DEFINE plan == upTo[L]
<1> HIDE DEF plan
<1>20. Told(plan, ReconcileLines(targets, L, counts, removeOld))
  <2>1. L \in 0..L
    BY <1>3
  <2> QED
    BY <1>19, <2>1 DEF plan
<1>18. Ordered(plan, at, L, targets, counts)
  BY <1>10 DEF plan
<1>11. Aligned(plan, counts) /\ plan \in Seq(Fresh)
  BY <1>10 DEF plan, Aligned
<1>12. ASSUME NEW item \in ToSet(plan)
       PROVE  /\ item.op # "fs.delete" /\ Tracked(item)
              /\ Moving(item) => \E t \in RootsBelow : AlignMove(item, t, counts)
              /\ Dropping(item) => \E t \in RootsBelow : AlignDrop(item, t) /\
                   (counts[t].ids # {} => item.dep \in 1..Len(plan) /\ AlignMove(plan[item.dep], t, counts))
  <2>1. PICK k \in 1..Len(plan) : plan[k] = item
    BY <1>11, Members
  <2>6. CASE k = 1
    <3>1. item.op = "fs.rename"
      <4>1. item = RenameItem(From, To)
        BY <1>11, <2>1, <2>6 DEF Aligned
      <4> QED
        BY <1>1, <4>1, RenameMade
    <3> QED
      BY <3>1 DEF Tracked, Moving, Dropping
  <2>2. ASSUME k # 1
        PROVE  \/ Quiet(item)
               \/ \E t \in RootsBelow : AlignMove(item, t, counts)
               \/ \E t \in RootsBelow : AlignDrop(item, t) /\
                    (counts[t].ids # {} => item.dep \in 1..Len(plan) /\ AlignMove(plan[item.dep], t, counts))
    <3>1. k \in 2..Len(plan)
      BY <2>2
    <3> QED
      BY <1>11, <2>1, <3>1 DEF Aligned
  <2>3. CASE Quiet(item)
    BY <2>3 DEF Quiet, Tracked, Moving, Dropping
  <2>4. CASE \E t \in RootsBelow : AlignMove(item, t, counts)
    <3>1. Moving(item)
      BY <2>4 DEF AlignMove
    <3>2. Tracked(item)
      <4>1. PICK t \in RootsBelow : item.args.ids = counts[t].ids
        BY <2>4 DEF AlignMove
      <4> QED
        BY <4>1 DEF Tracked
    <3> QED
      BY <2>4, <3>1, <3>2 DEF Moving, Dropping
  <2>5. CASE \E t \in RootsBelow : AlignDrop(item, t) /\
               (counts[t].ids # {} => item.dep \in 1..Len(plan) /\ AlignMove(plan[item.dep], t, counts))
    <3>1. Dropping(item)
      BY <2>5 DEF AlignDrop
    <3> QED
      BY <2>5, <3>1 DEF Moving, Dropping, Tracked
  <2> QED
    BY <2>2, <2>3, <2>4, <2>5, <2>6
<1>13. ASSUME NEW d \in ToSet(plan), NEW m \in ToSet(plan), Dropping(d), Moving(m)
       PROVE  /\ d.args.at # m.args.to
              /\ m.instance = d.instance /\ m.args.to = RewritePathPrefix(d.args.at, From, To)
                 => d.dep \in DOMAIN plan /\ Moving(plan[d.dep]) /\ m.args.ids \subseteq plan[d.dep].args.ids
  <2>1. PICK t \in RootsBelow :
          AlignDrop(d, t) /\ (counts[t].ids # {} => d.dep \in 1..Len(plan) /\ AlignMove(plan[d.dep], t, counts))
    BY <1>12, <1>13
  <2>2. PICK u \in RootsBelow : AlignMove(m, u, counts)
    BY <1>12, <1>13
  <2>3. PICK i \in Instances, r \in Path : t = <<i, r>> /\ Under(From, r)
    BY <1>2
  <2>4. PICK j \in Instances, s \in Path : u = <<j, s>> /\ Under(From, s)
    BY <1>2
  <2>5. t[1] = i /\ t[2] = r /\ u[1] = j /\ u[2] = s
    BY <2>3, <2>4
  <2>6. d.instance = i /\ d.args.at = r
    BY <2>1, <2>5 DEF AlignDrop
  <2>7. m.instance = j /\ m.args.to = RewritePathPrefix(s, From, To) /\ m.args.ids = counts[u].ids /\ counts[u].ids # {}
    BY <2>2, <2>5 DEF AlignMove
  <2>8. /\ RewritePathPrefix(s, From, To) = RewritePathPrefix(r, From, To) => s = r
        /\ RewritePathPrefix(s, From, To) # r
    <3>1. Path = Seq(STRING)
      BY DEF Path
    <3> QED
      BY <1>1, <2>3, <2>4, <3>1, Rewritten
  <2>9. ASSUME m.instance = d.instance, m.args.to = RewritePathPrefix(d.args.at, From, To)
        PROVE  d.dep \in DOMAIN plan /\ Moving(plan[d.dep]) /\ m.args.ids \subseteq plan[d.dep].args.ids
    <3>1. t = u
      BY <2>3, <2>4, <2>6, <2>7, <2>8, <2>9
    <3>2. d.dep \in 1..Len(plan) /\ AlignMove(plan[d.dep], t, counts)
      BY <2>1, <2>7, <3>1
    <3>3. DOMAIN plan = 1..Len(plan)
      BY <1>11
    <3>4. Moving(plan[d.dep]) /\ plan[d.dep].args.ids = counts[t].ids
      BY <3>2 DEF AlignMove
    <3> QED
      BY <2>7, <3>1, <3>2, <3>3, <3>4
  <2> QED
    BY <2>6, <2>7, <2>8, <2>9
<1>21. Heading(plan)
  <2>1. ASSUME NEW m \in ToSet(plan), Moving(m) PROVE Under(To, m.args.to)
    <3>1. PICK u \in RootsBelow : AlignMove(m, u, counts)
      BY <1>12, <2>1
    <3>2. PICK j \in Instances, s \in Path : u = <<j, s>> /\ Under(From, s)
      BY <1>2
    <3>3. m.args.to = RewritePathPrefix(s, From, To)
      BY <3>1, <3>2 DEF AlignMove
    <3>4. Under(To, RewritePathPrefix(s, From, To))
      BY <1>1, <3>2, UnderRewritten
    <3> QED
      BY <3>3, <3>4
  <2> QED
    BY <2>1 DEF Heading
<1>14. MoveItems(plan)
  BY <1>12, <1>13, <1>21 DEF MoveItems, Gated, Away
<1> QED
  BY <1>4, <1>11, <1>14, <1>16, <1>18, <1>20 DEF plan, L

-------------------------------------------------------------------------------
(* The inductive invariant.                                                  *)

Here(i) == {m \in MediaOf(i) : world.path[m] # <<>>}
Counts == [state : {"loading", "error", "ok"}, ids : SUBSET Media]

\* What is counted of an instance is its, and somewhere.
Typed ==
  /\ world \in World
  /\ idCache \in [Instances -> Counts]
  /\ \A i \in Instances : idCache[i].ids \subseteq Here(i)

\* What is counted in a folder is below it, and all of what is directly in it was
\* counted, but for what was added to From since.
CountedWell(count, i, p) ==
  /\ \A m \in count.ids : Under(p, world.path[m])
  /\ count \notin {Uncounted, Failed} /\ p # From => \A m \in Here(i) : Front(world.path[m]) = p => m \in count.ids

CountedSoFar(counts, kind) ==
  /\ counts \in [Countable(kind) -> Counts]
  /\ \A p \in Countable(kind) : counts[p].ids \subseteq Here(p[1])
  /\ kind = "reconcile" => \A p \in RootsBelow : CountedWell(counts[p], p[1], p[2])

\* Before a chain runs media are where their files are.
Fleet == world.files = world.path

\* Before a chain is confirmed.
Planning ==
  /\ todo = <<>> /\ queue = <<>> /\ Fleet
  /\ \A i \in Instances : IsFiniteSet(world.roots[i])
  /\ dialog = NoDialog \/ \E kind \in Kinds : \E counts : dialog = [kind |-> kind, counts |-> counts] /\ CountedSoFar(counts, kind)

\* What a move has moved is where one of the moves puts it.
Moved(plan) ==
  \A j \in 1..Len(queue) : Moving(queue[j]) /\ queue[j].status = "succeeded" =>
    \A x \in queue[j].args.ids :
      /\ world.path[x] # <<>>
      /\ \E m \in ToSet(plan) : Moving(m) /\ Front(world.path[x]) = m.args.to

Chain(plan) ==
  \/ MoveItems(plan) /\ Moved(plan) /\ (straight /\ alone /\ ~dialog.failed => WellAimed(plan))
  \/ DeleteItems(plan) /\ (alone /\ ~plan[Len(plan)].args.flag => Cleared(plan))

Ended == \E kind, shown, failed : dialog = [kind |-> "staged", of |-> kind, shown |-> shown, failed |-> failed]
Running == Ended /\ \E plan \in Seq(Fresh) : Follows(plan) /\ Chain(plan)

IInv == Typed /\ (Planning \/ Running)

LEMMA IdsHere ==
  ASSUME NEW i, NEW p
  PROVE  IdsIn(i, p) \subseteq Here(i)
  BY DEF IdsIn, Here

LEMMA HereMedia ==
  ASSUME NEW i
  PROVE  Here(i) \subseteq Media
  BY DEF Here, MediaOf

LEMMA CountedTyped ==
  ASSUME NEW ids \in SUBSET Media
  PROVE  Counted(ids) \in Counts /\ Counted(ids).ids = ids
  BY DEF Counted, Counts

LEMMA UncountedTyped ==
  /\ Uncounted \in Counts /\ Uncounted.ids = {}
  /\ Failed \in Counts /\ Failed.ids = {}
  BY DEF Uncounted, Failed, Counts

LEMMA Starts == Init => IInv
<1> SUFFICES ASSUME Init PROVE IInv
  OBVIOUS
<1>1. world \in World /\ (\A i \in Instances : IsFiniteSet(world.roots[i])) /\ Fleet
  BY FirstWorlds DEF Init, Fleet
<1>2. todo = <<>> /\ queue = <<>> /\ dialog = NoDialog
  BY DEF Init
<1>3. CASE idCache = [i \in Instances |-> Uncounted]
  BY <1>1, <1>2, <1>3, UncountedTyped DEF IInv, Typed, Planning
<1>4. CASE idCache = [i \in Instances |-> Counted(IdsIn(i, From))]
  <2>1. ASSUME NEW i \in Instances
        PROVE  idCache[i] \in Counts /\ idCache[i].ids \subseteq Here(i)
    <3>1. IdsIn(i, From) \in SUBSET Media /\ IdsIn(i, From) \subseteq Here(i)
      BY IdsHere, HereMedia
    <3>2. Counted(IdsIn(i, From)) \in Counts /\ Counted(IdsIn(i, From)).ids = IdsIn(i, From)
      BY <3>1, CountedTyped
    <3> QED
      BY <1>4, <3>1, <3>2
  <2>2. idCache \in [Instances -> Counts]
    BY <1>4, <2>1
  <2> QED
    BY <1>1, <1>2, <2>1, <2>2 DEF IInv, Typed, Planning
<1> QED
  BY <1>3, <1>4 DEF Init

\* A medium that is somewhere stays somewhere, and a move puts it where it says.
LEMMA PathAfter ==
  ASSUME world \in World, NEW item \in Items, Tracked(item), NEW m \in Media, NEW w, w = After(item)
  PROVE  /\ world.path[m] # <<>> => w.path[m] # <<>>
         /\ Moving(item) /\ m \in item.args.ids => w.path[m] # <<>> /\ Front(w.path[m]) = item.args.to
         /\ ~(Moving(item) /\ m \in item.args.ids) => w.path[m] = world.path[m]
<1>1. CASE ~Moving(item)
  <2>1. w.path = world.path
    BY <1>1, AfterFrame DEF Moving
  <2> QED
    BY <1>1, <2>1
<1>2. CASE Moving(item)
  <2>1. w.path = [x \in Media |-> IF x \in item.args.ids THEN Rehome(world.path[x], item.args.to) ELSE world.path[x]]
    BY <1>2 DEF Moving, After, World
  <2>2. w.path[m] = IF m \in item.args.ids THEN Rehome(world.path[m], item.args.to) ELSE world.path[m]
    BY <2>1
  <2>3. item.args.to \in Path /\ world.path[m] \in Path
    BY DEF Items, Args, World
  <2>4. CASE m \in item.args.ids
    <3>1. world.path[m] # <<>>
      BY <1>2, <2>4 DEF Tracked, Moving
    <3>2. w.path[m] = Rehome(world.path[m], item.args.to)
      BY <2>2, <2>4
    <3> DEFINE p == world.path[m]
               root == item.args.to
    <3> HIDE DEF p, root
    <3>3. p \in Path /\ p # <<>> /\ root \in Path
      BY <2>3, <3>1 DEF p, root
    <3>4. Rehome(p, root) # <<>> /\ Front(Rehome(p, root)) = root
      BY <3>3, Rehomed
    <3> QED
      BY <1>2, <2>4, <3>2, <3>4 DEF p, root
  <2>5. CASE m \notin item.args.ids
    BY <2>2, <2>5
  <2> QED
    BY <2>4, <2>5
<1> QED
  BY <1>1, <1>2

\* An instance that adds a medium touches nothing else.
LEMMA Added ==
  ASSUME world \in World, ArrAdds
  PROVE  /\ world' \in World /\ world'.roots = world.roots
         /\ \A m \in Media : world.path[m] # <<>> => world'.path[m] = world.path[m]
         /\ world.files = world.path => world'.files = world'.path
         /\ \A m \in Media : world'.path[m] = world.path[m] \/
              (m \in Late /\ world'.path[m] = Append(From, m) /\ Front(world'.path[m]) = From /\ From \in world.roots[Owner[m]])
         /\ alone' = FALSE /\ UNCHANGED <<dialog, idCache, todo, queue, meddling, known, straight>>
<1>1. PICK m \in Late :
        /\ world.path[m] = <<>> /\ From \in world.roots[Owner[m]]
        /\ world' = [world EXCEPT !.path[m] = Append(From, m), !.files[m] = Append(From, m)]
  BY DEF ArrAdds
<1>2. m \in Media /\ m \in STRING /\ From \in Seq(STRING)
  BY ChainBounds, Destination DEF Path
<1> DEFINE p == Append(From, m)
<1>3. p \in Path /\ Front(p) = From
  BY <1>2, FrontOfAppend DEF Path
<1>9. p = Append(From, m)
  OBVIOUS
<1> HIDE DEF p
<1>4. /\ world'.path = [world.path EXCEPT ![m] = p] /\ world'.files = [world.files EXCEPT ![m] = p]
      /\ world'.roots = world.roots /\ world'.list = world.list /\ world'.coll = world.coll /\ world'.dirs = world.dirs
  BY <1>1 DEF p, World
<1>5. world' = [roots |-> world.roots, path |-> [world.path EXCEPT ![m] = p], files |-> [world.files EXCEPT ![m] = p],
                list |-> world.list, coll |-> world.coll, dirs |-> world.dirs]
  BY <1>1 DEF p, World
<1>6. [world.path EXCEPT ![m] = p] \in [Media -> Path] /\ [world.files EXCEPT ![m] = p] \in [Media -> Path]
  BY <1>3 DEF World
<1>7. world' \in World
  BY <1>5, <1>6 DEF World
<1>8. \A x \in Media : world.path[x] # <<>> => world'.path[x] = world.path[x]
  BY <1>1, <1>4 DEF World
<1>10. world.files = world.path => world'.files = world'.path
  BY <1>4
<1>11. ASSUME NEW x \in Media
       PROVE  world'.path[x] = world.path[x] \/
              (x \in Late /\ world'.path[x] = Append(From, x) /\ Front(world'.path[x]) = From /\ From \in world.roots[Owner[x]])
  <2>1. CASE x = m
    <3>1. world'.path[x] = p
      BY <1>2, <1>4, <2>1 DEF World
    <3> QED
      BY <1>1, <1>3, <1>9, <2>1, <3>1
  <2>2. CASE x # m
    BY <1>4, <2>2 DEF World
  <2> QED
    BY <2>1, <2>2
<1> QED
  BY <1>4, <1>7, <1>8, <1>10, <1>11 DEF ArrAdds

\* What an instance has is what it had, when no medium is lost.
LEMMA HereKept ==
  ASSUME \A m \in Media : world.path[m] # <<>> => world'.path[m] # <<>>
  PROVE  \A i : Here(i) \subseteq Here(i)'
  BY DEF Here, MediaOf

\* The steps up to the confirmation.
LEMMA PlanningSteps ==
  ASSUME Typed, Planning, Open \/ CountAnswered \/ CountFailed
  PROVE  Typed' /\ Planning'
<1>1. world' = world /\ todo' = todo /\ queue' = queue
  BY DEF Open, CountAnswered, CountFailed, History
<1>2. /\ \A i : Here(i)' = Here(i)
      /\ \A kind : Countable(kind)' = Countable(kind)
      /\ RootsBelow' = RootsBelow
      /\ \A count, i, p : CountedWell(count, i, p)' <=> CountedWell(count, i, p)
      /\ Fleet'
  <2>1. \A i : Here(i)' = Here(i)
    BY <1>1 DEF Here
  <2>2. RootsBelow' = RootsBelow /\ \A kind : Countable(kind)' = Countable(kind)
    BY <1>1 DEF Countable, RootsBelow
  <2>3. \A count, i, p : CountedWell(count, i, p)' <=> CountedWell(count, i, p)
    BY <1>1, <2>1 DEF CountedWell
  <2>4. Fleet'
    BY <1>1 DEF Fleet, Planning
  <2> QED
    BY <2>1, <2>2, <2>3, <2>4
<1>3. CASE Open
  <2>1. PICK kind \in Kinds : dialog' = [kind |-> kind, counts |-> [p \in Countable(kind) |-> Uncounted]]
    BY <1>3 DEF Open
  <2>4. PICK counts : counts = [p \in Countable(kind) |-> Uncounted] /\ dialog' = [kind |-> kind, counts |-> counts]
    BY <2>1
  <2>2. CountedSoFar(counts, kind)
    <3>1. \A p \in Countable(kind) : counts[p] = Uncounted
      BY <2>4
    <3>2. kind = "reconcile" => Countable(kind) = RootsBelow
      BY DEF Countable
    <3>3. \A i, p : CountedWell(Uncounted, i, p)
      BY UncountedTyped DEF CountedWell
    <3> QED
      BY <2>4, <3>1, <3>2, <3>3, UncountedTyped DEF CountedSoFar
  <2>3. CountedSoFar(counts, kind)'
    BY <1>2, <2>2 DEF CountedSoFar
  <2>5. idCache' = idCache
    BY <1>3 DEF Open
  <2>6. Planning'
    BY <1>1, <1>2, <2>3, <2>4 DEF Planning
  <2>7. Typed'
    BY <1>1, <1>2, <2>5 DEF Typed
  <2> QED
    BY <2>6, <2>7
<1>4. CASE CountAnswered \/ CountFailed
  <2>0. dialog.kind \in {"remap", "reconcile"}
    BY <1>4 DEF CountAnswered, CountFailed
  <2>6. PICK kind \in Kinds : \E counts : dialog = [kind |-> kind, counts |-> counts] /\ CountedSoFar(counts, kind)
    BY <2>0 DEF Planning, NoDialog
  <2>1. PICK counts : dialog = [kind |-> kind, counts |-> counts] /\ CountedSoFar(counts, kind)
    BY <2>6
  <2>2. dialog.kind = kind /\ dialog.counts = counts /\ DOMAIN counts = Countable(kind)
    BY <2>1 DEF CountedSoFar
  <2>3. ASSUME NEW p \in Countable(kind), NEW count \in Counts, count.ids \subseteq Here(p[1]),
               kind = "reconcile" => CountedWell(count, p[1], p[2]),
               dialog' = [dialog EXCEPT !.counts[p] = count]
        PROVE  Planning'
    <3> DEFINE next == [counts EXCEPT ![p] = count]
    <3>1. dialog' = [kind |-> kind, counts |-> next]
      BY <2>1, <2>3
    <3>2. next \in [Countable(kind) -> Counts]
      BY <2>1, <2>3 DEF CountedSoFar
    <3>3. \A q \in Countable(kind) : next[q] = IF q = p THEN count ELSE counts[q]
      BY <2>2
    <3> HIDE DEF next
    <3>6. kind = "reconcile" => Countable(kind) = RootsBelow
      BY DEF Countable
    <3>4. CountedSoFar(next, kind)
      BY <2>1, <2>3, <3>2, <3>3, <3>6 DEF CountedSoFar
    <3>5. CountedSoFar(next, kind)'
      BY <1>2, <3>4 DEF CountedSoFar, next
    <3> QED
      BY <1>1, <1>2, <3>1, <3>5 DEF Planning
  <2>4. CASE CountFailed
    <3>1. PICK p \in Countable(kind) : dialog' = [dialog EXCEPT !.counts[p] = Failed]
      BY <2>2, <2>4 DEF CountFailed
    <3>4. CountedWell(Failed, p[1], p[2])
      BY UncountedTyped DEF CountedWell
    <3>2. Planning'
      BY <2>3, <3>1, <3>4, UncountedTyped
    <3>3. idCache' = idCache
      BY <2>4 DEF CountFailed
    <3> QED
      BY <1>1, <1>2, <3>2, <3>3 DEF Typed
  <2>5. CASE CountAnswered
    <3> DEFINE answer(p) == IF dialog.kind = "remap" THEN CachedIds(p[1]) ELSE IdsIn(p[1], p[2])
    <3>1. PICK p \in Countable(kind) :
            /\ dialog' = [dialog EXCEPT !.counts[p] = Counted(answer(p))]
            /\ idCache' = IF dialog.kind = "remap" THEN [idCache EXCEPT ![p[1]] = Counted(answer(p))] ELSE idCache
      BY <2>2, <2>5 DEF CountAnswered
    <3>2. p[1] \in Instances
      <4>1. kind = "remap" \/ kind = "reconcile"
        BY <2>0, <2>2
      <4>2. RootsBelow \subseteq Instances \X Path
        BY DEF RootsBelow, Typed, World
      <4> QED
        BY <4>1, <4>2 DEF Countable
    <3>3. CachedIds(p[1]) \subseteq Here(p[1])
      BY <3>2, IdsHere DEF CachedIds, Typed
    <3> DEFINE ids == answer(p)
    <3>4. ids \subseteq Here(p[1]) /\ ids \in SUBSET Media
      BY <3>3, IdsHere, HereMedia
    <3> HIDE DEF answer
    <3> HIDE DEF ids
    <3>5. Counted(ids) \in Counts /\ Counted(ids).ids = ids
      BY <3>4, CountedTyped
    <3>10. kind = "reconcile" => CountedWell(Counted(ids), p[1], p[2])
      <4> SUFFICES ASSUME kind = "reconcile" PROVE CountedWell(Counted(ids), p[1], p[2])
        OBVIOUS
      <4>1. ids = IdsIn(p[1], p[2])
        BY <2>2 DEF ids, answer
      <4>2. \A m \in ids : Under(p[2], world.path[m])
        BY <4>1 DEF IdsIn
      <4>3. ASSUME NEW m \in Here(p[1]), Front(world.path[m]) = p[2] PROVE m \in ids
        <5>1. m \in MediaOf(p[1]) /\ world.path[m] # <<>> /\ world.path[m] \in Path
          BY <4>3 DEF Here, MediaOf, Typed, World
        <5>2. Under(p[2], world.path[m])
          BY <4>3, <5>1, TakenApart
        <5> QED
          BY <4>1, <5>1, <5>2 DEF IdsIn
      <4> QED
        BY <3>5, <4>2, <4>3 DEF CountedWell
    <3>6. Planning'
      BY <2>3, <3>1, <3>4, <3>5, <3>10 DEF ids
    <3>7. idCache' \in [Instances -> Counts]
      BY <3>1, <3>5 DEF Typed, ids
    <3>8. \A i \in Instances : idCache'[i] = IF dialog.kind = "remap" /\ i = p[1] THEN Counted(ids) ELSE idCache[i]
      BY <3>1, <3>2 DEF Typed, ids
    <3>9. \A i \in Instances : idCache'[i].ids \subseteq Here(i)
      BY <3>4, <3>5, <3>8 DEF Typed
    <3> QED
      BY <1>1, <1>2, <3>6, <3>7, <3>9 DEF Typed
  <2> QED
    BY <1>4, <2>4, <2>5
<1> QED
  BY <1>3, <1>4

\* What a confirmation leaves to be sent is a plan, none of it staged yet.
LEMMA StagedRuns ==
  ASSUME queue = <<>>, NEW plan \in Seq(Fresh), NEW batches, Cut(plan, 0, batches),
         NEW shown, Staged(batches, shown), queue' = queue
  PROVE  Follows(plan)' /\ Ended' /\ alone' = TRUE
<1>1. todo' = batches /\ queue' = <<>> /\ alone' = TRUE
  BY DEF Staged
<1>2. Ended'
  BY DEF Staged, Ended
<1>3. queue' \in Seq(Items) /\ Len(queue') = 0
  BY <1>1
<1>4. plan \in Seq(Items) /\ Len(plan) \in Nat
  BY FreshItems
<1>5. Len(queue') <= Len(plan)
  BY <1>3, <1>4
<1>6. \A k \in 1..Len(queue') : Same(queue'[k], plan[k])
  BY <1>3
<1>7. todo' # <<>> => Cut(plan, Len(queue'), todo')
  BY <1>1, <1>3
<1> QED
  BY <1>1, <1>2, <1>3, <1>5, <1>6, <1>7 DEF Follows

\* The targets of a reconcile: the root folders of the instances chosen at or below
\* From, each once, an inner one behind the outer ones of its instance.
OutermostFirst(targets, chosen) ==
  /\ targets \in Seq(RootsBelow)
  /\ \A p \in RootsBelow : p[1] \in chosen => \E c \in 1..Len(targets) : targets[c] = p
  /\ \A c \in 1..Len(targets) : targets[c][1] \in chosen
  /\ \A c, d \in 1..Len(targets) : targets[c] = targets[d] => c = d
  /\ \A c, d \in 1..Len(targets) : c < d /\ targets[c][1] = targets[d][1] => Len(targets[c][2]) <= Len(targets[d][2])

LEMMA TargetsSorted ==
  ASSUME \A i \in Instances : IsFiniteSet(world.roots[i]), NEW chosen, NEW targets \in AlignTargets(chosen)
  PROVE  OutermostFirst(targets, chosen)
<1> DEFINE S == {p \in RootsBelow : p[1] \in chosen}
           size == Cardinality(S)
<1>1. IsFiniteSet(S)
  <2>1. IsFiniteSet(RootsBelow)
    BY RootsFinite
  <2> QED
    BY <2>1, FS_Subset
<1>2. targets \in SetToSeqs(S)
  BY DEF AlignTargets
<1>3. \A c, d \in DOMAIN targets : c < d /\ targets[c][1] = targets[d][1] => Len(targets[c][2]) <= Len(targets[d][2])
  BY DEF AlignTargets
<1>4. S \subseteq RootsBelow /\ \A p \in S : p[1] \in chosen
  OBVIOUS
<1>5. \A p \in RootsBelow : p[1] \in chosen => p \in S
  OBVIOUS
<1> HIDE DEF S
<1>6. size \in Nat
  BY <1>1, FS_CardinalityType
<1>7. targets \in Injection(1..size, S)
  BY <1>2 DEF SetToSeqs, Injection, IsInjective
<1>8. targets \in Surjection(1..size, S)
  <2>1. Cardinality(1..size) = size
    BY <1>6, FS_Interval
  <2> QED
    BY <1>1, <1>7, <2>1, FS_Injection
<1> HIDE DEF size
<1>9. targets \in [1..size -> S] /\ IsInjective(targets)
  BY <1>7 DEF Injection
<1>10. targets \in Seq(S) /\ Len(targets) = size /\ DOMAIN targets = 1..size
  BY <1>6, <1>9
<1>11. \A p \in S : \E c \in 1..size : targets[c] = p
  BY <1>8 DEF Surjection
<1>12. \A c, d \in 1..size : targets[c] = targets[d] => c = d
  BY <1>9, <1>10 DEF IsInjective
<1>13. targets \in Seq(RootsBelow) /\ \A c \in 1..size : targets[c][1] \in chosen
  BY <1>4, <1>6, <1>9, <1>10
<1> QED
  BY <1>3, <1>5, <1>10, <1>11, <1>12, <1>13 DEF OutermostFirst

\* A medium directly in a root folder that a reconcile moves is moved, last of all, out
\* of that root folder.
LEMMA LandsLast ==
  ASSUME world \in World, NEW counts, CountedSoFar(counts, "reconcile"),
         \A p \in RootsBelow : counts[p] \notin {Uncounted, Failed},
         NEW chosen, NEW targets, OutermostFirst(targets, chosen),
         NEW plan \in Seq(Fresh), NEW at \in [1..Len(targets) -> Nat], Ordered(plan, at, Len(targets), targets, counts),
         NEW a \in 1..Len(plan), NEW x \in Direct, Moves(plan[a], x)
  PROVE  /\ x \in Media /\ world.path[x] # <<>> /\ Under(From, Front(world.path[x]))
         /\ \E k \in 1..Len(plan) : Lands(plan, k, x) /\ plan[k].args.to = RewritePathPrefix(Front(world.path[x]), From, To)
<1> DEFINE L == Len(targets)
           p == world.path[x]
           f == Front(p)
<1>1. L \in Nat /\ \A c \in 1..L : targets[c] \in RootsBelow /\ at[c] \in Nat
  BY DEF OutermostFirst
<1>2. ASSUME NEW t \in RootsBelow
      PROVE  \E i \in Instances : \E r \in Path : t = <<i, r>> /\ r \in world.roots[i] /\ Under(From, r)
  BY DEF RootsBelow, World
<1>3. ASSUME NEW t \in RootsBelow
      PROVE  counts[t].ids \subseteq Here(t[1]) /\ CountedWell(counts[t], t[1], t[2])
  <2>1. Countable("reconcile") = RootsBelow
    BY DEF Countable
  <2> QED
    BY <2>1 DEF CountedSoFar
<1>4. ASSUME NEW k \in 1..Len(plan), Moves(plan[k], x)
      PROVE  \E c \in 1..L : /\ k = at[c] /\ AlignMove(plan[k], targets[c], counts)
                             /\ x \in counts[targets[c]].ids
  <2>1. PICK c \in 1..L : k = at[c] /\ AlignMove(plan[k], targets[c], counts)
    BY <1>4 DEF Ordered, Moves
  <2> QED
    BY <1>4, <2>1 DEF AlignMove, Moves
\* A root folder the medium is counted in is at or above the one it is directly in.
<1>5. ASSUME NEW c \in 1..L, x \in counts[targets[c]].ids
      PROVE  /\ x \in Media /\ p # <<>> /\ p \in Path /\ targets[c][1] = Owner[x] /\ f \in world.roots[Owner[x]]
             /\ Owner[x] \in Instances /\ targets[c] = <<Owner[x], targets[c][2]>>
             /\ Under(From, f) /\ (Len(f) <= Len(targets[c][2]) => targets[c][2] = f)
  <2>1. PICK i \in Instances, r \in Path : targets[c] = <<i, r>> /\ r \in world.roots[i] /\ Under(From, r)
    BY <1>1, <1>2
  <2>2. x \in Here(i) /\ Under(r, p)
    <3>1. targets[c][1] = i /\ targets[c][2] = r
      BY <2>1
    <3>2. targets[c] \in RootsBelow
      BY <1>1
    <3> QED
      BY <1>3, <1>5, <3>1, <3>2 DEF CountedWell
  <2>3. x \in Media /\ Owner[x] = i /\ p # <<>> /\ p \in Path
    BY <2>2 DEF Here, MediaOf, World
  <2>4. f \in world.roots[i] /\ p \notin world.roots[i]
    BY <2>3 DEF Direct
  <2>5. r # p
    BY <2>1, <2>4
  <2>6. From \in Path /\ f \in Path
    BY <2>3, TakenApart, Destination
  <2>7. Under(r, f) /\ (Len(f) <= Len(r) => r = f)
    <3> HIDE DEF p
    <3> QED
      BY <2>1, <2>2, <2>3, <2>5, BelowFront
  <2>8. Under(From, f)
    <3> HIDE DEF f
    <3> QED
      BY <2>1, <2>6, <2>7, UnderAcross
  <2> QED
    BY <2>1, <2>3, <2>4, <2>7, <2>8
<1>6. PICK b \in 1..L : a = at[b] /\ AlignMove(plan[a], targets[b], counts) /\ x \in counts[targets[b]].ids
  BY <1>4
<1>7. /\ x \in Media /\ p # <<>> /\ p \in Path /\ targets[b][1] = Owner[x] /\ f \in world.roots[Owner[x]] /\ Owner[x] \in Instances
      /\ Under(From, f)
  BY <1>5, <1>6
<1> DEFINE home == <<Owner[x], f>>
<1>8. home \in RootsBelow /\ home[1] = Owner[x] /\ home[2] = f
  BY <1>7 DEF RootsBelow
<1>9. PICK e \in 1..L : targets[e] = home
  BY <1>6, <1>7, <1>8 DEF OutermostFirst
<1>10. x \in counts[home].ids
  <2>1. CASE f = From
    <3>1. PICK i \in Instances, r \in Path : targets[b] = <<i, r>> /\ Under(From, r)
      BY <1>1, <1>2
    <3>2. Len(From) <= Len(r)
      <4>1. From \in Seq(STRING) /\ r \in Seq(STRING)
        BY Destination DEF Path
      <4> QED
        BY <3>1, <4>1, UnderRead
    <3>5. Len(f) <= Len(targets[b][2])
      <4>1. targets[b][2] = r
        BY <3>1
      <4> QED
        BY <2>1, <3>2, <4>1
    <3>3. targets[b][2] = f
      <4> HIDE DEF f
      <4> QED
        BY <1>5, <1>6, <3>5
    <3>4. targets[b] = home
      BY <1>5, <1>6, <3>3
    <3> QED
      BY <1>6, <3>4
  <2>2. CASE f # From
    <3>1. x \in Here(Owner[x])
      BY <1>7 DEF Here, MediaOf
    <3>2. CountedWell(counts[home], Owner[x], f) /\ counts[home] \notin {Uncounted, Failed}
      <4> HIDE DEF home
      <4> QED
        BY <1>3, <1>8
    <3> QED
      BY <2>2, <3>1, <3>2 DEF CountedWell
  <2> QED
    BY <2>1, <2>2
<1> HIDE DEF home, f, p
<1>11. at[e] \in 1..Len(plan) /\ AlignMove(plan[at[e]], home, counts)
  <2>1. counts[targets[e]].ids # {}
    BY <1>9, <1>10
  <2> QED
    BY <1>9, <2>1 DEF Ordered
<1>12. Moves(plan[at[e]], x) /\ plan[at[e]].args.to = RewritePathPrefix(f, From, To)
  BY <1>8, <1>10, <1>11 DEF AlignMove, Moves
<1>13. ASSUME NEW j \in 1..Len(plan), Moves(plan[j], x) PROVE j <= at[e]
  <2>1. PICK d \in 1..L : j = at[d] /\ x \in counts[targets[d]].ids
    BY <1>4, <1>13
  <2>2. targets[d][1] = Owner[x] /\ targets[d] = <<Owner[x], targets[d][2]>> /\ (Len(f) <= Len(targets[d][2]) => targets[d][2] = f)
    BY <1>5, <2>1
  <2>3. CASE d < e
    BY <1>1, <2>1, <2>3 DEF Ordered
  <2>4. CASE d = e
    BY <1>1, <2>1, <2>4
  <2>5. CASE e < d
    <3>1. Len(f) <= Len(targets[d][2])
      BY <1>8, <1>9, <2>2, <2>5 DEF OutermostFirst
    <3>2. targets[d] = targets[e]
      BY <1>9, <2>2, <3>1 DEF home
    <3>3. d = e
      BY <3>2 DEF OutermostFirst
    <3> QED
      BY <1>1, <2>5, <3>3
  <2> QED
    BY <1>1, <2>3, <2>4, <2>5
<1>14. Lands(plan, at[e], x)
  BY <1>11, <1>12, <1>13 DEF Lands
<1>15. x \in Media /\ p # <<>> /\ Under(From, f)
  BY <1>7
<1> QED
  BY <1>11, <1>12, <1>14, <1>15 DEF f, p

\* Where a reconcile leads: each medium to the path the rename gives its files.
LEMMA ReconcileLeads ==
  ASSUME world \in World, Fleet, queue = <<>>, NEW counts, CountedSoFar(counts, "reconcile"),
         \A p \in RootsBelow : counts[p] \notin {Uncounted, Failed},
         NEW chosen, NEW targets, OutermostFirst(targets, chosen),
         NEW plan \in Seq(Fresh), Aligned(plan, counts),
         NEW at \in [1..Len(targets) -> Nat], Ordered(plan, at, Len(targets), targets, counts)
  PROVE  Owned(plan) /\ Settles(plan) /\ \E goal : Guided(plan, goal) /\ Led(plan, goal) /\ Direct \subseteq DOMAIN goal
<1> DEFINE goal == [m \in Direct |-> RewritePathPrefix(world.path[m], From, To)]
<1>1. From \in Path /\ To \in Path /\ Len(targets) \in Nat /\ Len(plan) \in Nat
  BY Destination DEF OutermostFirst
<1>2. DOMAIN goal = Direct /\ Direct \subseteq Media /\ goal \in [Direct -> Path]
  <2>1. ASSUME NEW m \in Direct PROVE RewritePathPrefix(world.path[m], From, To) \in Path
    <3>1. world.path[m] \in Path
      BY <2>1 DEF Direct, World
    <3> QED
      BY <1>1, <3>1, RewrittenTyped
  <2> QED
    BY <2>1 DEF Direct
<1>3. ASSUME NEW a \in 1..Len(plan), Moving(plan[a])
      PROVE  /\ ~plan[a].args.flag /\ plan[a].instance \in Instances
             /\ \A x \in plan[a].args.ids : Owner[x] = plan[a].instance
  <2>1. PICK c \in 1..Len(targets) : AlignMove(plan[a], targets[c], counts)
    BY <1>3 DEF Ordered
  <2>2. targets[c] \in RootsBelow
    BY DEF OutermostFirst
  <2>3. targets[c][1] \in Instances
    BY <2>2 DEF RootsBelow
  <2>4. counts[targets[c]].ids \subseteq Here(targets[c][1])
    <3>1. Countable("reconcile") = RootsBelow
      BY DEF Countable
    <3> QED
      BY <2>2, <3>1 DEF CountedSoFar
  <2> QED
    BY <2>1, <2>3, <2>4 DEF AlignMove, Here, MediaOf
<1>4. Owned(plan)
  BY <1>3 DEF Owned
<1>5. Settles(plan)
  BY DEF Settles, Ordered
<1>6. 1 \in 1..Len(plan) /\ Renaming(plan[1]) /\ plan[1].args.at = From /\ plan[1].args.to = To
  <2>1. 1 \in 1..Len(plan) /\ plan[1] = RenameItem(From, To)
    BY DEF Aligned
  <2> QED
    BY <1>1, <2>1, RenameMade DEF Renaming
<1>7. ASSUME NEW a \in 1..Len(plan), Renaming(plan[a]) PROVE a = 1
  <2>1. ASSUME a # 1 PROVE FALSE
    <3>1. a \in 2..Len(plan)
      BY <1>1, <2>1
    <3>2. \/ Quiet(plan[a])
          \/ \E t \in RootsBelow : AlignMove(plan[a], t, counts)
          \/ \E t \in RootsBelow : AlignDrop(plan[a], t)
      BY <3>1 DEF Aligned
    <3> QED
      BY <1>7, <3>2 DEF Renaming, Quiet, AlignMove, AlignDrop, Moving, Dropping
  <2> QED
    BY <2>1
<1>8. ASSUME NEW a \in 1..Len(plan), NEW x \in Direct, Moves(plan[a], x)
      PROVE  /\ goal[x] # <<>> /\ Last(world.path[x]) = Last(goal[x])
             /\ RewritePathPrefix(world.files[x], From, To) = goal[x]
             /\ \E k \in 1..Len(plan) : Lands(plan, k, x) /\ plan[k].args.to = Front(goal[x])
  <2> DEFINE p == world.path[x]
             f == Front(p)
             to == RewritePathPrefix(f, From, To)
  <2>1. /\ x \in Media /\ p # <<>> /\ Under(From, f)
        /\ \E k \in 1..Len(plan) : Lands(plan, k, x) /\ plan[k].args.to = to
    BY <1>8, LandsLast
  <2>2. p \in Path /\ goal[x] = RewritePathPrefix(p, From, To) /\ world.files[x] = p
    BY <2>1 DEF World, Fleet
  <2> HIDE DEF p, goal
  <2>3. f \in Path /\ Last(p) \in STRING /\ p = Append(f, Last(p))
    BY <2>1, <2>2, TakenApart
  <2>4. to \in Path
    <3> HIDE DEF f
    <3> QED
      BY <1>1, <2>3, RewrittenTyped
  <2>5. RewritePathPrefix(Append(f, Last(p)), From, To) = Append(to, Last(p))
    <3> DEFINE y == Last(p)
    <3> HIDE DEF f, y
    <3>1. y \in STRING /\ f \in Path /\ Under(From, f)
      BY <2>1, <2>3 DEF y
    <3>2. RewritePathPrefix(Append(f, y), From, To) = Append(to, y)
      BY <1>1, <3>1, RenamedInside
    <3> QED
      BY <3>2 DEF y
  <2>6. goal[x] = Append(to, Last(p))
    BY <2>2, <2>3, <2>5
  <2>7. goal[x] # <<>> /\ Front(goal[x]) = to /\ Last(goal[x]) = Last(p)
    <3> DEFINE y == Last(p)
    <3> HIDE DEF to, y
    <3>1. to \in Seq(STRING) /\ y \in STRING /\ goal[x] = Append(to, y)
      BY <2>3, <2>4, <2>6 DEF y, Path
    <3>2. goal[x] # <<>> /\ Front(goal[x]) = to /\ Last(goal[x]) = y
      BY <3>1, FrontOfAppend
    <3> QED
      BY <3>2 DEF y
  <2> QED
    BY <2>1, <2>2, <2>7 DEF p
<1> HIDE DEF goal
<1>9. Guided(plan, goal)
  BY <1>2, <1>3, <1>6, <1>7, <1>8 DEF Guided
<1>10. Led(plan, goal)
  <2>1. \A k : Waiting(k)
    BY DEF Waiting
  <2> QED
    BY <1>2, <1>8, <2>1 DEF Led
<1> QED
  BY <1>2, <1>4, <1>5, <1>9, <1>10

\* A plan none of which is staged yet is aimed.
LEMMA AimedFirst ==
  ASSUME NEW plan \in Seq(Items), queue = <<>>, queue' = queue, world' = world, Cut(plan, 0, todo'),
         Owned(plan), Settles(plan),
         \/ Carried(plan) /\ world.files = world.path
         \/ \E goal : Guided(plan, goal) /\ Led(plan, goal) /\ known'.direct \subseteq DOMAIN goal
  PROVE  WellAimed(plan)'
<1>1. \A k : Waiting(k) /\ Waiting(k)'
  BY DEF Waiting
<1>2. InTurn'
  BY DEF InTurn
<1>3. Homed(plan)'
  BY <1>1 DEF Homed, Settles
<1>4. ASSUME todo' = <<>> PROVE Len(queue') = Len(plan)
  <2>1. Len(todo') = 0 /\ Len(queue') = 0
    BY <1>4
  <2> QED
    BY <2>1 DEF Cut
<1>5. \A goal : Guided(plan, goal) /\ Led(plan, goal) => Guided(plan, goal)' /\ Led(plan, goal)'
  BY <1>1 DEF Guided, Led
<1> QED
  BY <1>2, <1>3, <1>4, <1>5 DEF WellAimed, Owned, Carried

\* The confirmations: a remap, with the plan that is staged.
RemapMade(chosen, ids, removeOld, relist, recollect, plan) ==
  /\ chosen \in SUBSET Instances /\ chosen \subseteq Candidates /\ ids = [i \in chosen |-> CachedIds(i)]
  /\ idCache' = [i \in Instances |-> IF i \in chosen THEN Counted(ids[i]) ELSE idCache[i]]
  /\ Staged(RemapPlan(chosen, ids, To \notin world.dirs, removeOld, relist, recollect),
            ShownRemap(chosen, To \notin world.dirs, removeOld, relist))
  /\ Cut(plan, 0, RemapPlan(chosen, ids, To \notin world.dirs, removeOld, relist, recollect))
  /\ MoveItems(plan) /\ Carried(plan) /\ Owned(plan) /\ Settles(plan)
  /\ Told(plan, RemapLines(chosen, ids, To \notin world.dirs, removeOld, relist))

LEMMA RemapChosen ==
  ASSUME Typed, Planning, ConfirmRemap
  PROVE  \E chosen, ids, removeOld, relist, recollect : \E plan \in Seq(Fresh) :
           RemapMade(chosen, ids, removeOld, relist, recollect, plan)
<1>1. world' = world /\ queue' = queue /\ queue = <<>> /\ dialog.kind = "remap"
  BY DEF ConfirmRemap, Planning
<1>2. PICK counts : dialog = [kind |-> "remap", counts |-> counts] /\ CountedSoFar(counts, "remap")
  BY <1>1 DEF Planning, NoDialog
<1>3. Candidates \subseteq Instances
  <2>1. Candidates = {p[1] : p \in DOMAIN counts}
    BY <1>2 DEF Candidates
  <2>2. DOMAIN counts = Countable("remap")
    BY <1>2 DEF CountedSoFar
  <2>3. \A p \in Countable("remap") : p[1] \in Instances
    BY DEF Countable
  <2> QED
    BY <2>1, <2>2, <2>3
<1>4. PICK chosen \in SUBSET Candidates, removeOld \in BOOLEAN, relist \in BOOLEAN, recollect \in BOOLEAN :
        /\ idCache' = [i \in Instances |-> IF i \in chosen THEN Counted([j \in chosen |-> CachedIds(j)][i]) ELSE idCache[i]]
        /\ Staged(RemapPlan(chosen, [j \in chosen |-> CachedIds(j)], To \notin world.dirs, removeOld, relist, recollect),
                  ShownRemap(chosen, To \notin world.dirs, removeOld, relist))
  BY DEF ConfirmRemap
<1>5. PICK ids : ids = [j \in chosen |-> CachedIds(j)]
  OBVIOUS
<1>6. \A i \in Instances : CachedIds(i) \subseteq Here(i) /\ CachedIds(i) \in SUBSET Media
  BY IdsHere, HereMedia DEF CachedIds, Typed
<1>7. chosen \in SUBSET Instances
  BY <1>3
<1>8. /\ ids \in [chosen -> SUBSET Ids]
      /\ \A i \in chosen : \A m \in ids[i] : m \in Media /\ world.path[m] # <<>> /\ Owner[m] = i
  <2>1. \A i \in chosen : ids[i] = CachedIds(i)
    BY <1>5
  <2>2. Media \subseteq Ids
    BY ChainBounds
  <2>3. \A i \in chosen : ids[i] \in SUBSET Ids
    BY <1>6, <1>7, <2>1, <2>2
  <2>4. ids \in [chosen -> SUBSET Ids]
    BY <1>5, <2>1, <2>3
  <2> QED
    BY <1>6, <1>7, <2>1, <2>4 DEF Here, MediaOf
<1>9. PICK plan \in Seq(Fresh) :
        /\ Cut(plan, 0, RemapPlan(chosen, ids, To \notin world.dirs, removeOld, relist, recollect)) /\ MoveItems(plan)
        /\ Carried(plan) /\ Owned(plan) /\ Settles(plan)
        /\ Told(plan, RemapLines(chosen, ids, To \notin world.dirs, removeOld, relist))
  <2>1. (To \notin world.dirs) \in BOOLEAN /\ world \in World
    BY DEF Typed
  <2> QED
    BY <1>7, <1>8, <2>1, RemapPlanned
<1>10. RemapMade(chosen, ids, removeOld, relist, recollect, plan)
  BY <1>4, <1>5, <1>7, <1>9 DEF RemapMade
<1> QED
  BY <1>10

LEMMA RemapConfirmed ==
  ASSUME Typed, Planning, ConfirmRemap
  PROVE  Typed' /\ Running'
<1>1. world' = world /\ queue' = queue /\ queue = <<>>
  BY DEF ConfirmRemap, Planning
<1>2. \A i \in Instances : CachedIds(i) \subseteq Here(i) /\ CachedIds(i) \in SUBSET Media
  BY IdsHere, HereMedia DEF CachedIds, Typed
<1>3. PICK chosen, ids, removeOld, relist, recollect : \E plan \in Seq(Fresh) :
        RemapMade(chosen, ids, removeOld, relist, recollect, plan)
  BY RemapChosen
<1>4. PICK plan \in Seq(Fresh) : RemapMade(chosen, ids, removeOld, relist, recollect, plan)
  BY <1>3
<1>5. /\ MoveItems(plan) /\ Carried(plan) /\ Owned(plan) /\ Settles(plan)
      /\ Cut(plan, 0, RemapPlan(chosen, ids, To \notin world.dirs, removeOld, relist, recollect))
      /\ Staged(RemapPlan(chosen, ids, To \notin world.dirs, removeOld, relist, recollect),
                ShownRemap(chosen, To \notin world.dirs, removeOld, relist))
      /\ idCache' = [i \in Instances |-> IF i \in chosen THEN Counted(CachedIds(i)) ELSE idCache[i]]
  BY <1>4 DEF RemapMade
<1>10. Follows(plan)' /\ Ended'
  BY <1>1, <1>5, StagedRuns
<1>11. MoveItems(plan)' /\ Moved(plan)'
  <2>1. MoveItems(plan)'
    BY <1>1, <1>5 DEF MoveItems, Tracked, Gated, Away, Heading
  <2>2. Moved(plan)'
    BY <1>1 DEF Moved
  <2> QED
    BY <2>1, <2>2
<1>14. WellAimed(plan)'
  <2>1. plan \in Seq(Items)
    BY FreshItems
  <2>2. Cut(plan, 0, todo')
    BY <1>5 DEF Staged
  <2>3. world.files = world.path
    BY DEF Planning, Fleet
  <2> QED
    BY <1>1, <1>5, <2>1, <2>2, <2>3, AimedFirst
<1>12. Running'
  BY <1>10, <1>11, <1>14 DEF Running, Chain
<1>13. Typed'
  <2>1. ASSUME NEW i \in Instances
        PROVE  idCache'[i] \in Counts /\ idCache'[i].ids \subseteq Here(i)
    <3>1. CASE i \in chosen
      <4>1. idCache'[i] = Counted(CachedIds(i))
        BY <1>5, <3>1
      <4>2. Counted(CachedIds(i)) \in Counts /\ Counted(CachedIds(i)).ids = CachedIds(i)
        BY <1>2, CountedTyped
      <4> QED
        BY <1>2, <4>1, <4>2
    <3>2. CASE i \notin chosen
      <4>1. idCache'[i] = idCache[i]
        BY <1>5, <3>2
      <4> QED
        BY <4>1 DEF Typed
    <3> QED
      BY <3>1, <3>2
  <2>2. idCache' \in [Instances -> Counts]
    <3>1. idCache' = [i \in Instances |-> idCache'[i]]
      BY <1>5
    <3> QED
      BY <2>1, <3>1
  <2>3. \A i : Here(i)' = Here(i)
    BY <1>1 DEF Here
  <2> QED
    BY <1>1, <2>1, <2>2, <2>3 DEF Typed
<1> QED
  BY <1>12, <1>13

\* A reconcile.
ReconcileMade(chosen, targets, counts, removeOld, plan) ==
  /\ removeOld \in BOOLEAN /\ chosen \subseteq Candidates /\ OutermostFirst(targets, chosen)
  /\ dialog.counts = counts /\ CountedSoFar(counts, "reconcile")
  /\ Staged(ReconcilePlan(targets, counts, removeOld), ShownReconcile(chosen, removeOld))
  /\ Cut(plan, 0, ReconcilePlan(targets, counts, removeOld)) /\ MoveItems(plan)
  /\ Aligned(plan, counts) /\ \E at \in [1..Len(targets) -> Nat] : Ordered(plan, at, Len(targets), targets, counts)
  /\ Told(plan, ReconcileLines(targets, Len(targets), counts, removeOld))

LEMMA ReconcileChosen ==
  ASSUME Typed, Planning, ConfirmReconcile
  PROVE  \E chosen, targets, counts, removeOld : \E plan \in Seq(Fresh) :
           ReconcileMade(chosen, targets, counts, removeOld, plan)
<1>1. world' = world /\ queue' = queue /\ idCache' = idCache /\ queue = <<>> /\ dialog.kind = "reconcile"
  BY DEF ConfirmReconcile, Planning
<1>2. PICK counts : dialog = [kind |-> "reconcile", counts |-> counts] /\ CountedSoFar(counts, "reconcile")
  BY <1>1 DEF Planning, NoDialog
<1>3. dialog.counts = counts /\ "reconcile" \in Kinds
  BY <1>1, <1>2 DEF Planning, NoDialog
<1>4. PICK removeOld \in BOOLEAN : \E chosen \in SUBSET Candidates : \E targets \in AlignTargets(chosen) :
        Staged(ReconcilePlan(targets, counts, removeOld), ShownReconcile(chosen, removeOld))
  BY <1>3 DEF ConfirmReconcile
<1>13. PICK chosen \in SUBSET Candidates : \E targets \in AlignTargets(chosen) :
        Staged(ReconcilePlan(targets, counts, removeOld), ShownReconcile(chosen, removeOld))
  BY <1>4
<1>14. PICK targets \in AlignTargets(chosen) :
        Staged(ReconcilePlan(targets, counts, removeOld), ShownReconcile(chosen, removeOld))
  BY <1>13
<1>5. OutermostFirst(targets, chosen) /\ targets \in Seq(RootsBelow) /\ Once(targets)
  <2>1. OutermostFirst(targets, chosen)
    BY TargetsSorted DEF Planning
  <2> QED
    BY <2>1 DEF OutermostFirst, Once
<1>6. \A t \in RootsBelow : counts[t].ids \in SUBSET Ids /\ \A m \in counts[t].ids : m \in Media /\ world.path[m] # <<>>
  <2>1. Countable("reconcile") = RootsBelow
    BY DEF Countable
  <2>2. counts \in [RootsBelow -> Counts] /\ \A t \in RootsBelow : counts[t].ids \subseteq Here(t[1])
    BY <1>2, <2>1 DEF CountedSoFar
  <2>3. ASSUME NEW t \in RootsBelow
        PROVE  counts[t].ids \in SUBSET Ids /\ \A m \in counts[t].ids : m \in Media /\ world.path[m] # <<>>
    <3>1. counts[t].ids \subseteq Here(t[1])
      BY <2>2
    <3>2. Here(t[1]) \subseteq Media /\ \A m \in Here(t[1]) : world.path[m] # <<>>
      BY HereMedia DEF Here
    <3>3. Media \subseteq Ids
      BY ChainBounds
    <3> QED
      BY <3>1, <3>2, <3>3
  <2> QED
    BY <2>3
<1>7. PICK plan \in Seq(Fresh) :
        /\ ReconcilePlan(targets, counts, removeOld) = [k \in DOMAIN plan |-> <<plan[k]>>] /\ MoveItems(plan)
        /\ Aligned(plan, counts) /\ \E at \in [1..Len(targets) -> Nat] : Ordered(plan, at, Len(targets), targets, counts)
        /\ Told(plan, ReconcileLines(targets, Len(targets), counts, removeOld))
  <2>1. world \in World
    BY DEF Typed
  <2> QED
    BY <1>3, <1>5, <1>6, <2>1, ReconcilePlanned
<1>8. Cut(plan, 0, ReconcilePlan(targets, counts, removeOld))
  <2>1. plan \in Seq(Items)
    BY FreshItems
  <2>2. Cut(plan, 0, [k \in DOMAIN plan |-> <<plan[k]>>])
    BY <2>1, Singles
  <2> QED
    BY <1>7, <2>2
<1>9. ReconcileMade(chosen, targets, counts, removeOld, plan)
  BY <1>2, <1>3, <1>5, <1>7, <1>8, <1>14 DEF ReconcileMade
<1> QED
  BY <1>9

LEMMA ReconcileConfirmed ==
  ASSUME Typed, Planning, ConfirmReconcile
  PROVE  Typed' /\ Running'
<1>1. world' = world /\ queue' = queue /\ idCache' = idCache /\ queue = <<>>
  BY DEF ConfirmReconcile, Planning
<1>2. PICK chosen, targets, counts, removeOld : \E plan \in Seq(Fresh) :
        ReconcileMade(chosen, targets, counts, removeOld, plan)
  BY ReconcileChosen
<1>3. PICK plan \in Seq(Fresh) : ReconcileMade(chosen, targets, counts, removeOld, plan)
  BY <1>2
<1>4. /\ Staged(ReconcilePlan(targets, counts, removeOld), ShownReconcile(chosen, removeOld))
      /\ Cut(plan, 0, ReconcilePlan(targets, counts, removeOld)) /\ MoveItems(plan)
      /\ OutermostFirst(targets, chosen) /\ dialog.counts = counts /\ CountedSoFar(counts, "reconcile")
      /\ Aligned(plan, counts) /\ \E at \in [1..Len(targets) -> Nat] : Ordered(plan, at, Len(targets), targets, counts)
  BY <1>3 DEF ReconcileMade
<1>9. Follows(plan)' /\ Ended'
  BY <1>1, <1>4, StagedRuns
<1>10. MoveItems(plan)' /\ Moved(plan)'
  <2>1. MoveItems(plan)'
    BY <1>1, <1>4 DEF MoveItems, Tracked, Gated, Away, Heading
  <2>2. Moved(plan)'
    BY <1>1 DEF Moved
  <2> QED
    BY <2>1, <2>2
<1>15. ASSUME ~dialog'.failed PROVE WellAimed(plan)'
  <2>1. Countable("reconcile") = RootsBelow /\ DOMAIN counts = Countable("reconcile")
    BY <1>4 DEF Countable, CountedSoFar
  <2>2. \A p \in RootsBelow : counts[p] \notin {Uncounted, Failed}
    <3>1. \A p \in RootsBelow : counts[p] # Uncounted
      BY <1>4, <2>1 DEF ConfirmReconcile, Counting
    <3>2. \A p \in RootsBelow : counts[p] # Failed
      BY <1>4, <1>15, <2>1 DEF Staged
    <3> QED
      BY <3>1, <3>2
  <2>4. PICK at \in [1..Len(targets) -> Nat] : Ordered(plan, at, Len(targets), targets, counts)
    BY <1>4
  <2>5. world \in World /\ Fleet
    BY DEF Typed, Planning
  <2>6. Owned(plan) /\ Settles(plan) /\ \E goal : Guided(plan, goal) /\ Led(plan, goal) /\ Direct \subseteq DOMAIN goal
    BY <1>1, <1>4, <2>2, <2>4, <2>5, ReconcileLeads
  <2>8. known'.direct = Direct
    BY <1>4 DEF Staged
  <2>7. plan \in Seq(Items) /\ Cut(plan, 0, todo')
    BY <1>4, FreshItems DEF Staged
  <2> QED
    BY <1>1, <2>6, <2>7, <2>8, AimedFirst
<1>11. Running'
  BY <1>9, <1>10, <1>15 DEF Running, Chain
<1>12. Typed'
  BY <1>1 DEF Typed, Here
<1> QED
  BY <1>11, <1>12

LEMMA DeleteConfirmed ==
  ASSUME Typed, Planning, ConfirmDelete
  PROVE  Typed' /\ Running'
<1>1. world' = world /\ queue' = queue /\ idCache' = idCache /\ queue = <<>>
  BY DEF ConfirmDelete, Planning
<1>2. PICK ticked \in SUBSET Bridges, force \in BOOLEAN :
        Passes(ClaimsAt(From), force, ticked) /\ Staged(DeletePlan(ticked, force), {})
  BY DEF ConfirmDelete
<1>3. PICK plan \in Seq(Fresh) :
           /\ DeletePlan(ticked, force) = [k \in DOMAIN plan |-> <<plan[k]>>]
           /\ DeleteItems(plan) /\ plan[Len(plan)].args.flag = force
           /\ "rootFolders" \in ticked => \A i \in Instances : \A r \in world.roots[i] :
                Under(From, r) => \E k \in 1..Len(plan) - 1 : Drops(plan[k], i, r)
           /\ "importLists" \in ticked => \A l \in Lists :
                Under(From, world.list[l].at) /\ Enabled(world.list[l].flags) => \E k \in 1..Len(plan) - 1 : Disables(plan[k], l)
           /\ "collections" \in ticked => \A c \in Collections :
                Under(From, world.coll[c].at) /\ (world.coll[c].flags.monitored \/ world.coll[c].flags.searchOnAdd)
                => \E k \in 1..Len(plan) - 1 : Unmonitors(plan[k], c)
  BY DeletePlanned DEF Typed, Planning
<1>4. Cut(plan, 0, DeletePlan(ticked, force))
  <2>1. plan \in Seq(Items)
    BY FreshItems
  <2>2. Cut(plan, 0, [k \in DOMAIN plan |-> <<plan[k]>>])
    BY <2>1, Singles
  <2> QED
    BY <1>3, <2>2
<1>5. Follows(plan)' /\ Ended'
  BY <1>1, <1>2, <1>4, StagedRuns
<1>6. ASSUME ~plan[Len(plan)].args.flag PROVE Cleared(plan)'
  <2>1. Passes(ClaimsAt(From), FALSE, ticked)
    <3>1. force = FALSE
      BY <1>3, <1>6
    <3> QED
      BY <1>2, <3>1
  <2>2. /\ \A m \in Media : world.path[m] # <<>> => ~Under(From, world.path[m])
        /\ "rootFolders" \notin ticked => \A i \in Instances : \A r \in world.roots[i] : ~Under(From, r)
        /\ "importLists" \notin ticked => \A l \in Lists :
             ~(Under(From, world.list[l].at) /\ Enabled(world.list[l].flags) /\ world.list[l].flags.automatic)
        /\ "collections" \notin ticked => \A c \in Collections : ~(Under(From, world.coll[c].at) /\ world.coll[c].flags.monitored)
    BY <2>1, PassesOnPromise
  <2>3. \A k : Waiting(k)'
    BY <1>1 DEF Waiting
  <2>4. \A i \in Instances : \A r \in world.roots[i] : Under(From, r) => \E k \in 1..Len(plan) - 1 : Drops(plan[k], i, r)
    BY <1>3, <2>2
  <2>5. \A l \in Lists : Under(From, world.list[l].at) /\ Enabled(world.list[l].flags) /\ world.list[l].flags.automatic
          => \E k \in 1..Len(plan) - 1 : Disables(plan[k], l)
    BY <1>3, <2>2
  <2>6. \A c \in Collections : Under(From, world.coll[c].at) /\ world.coll[c].flags.monitored
          => \E k \in 1..Len(plan) - 1 : Unmonitors(plan[k], c)
    BY <1>3, <2>2
  <2> QED
    BY <1>1, <2>2, <2>3, <2>4, <2>5, <2>6 DEF Cleared
<1>7. Running'
  BY <1>3, <1>5, <1>6 DEF Running, Chain
<1>8. Typed'
  BY <1>1 DEF Typed, Here
<1> QED
  BY <1>7, <1>8

\* A step that keeps the order settles the first item that waits as done.
LEMMA TurnTaken ==
  ASSUME queue \in Seq(Items), InTurn, Execute \/ Retry \/ RemoveItem, straight'
  PROVE  /\ InTurn' /\ todo' = todo /\ Len(queue') = Len(queue)
         /\ \E k \in 1..Len(queue) :
              /\ Waiting(k) /\ world' = After(queue[k])
              /\ \A j \in Nat : j >= k => Waiting(j)
              /\ \A j \in Nat : Waiting(j)' <=> Waiting(j) /\ j # k
<1> DEFINE n == Len(queue)
<1>1. n \in Nat /\ DOMAIN queue = 1..n /\ \A j \in 1..n : queue[j] \in Items
  OBVIOUS
<1>2. Execute
  BY DEF Retry, RemoveItem
<1>3. PICK k \in 1..n : Skip(k) \/ Succeed(k) \/ Fail(k)
  BY <1>1, <1>2 DEF Execute
<1>4. k \in Pending /\ ~OutOfTurn(k) /\ world' = After(queue[k]) /\ queue' = [queue EXCEPT ![k].status = "succeeded"] /\ todo' = todo
  BY <1>2, <1>3 DEF Skip, Fail, Succeed, Settle, Execute
<1>5. /\ Len(queue') = n /\ DOMAIN queue' = 1..n
      /\ queue'[k].status = "succeeded" /\ \A j \in 1..n \ {k} : queue'[j] = queue[j]
  <2>1. queue' = [queue EXCEPT ![k] = [queue[k] EXCEPT !.status = "succeeded"]]
    BY <1>4
  <2>2. [queue[k] EXCEPT !.status = "succeeded"].status = "succeeded"
    BY <1>1 DEF Items
  <2>3. [queue[k] EXCEPT !.status = "succeeded"] \in Items
    BY <1>1 DEF Items, Statuses
  <2>4. queue' \in Seq(Items) /\ Len(queue') = n
    BY <2>1, <2>3, ExceptSeq
  <2> QED
    BY <1>1, <2>1, <2>2, <2>4
<1>6. queue[k].status = "pending" /\ \A j \in 1..k - 1 : queue[j].status = "succeeded"
  <2>1. queue[k].status = "pending"
    BY <1>4 DEF Pending
  <2>2. ASSUME NEW j \in 1..k - 1 PROVE queue[j].status = "succeeded"
    <3>1. j \in 1..n /\ j < k
      BY <1>1
    <3>2. queue[j].status # "pending"
      BY <1>1, <1>4, <3>1 DEF OutOfTurn, Pending
    <3> QED
      BY <3>1, <3>2 DEF InTurn
  <2> QED
    BY <2>1, <2>2
<1>7. \A j \in Nat : Waiting(j)' <=> Waiting(j) /\ j # k
  BY <1>1, <1>5 DEF Waiting
<1>8. Waiting(k) /\ \A j \in Nat : j >= k => Waiting(j)
  <2>1. Waiting(k)
    BY <1>6 DEF Waiting
  <2>2. ASSUME NEW j \in Nat, j > k, ~Waiting(j) PROVE FALSE
    <3>1. j \in 1..n /\ queue[j].status = "succeeded" /\ k \in 1..j - 1
      BY <1>1, <2>2 DEF Waiting
    <3>2. queue[k].status = "succeeded"
      BY <3>1 DEF InTurn
    <3> QED
      BY <1>6, <3>2
  <2> QED
    BY <1>1, <2>1, <2>2
<1>9. InTurn'
  <2>1. ASSUME NEW j \in 1..n
        PROVE  /\ queue'[j].status \in {"pending", "succeeded"}
               /\ queue'[j].status = "succeeded" => \A i \in 1..j - 1 : queue'[i].status = "succeeded"
    <3>1. queue'[j].status \in {"pending", "succeeded"}
      BY <1>5 DEF InTurn
    <3>2. ASSUME queue'[j].status = "succeeded", NEW i \in 1..j - 1 PROVE queue'[i].status = "succeeded"
      <4>1. i \in 1..n
        BY <1>1
      <4>2. CASE j = k
        <5>1. i \in 1..n \ {k} /\ queue[i].status = "succeeded"
          BY <1>1, <1>6, <4>1, <4>2
        <5> QED
          BY <1>5, <5>1
      <4>3. CASE j # k
        <5>1. queue[j].status = "succeeded"
          BY <1>5, <3>2, <4>3
        <5>2. queue[i].status = "succeeded"
          BY <5>1 DEF InTurn
        <5> QED
          BY <1>5, <4>1, <5>2
      <4> QED
        BY <4>2, <4>3
    <3> QED
      BY <3>1, <3>2
  <2> QED
    BY <1>5, <2>1 DEF InTurn
<1> QED
  BY <1>4, <1>5, <1>7, <1>8, <1>9

\* What an item does to the root folders.
LEMMA RootsAfter ==
  ASSUME world \in World, NEW item \in Items, NEW i \in Instances
  PROVE  /\ \A r \in world.roots[i] : r \in After(item).roots[i] \/ (Dropping(item) /\ item.args.at = r)
         /\ \A r : Creating(item, i, r) => r \in After(item).roots[i]
<1>1. CASE item.op \notin {"rootFolder.create", "rootFolder.delete"}
  <2>1. After(item).roots = world.roots
    BY <1>1, AfterFrame
  <2> QED
    BY <1>1, <2>1 DEF Creating
<1>2. CASE item.op = "rootFolder.create"
  <2>1. After(item).roots = [world.roots EXCEPT ![item.instance] = @ \cup {item.args.at}]
    BY <1>2 DEF After, World
  <2>2. world.roots \in [Instances -> SUBSET Path]
    BY DEF World
  <2> QED
    BY <2>1, <2>2 DEF Creating
<1>3. CASE item.op = "rootFolder.delete"
  <2>1. After(item).roots = [world.roots EXCEPT ![item.instance] = @ \ {item.args.at}]
    BY <1>3 DEF After, World
  <2>2. world.roots \in [Instances -> SUBSET Path]
    BY DEF World
  <2> QED
    BY <1>3, <2>1, <2>2 DEF Creating, Dropping
<1> QED
  BY <1>1, <1>2, <1>3

\* Where a move of the plan goes there stays a root folder, once it is made.
LEMMA HomedKept ==
  ASSUME world \in World, NEW plan \in Seq(Items), Away(plan), Homed(plan), Owned(plan),
         NEW k \in 1..Len(plan), NEW item \in Items, Same(item, plan[k]), world' = After(item),
         \A j \in Nat : Waiting(j)' <=> Waiting(j) /\ j # k
  PROVE  Homed(plan)'
<1> SUFFICES ASSUME NEW a \in 1..Len(plan), Moving(plan[a])
             PROVE  \/ plan[a].args.to \in world'.roots[plan[a].instance]
                    \/ \E b \in 1..Len(plan) : Waiting(b)' /\ Creating(plan[b], plan[a].instance, plan[a].args.to)
  BY DEF Homed
<1> DEFINE i == plan[a].instance
           to == plan[a].args.to
<1>1. i \in Instances /\ plan[a] \in ToSet(plan) /\ plan[k] \in ToSet(plan)
  BY Members DEF Owned
<1>2. CASE to \in world.roots[i]
  <2>1. to \in world'.roots[i] \/ (Dropping(item) /\ item.args.at = to)
    BY <1>1, <1>2, RootsAfter
  <2>2. Dropping(item) => Dropping(plan[k]) /\ plan[k].args.at = item.args.at
    BY DEF Same, Dropping
  <2>3. Dropping(plan[k]) => plan[k].args.at # to
    BY <1>1 DEF Away
  <2> QED
    BY <2>1, <2>2, <2>3
<1>3. ASSUME NEW b \in 1..Len(plan), Waiting(b), Creating(plan[b], i, to)
      PROVE  \/ to \in world'.roots[i]
             \/ \E c \in 1..Len(plan) : Waiting(c)' /\ Creating(plan[c], i, to)
  <2>1. CASE b = k
    <3>1. Creating(item, i, to)
      BY <1>3, <2>1 DEF Same, Creating
    <3> QED
      BY <1>1, <3>1, RootsAfter
  <2>2. CASE b # k
    <3>1. Waiting(b)'
      BY <1>3, <2>2
    <3> QED
      BY <1>3, <3>1
  <2> QED
    BY <2>1, <2>2
<1> QED
  BY <1>2, <1>3 DEF Homed

\* What is moved is called what it was, in the folder the move names.
LEMMA MovedAfter ==
  ASSUME world \in World, NEW item \in Items, Tracked(item), NEW x \in Media, Moves(item, x)
  PROVE  /\ After(item).path[x] \in Path /\ After(item).path[x] # <<>>
         /\ Front(After(item).path[x]) = item.args.to /\ Last(After(item).path[x]) = Last(world.path[x])
<1>1. After(item).path[x] = Rehome(world.path[x], item.args.to)
  <2>1. After(item).path = [m \in Media |-> IF m \in item.args.ids THEN Rehome(world.path[m], item.args.to) ELSE world.path[m]]
    BY DEF Moves, Moving, After, World
  <2> QED
    BY <2>1 DEF Moves
<1>2. world.path[x] \in Path /\ world.path[x] # <<>> /\ item.args.to \in Path
  BY DEF Tracked, Moves, Moving, Items, Args, World
<1> DEFINE p == world.path[x]
           root == item.args.to
<1> HIDE DEF p, root
<1>3. p \in Path /\ p # <<>> /\ root \in Path
  BY <1>2 DEF p, root
<1>4. Rehome(p, root) \in Path /\ Rehome(p, root) # <<>> /\ Front(Rehome(p, root)) = root /\ Last(Rehome(p, root)) = Last(p)
  BY <1>3, Rehomed
<1> QED
  BY <1>1, <1>4 DEF p, root

\* What takes the files along, or moves nothing, keeps them where the instance has them.
LEMMA CarriedKept ==
  ASSUME world \in World, NEW item \in Items, world.files = world.path,
         item.op \notin {"fs.rename", "fs.delete"}, Moving(item) => item.args.flag
  PROVE  After(item).files = After(item).path
<1>1. CASE ~Moving(item)
  <2>1. After(item).files = world.files /\ After(item).path = world.path
    BY <1>1, AfterFrame DEF Moving
  <2> QED
    BY <2>1
<1>2. CASE Moving(item)
  <2>1. After(item).path = [m \in Media |-> IF m \in item.args.ids THEN Rehome(world.path[m], item.args.to) ELSE world.path[m]]
    BY <1>2 DEF Moving, After, World
  <2>2. After(item).files = [m \in Media |-> IF m \in item.args.ids /\ item.args.flag /\ world.files[m] = world.path[m]
                                              THEN Rehome(world.files[m], item.args.to) ELSE world.files[m]]
    BY <1>2 DEF Moving, After, World
  <2> QED
    BY <1>2, <2>1, <2>2
<1> QED
  BY <1>1, <1>2

\* Where the files are of what only a rename moves.
LEMMA FilesAfter ==
  ASSUME world \in World, NEW item \in Items, item.op # "fs.delete", Moving(item) => ~item.args.flag, NEW x \in Media
  PROVE  /\ ~Renaming(item) => After(item).files[x] = world.files[x]
         /\ Renaming(item) => After(item).files[x] = RewritePathPrefix(world.files[x], item.args.at, item.args.to)
<1>1. CASE Renaming(item)
  BY <1>1 DEF Renaming, After, World
<1>2. CASE Moving(item)
  <2>1. After(item).files = [m \in Media |-> IF m \in item.args.ids /\ item.args.flag /\ world.files[m] = world.path[m]
                                              THEN Rehome(world.files[m], item.args.to) ELSE world.files[m]]
    BY <1>2 DEF Moving, After, World
  <2> QED
    BY <1>2, <2>1 DEF Moving, Renaming
<1>3. CASE ~Renaming(item) /\ ~Moving(item)
  <2>1. After(item).files = world.files
    BY <1>3, AfterFrame DEF Renaming, Moving
  <2> QED
    BY <1>3, <2>1
<1> QED
  BY <1>1, <1>2, <1>3

LEMMA LedKept ==
  ASSUME world \in World, NEW plan \in Seq(Items), NEW goal, Guided(plan, goal), Led(plan, goal),
         \A a \in 1..Len(plan) : Tracked(plan[a]) /\ plan[a].op # "fs.delete",
         NEW k \in 1..Len(plan), NEW item \in Items, Same(item, plan[k]), world' = After(item),
         \A j \in Nat : j >= k => Waiting(j),
         \A j \in Nat : Waiting(j)' <=> Waiting(j) /\ j # k
  PROVE  Led(plan, goal)'
<1> SUFFICES ASSUME NEW a \in 1..Len(plan), NEW x \in DOMAIN goal, Moves(plan[a], x)
             PROVE  /\ Last(world'.path[x]) = Last(goal[x])
                    /\ Waiting(1)' => RewritePathPrefix(world'.files[x], From, To) = goal[x]
                    /\ ~Waiting(1)' => world'.files[x] = goal[x]
                    /\ Lands(plan, a, x) /\ ~Waiting(a)' => world'.path[x] = goal[x]
  BY DEF Led
<1>1. x \in Media /\ world.path[x] # <<>>
  BY DEF Tracked, Moves, Moving
<1>2. /\ Tracked(item) /\ item.op # "fs.delete"
      /\ Moving(item) => ~item.args.flag
      /\ Renaming(item) => k = 1 /\ item.args.at = From /\ item.args.to = To
      /\ k = 1 => Renaming(item)
      /\ \A y : Moves(item, y) <=> Moves(plan[k], y)
  BY DEF Same, Tracked, Guided, Moving, Renaming, Moves
<1>3. /\ Last(world.path[x]) = Last(goal[x])
      /\ Waiting(1) => RewritePathPrefix(world.files[x], From, To) = goal[x]
      /\ ~Waiting(1) => world.files[x] = goal[x]
      /\ Lands(plan, a, x) /\ ~Waiting(a) => world.path[x] = goal[x]
  BY DEF Led
<1>4. 1 \in Nat /\ a \in Nat /\ k \in Nat /\ k >= 1
  OBVIOUS
<1>5. CASE k = 1
  <2>1. world'.files[x] = RewritePathPrefix(world.files[x], From, To)
    BY <1>1, <1>2, <1>5, FilesAfter
  <2>2. ~Waiting(1)' /\ Waiting(1)
    BY <1>4, <1>5
  <2>3. world'.path[x] = world.path[x]
    <3>1. world'.path = world.path
      BY <1>2, <1>5, AfterFrame DEF Renaming
    <3> QED
      BY <3>1
  <2>4. Moving(plan[a]) /\ a # 1
    BY DEF Guided, Renaming, Moves, Moving
  <2>5. Waiting(a)' <=> Waiting(a)
    BY <1>4, <1>5, <2>4
  <2> QED
    BY <1>3, <2>1, <2>2, <2>3, <2>5
<1>6. CASE k # 1
  <2>1. ~Renaming(item)
    BY <1>2, <1>6
  <2>2. world'.files[x] = world.files[x]
    BY <1>1, <1>2, <2>1, FilesAfter
  <2>3. Waiting(1)' <=> Waiting(1)
    BY <1>4, <1>6
  <2>4. CASE ~Moves(item, x)
    <3>1. world'.path[x] = world.path[x]
      BY <1>1, <1>2, <2>4, PathAfter DEF Moves
    <3>2. a # k
      BY <1>2, <2>4
    <3>3. Waiting(a)' <=> Waiting(a)
      BY <1>4, <3>2
    <3> QED
      BY <1>3, <2>2, <2>3, <3>1, <3>3
  <2>5. CASE Moves(item, x)
    <3>1. /\ world'.path[x] \in Path /\ world'.path[x] # <<>>
          /\ Front(world'.path[x]) = item.args.to /\ Last(world'.path[x]) = Last(world.path[x])
      BY <1>1, <1>2, <2>5, MovedAfter
    <3>2. ASSUME Lands(plan, a, x), ~Waiting(a)' PROVE world'.path[x] = goal[x]
      <4>1. Moves(plan[k], x)
        BY <1>2, <2>5
      <4>2. k <= a
        BY <3>2, <4>1 DEF Lands
      <4>3. a = k
        <5>1. ASSUME a # k PROVE FALSE
          <6>1. ~Waiting(a)
            BY <1>4, <3>2, <5>1
          <6> QED
            BY <1>4, <4>2, <6>1
        <5> QED
          BY <5>1
      <4>4. PICK b \in 1..Len(plan) : Lands(plan, b, x) /\ plan[b].args.to = Front(goal[x])
        BY DEF Guided
      <4>5. b = a
        <5>1. b <= a /\ a <= b
          BY <3>2, <4>4 DEF Lands
        <5> QED
          BY <5>1
      <4>6. Front(world'.path[x]) = Front(goal[x]) /\ Last(world'.path[x]) = Last(goal[x])
        BY <1>3, <3>1, <4>3, <4>4, <4>5 DEF Same
      <4>7. goal[x] \in Path /\ goal[x] # <<>>
        BY <1>1 DEF Guided
      <4> DEFINE p == world'.path[x]
                 q == goal[x]
      <4>8. p = Append(Front(p), Last(p)) /\ q = Append(Front(q), Last(q))
        <5>1. p \in Path /\ p # <<>> /\ q \in Path /\ q # <<>>
          BY <3>1, <4>7
        <5> HIDE DEF p, q
        <5> QED
          BY <5>1, TakenApart
      <4> QED
        BY <4>6, <4>8
    <3> QED
      BY <1>3, <2>2, <2>3, <3>1, <3>2
  <2> QED
    BY <2>4, <2>5
<1> QED
  BY <1>5, <1>6

LEMMA AimedRuns ==
  ASSUME world \in World, NEW plan \in Seq(Items), Follows(plan), MoveItems(plan), WellAimed(plan),
         Execute \/ Retry \/ RemoveItem, straight'
  PROVE  WellAimed(plan)'
<1>1. queue \in Seq(Items) /\ Len(queue) \in Nat /\ Len(plan) \in Nat /\ Len(queue) <= Len(plan)
      /\ \A k \in 1..Len(queue) : Same(queue[k], plan[k])
  BY DEF Follows
<1>2. InTurn' /\ todo' = todo /\ Len(queue') = Len(queue)
  BY <1>1, TurnTaken DEF WellAimed
<1>10. known' = known
  BY DEF Execute, Retry, RemoveItem
<1>3. PICK k \in 1..Len(queue) :
        /\ world' = After(queue[k])
        /\ \A j \in Nat : j >= k => Waiting(j)
        /\ \A j \in Nat : Waiting(j)' <=> Waiting(j) /\ j # k
  BY <1>1, TurnTaken DEF WellAimed
<1>4. PICK item \in Items : item = queue[k]
  BY <1>1
<1>5. k \in 1..Len(plan) /\ Same(item, plan[k]) /\ world' = After(item)
  BY <1>1, <1>3, <1>4
<1>6. Away(plan) /\ \A a \in 1..Len(plan) : Tracked(plan[a]) /\ plan[a].op # "fs.delete"
  BY Members DEF MoveItems
<1>7. Homed(plan)'
  BY <1>3, <1>5, <1>6, HomedKept DEF WellAimed
<1>8. ASSUME Carried(plan), world.files = world.path PROVE Carried(plan)' /\ world'.files = world'.path
  <2>1. item.op \notin {"fs.rename", "fs.delete"} /\ (Moving(item) => item.args.flag)
    BY <1>5, <1>6, <1>8 DEF Carried, Renaming, Same, Moving
  <2>2. world'.files = world'.path
    BY <1>5, <1>8, <2>1, CarriedKept
  <2> QED
    BY <1>8, <2>2 DEF Carried
<1>9. ASSUME NEW goal, Guided(plan, goal), Led(plan, goal) PROVE Guided(plan, goal)' /\ Led(plan, goal)'
  <2>1. Led(plan, goal)'
    BY <1>3, <1>5, <1>6, <1>9, LedKept
  <2>2. Guided(plan, goal)'
    BY <1>9 DEF Guided
  <2> QED
    BY <2>1, <2>2
<1> QED
  BY <1>2, <1>7, <1>8, <1>9, <1>10 DEF WellAimed, Owned

\* A plan none of which is staged yet is aimed, and stays so while it is staged.
LEMMA AimedPosted ==
  ASSUME NEW plan \in Seq(Fresh), Follows(plan), WellAimed(plan), PostAnswered \/ PostFailed, straight'
  PROVE  WellAimed(plan)'
<1>1. PostAnswered
  BY DEF PostFailed
<1>2. todo # <<>> /\ queue' = queue \o Head(todo) /\ todo' = Tail(todo) /\ world' = world /\ known' = known
  BY <1>1 DEF PostAnswered, History
<1>3. plan \in Seq(Items) /\ \A k \in 1..Len(plan) : plan[k].status = "pending"
  BY FreshItems
<1>4. /\ queue' \in Seq(Items) /\ Len(queue') <= Len(plan) /\ Len(queue) <= Len(queue')
      /\ \A k \in 1..Len(queue) : queue'[k] = queue[k]
      /\ \A k \in Len(queue) + 1..Len(queue') : queue'[k] = plan[k]
      /\ Tail(todo) = <<>> => Len(queue') = Len(plan)
  <2>1. Follows(plan)'
    BY <1>1, <1>3, PostFollows
  <2>2. queue' \in Seq(Items) /\ Len(queue') <= Len(plan)
    BY <2>1 DEF Follows
  <2> QED
    BY <1>1, <1>2, <1>3, <2>2, PostFollows
<1>5. Len(queue) \in Nat /\ Len(queue') \in Nat /\ Len(plan) \in Nat
  BY <1>4 DEF Follows
<1>6. ASSUME NEW k \in 1..Len(queue'), k \notin 1..Len(queue) PROVE queue'[k].status = "pending"
  <2>1. k \in Len(queue) + 1..Len(queue') /\ k \in 1..Len(plan)
    BY <1>4, <1>5, <1>6
  <2> QED
    BY <1>3, <1>4, <2>1
<1>7. \A j : Waiting(j)' <=> Waiting(j)
  <2>1. \A j \in 1..Len(queue) : j \in 1..Len(queue')
    BY <1>4, <1>5
  <2>2. ASSUME NEW j PROVE Waiting(j)' <=> Waiting(j)
    <3>1. CASE j \in 1..Len(queue)
      BY <1>4, <2>1, <3>1 DEF Waiting
    <3>2. CASE j \notin 1..Len(queue)
      BY <1>6, <3>2 DEF Waiting
    <3> QED
      BY <3>1, <3>2
  <2> QED
    BY <2>2
<1>8. InTurn'
  <2>1. ASSUME NEW k \in 1..Len(queue')
        PROVE  /\ queue'[k].status \in {"pending", "succeeded"}
               /\ queue'[k].status = "succeeded" => \A j \in 1..k - 1 : queue'[j].status = "succeeded"
    <3>1. CASE k \in 1..Len(queue)
      <4>1. \A j \in 1..k - 1 : j \in 1..Len(queue)
        BY <1>5, <3>1
      <4> QED
        BY <1>4, <3>1, <4>1 DEF WellAimed, InTurn
    <3>2. CASE k \notin 1..Len(queue)
      BY <1>6, <3>2
    <3> QED
      BY <3>1, <3>2
  <2> QED
    BY <2>1 DEF InTurn
<1>9. Homed(plan)'
  BY <1>2, <1>7 DEF WellAimed, Homed
<1>10. \A goal : Guided(plan, goal) /\ Led(plan, goal) => Guided(plan, goal)' /\ Led(plan, goal)'
  BY <1>2, <1>7 DEF Guided, Led
<1> QED
  BY <1>2, <1>4, <1>8, <1>9, <1>10 DEF WellAimed, Owned, Carried

\* What an aimed plan comes to, once all of it ran.
LEMMA AimedArrives ==
  ASSUME world \in World, NEW plan \in Seq(Items), Follows(plan), MoveItems(plan), Moved(plan), WellAimed(plan),
         todo = <<>>, Pending = {}, NEW k \in 1..Len(queue), NEW x, Moves(queue[k], x),
         queue[k].args.flag \/ x \in known.direct
  PROVE  world.path[x] = world.files[x] /\ Front(world.path[x]) \in world.roots[Owner[x]]
<1>1. queue \in Seq(Items) /\ Len(queue) = Len(plan) /\ Len(plan) \in Nat
      /\ \A j \in 1..Len(queue) : Same(queue[j], plan[j])
  BY DEF Follows, WellAimed
<1>2. \A j \in 1..Len(queue) : queue[j].status = "succeeded"
  <2>1. ASSUME NEW j \in 1..Len(queue) PROVE queue[j].status = "succeeded"
    <3>1. queue[j].status # "pending"
      BY <1>1 DEF Pending
    <3> QED
      BY <3>1 DEF WellAimed, InTurn
  <2> QED
    BY <2>1
<1>3. \A j \in 1..Len(plan) : ~Waiting(j)
  BY <1>1, <1>2 DEF Waiting
<1>4. Moves(plan[k], x) /\ k \in 1..Len(plan)
  BY <1>1 DEF Same, Moves, Moving
<1>5. ASSUME NEW a \in 1..Len(plan), Moves(plan[a], x) PROVE plan[a].args.to \in world.roots[Owner[x]]
  BY <1>3, <1>5 DEF WellAimed, Homed, Owned, Moves
<1>6. x \in Media
  <2>1. Tracked(plan[k])
    BY <1>4, Members DEF MoveItems
  <2> QED
    BY <1>4, <2>1 DEF Tracked, Moves, Moving
<1>7. ASSUME Carried(plan), world.files = world.path
      PROVE  world.path[x] = world.files[x] /\ Front(world.path[x]) \in world.roots[Owner[x]]
  <2>1. PICK m \in ToSet(plan) : Moving(m) /\ Front(world.path[x]) = m.args.to
    BY <1>2 DEF Moved, Moves
  <2>2. m.args.to = To /\ plan[k].args.to = To
    BY <1>4, <1>7, <2>1, Members DEF Carried, Moves
  <2> QED
    BY <1>4, <1>5, <1>7, <2>1, <2>2
<1>8. ASSUME NEW goal, Guided(plan, goal), Led(plan, goal), known.direct \subseteq DOMAIN goal
      PROVE  world.path[x] = world.files[x] /\ Front(world.path[x]) \in world.roots[Owner[x]]
  <2>5. x \in DOMAIN goal
    <3>1. ~plan[k].args.flag /\ plan[k].args = queue[k].args
      BY <1>1, <1>4, <1>8 DEF Guided, Moves, Same
    <3> QED
      BY <1>8, <3>1
  <2>1. PICK a \in 1..Len(plan) : Lands(plan, a, x) /\ plan[a].args.to = Front(goal[x])
    BY <1>4, <1>8, <2>5 DEF Guided
  <2>2. Moves(plan[a], x)
    BY <2>1 DEF Lands
  <2>3. ~Waiting(1) /\ ~Waiting(a)
    BY <1>3, <1>8 DEF Guided
  <2>4. world.files[x] = goal[x] /\ world.path[x] = goal[x]
    BY <1>8, <2>1, <2>2, <2>3, <2>5 DEF Led
  <2> QED
    BY <1>5, <2>1, <2>2, <2>4
<1> QED
  BY <1>7, <1>8 DEF WellAimed

-------------------------------------------------------------------------------
(* Every step keeps the chain to its plan.                                   *)

\* The items in the queue are those of the plan, and run against what is tracked.
LEMMA QueueTracked ==
  ASSUME NEW plan \in Seq(Fresh), Follows(plan), Chain(plan), NEW k \in 1..Len(queue)
  PROVE  /\ queue[k] \in Items /\ Tracked(queue[k]) /\ Same(queue[k], plan[k])
         /\ k \in 1..Len(plan) /\ plan[k] \in ToSet(plan)
<1>1. queue \in Seq(Items) /\ Len(queue) <= Len(plan) /\ Same(queue[k], plan[k])
  BY DEF Follows
<1>2. Len(plan) \in Nat /\ Len(queue) \in Nat
  BY <1>1
<1>3. k \in 1..Len(plan) /\ plan[k] \in ToSet(plan)
  BY <1>1, <1>2, Members
<1>4. Tracked(plan[k])
  <2>1. CASE MoveItems(plan)
    BY <1>3, <2>1 DEF MoveItems
  <2>2. CASE DeleteItems(plan)
    <3>1. plan[k].op # "media.moveRootFolder"
      <4>1. CASE k = Len(plan)
        BY <2>2, <4>1 DEF DeleteItems
      <4>2. CASE k # Len(plan)
        <5>1. k \in 1..Len(plan) - 1
          BY <1>2, <1>3, <4>2
        <5> QED
          BY <2>2, <5>1 DEF DeleteItems, Unmonitoring
      <4> QED
        BY <4>1, <4>2
    <3> QED
      BY <3>1 DEF Tracked
  <2> QED
    BY <2>1, <2>2 DEF Chain
<1>5. Tracked(queue[k])
  BY <1>1, <1>4 DEF Same, Tracked
<1> QED
  BY <1>1, <1>3, <1>5

LEMMA PostKeeps ==
  ASSUME Typed, Running, PostAnswered \/ PostFailed
  PROVE  Typed' /\ Running'
<1>1. PICK plan \in Seq(Fresh) : Follows(plan) /\ Chain(plan)
  BY DEF Running
<1>2. plan \in Seq(Items) /\ \A k \in 1..Len(plan) : plan[k].status = "pending"
  BY FreshItems
<1>3. /\ Follows(plan)' /\ world' = world /\ alone' = alone
      /\ Len(queue) <= Len(queue') /\ \A k \in 1..Len(queue) : queue'[k] = queue[k]
      /\ \A k \in Len(queue) + 1..Len(queue') : queue'[k] = plan[k]
  BY <1>1, <1>2, PostFollows
<1>4. idCache' = idCache
  BY DEF PostAnswered, PostFailed
<1>5. Ended'
  BY DEF Running, Ended, PostAnswered, PostFailed, Gone
<1>6. ASSUME NEW k \in 1..Len(queue')
      PROVE  (k \in 1..Len(queue) /\ queue'[k] = queue[k]) \/ queue'[k].status = "pending"
  <2>1. Len(queue') \in Nat /\ Len(queue) \in Nat /\ Len(plan) \in Nat /\ Len(queue') <= Len(plan)
    <3>1. queue' \in Seq(Items) /\ Len(queue') <= Len(plan) /\ queue \in Seq(Items)
      BY <1>1, <1>3 DEF Follows
    <3> QED
      BY <3>1
  <2>2. CASE k <= Len(queue)
    <3>1. k \in 1..Len(queue)
      BY <2>1, <2>2
    <3> QED
      BY <1>3, <3>1
  <2>3. CASE k > Len(queue)
    <3>1. k \in Len(queue) + 1..Len(queue') /\ k \in 1..Len(plan)
      BY <2>1, <2>3
    <3> QED
      BY <1>2, <1>3, <3>1
  <2> QED
    BY <2>1, <2>2, <2>3
<1>7. ASSUME NEW k, Waiting(k) PROVE Waiting(k)'
  BY <1>6, <1>7 DEF Waiting
<1>10. straight' => straight
  BY DEF PostAnswered, PostFailed, History
<1>11. dialog'.failed = dialog.failed
  BY DEF Running, Ended, PostAnswered, PostFailed, Gone
<1>8. CASE MoveItems(plan) /\ Moved(plan) /\ (straight /\ alone /\ ~dialog.failed => WellAimed(plan))
  <2>1. MoveItems(plan)'
    BY <1>3, <1>8 DEF MoveItems, Tracked, Gated, Away, Heading
  <2>2. Moved(plan)'
    BY <1>3, <1>6, <1>8 DEF Moved
  <2>3. ASSUME straight', alone', ~dialog'.failed PROVE WellAimed(plan)'
    <3>1. WellAimed(plan)
      BY <1>3, <1>8, <1>10, <1>11, <2>3
    <3> QED
      BY <1>1, <2>3, <3>1, AimedPosted
  <2>4. Typed'
    BY <1>3, <1>4 DEF Typed, Here
  <2> QED
    BY <1>3, <1>5, <2>1, <2>2, <2>3, <2>4 DEF Running, Chain
<1>9. CASE DeleteItems(plan) /\ (alone /\ ~plan[Len(plan)].args.flag => Cleared(plan))
  <2>1. ASSUME Cleared(plan) PROVE Cleared(plan)'
    BY <1>3, <1>7, <2>1 DEF Cleared
  <2>2. Chain(plan)'
    BY <1>3, <1>9, <2>1 DEF Chain
  <2> QED
    BY <1>3, <1>4, <1>5, <2>2 DEF Typed, Here, Running
<1> QED
  BY <1>1, <1>8, <1>9 DEF Chain

LEMMA QueueKeeps ==
  ASSUME Typed, Running, Execute \/ Retry \/ RemoveItem
  PROVE  Typed' /\ Running'
<1>1. PICK plan \in Seq(Fresh) : Follows(plan) /\ Chain(plan)
  BY DEF Running
<1>2. plan \in Seq(Items) /\ queue \in Seq(Items) /\ world \in World
  BY <1>1, FreshItems DEF Follows, Typed
<1>3. /\ todo' = todo /\ dialog' = dialog /\ alone' = alone /\ idCache' = idCache
      /\ Len(queue') = Len(queue) /\ \A j \in 1..Len(queue) : Same(queue'[j], queue[j])
      /\ \A j \in 1..Len(queue) : queue'[j].status = "succeeded" => queue[j].status = "succeeded" \/ world' = After(queue[j])
      /\ world' = world \/ \E k \in 1..Len(queue) : world' = After(queue[k])
  <2>1. /\ todo' = todo /\ dialog' = dialog /\ alone' = alone /\ idCache' = idCache
        /\ Len(queue') = Len(queue)
    BY <1>2, QueueStep
  <2>2. \A j \in 1..Len(queue) : Same(queue'[j], queue[j])
    BY <1>2, QueueStep
  <2>3. \A j \in 1..Len(queue) : queue'[j].status = "succeeded" => queue[j].status = "succeeded" \/ world' = After(queue[j])
    BY <1>2, QueueStep
  <2>4. world' = world \/ \E k \in 1..Len(queue) : world' = After(queue[k])
    BY <1>2, QueueStep
  <2> QED
    BY <2>1, <2>2, <2>3, <2>4
<1>4. \A k \in 1..Len(queue) : queue[k] \in Items /\ Tracked(queue[k]) /\ Same(queue[k], plan[k]) /\ plan[k] \in ToSet(plan)
  BY <1>1, QueueTracked
<1>5. Follows(plan)'
  BY <1>1, <1>2, QueueFollows
<1>6. world' \in World
  BY <1>2, <1>3, <1>4, AfterTyped
<1>7. ASSUME NEW m \in Media, world.path[m] # <<>> PROVE world'.path[m] # <<>>
  <2>1. CASE world' = world
    BY <1>7, <2>1
  <2>2. ASSUME NEW k \in 1..Len(queue), world' = After(queue[k]) PROVE world'.path[m] # <<>>
    BY <1>2, <1>4, <1>7, <2>2, PathAfter
  <2> QED
    BY <1>3, <2>1, <2>2
<1>8. Typed'
  <2>1. \A i : Here(i) \subseteq Here(i)'
    BY <1>7, HereKept
  <2> QED
    BY <1>3, <1>6, <2>1 DEF Typed
<1>9. Ended'
  BY <1>3 DEF Running, Ended
<1>12. straight' => straight
  BY DEF Execute, Skip, Succeed, Fail, Retry, RemoveItem
<1>10. CASE MoveItems(plan) /\ Moved(plan) /\ (straight /\ alone /\ ~dialog.failed => WellAimed(plan))
  <2>1. MoveItems(plan)'
    <3>1. \A item : Tracked(item) => Tracked(item)'
      BY <1>7 DEF Tracked
    <3> QED
      BY <1>10, <3>1 DEF MoveItems, Gated, Away, Heading
  <2>2. ASSUME NEW j \in 1..Len(queue), Moving(queue'[j]), queue'[j].status = "succeeded", NEW x \in queue'[j].args.ids
        PROVE  world'.path[x] # <<>> /\ \E m \in ToSet(plan) : Moving(m) /\ Front(world'.path[x]) = m.args.to
    <3>1. Moving(queue[j]) /\ x \in queue[j].args.ids
      BY <1>3, <2>2 DEF Same, Moving
    <3>2. x \in Media /\ world.path[x] # <<>>
      BY <1>4, <3>1 DEF Tracked, Moving
    <3>3. ASSUME NEW k \in 1..Len(queue), Moving(queue[k]), x \in queue[k].args.ids, world' = After(queue[k])
          PROVE  world'.path[x] # <<>> /\ \E m \in ToSet(plan) : Moving(m) /\ Front(world'.path[x]) = m.args.to
      <4>1. world'.path[x] # <<>> /\ Front(world'.path[x]) = queue[k].args.to
        BY <1>2, <1>4, <3>2, <3>3, PathAfter
      <4>2. Moving(plan[k]) /\ plan[k].args.to = queue[k].args.to /\ plan[k] \in ToSet(plan)
        BY <1>4, <3>3 DEF Same, Moving
      <4> QED
        BY <4>1, <4>2
    <3>4. ASSUME world'.path[x] = world.path[x], queue[j].status = "succeeded"
          PROVE  world'.path[x] # <<>> /\ \E m \in ToSet(plan) : Moving(m) /\ Front(world'.path[x]) = m.args.to
      <4>1. \E m \in ToSet(plan) : Moving(m) /\ Front(world.path[x]) = m.args.to
        BY <1>10, <3>1, <3>4 DEF Moved
      <4> QED
        BY <3>2, <3>4, <4>1
    <3>5. CASE world' = After(queue[j])
      BY <3>1, <3>3, <3>5
    <3>6. CASE queue[j].status = "succeeded"
      <4>1. CASE world' = world
        BY <3>4, <3>6, <4>1
      <4>2. ASSUME NEW k \in 1..Len(queue), world' = After(queue[k])
            PROVE  world'.path[x] # <<>> /\ \E m \in ToSet(plan) : Moving(m) /\ Front(world'.path[x]) = m.args.to
        <5>1. CASE Moving(queue[k]) /\ x \in queue[k].args.ids
          BY <3>3, <4>2, <5>1
        <5>2. CASE ~(Moving(queue[k]) /\ x \in queue[k].args.ids)
          <6>1. world'.path[x] = world.path[x]
            BY <1>2, <1>4, <3>2, <4>2, <5>2, PathAfter
          <6> QED
            BY <3>4, <3>6, <6>1
        <5> QED
          BY <5>1, <5>2
      <4> QED
        BY <1>3, <4>1, <4>2
    <3> QED
      BY <1>3, <2>2, <3>5, <3>6
  <2>3. Moved(plan)'
    BY <1>3, <2>2 DEF Moved
  <2>4. ASSUME straight', alone', ~dialog'.failed PROVE WellAimed(plan)'
    <3>1. WellAimed(plan)
      BY <1>3, <1>10, <1>12, <2>4
    <3> QED
      BY <1>1, <1>2, <1>10, <2>4, <3>1, AimedRuns
  <2> QED
    BY <1>5, <1>8, <1>9, <2>1, <2>3, <2>4 DEF Running, Chain
<1>11. CASE DeleteItems(plan) /\ (alone /\ ~plan[Len(plan)].args.flag => Cleared(plan))
  <2>1. ASSUME Cleared(plan) PROVE Cleared(plan)'
    BY <1>1, <1>2, <1>11, <2>1, ClearedKept
  <2>2. Chain(plan)'
    BY <1>3, <1>11, <2>1 DEF Chain
  <2> QED
    BY <1>5, <1>8, <1>9, <2>2 DEF Running
<1> QED
  BY <1>1, <1>10, <1>11 DEF Chain

LEMMA AddKeeps ==
  ASSUME IInv, ArrAdds
  PROVE  IInv'
<1>1. world \in World
  BY DEF IInv, Typed
<1>2. /\ world' \in World /\ world'.roots = world.roots
      /\ \A m \in Media : world.path[m] # <<>> => world'.path[m] = world.path[m]
      /\ world.files = world.path => world'.files = world'.path
      /\ \A m \in Media : world'.path[m] = world.path[m] \/
           (m \in Late /\ world'.path[m] = Append(From, m) /\ Front(world'.path[m]) = From /\ From \in world.roots[Owner[m]])
      /\ alone' = FALSE /\ dialog' = dialog /\ idCache' = idCache /\ todo' = todo /\ queue' = queue
  BY <1>1, Added
<1>3. \A i : Here(i) \subseteq Here(i)'
  BY <1>2, HereKept
<1>4. Typed'
  BY <1>2, <1>3 DEF IInv, Typed
<1>5. \A item : Tracked(item) => Tracked(item)'
  BY <1>2 DEF Tracked
<1>6. ASSUME Planning PROVE Planning'
  <2>1. RootsBelow' = RootsBelow /\ \A kind : Countable(kind)' = Countable(kind)
    BY <1>2 DEF Countable, RootsBelow
  <2>3. ASSUME NEW count, NEW i, count.ids \subseteq Here(i), NEW p, CountedWell(count, i, p) PROVE CountedWell(count, i, p)'
    <3>1. \A m \in count.ids : m \in Media /\ world'.path[m] = world.path[m]
      BY <1>2, <2>3 DEF Here, MediaOf
    <3>2. ASSUME count \notin {Uncounted, Failed}, p # From, NEW m \in Here(i)', Front(world'.path[m]) = p
          PROVE  m \in count.ids
      <4>1. m \in MediaOf(i) /\ m \in Media /\ world'.path[m] # <<>>
        BY <3>2 DEF Here, MediaOf
      <4>2. world'.path[m] = world.path[m]
        BY <1>2, <3>2, <4>1
      <4> QED
        BY <2>3, <3>2, <4>1, <4>2 DEF Here, CountedWell
    <3> QED
      BY <2>3, <3>1, <3>2 DEF CountedWell
  <2>4. RootsBelow = Countable("reconcile")
    BY DEF Countable
  <2>2. ASSUME NEW kind \in Kinds, NEW counts, CountedSoFar(counts, kind) PROVE CountedSoFar(counts, kind)'
    BY <1>3, <2>1, <2>2, <2>3, <2>4 DEF CountedSoFar
  <2>5. Fleet'
    BY <1>2, <1>6 DEF Planning, Fleet
  <2> QED
    BY <1>2, <1>6, <2>2, <2>5 DEF Planning
<1>7. ASSUME Running PROVE Running'
  <2>1. PICK plan \in Seq(Fresh) : Follows(plan) /\ Chain(plan)
    BY <1>7 DEF Running
  <2>2. Follows(plan)' /\ Ended'
    BY <1>2, <1>7, <2>1 DEF Follows, Running, Ended
  <2>3. CASE MoveItems(plan) /\ Moved(plan)
    <3>1. MoveItems(plan)'
      BY <1>5, <2>3 DEF MoveItems, Gated, Away, Heading
    <3>2. ASSUME NEW j \in 1..Len(queue), Moving(queue[j]), queue[j].status = "succeeded", NEW x \in queue[j].args.ids
          PROVE  world'.path[x] # <<>> /\ \E m \in ToSet(plan) : Moving(m) /\ Front(world'.path[x]) = m.args.to
      <4>1. world.path[x] # <<>> /\ \E m \in ToSet(plan) : Moving(m) /\ Front(world.path[x]) = m.args.to
        BY <2>3, <3>2 DEF Moved
      <4>2. x \in Media
        <5>1. Tracked(queue[j])
          BY <2>1, QueueTracked
        <5> QED
          BY <3>2, <5>1 DEF Tracked, Moving
      <4> QED
        BY <1>2, <4>1, <4>2
    <3>3. Moved(plan)'
      BY <1>2, <3>2 DEF Moved
    <3> QED
      BY <1>2, <2>2, <3>1, <3>3 DEF Running, Chain
  <2>4. CASE DeleteItems(plan)
    BY <1>2, <2>2, <2>4 DEF Running, Chain
  <2> QED
    BY <2>1, <2>3, <2>4 DEF Chain
<1> QED
  BY <1>4, <1>6, <1>7 DEF IInv

-------------------------------------------------------------------------------
(* The theorems.                                                             *)

\* What has not been staged does not run.
LEMMA PlanningWaits ==
  ASSUME Planning, PostAnswered \/ PostFailed \/ Execute \/ Retry \/ RemoveItem
  PROVE  FALSE
<1>1. todo = <<>> /\ DOMAIN queue = {}
  BY DEF Planning
<1> QED
  BY <1>1 DEF PostAnswered, PostFailed, Execute, Retry, RemoveItem

\* One dialog.
LEMMA RunningStays ==
  ASSUME Running, Open \/ CountAnswered \/ CountFailed \/ ConfirmRemap \/ ConfirmReconcile \/ ConfirmDelete
  PROVE  FALSE
<1>1. dialog.kind = "staged"
  BY DEF Running, Ended
<1> QED
  BY <1>1 DEF Open, NoDialog, CountAnswered, CountFailed, ConfirmRemap, ConfirmReconcile, ConfirmDelete

LEMMA Keeps == IInv /\ [Next]_vars => IInv'
<1> SUFFICES ASSUME IInv, [Next]_vars PROVE IInv'
  OBVIOUS
<1>1. Typed /\ (Planning \/ Running)
  BY DEF IInv
<1>2. CASE Open \/ CountAnswered \/ CountFailed
  BY <1>1, <1>2, PlanningSteps, RunningStays DEF IInv
<1>3. CASE ConfirmRemap
  BY <1>1, <1>3, RemapConfirmed, RunningStays DEF IInv
<1>4. CASE ConfirmReconcile
  BY <1>1, <1>4, ReconcileConfirmed, RunningStays DEF IInv
<1>5. CASE ConfirmDelete
  BY <1>1, <1>5, DeleteConfirmed, RunningStays DEF IInv
<1>6. CASE PostAnswered \/ PostFailed
  BY <1>1, <1>6, PostKeeps, PlanningWaits DEF IInv
<1>7. CASE Execute \/ Retry \/ RemoveItem
  BY <1>1, <1>7, QueueKeeps, PlanningWaits DEF IInv
<1>8. CASE ArrAdds
  BY <1>8, AddKeeps
<1>9. CASE UNCHANGED vars
  <2>1. /\ world' = world /\ dialog' = dialog /\ idCache' = idCache /\ todo' = todo /\ queue' = queue
        /\ alone' = alone /\ straight' = straight /\ known' = known
    BY <1>9 DEF vars
  <2>2. Typed'
    BY <1>1, <2>1 DEF Typed, Here
  <2>3. ASSUME Planning PROVE Planning'
    <3>1. \A kind : Countable(kind)' = Countable(kind)
      BY <2>1 DEF Countable, RootsBelow
    <3>2. \A i : Here(i)' = Here(i)
      BY <2>1 DEF Here
    <3>4. RootsBelow' = RootsBelow /\ \A count, i, p : CountedWell(count, i, p)' <=> CountedWell(count, i, p)
      BY <2>1, <3>2 DEF RootsBelow, CountedWell
    <3>3. ASSUME NEW kind \in Kinds, NEW counts, CountedSoFar(counts, kind) PROVE CountedSoFar(counts, kind)'
      BY <3>1, <3>2, <3>3, <3>4 DEF CountedSoFar
    <3>5. Fleet'
      BY <2>1, <2>3 DEF Planning, Fleet
    <3> QED
      BY <2>1, <2>3, <3>3, <3>5 DEF Planning
  <2>4. ASSUME Running PROVE Running'
    <3>1. PICK plan \in Seq(Fresh) : Follows(plan) /\ Chain(plan)
      BY <2>4 DEF Running
    <3>2. Follows(plan)' /\ Ended'
      BY <2>1, <2>4, <3>1 DEF Follows, Running, Ended
    <3>3. MoveItems(plan) => MoveItems(plan)'
      BY <2>1 DEF MoveItems, Tracked, Gated, Away, Heading
    <3>4. Moved(plan) => Moved(plan)'
      BY <2>1 DEF Moved
    <3>5. Cleared(plan) => Cleared(plan)'
      BY <2>1 DEF Cleared, Waiting
    <3>7. WellAimed(plan) => WellAimed(plan)'
      BY <2>1 DEF WellAimed, InTurn, Owned, Homed, Carried, Guided, Led, Waiting
    <3>6. Chain(plan)'
      BY <2>1, <3>1, <3>3, <3>4, <3>5, <3>7 DEF Chain
    <3> QED
      BY <3>2, <3>6 DEF Running
  <2> QED
    BY <1>1, <2>2, <2>3, <2>4 DEF IInv
<1> QED
  BY <1>2, <1>3, <1>4, <1>5, <1>6, <1>7, <1>8, <1>9 DEF Next

\* What the chains are known by in every state they can be in (stores/queue.ts
\* remapRootFolder, stageReconcile, stageFolderDeletions).
THEOREM ChainsFollowTheirPlan == Spec => []IInv
<1>1. Init => IInv
  BY Starts
<1>2. IInv /\ [Next]_vars => IInv'
  BY Keeps
<1> QED
  BY <1>1, <1>2, PTL DEF Spec

\* No plan of a delete moves media.
LEMMA DeletesMoveNothing ==
  ASSUME NEW plan \in Seq(Fresh), DeleteItems(plan), NEW k \in 1..Len(plan), Moving(plan[k])
  PROVE  FALSE
<1>1. Len(plan) \in Nat
  OBVIOUS
<1>2. CASE k = Len(plan)
  BY <1>2 DEF DeleteItems, Moving
<1>3. CASE k # Len(plan)
  <2>1. k \in 1..Len(plan) - 1
    BY <1>1, <1>3
  <2> QED
    BY <2>1 DEF DeleteItems, Moving, Unmonitoring
<1> QED
  BY <1>2, <1>3

LEMMA ChainsAlign == IInv => AlignedWhenDone
<1> SUFFICES ASSUME IInv, straight, alone, todo = <<>>, queue # <<>>, Pending = {}, ~dialog.failed,
                    NEW k \in DOMAIN queue, queue[k].op = "media.moveRootFolder", NEW m \in queue[k].args.ids,
                    queue[k].args.flag \/ m \in known.direct
             PROVE  world.path[m] = world.files[m] /\ Front(world.path[m]) \in world.roots[Owner[m]]
  BY DEF AlignedWhenDone
<1>1. Running /\ world \in World
  BY DEF IInv, Planning, Typed
<1>2. PICK plan \in Seq(Fresh) : Follows(plan) /\ Chain(plan)
  BY <1>1 DEF Running
<1>3. queue \in Seq(Items) /\ k \in 1..Len(queue)
  BY <1>2 DEF Follows
<1>4. Moves(queue[k], m) /\ Moving(plan[k]) /\ k \in 1..Len(plan)
  <2>1. Same(queue[k], plan[k]) /\ k \in 1..Len(plan)
    BY <1>2, <1>3, QueueTracked
  <2> QED
    BY <2>1 DEF Moves, Moving, Same
<1>5. MoveItems(plan) /\ Moved(plan) /\ WellAimed(plan)
  BY <1>2, <1>4, DeletesMoveNothing DEF Chain
<1>6. plan \in Seq(Items)
  BY FreshItems
<1> QED
  BY <1>1, <1>2, <1>3, <1>4, <1>5, <1>6, AimedArrives

\* Once each item of a chain ran, in order and successfully, every medium whose files it
\* moves, and every medium directly in a root folder that it realigns, is at the path its
\* files are at and in a root folder of its instance (stores/queue.ts remapRootFolder,
\* stageReconcile): for every fleet, media deeper in root folders and outside all of them
\* included, every nesting of root folders below the one renamed, every choice of
\* instances.
THEOREM ChainsAlwaysAlign == Spec => []AlignedWhenDone
  BY ChainsFollowTheirPlan, ChainsAlign, PTL

LEMMA BridgeHolds == IInv => BridgeSatisfiesTheGuard
<1> SUFFICES ASSUME IInv, NEW k \in DOMAIN queue, queue[k].op = "fs.delete", queue[k].status = "pending",
                    \A j \in 1..k - 1 : queue[j].status = "succeeded", alone
             PROVE  Passes(ClaimsAt(From), queue[k].args.flag, {})
  BY DEF BridgeSatisfiesTheGuard
<1>1. Running
  BY DEF IInv, Planning
<1>2. PICK plan \in Seq(Fresh) : Follows(plan) /\ Chain(plan)
  BY <1>1 DEF Running
<1>3. queue \in Seq(Items) /\ k \in 1..Len(queue) /\ Len(queue) <= Len(plan)
  BY <1>2 DEF Follows
<1>4. Same(queue[k], plan[k]) /\ k \in 1..Len(plan) /\ plan[k] \in ToSet(plan) /\ queue[k] \in Items
  BY <1>2, <1>3, QueueTracked
<1>5. plan[k].op = "fs.delete"
  BY <1>4 DEF Same
<1>6. DeleteItems(plan) /\ (~plan[Len(plan)].args.flag => Cleared(plan))
  <2>1. ~MoveItems(plan)
    BY <1>4, <1>5 DEF MoveItems
  <2> QED
    BY <1>2, <2>1 DEF Chain
<1>7. Len(plan) \in Nat /\ k = Len(plan)
  <2>1. Len(plan) \in Nat
    BY <1>2
  <2>2. ASSUME k # Len(plan) PROVE FALSE
    <3>1. k \in 1..Len(plan) - 1
      BY <1>4, <2>1, <2>2
    <3> QED
      BY <1>5, <1>6, <3>1 DEF DeleteItems, Unmonitoring
  <2> QED
    BY <2>1, <2>2
<1>8. queue[k].args.flag \in BOOLEAN /\ queue[k].args = plan[k].args
  BY <1>4 DEF Items, Args, Same
<1>9. \A j \in 1..Len(plan) - 1 : ~Waiting(j)
  <2>1. ASSUME NEW j \in 1..Len(plan) - 1 PROVE ~Waiting(j)
    <3>1. j \in 1..k - 1 /\ j \in 1..Len(queue)
      BY <1>3, <1>7
    <3> QED
      BY <3>1 DEF Waiting
  <2> QED
    BY <2>1
<1>10. ASSUME ~queue[k].args.flag
       PROVE  /\ \A i \in Instances : \A r \in world.roots[i] : ~Under(From, r)
              /\ \A m \in Media : world.path[m] # <<>> => ~Under(From, world.path[m])
              /\ \A l \in Lists : ~(Under(From, world.list[l].at) /\ Enabled(world.list[l].flags) /\ world.list[l].flags.automatic)
              /\ \A c \in Collections : ~(Under(From, world.coll[c].at) /\ world.coll[c].flags.monitored)
  <2>1. Cleared(plan)
    BY <1>6, <1>7, <1>8, <1>10
  <2>2. \A i \in Instances : \A r \in world.roots[i] : ~Under(From, r)
    BY <1>9, <2>1 DEF Cleared
  <2>3. \A l \in Lists : ~(Under(From, world.list[l].at) /\ Enabled(world.list[l].flags) /\ world.list[l].flags.automatic)
    BY <1>9, <2>1 DEF Cleared
  <2>4. \A c \in Collections : ~(Under(From, world.coll[c].at) /\ world.coll[c].flags.monitored)
    BY <1>9, <2>1 DEF Cleared
  <2>5. \A m \in Media : world.path[m] # <<>> => ~Under(From, world.path[m])
    BY <2>1 DEF Cleared
  <2> QED
    BY <2>2, <2>3, <2>4, <2>5
<1> QED
  BY <1>8, <1>10, PassesWhenClear

\* "By the time the delete re-runs its preflight the registration is genuinely gone
\* and it passes with no force at all" (stores/queue.ts:803), for every fleet, every
\* set of boxes ticked and every order in which items run, fail, are retried and removed.
THEOREM BridgeAlwaysSatisfiesTheGuard == Spec => []BridgeSatisfiesTheGuard
  BY ChainsFollowTheirPlan, BridgeHolds, PTL

LEMMA DropWaits ==
  ASSUME IInv, [Next]_vars, NEW i \in Instances, NEW r \in world.roots[i] \ world'.roots[i], NEW k \in DOMAIN queue,
         queue[k].op = "rootFolder.delete", queue[k].instance = i, queue[k].args.at = r, queue'[k] # queue[k],
         NEW m \in MovedAway(k)
  PROVE  Under(To, world.path[m])
<1>1. Running
  BY DEF IInv, Planning
<1>2. PICK plan \in Seq(Fresh) : Follows(plan) /\ Chain(plan)
  BY <1>1 DEF Running
<1>3. queue \in Seq(Items) /\ k \in 1..Len(queue) /\ Len(queue) <= Len(plan) /\ world \in World /\ plan \in Seq(Items)
  BY <1>2, FreshItems DEF Follows, IInv, Typed
<1>4. Execute \/ Retry \/ RemoveItem
  <2>1. world'.roots # world.roots
    OBVIOUS
  <2>2. ~(PostAnswered \/ PostFailed) /\ ~(UNCHANGED vars) /\ ~ArrAdds
    <3>1. ArrAdds => world'.roots = world.roots
      BY <1>3, Added
    <3> QED
      BY <2>1, <3>1 DEF PostAnswered, PostFailed, vars
  <2> QED
    BY <1>1, <2>2, RunningStays DEF Next
<1>5. ProducerSucceeded(k)
  <2>1. world' # world
    OBVIOUS
  <2>2. world' = world \/ \E n \in 1..Len(queue) :
              /\ ProducerSucceeded(n) /\ Accepts(queue[n]) /\ world' = After(queue[n])
              /\ \A j \in 1..Len(queue) \ {n} : queue'[j] = queue[j]
    BY <1>3, <1>4, QueueStep
  <2>3. PICK n \in 1..Len(queue) : ProducerSucceeded(n) /\ \A j \in 1..Len(queue) \ {n} : queue'[j] = queue[j]
    BY <2>1, <2>2
  <2>4. k = n
    BY <1>3, <2>3
  <2> QED
    BY <2>3, <2>4
<1>6. \A j \in 1..Len(queue) : /\ queue[j] \in Items /\ Tracked(queue[j]) /\ Same(queue[j], plan[j])
                               /\ j \in 1..Len(plan) /\ plan[j] \in ToSet(plan)
  BY <1>2, QueueTracked
<1>7. PICK j \in 1..Len(queue) : /\ Moving(queue[j]) /\ queue[j].instance = i /\ m \in queue[j].args.ids
                                 /\ queue[j].args.to = RewritePathPrefix(r, From, To)
  BY <1>3 DEF MovedAway, Moving
<1>8. /\ Moving(plan[j]) /\ plan[j].instance = i /\ m \in plan[j].args.ids /\ plan[j].args.to = RewritePathPrefix(r, From, To)
      /\ plan[j] \in ToSet(plan)
  BY <1>6, <1>7 DEF Same, Moving
<1>9. MoveItems(plan) /\ Moved(plan)
  <2>1. ~DeleteItems(plan)
    <3>1. j \in 1..Len(plan) /\ Moving(plan[j])
      BY <1>6, <1>8
    <3> QED
      BY <3>1, DeletesMoveNothing
  <2> QED
    BY <1>2, <2>1 DEF Chain
<1>10. Dropping(plan[k]) /\ plan[k].instance = i /\ plan[k].args.at = r /\ plan[k].dep = queue[k].dep /\ plan[k] \in ToSet(plan)
  BY <1>3, <1>6 DEF Same, Dropping
<1>11. /\ queue[k].dep \in DOMAIN plan /\ Moving(plan[queue[k].dep])
       /\ plan[j].args.ids \subseteq plan[queue[k].dep].args.ids
  <2>1. Gated(plan)
    BY <1>9 DEF MoveItems
  <2> QED
    BY <1>8, <1>10, <2>1 DEF Gated
<1> DEFINE d == queue[k].dep
<1>12. d \in 1..Len(queue) /\ queue[d].status = "succeeded"
  <2>1. d # 0
    BY <1>2, <1>11
  <2>2. d \in DOMAIN queue /\ queue[d].status = "succeeded"
    BY <1>5, <2>1 DEF ProducerSucceeded
  <2> QED
    BY <1>3, <2>2
<1> HIDE DEF d
<1>13. Moving(queue[d]) /\ m \in queue[d].args.ids
  <2>1. Moving(plan[d]) /\ m \in plan[d].args.ids
    BY <1>8, <1>11 DEF d
  <2> QED
    BY <1>6, <1>12, <2>1 DEF Same, Moving
<1>14. world.path[m] # <<>> /\ \E a \in ToSet(plan) : Moving(a) /\ Front(world.path[m]) = a.args.to
  BY <1>9, <1>12, <1>13 DEF Moved
<1>15. Under(To, Front(world.path[m]))
  BY <1>9, <1>14 DEF MoveItems, Heading
<1>16. world.path[m] \in Path /\ To \in Path
  <2>1. m \in Media
    BY <1>6, <1>7 DEF Tracked, Moving
  <2> QED
    BY <1>3, <2>1, Destination DEF World
<1> DEFINE p == world.path[m]
<1>17. p \in Path /\ p # <<>> /\ Under(To, Front(p))
  BY <1>14, <1>15, <1>16
<1> HIDE DEF p
<1>18. Under(To, p)
  <2>1. Front(p) \in Path /\ Under(Front(p), p)
    BY <1>17, TakenApart
  <2> DEFINE f == Front(p)
  <2>2. f \in Path /\ Under(f, p) /\ Under(To, f)
    BY <1>17, <2>1
  <2> HIDE DEF f
  <2> QED
    BY <1>16, <1>17, <2>2, UnderAcross
<1> QED
  BY <1>18 DEF p

\* "A failed move can never be followed by the removal of the folder the media is
\* still in" (stores/queue.ts:618, :993), for every fleet and however deep in the root
\* folder the media are, however many chains' items are retried, removed or run out of
\* order.
THEOREM DropsAlwaysFollowMoves == Spec => DropsFollowMoves
<1>1. IInv /\ [Next]_vars =>
        [\A i \in Instances : \A r \in world.roots[i] \ world'.roots[i] :
           \A k \in DOMAIN queue : queue[k].op = "rootFolder.delete" /\ queue[k].instance = i /\ queue[k].args.at = r /\ queue'[k] # queue[k]
             => \A m \in MovedAway(k) : Under(To, world.path[m])]_vars
  BY DropWaits
<1> QED
  BY <1>1, ChainsFollowTheirPlan, PTL DEF Spec, DropsFollowMoves

-------------------------------------------------------------------------------
(* What a dialog shows is what is staged.                                    *)

\* A count a remap shows is the one its ids are taken from when they are asked for
\* again (matrix.ts mediaIdCache): the cache keeps what it answered.
Remembered ==
  dialog.kind = "remap" => \A p \in DOMAIN dialog.counts :
    \/ dialog.counts[p] \in {Uncounted, Failed}
    \/ dialog.counts[p] = idCache[p[1]] /\ dialog.counts[p] = Counted(dialog.counts[p].ids)

LEMMA DialogKinds ==
  ASSUME IInv
  PROVE  /\ dialog.kind \in {"none", "remap", "reconcile", "delete", "staged"}
         /\ dialog.kind \in {"remap", "reconcile", "delete"} => Typed /\ Planning
         /\ todo # <<>> \/ queue # <<>> => dialog.kind = "staged"
<1>1. CASE Planning
  <2>1. dialog.kind \in Kinds \cup {"none"}
    BY <1>1 DEF Planning, NoDialog
  <2>2. Kinds \subseteq {"remap", "reconcile", "delete"}
    BY ChainBounds
  <2>3. todo = <<>> /\ queue = <<>>
    BY <1>1 DEF Planning
  <2> QED
    BY <1>1, <2>1, <2>2, <2>3 DEF IInv
<1>2. CASE Running
  BY <1>2 DEF Running, Ended
<1> QED
  BY <1>1, <1>2 DEF IInv

LEMMA CountsRemembered ==
  ASSUME IInv, Remembered, CountAnswered \/ CountFailed
  PROVE  Remembered' /\ dialog'.kind # "staged"
<1>1. dialog.kind \in {"remap", "reconcile"}
  BY DEF CountAnswered, CountFailed
<1>2. Planning
  BY <1>1, DialogKinds
<1>3. PICK counts : dialog = [kind |-> dialog.kind, counts |-> counts] /\ CountedSoFar(counts, dialog.kind)
  BY <1>1, <1>2 DEF Planning, NoDialog
<1> DEFINE k == dialog.kind
<1>4. dialog.counts = counts /\ DOMAIN counts = Countable(k)
  BY <1>3 DEF CountedSoFar
<1>5. ASSUME k = "remap", NEW p \in Countable(k), NEW q \in Countable(k), p[1] = q[1] PROVE p = q /\ p[1] \in Instances
  BY <1>5 DEF Countable
<1> HIDE DEF k
<1>6. CASE CountFailed
  <2>1. PICK p \in Countable(k) : dialog' = [dialog EXCEPT !.counts[p] = Failed] /\ idCache' = idCache
    BY <1>4, <1>6 DEF CountFailed
  <2>2. dialog' = [kind |-> k, counts |-> [counts EXCEPT ![p] = Failed]]
    BY <1>3, <2>1 DEF k
  <2>3. dialog'.kind = k /\ dialog'.counts = [counts EXCEPT ![p] = Failed]
    BY <2>2
  <2>4. DOMAIN dialog'.counts = Countable(k) /\ \A q \in Countable(k) : dialog'.counts[q] = IF q = p THEN Failed ELSE counts[q]
    BY <1>4, <2>3
  <2>5. k = "remap" => \A q \in Countable(k) :
          \/ counts[q] \in {Uncounted, Failed}
          \/ counts[q] = idCache[q[1]] /\ counts[q] = Counted(counts[q].ids)
    BY <1>4 DEF Remembered, k
  <2> QED
    BY <1>1, <2>1, <2>3, <2>4, <2>5 DEF Remembered, k
<1>7. CASE CountAnswered
  <2> DEFINE Answered(p, ids) ==
        /\ dialog' = [dialog EXCEPT !.counts[p] = Counted(ids)]
        /\ idCache' = IF k = "remap" THEN [idCache EXCEPT ![p[1]] = Counted(ids)] ELSE idCache
  <2>6. PICK p \in Countable(k) : \E ids : Answered(p, ids)
    BY <1>4, <1>7 DEF CountAnswered, k
  <2>7. PICK ids : Answered(p, ids)
    BY <2>6
  <2>1. /\ dialog' = [dialog EXCEPT !.counts[p] = Counted(ids)]
        /\ idCache' = IF k = "remap" THEN [idCache EXCEPT ![p[1]] = Counted(ids)] ELSE idCache
    BY <2>7
  <2>2. dialog' = [kind |-> k, counts |-> [counts EXCEPT ![p] = Counted(ids)]]
    BY <1>3, <2>1 DEF k
  <2>3. dialog'.kind = k /\ dialog'.counts = [counts EXCEPT ![p] = Counted(ids)]
    BY <2>2
  <2>4. DOMAIN dialog'.counts = Countable(k) /\ \A q \in Countable(k) : dialog'.counts[q] = IF q = p THEN Counted(ids) ELSE counts[q]
    BY <1>4, <2>3
  <2>5. ASSUME k = "remap", NEW q \in Countable(k)
        PROVE  \/ dialog'.counts[q] \in {Uncounted, Failed}
               \/ dialog'.counts[q] = idCache'[q[1]] /\ dialog'.counts[q] = Counted(dialog'.counts[q].ids)
    <3>1. idCache' = [idCache EXCEPT ![p[1]] = Counted(ids)] /\ DOMAIN idCache = Instances
      BY <2>1, <2>5 DEF IInv, Typed
    <3>2. CASE q = p
      <4>1. idCache'[p[1]] = Counted(ids)
        BY <1>5, <2>5, <3>1
      <4>2. Counted(ids).ids = ids
        BY DEF Counted
      <4> QED
        BY <2>4, <3>2, <4>1, <4>2
    <3>3. CASE q # p
      <4>1. q[1] # p[1] /\ q[1] \in Instances
        BY <1>5, <2>5, <3>3
      <4>2. idCache'[q[1]] = idCache[q[1]] /\ dialog'.counts[q] = counts[q]
        BY <2>4, <3>1, <3>3, <4>1
      <4>3. counts[q] \in {Uncounted, Failed} \/ (counts[q] = idCache[q[1]] /\ counts[q] = Counted(counts[q].ids))
        BY <1>4, <2>5 DEF Remembered, k
      <4> QED
        BY <4>2, <4>3
    <3> QED
      BY <3>2, <3>3
  <2> QED
    BY <1>1, <2>3, <2>4, <2>5 DEF Remembered, k
<1> QED
  BY <1>6, <1>7

\* What a confirmation stages is what it shows, if its plan tells that.
LEMMA ShownStaged ==
  ASSUME NEW plan \in Seq(Items), NEW batches, NEW shown, Cut(plan, 0, batches), Told(plan, shown), Staged(batches, shown)
  PROVE  StagedAsShown'
<1>1. todo' = batches /\ dialog'.shown = shown
  BY DEF Staged
<1>2. /\ {Step(batches[p[1]][p[2]]) : p \in Places(batches)} = shown
      /\ \A p, q \in Places(batches) : Step(batches[p[1]][p[2]]) = Step(batches[q[1]][q[2]]) => p = q
  BY ToldRequests
<1> QED
  BY <1>1, <1>2 DEF StagedAsShown, Places, Plain

LEMMA RemapShown ==
  ASSUME IInv, Remembered, ConfirmRemap
  PROVE  StagedAsShown'
<1>1. dialog.kind = "remap" /\ ~Counting
  BY DEF ConfirmRemap
<1>2. Typed /\ Planning
  BY <1>1, DialogKinds
<1>3. PICK chosen, ids, removeOld, relist, recollect : \E plan \in Seq(Fresh) :
        RemapMade(chosen, ids, removeOld, relist, recollect, plan)
  BY <1>2, RemapChosen
<1>4. PICK plan \in Seq(Fresh) : RemapMade(chosen, ids, removeOld, relist, recollect, plan)
  BY <1>3
<1> DEFINE mkdir == To \notin world.dirs
           batches == RemapPlan(chosen, ids, mkdir, removeOld, relist, recollect)
           shown == ShownRemap(chosen, mkdir, removeOld, relist)
<1>5. SUFFICES ASSUME ~dialog'.failed PROVE StagedAsShown'
  BY DEF StagedAsShown
<1>6. Staged(batches, shown) /\ Cut(plan, 0, batches) /\ Told(plan, RemapLines(chosen, ids, mkdir, removeOld, relist))
  BY <1>4 DEF RemapMade
<1>7. ASSUME NEW i \in chosen
      PROVE  dialog.counts[<<i, From>>].ids = ids[i] /\ (MovesMedia(i) <=> ids[i] # {})
  <2> DEFINE p == <<i, From>>
  <2>1. p \in DOMAIN dialog.counts /\ p[1] = i
    <3>1. PICK counts : dialog = [kind |-> "remap", counts |-> counts] /\ CountedSoFar(counts, "remap")
      BY <1>1, <1>2 DEF Planning, NoDialog
    <3>2. dialog.counts = counts /\ DOMAIN counts = {<<j, From>> : j \in {j \in Instances : From \in world.roots[j]}}
      BY <3>1 DEF CountedSoFar, Countable
    <3>3. i \in Candidates
      BY <1>4 DEF RemapMade
    <3>4. PICK q \in DOMAIN dialog.counts : q[1] = i
      BY <3>3 DEF Candidates
    <3> QED
      BY <3>2, <3>4
  <2> HIDE DEF p
  <2>2. dialog.counts[p] # Uncounted /\ dialog.counts[p] # Failed
    <3>1. dialog.counts[p] # Uncounted
      BY <1>1, <2>1 DEF Counting
    <3>2. dialog'.failed <=> \E q \in DOMAIN dialog.counts : dialog.counts[q] = Failed
      BY <1>6 DEF Staged
    <3> QED
      BY <1>5, <2>1, <3>1, <3>2
  <2>3. dialog.counts[p] = idCache[i] /\ dialog.counts[p] = Counted(dialog.counts[p].ids)
    BY <1>1, <2>1, <2>2 DEF Remembered
  <2>4. ids[i] = CachedIds(i)
    BY <1>4 DEF RemapMade
  <2>5. ids[i] = dialog.counts[p].ids
    BY <2>2, <2>3, <2>4 DEF CachedIds
  <2>6. Counted(ids[i]) = Counted({}) <=> ids[i] = {}
    BY DEF Counted
  <2> QED
    BY <2>3, <2>5, <2>6 DEF MovesMedia, p
<1>8. RemapLines(chosen, ids, mkdir, removeOld, relist) = shown
  <2>1. {i \in chosen : ids[i] # {}} = {i \in chosen : MovesMedia(i)}
    BY <1>7
  <2> DEFINE movers == {i \in chosen : MovesMedia(i)}
             move(i, media) == MoveMedia(i, media, To, TRUE, 0)
  <2>2. \A i \in movers : ids[i] = dialog.counts[<<i, From>>].ids
    BY <1>7
  <2> HIDE DEF movers, move
  <2>3. {move(i, ids[i]) : i \in movers} = {move(i, dialog.counts[<<i, From>>].ids) : i \in movers}
    BY <2>2
  <2> QED
    BY <2>1, <2>3, Zenon DEF RemapLines, ShownRemap, movers, move
<1> HIDE DEF mkdir, batches, shown
<1>9. plan \in Seq(Items) /\ Told(plan, shown)
  BY <1>6, <1>8, FreshItems
<1> QED
  BY <1>6, <1>9, ShownStaged

LEMMA ReconcileShown ==
  ASSUME IInv, ConfirmReconcile
  PROVE  StagedAsShown'
<1>1. dialog.kind = "reconcile"
  BY DEF ConfirmReconcile
<1>2. Typed /\ Planning
  BY <1>1, DialogKinds
<1>3. PICK chosen, targets, counts, removeOld : \E plan \in Seq(Fresh) :
        ReconcileMade(chosen, targets, counts, removeOld, plan)
  BY <1>2, ReconcileChosen
<1>4. PICK plan \in Seq(Fresh) : ReconcileMade(chosen, targets, counts, removeOld, plan)
  BY <1>3
<1> DEFINE batches == ReconcilePlan(targets, counts, removeOld)
           shown == ShownReconcile(chosen, removeOld)
           lines == ReconcileLines(targets, Len(targets), counts, removeOld)
           pairs == {p \in DOMAIN dialog.counts : p[1] \in chosen}
           new(r) == RewritePathPrefix(r, From, To)
<1>5. Staged(batches, shown) /\ Cut(plan, 0, batches) /\ Told(plan, lines) /\ OutermostFirst(targets, chosen)
      /\ dialog.counts = counts /\ CountedSoFar(counts, "reconcile")
  BY <1>4 DEF ReconcileMade
<1>6. pairs = {p \in RootsBelow : p[1] \in chosen}
  BY <1>5 DEF CountedSoFar, Countable
<1>7. /\ \A p \in pairs : \E c \in 1..Len(targets) : targets[c] = p
      /\ \A c \in 1..Len(targets) : targets[c] \in pairs
  BY <1>5, <1>6 DEF OutermostFirst
<1> DEFINE items == {RenameItem(From, To)}
             \cup {CreateRoot(p[1], new(p[2]), 0) : p \in pairs}
             \cup {MoveMedia(p[1], counts[p].ids, new(p[2]), FALSE, 0) : p \in {p \in pairs : counts[p].ids # {}}}
             \cup {DropRoot(p[1], p[2], 0) : p \in {p \in pairs : removeOld}}
<1>8. shown = Steps(items)
  BY <1>5, Zenon DEF ShownReconcile
<1>9. \A item : item \in items <=> item = RenameItem(From, To) \/ \E p \in pairs : item \in AlignItems(p, counts, removeOld)
  BY DEF AlignItems
<1>10. \A p : AlignLines(p, counts, removeOld) = Steps(AlignItems(p, counts, removeOld))
  BY DEF AlignLines
<1>11. lines = {Step(RenameItem(From, To))} \cup UNION {AlignLines(targets[c], counts, removeOld) : c \in 1..Len(targets)}
  BY DEF ReconcileLines
<1> HIDE DEF items, pairs, batches, lines
<1>12. ASSUME NEW line PROVE line \in lines <=> line \in shown
  <2>1. line \in lines <=> line = Step(RenameItem(From, To)) \/ \E c \in 1..Len(targets) : line \in AlignLines(targets[c], counts, removeOld)
    BY <1>11
  <2>2. line \in lines <=> line = Step(RenameItem(From, To)) \/ \E p \in pairs : line \in AlignLines(p, counts, removeOld)
    BY <1>7, <2>1
  <2>3. line \in shown <=> \E item \in items : line = Step(item)
    BY <1>8 DEF Steps
  <2>4. \A p : line \in AlignLines(p, counts, removeOld) <=> \E item \in AlignItems(p, counts, removeOld) : line = Step(item)
    BY <1>10 DEF Steps
  <2> QED
    BY <1>9, <2>2, <2>3, <2>4
<1> HIDE DEF shown
<1>13. plan \in Seq(Items) /\ Told(plan, shown)
  <2>1. lines = shown
    BY <1>12
  <2> QED
    BY <1>5, <2>1, FreshItems
<1> QED
  BY <1>5, <1>13, ShownStaged

LEMMA ShownFirst == Init => Remembered /\ StagedAsShown
  BY DEF Init, Remembered, StagedAsShown, NoDialog

LEMMA ShownKept ==
  ASSUME IInv, Remembered, StagedAsShown, [Next]_vars
  PROVE  Remembered' /\ StagedAsShown'
<1>1. CASE UNCHANGED vars
  BY <1>1 DEF vars, Remembered, StagedAsShown
<1>2. CASE Open
  <2>1. PICK kind \in Kinds : dialog' = [kind |-> kind, counts |-> [p \in Countable(kind) |-> Uncounted]]
    BY <1>2 DEF Open
  <2>2. dialog'.kind = kind /\ dialog'.counts = [p \in Countable(kind) |-> Uncounted] /\ kind # "staged"
    BY <2>1, ChainBounds
  <2> QED
    BY <2>2 DEF Remembered, StagedAsShown
<1>3. CASE CountAnswered \/ CountFailed
  BY <1>3, CountsRemembered DEF StagedAsShown
<1>4. ASSUME NEW plan, NEW shown, Staged(plan, shown) PROVE Remembered' /\ (dialog'.of = dialog.kind)
  <2>1. dialog'.kind = "staged" /\ dialog'.of = dialog.kind
    BY <1>4 DEF Staged
  <2> QED
    BY <2>1 DEF Remembered
<1>5. CASE ConfirmRemap
  BY <1>4, <1>5, RemapShown DEF ConfirmRemap
<1>6. CASE ConfirmReconcile
  BY <1>4, <1>6, ReconcileShown DEF ConfirmReconcile
<1>7. CASE ConfirmDelete
  BY <1>4, <1>7 DEF ConfirmDelete, StagedAsShown
<1>8. CASE PostAnswered \/ PostFailed
  <2>1. todo # <<>> /\ Gone
    BY <1>8 DEF PostAnswered, PostFailed
  <2>2. Running
    BY <2>1 DEF IInv, Planning
  <2>3. PICK plan \in Seq(Fresh) : Follows(plan)
    BY <2>2 DEF Running
  <2>4. queue' = <<>> => todo' = <<>>
    <3>1. plan \in Seq(Items)
      BY FreshItems
    <3> QED
      BY <1>8, <2>3, <3>1, PostFollows
  <2>5. dialog'.kind = "staged"
    BY <2>1, <2>2 DEF Running, Ended, Gone
  <2> QED
    BY <2>4, <2>5 DEF Remembered, StagedAsShown
<1>9. CASE Execute \/ Retry \/ RemoveItem
  <2>1. queue \in Seq(Items)
    <3>1. CASE Planning
      BY <3>1 DEF Planning
    <3>2. CASE Running
      BY <3>2 DEF Running, Follows
    <3> QED
      BY <3>1, <3>2 DEF IInv
  <2>2. todo' = todo /\ dialog' = dialog /\ idCache' = idCache /\ queue' \in Seq(Items) /\ Len(queue') = Len(queue)
    BY <1>9, <2>1, QueueStep
  <2>3. queue' = <<>> => queue = <<>>
    BY <2>1, <2>2
  <2> QED
    BY <2>2, <2>3 DEF Remembered, StagedAsShown
<1>10. CASE ArrAdds
  BY <1>10 DEF ArrAdds, Remembered, StagedAsShown
<1> QED
  BY <1>1, <1>2, <1>3, <1>5, <1>6, <1>7, <1>8, <1>9, <1>10 DEF Next

\* "Every queue item this dialog will stage" (RemapDialog.vue:339), "a line can never
\* stand for three operations" (DiskOperationModal.vue:283): of every fleet and every
\* choice, the lines a dialog shows are, one for one, the items the store stages for it.
THEOREM WhatIsShownIsStaged == Spec => []StagedAsShown
<1>1. Init => IInv /\ Remembered /\ StagedAsShown
  BY Starts, ShownFirst
<1>2. (IInv /\ Remembered /\ StagedAsShown) /\ [Next]_vars => (IInv /\ Remembered /\ StagedAsShown)'
  BY Keeps, ShownKept
<1> QED
  BY <1>1, <1>2, PTL DEF Spec

-------------------------------------------------------------------------------
(* The dialogs that judge before they stage: the inductive invariant.        *)

\* A check in flight.
IsRequest(r) ==
  /\ r = [phase |-> r.phase, of |-> r.of, since |-> r.since, latest |-> r.latest, key |-> r.key]
  /\ r.phase \in {"verdict", "level"}

\* The form of each dialog; the targets of a bulk delete are none in another.
IsDiskForm(f) ==
  /\ f.kind = "disk"
  /\ f = [kind |-> "disk", op |-> f.op, target |-> f.target, to |-> f.to,
          recursive |-> f.recursive, force |-> f.force, ticked |-> f.ticked]
  /\ f.op \in {"fs.rename", "fs.move", "fs.delete"}
  /\ f.recursive \in BOOLEAN /\ f.force \in BOOLEAN /\ f.ticked \in SUBSET Bridges
IsBulkForm(f) ==
  /\ f.kind = "bulk"
  /\ f = [kind |-> "bulk", targets |-> f.targets, recursive |-> f.recursive, force |-> f.force, ticked |-> f.ticked]
  /\ f.recursive \in BOOLEAN /\ f.force \in BOOLEAN /\ f.ticked \in SUBSET Bridges
  /\ \A p, q \in f.targets : IsPrefix(p, q) => p = q
IsCreateForm(f) ==
  /\ f.kind = "create"
  /\ f = [kind |-> "create", plan |-> f.plan, recursive |-> f.recursive, skip |-> f.skip, due |-> f.due,
          checkedFor |-> f.checkedFor]
IsSwitchForm(f) ==
  /\ f.kind = "switch"
  /\ f = [kind |-> "switch", from |-> f.from, to |-> f.to, ack |-> f.ack, known |-> f.known,
          counted |-> f.counted, confirming |-> f.confirming, touched |-> f.touched]
IsForm(f) == f = NoForm \/ IsDiskForm(f) \/ IsBulkForm(f) \/ IsCreateForm(f) \/ IsSwitchForm(f)

DialogTyped ==
  /\ situation \in Situations
  /\ asking = [s \in Checks |-> asking[s]]
  /\ \A s \in InFlight : IsRequest(asking[s])
  /\ IsForm(form)
  /\ form = NoForm => InFlight = {} /\ verdicts = {}
  /\ staged # Nothing => form = NoForm

\* While disk and fleet stand still, what is in flight will be answered, and what
\* is shown was answered, from the situation there is.
Timely ==
  still => /\ \A s \in InFlight : asking[s].since = situation
           /\ \A e \in verdicts : e.says = Verdict(situation, e.of) \/ (e.says = Unanswered /\ form.kind # "switch")

Answered(questions) == {e.of : e \in verdicts} = questions

\* While no two checks overlapped, the one in flight is about the form, and with
\* none in flight so is what is shown.
InOrder ==
  inTurn /\ form.kind \in {"disk", "bulk", "switch"} =>
    /\ \A s, t \in InFlight : s = t
    /\ ~checking => InFlight = {}
    /\ \A s \in InFlight : asking[s].of = Questions(form) \/ (form.kind = "disk" /\ Questions(form) = {})
    /\ form.kind # "switch" /\ InFlight = {} /\ Questions(form) # {} => Answered(Questions(form))
    /\ form.kind = "switch" /\ (\A s \in InFlight : asking[s].phase = "level") => \A e \in verdicts : e.of \in Questions(form)

\* A plan is told from a check of it by its key, in whatever order they come.
QuestionsOf(key) == {MakeFolder(p, key[1]) : p \in Checkable([plan |-> key[2]])}
PlansAnswered ==
  form.kind = "create" =>
    /\ \A s \in InFlight : asking[s].of = QuestionsOf(asking[s].key)
    /\ form.checkedFor # Nowhere => Answered(QuestionsOf(form.checkedFor))

\* Between a click and the ids, unless something was changed.
Clicked ==
  form.kind = "switch" /\ form.confirming /\ ~form.touched /\ inTurn =>
    /\ InFlight = {} /\ form.to # Nowhere /\ OtherBlockers = {}
    /\ Emptiness = "occupied" => form.ack

DialogInv == DialogTyped /\ Timely /\ InOrder /\ PlansAnswered /\ Clicked /\ StagedAsJudged

-------------------------------------------------------------------------------
(* What is asked and answered.                                               *)

\* An answer has an entry for each question, from one of two situations or none.
LEMMA RepliesSay ==
  ASSUME NEW r, NEW answers \in Replies(r)
  PROVE  /\ {e.of : e \in answers} = r.of
         /\ \A e \in answers : e.says \in {Verdict(r.since, e.of), Verdict(situation, e.of), Unanswered}
<1>1. PICK from \in [r.of -> {"asked", "now", "none"}] : answers = {[of |-> q, says |-> Answer(r, q, from[q])] : q \in r.of}
  BY DEF Replies
<1>2. \A q \in r.of : Answer(r, q, from[q]) \in {Verdict(r.since, q), Verdict(situation, q), Unanswered}
  BY DEF Answer
<1>3. \A e \in answers : \E q \in r.of : e = [of |-> q, says |-> Answer(r, q, from[q])]
  BY <1>1
<1>4. ASSUME NEW q \in r.of PROVE \E e \in answers : e.of = q
  <2>1. [of |-> q, says |-> Answer(r, q, from[q])] \in answers
    BY <1>1
  <2> QED
    BY <2>1
<1> QED
  BY <1>2, <1>3, <1>4

\* A check that is sent is in flight, and where none overlapped before none but it.
LEMMA Asking ==
  ASSUME asking = [s \in Checks |-> asking[s]], NEW s \in Checks, NEW f, Ask(s, f)
  PROVE  /\ asking' = [t \in Checks |-> asking'[t]]
         /\ asking'[s] = Request(f) /\ InFlight' = InFlight \cup {s}
         /\ \A t \in InFlight' \ {s} : t \in InFlight /\ asking'[t] = asking[t]
         /\ inTurn' => inTurn /\ InFlight' = {s}
         /\ checking'
<1>1. asking' = [asking EXCEPT ![s] = Request(f)] /\ checking' /\ inTurn' = (inTurn /\ InFlight \subseteq {s})
  BY DEF Ask
<1>2. Request(f) # NoCheck
  BY DEF Request, NoCheck
<1>3. \A t \in Checks : asking'[t] = IF t = s THEN Request(f) ELSE asking[t]
  BY <1>1
<1>4. InFlight' = InFlight \cup {s}
  BY <1>2, <1>3 DEF InFlight, Idle
<1>5. asking' = [t \in Checks |-> asking'[t]]
  BY <1>1
<1>6. inTurn' => inTurn /\ InFlight' = {s}
  BY <1>1, <1>4
<1>7. \A t \in InFlight' \ {s} : t \in InFlight /\ asking'[t] = asking[t]
  BY <1>3, <1>4 DEF InFlight
<1> QED
  BY <1>1, <1>3, <1>4, <1>5, <1>6, <1>7

LEMMA Freeing ==
  ASSUME asking = [s \in Checks |-> asking[s]], NEW s \in Checks, asking' = [asking EXCEPT ![s] = NoCheck]
  PROVE  /\ asking' = [t \in Checks |-> asking'[t]]
         /\ InFlight' = InFlight \ {s}
         /\ \A t \in InFlight' : t \in InFlight /\ t # s /\ asking'[t] = asking[t]
<1>1. \A t \in Checks : asking'[t] = IF t = s THEN NoCheck ELSE asking[t]
  OBVIOUS
<1> QED
  BY <1>1 DEF InFlight, Idle

-------------------------------------------------------------------------------
(* The inductive invariant holds at first and after each step.               *)

LEMMA KindsOfForms ==
  ASSUME NEW f, IsForm(f)
  PROVE  /\ f.kind \in {"none", "disk", "bulk", "create", "switch"}
         /\ f.kind = "none" <=> f = NoForm
         /\ f.kind = "disk" <=> IsDiskForm(f)
         /\ f.kind = "bulk" <=> IsBulkForm(f)
         /\ f.kind = "create" <=> IsCreateForm(f)
         /\ f.kind = "switch" <=> IsSwitchForm(f)
  BY DEF IsForm, IsDiskForm, IsBulkForm, IsCreateForm, IsSwitchForm, NoForm

\* The questions a plan asks are those of its key.
LEMMA PlanQuestions ==
  ASSUME NEW f, f.kind = "create"
  PROVE  Questions(f) = QuestionsOf(PlanKey(f))
<1>1. Questions(f) = {MakeFolder(p, f.recursive) : p \in Checkable(f)}
  BY DEF Questions
<1>2. PlanKey(f)[1] = f.recursive /\ PlanKey(f)[2] = f.plan
  BY DEF PlanKey
<1>3. Checkable([plan |-> PlanKey(f)[2]]) = Checkable(f)
  BY <1>2 DEF Checkable
<1> QED
  BY <1>1, <1>2, <1>3 DEF QuestionsOf

\* When something was handed over, no dialog is open and nothing happens any more.
LEMMA OpenIsUnstaged ==
  ASSUME DialogTyped, DialogNext
  PROVE  staged = Nothing
<1>1. SUFFICES ASSUME staged # Nothing PROVE FALSE
  OBVIOUS
<1>2. form = NoForm /\ form.kind = "none"
  BY <1>1 DEF DialogTyped, NoForm
<1>3. ~Click /\ ~Opted /\ \A f : ~OpenWith(f)
  BY <1>1, <1>2 DEF Click, Opted, OpenWith
<1> QED
  BY <1>2, <1>3 DEF DialogNext, ToggleSelected, ToggleAll, ExpandRow, CollapseRow, ReloadTree,
    OpenDisk, OpenBulk, OpenCreate, OpenSwitch, Choose, Rename, OptionsAnswered, StageDisk, StageBulk,
    EditPlan, PlanSettles, CreateAnswered, StageCreate, EditDestination, Acknowledge, CountFails,
    DestinationJudged, DestinationRead, Confirm, IdsAnswered, IdsFailed, SituationChanges

LEMMA DialogStart == DialogInit => DialogInv
<1>1. SUFFICES ASSUME DialogInit PROVE DialogInv
  OBVIOUS
<1>2. form = NoForm /\ form.kind = "none" /\ verdicts = {} /\ staged = Nothing
  BY <1>1 DEF DialogInit, NoForm
<1>3. asking = [s \in Checks |-> NoCheck] /\ InFlight = {}
  BY <1>1 DEF DialogInit, InFlight, Idle
<1>4. DialogTyped
  BY <1>1, <1>2, <1>3 DEF DialogInit, DialogTyped, IsForm
<1>5. Timely /\ InOrder /\ PlansAnswered /\ Clicked
  BY <1>2, <1>3 DEF Timely, InOrder, PlansAnswered, Clicked
<1>6. StagedAsJudged
  BY <1>2 DEF StagedAsJudged, StagedPasses, SwitchAsJudged
<1> QED
  BY <1>4, <1>5, <1>6 DEF DialogInv

\* What is about the dialog, for the steps that leave nothing staged.
Kept == DialogTyped /\ Timely /\ InOrder /\ PlansAnswered /\ Clicked

LEMMA NothingStaged ==
  ASSUME Kept', staged' = Nothing
  PROVE  DialogInv'
<1>1. StagedAsJudged'
  BY DEF StagedAsJudged, StagedPasses, SwitchAsJudged
<1> QED
  BY <1>1 DEF Kept, DialogInv

\* A step that leaves the dialog alone.
LEMMA TheSameDialog ==
  ASSUME Kept, UNCHANGED <<situation, form, verdicts, asking, checking, staged, inTurn, still>>
  PROVE  Kept'
<1>1. InFlight' = InFlight /\ Emptiness' = Emptiness /\ OtherBlockers' = OtherBlockers
  BY DEF InFlight, Idle, Emptiness, MkdirPath, OtherBlockers
<1>2. DialogTyped'
  BY <1>1 DEF Kept, DialogTyped
<1>3. Timely'
  BY <1>1 DEF Kept, Timely, Verdict, Blockers, Raised
<1>4. InOrder' /\ PlansAnswered'
  BY <1>1 DEF Kept, InOrder, PlansAnswered, Answered
<1>5. Clicked'
  BY <1>1 DEF Kept, Clicked
<1> QED
  BY <1>2, <1>3, <1>4, <1>5 DEF Kept

LEMMA Closing ==
  ASSUME Kept, NEW items, NEW calm, Hand(items, calm)
  PROVE  Kept'
<1>1. form' = NoForm /\ form'.kind = "none" /\ verdicts' = {} /\ asking' = [s \in Checks |-> NoCheck]
  BY DEF Hand, NoForm
<1>2. InFlight' = {}
  BY <1>1 DEF InFlight, Idle
<1>3. DialogTyped'
  <2>1. situation' = situation
    BY DEF Hand
  <2> QED
    BY <1>1, <1>2, <2>1 DEF Kept, DialogTyped, IsForm
<1>4. Timely' /\ InOrder' /\ PlansAnswered' /\ Clicked'
  BY <1>1, <1>2 DEF Timely, InOrder, PlansAnswered, Clicked
<1> QED
  BY <1>3, <1>4 DEF Kept

\* A check that is asked about the new form, which stays to be seen as typed.
LEMMA AskedInTurn ==
  ASSUME Kept, NEW s \in Checks, NEW f, f.kind \in {"disk", "bulk", "switch"},
         Ask(s, f), form' = f
  PROVE  /\ \A t \in InFlight' : IsRequest(asking[t])'
         /\ (\A t \in InFlight : asking[t].since = situation) => \A t \in InFlight' : asking'[t].since = situation
         /\ InOrder'
<1>1. asking = [t \in Checks |-> asking[t]] /\ \A t \in InFlight : IsRequest(asking[t])
  BY DEF Kept, DialogTyped
<1>2. /\ asking'[s] = Request(f) /\ InFlight' = InFlight \cup {s} /\ checking'
      /\ \A t \in InFlight' \ {s} : t \in InFlight /\ asking'[t] = asking[t]
      /\ inTurn' => inTurn /\ InFlight' = {s}
  BY <1>1, Asking
<1>3. /\ IsRequest(asking'[s]) /\ asking'[s].since = situation /\ asking'[s].of = Questions(f)
      /\ asking'[s].phase = "verdict"
  BY <1>2 DEF Request, IsRequest
<1>4. \A t \in InFlight' : IsRequest(asking[t])'
  BY <1>1, <1>2, <1>3 DEF IsRequest
<1>5. (\A t \in InFlight : asking[t].since = situation) => \A t \in InFlight' : asking'[t].since = situation
  BY <1>2, <1>3
<1>6. InOrder'
  <2>1. SUFFICES ASSUME inTurn' PROVE InOrder'
    BY DEF InOrder
  <2>2. InFlight' = {s}
    BY <1>2, <2>1
  <2>3. /\ \A t \in InFlight' : asking'[t].of = Questions(f) /\ asking'[t].phase = "verdict"
        /\ \A t, u \in InFlight' : t = u
        /\ s \in InFlight'
    BY <1>3, <2>2
  <2> QED
    BY <1>2, <2>3 DEF InOrder
<1> QED
  BY <1>4, <1>5, <1>6

LEMMA Opening ==
  ASSUME Kept, NEW f, IsForm(f), f # NoForm,
         f.kind = "switch" => f.to = Nowhere /\ ~f.confirming,
         f.kind = "create" /\ f.checkedFor # Nowhere => QuestionsOf(f.checkedFor) = {},
         OpenWith(f)
  PROVE  Kept'
<1>1. /\ form = NoForm /\ form' = f /\ staged = Nothing /\ staged' = Nothing
      /\ UNCHANGED <<situation, verdicts, still>>
      /\ IF Questions(f) = {} THEN UNCHANGED <<asking, checking, inTurn>> ELSE Ask(1, f)
  BY DEF OpenWith
<1>2. /\ InFlight = {} /\ verdicts = {} /\ verdicts' = {} /\ situation \in Situations
      /\ asking = [t \in Checks |-> asking[t]]
  BY <1>1 DEF Kept, DialogTyped
<1>3. 1 \in Checks
  BY DialogAssumption DEF Checks
<1>4. f.kind \in {"disk", "bulk", "create", "switch"}
  BY KindsOfForms
<1>5. /\ Questions(f) # {} => /\ asking'[1] = Request(f) /\ InFlight' = {1} /\ checking'
      /\ Questions(f) = {} => InFlight' = {}
      /\ asking' = [t \in Checks |-> asking'[t]]
  <2>1. CASE Questions(f) = {}
    BY <1>1, <1>2, <2>1 DEF InFlight, Idle
  <2>2. CASE Questions(f) # {}
    BY <1>1, <1>2, <1>3, <2>2, Asking
  <2> QED
    BY <2>1, <2>2
<1>6. Questions(f) # {} => /\ IsRequest(asking'[1]) /\ asking'[1].since = situation
                           /\ asking'[1].of = Questions(f) /\ asking'[1].phase = "verdict"
                           /\ f.kind = "create" => asking'[1].key = PlanKey(f)
  BY <1>5 DEF Request, IsRequest
<1>7. \A t \in InFlight' : t = 1 /\ Questions(f) # {}
  BY <1>5
<1>8. DialogTyped'
  BY <1>1, <1>2, <1>5, <1>6, <1>7 DEF DialogTyped, IsRequest
<1>9. Timely'
  BY <1>1, <1>2, <1>6, <1>7 DEF Timely
<1>10. InOrder'
  BY <1>1, <1>2, <1>5, <1>6, <1>7 DEF InOrder
<1>11. PlansAnswered'
  <2>1. SUFFICES ASSUME f.kind = "create" PROVE PlansAnswered'
    BY <1>1 DEF PlansAnswered
  <2>2. \A t \in InFlight' : asking'[t].of = QuestionsOf(asking'[t].key)
    BY <1>6, <1>7, <2>1, PlanQuestions
  <2>3. f.checkedFor # Nowhere => Answered(QuestionsOf(f.checkedFor))'
    BY <1>2, <2>1 DEF Answered
  <2> QED
    BY <1>1, <2>2, <2>3 DEF PlansAnswered
<1>12. Clicked'
  BY <1>1 DEF Clicked
<1> QED
  BY <1>8, <1>9, <1>10, <1>11, <1>12 DEF Kept

LEMMA AnOpening ==
  ASSUME Kept, OpenDisk \/ OpenBulk \/ OpenCreate \/ OpenSwitch
  PROVE  Kept' /\ staged' = Nothing
<1>1. CASE OpenDisk
  <2>1. PICK op \in {"fs.rename", "fs.move", "fs.delete"} : \E p : OpenWith(DiskForm(op, p))
    BY <1>1 DEF OpenDisk
  <2>2. PICK p : OpenWith(DiskForm(op, p))
    BY <2>1
  <2>3. IsDiskForm(DiskForm(op, p)) /\ DiskForm(op, p) # NoForm /\ DiskForm(op, p).kind = "disk"
    BY DEF IsDiskForm, DiskForm, NoForm, Bridges
  <2>4. IsForm(DiskForm(op, p))
    BY <2>3 DEF IsForm
  <2>5. Kept'
    BY <2>2, <2>3, <2>4, Opening
  <2> QED
    BY <2>2, <2>5 DEF OpenWith
<1>2. CASE OpenBulk
  <2> DEFINE targets == PrunableFolders(selected)
  <2>1. OpenWith(BulkForm(targets))
    BY <1>2 DEF OpenBulk
  <2>2. \A p, q \in targets : IsPrefix(p, q) => p = q
    BY DEF PrunableFolders, IsStrictPrefix
  <2> HIDE DEF targets
  <2>3. IsBulkForm(BulkForm(targets)) /\ BulkForm(targets) # NoForm /\ BulkForm(targets).kind = "bulk"
    BY <2>2 DEF IsBulkForm, BulkForm, NoForm, Bridges
  <2>4. IsForm(BulkForm(targets))
    BY <2>3 DEF IsForm
  <2>5. Kept'
    BY <2>1, <2>3, <2>4, Opening
  <2> QED
    BY <2>1, <2>5 DEF OpenWith
<1>3. CASE OpenCreate
  <2>1. PICK draft \in Drafts : OpenWith(CreateForm(draft))
    BY <1>3 DEF OpenCreate
  <2>2. IsCreateForm(CreateForm(draft)) /\ CreateForm(draft) # NoForm /\ CreateForm(draft).kind = "create"
    BY DEF IsCreateForm, CreateForm, NoForm
  <2>3. IsForm(CreateForm(draft))
    BY <2>2 DEF IsForm
  <2>4. CreateForm(draft).checkedFor # Nowhere => QuestionsOf(CreateForm(draft).checkedFor) = {}
    <3>1. SUFFICES ASSUME draft = <<>> PROVE QuestionsOf(<<TRUE, draft>>) = {}
      BY DEF CreateForm
    <3>2. Checkable([plan |-> <<>>]) = {}
      BY DialogAssumption DEF Checkable
    <3> QED
      BY <3>1, <3>2 DEF QuestionsOf
  <2>5. Kept'
    BY <2>1, <2>2, <2>3, <2>4, Opening
  <2> QED
    BY <2>1, <2>5 DEF OpenWith
<1>4. CASE OpenSwitch
  <2>1. PICK p : OpenWith(SwitchForm(p))
    BY <1>4 DEF OpenSwitch
  <2>2. /\ IsSwitchForm(SwitchForm(p)) /\ SwitchForm(p) # NoForm /\ SwitchForm(p).kind = "switch"
        /\ SwitchForm(p).to = Nowhere /\ ~SwitchForm(p).confirming
    BY DEF IsSwitchForm, SwitchForm, NoForm
  <2>3. IsForm(SwitchForm(p))
    BY <2>2 DEF IsForm
  <2>4. Kept'
    BY <2>1, <2>2, <2>3, Opening
  <2> QED
    BY <2>1, <2>4 DEF OpenWith
<1> QED
  BY <1>1, <1>2, <1>3, <1>4

\* A form that is changed and asked about.
LEMMA Rechecked ==
  ASSUME Kept, NEW s \in Checks, NEW f, IsForm(f), f.kind = form.kind, f.kind \in {"disk", "bulk", "switch"},
         Ask(s, f), form' = f, staged' = Nothing, UNCHANGED <<situation, still>>,
         still => \A e \in verdicts' : e.says = Verdict(situation, e.of) \/ (e.says = Unanswered /\ form.kind # "switch"),
         Clicked'
  PROVE  Kept'
<1>1. /\ \A t \in InFlight' : IsRequest(asking[t])'
      /\ (\A t \in InFlight : asking[t].since = situation) => \A t \in InFlight' : asking'[t].since = situation
      /\ InOrder'
  BY AskedInTurn
<1>2. asking' = [t \in Checks |-> asking'[t]]
  BY Asking DEF Kept, DialogTyped
<1>3. f # NoForm
  BY DEF NoForm
<1>4. DialogTyped'
  BY <1>1, <1>2, <1>3 DEF Kept, DialogTyped
<1>5. Timely'
  <2>1. SUFFICES ASSUME still PROVE Timely'
    BY DEF Timely
  <2>2. \A t \in InFlight' : asking'[t].since = situation'
    BY <1>1, <2>1 DEF Kept, Timely
  <2>3. \A e \in verdicts' : e.says = Verdict(situation, e.of)' \/ (e.says = Unanswered /\ form'.kind # "switch")
    BY <2>1 DEF Verdict, Blockers, Raised
  <2> QED
    BY <2>2, <2>3 DEF Timely
<1>6. PlansAnswered'
  BY DEF PlansAnswered
<1> QED
  BY <1>1, <1>4, <1>5, <1>6 DEF Kept

LEMMA Chosen ==
  ASSUME Kept, staged = Nothing, Choose
  PROVE  Kept'
<1>1. PICK s \in Checks, option \in {"recursive", "force"} \cup Bridges : form' = Toggled(option) /\ Ask(s, Toggled(option))
  BY DEF Choose, Recheck
<1>2. UNCHANGED <<situation, verdicts, staged, still>> /\ form.kind \in {"disk", "bulk"}
  BY DEF Choose, Opted
<1>3. IsDiskForm(form) \/ IsBulkForm(form)
  BY <1>2, KindsOfForms DEF Kept, DialogTyped
<1>4. IsForm(Toggled(option)) /\ Toggled(option).kind = form.kind
  <2> DEFINE r == IF option = "recursive" THEN ~form.recursive ELSE form.recursive
             force == IF option = "force" THEN ~form.force ELSE form.force
             ticked == IF option \in Bridges THEN (form.ticked \ {option}) \cup ({option} \ form.ticked) ELSE form.ticked
  <2>0. /\ form.recursive \in BOOLEAN /\ form.force \in BOOLEAN /\ form.ticked \in SUBSET Bridges
        /\ r \in BOOLEAN /\ force \in BOOLEAN /\ ticked \in SUBSET Bridges
    <3>1. form.recursive \in BOOLEAN /\ form.force \in BOOLEAN /\ form.ticked \in SUBSET Bridges
      BY <1>3 DEF IsDiskForm, IsBulkForm
    <3> QED
      BY <3>1
  <2>3. Toggled(option) = [form EXCEPT !.recursive = r, !.force = force, !.ticked = ticked]
    BY DEF Toggled
  <2> HIDE DEF r, force, ticked
  <2>1. CASE IsDiskForm(form)
    <3>1. IsDiskForm(Toggled(option)) /\ Toggled(option).kind = "disk"
      BY <2>0, <2>1, <2>3 DEF IsDiskForm
    <3> QED
      BY <2>1, <3>1 DEF IsForm, IsDiskForm
  <2>2. CASE IsBulkForm(form)
    <3>1. IsBulkForm(Toggled(option)) /\ Toggled(option).kind = "bulk"
      BY <2>0, <2>2, <2>3 DEF IsBulkForm
    <3> QED
      BY <2>2, <3>1 DEF IsForm, IsBulkForm
  <2> QED
    BY <1>3, <2>1, <2>2
<1>5. Clicked'
  BY <1>1, <1>2, <1>4 DEF Clicked
<1>6. still => \A e \in verdicts' : e.says = Verdict(situation, e.of) \/ (e.says = Unanswered /\ form.kind # "switch")
  BY <1>2 DEF Kept, Timely
<1> QED
  BY <1>1, <1>2, <1>4, <1>5, <1>6, Rechecked

LEMMA Renamed ==
  ASSUME Kept, staged = Nothing, Rename
  PROVE  Kept'
<1>1. PICK s \in Checks, to \in TypedPaths \cup {Nowhere} :
        /\ form' = [form EXCEPT !.to = to]
        /\ IF Questions(form') = {} THEN verdicts' = {} /\ UNCHANGED <<asking, checking, inTurn>>
           ELSE Ask(s, form') /\ UNCHANGED verdicts
  BY DEF Rename
<1>2. UNCHANGED <<situation, staged, still>> /\ form.kind = "disk"
  BY DEF Rename
<1>3. IsDiskForm(form)
  BY <1>2, KindsOfForms DEF Kept, DialogTyped
<1>4. IsDiskForm(form') /\ IsForm(form') /\ form'.kind = "disk" /\ form' # NoForm
  <2>1. IsDiskForm(form') /\ form'.kind = "disk"
    BY <1>1, <1>3 DEF IsDiskForm
  <2> QED
    BY <2>1 DEF IsForm, NoForm
<1>5. Clicked' /\ PlansAnswered'
  BY <1>4 DEF Clicked, PlansAnswered
<1>6. CASE Questions(form') = {}
  <2>1. verdicts' = {} /\ UNCHANGED <<asking, checking, inTurn>> /\ InFlight' = InFlight
    BY <1>1, <1>6 DEF InFlight, Idle
  <2>2. DialogTyped'
    BY <1>2, <1>4, <2>1 DEF Kept, DialogTyped
  <2>3. Timely'
    BY <1>2, <2>1 DEF Kept, Timely
  <2>4. InOrder'
    BY <1>2, <1>4, <1>6, <2>1 DEF Kept, InOrder
  <2> QED
    BY <1>5, <2>2, <2>3, <2>4 DEF Kept
<1>7. CASE Questions(form') # {}
  <2>1. Ask(s, form') /\ UNCHANGED verdicts
    BY <1>1, <1>7
  <2>2. still => \A e \in verdicts' : e.says = Verdict(situation, e.of) \/ (e.says = Unanswered /\ form.kind # "switch")
    BY <2>1 DEF Kept, Timely
  <2> DEFINE f == form'
  <2>3. IsForm(f) /\ f.kind = form.kind /\ f.kind \in {"disk", "bulk", "switch"} /\ Ask(s, f) /\ form' = f
    BY <1>2, <1>4, <2>1
  <2>4. staged' = Nothing
    BY <1>2
  <2> HIDE DEF f
  <2> QED
    BY <1>2, <1>5, <2>2, <2>3, <2>4, Rechecked
<1> QED
  BY <1>6, <1>7

LEMMA OptionsSettled ==
  ASSUME Kept, staged = Nothing, OptionsAnswered
  PROVE  Kept'
<1>1. PICK s \in InFlight : \E answers \in Replies(asking[s]) :
         /\ verdicts' = answers /\ form' = Explained(form, answers)
         /\ IF form' # form THEN Ask(s, form')
            ELSE asking' = [asking EXCEPT ![s] = NoCheck] /\ checking' = FALSE /\ UNCHANGED inTurn
  BY DEF OptionsAnswered
<1>2. /\ verdicts' \in Replies(asking[s]) /\ form' = Explained(form, verdicts')
      /\ IF form' # form THEN Ask(s, form')
         ELSE asking' = [asking EXCEPT ![s] = NoCheck] /\ checking' = FALSE /\ UNCHANGED inTurn
  BY <1>1
<1>3. UNCHANGED <<situation, staged, still>> /\ form.kind \in {"disk", "bulk"} /\ s \in Checks
  BY DEF OptionsAnswered, InFlight
<1>4. IsDiskForm(form) \/ IsBulkForm(form)
  BY <1>3, KindsOfForms DEF Kept, DialogTyped
<1>5. IsForm(form') /\ form'.kind = form.kind /\ form' # NoForm
  <2>1. CASE IsDiskForm(form)
    <3>1. IsDiskForm(form') /\ form'.kind = "disk" /\ form.kind = "disk"
      BY <1>2, <2>1 DEF IsDiskForm, Explained, Raises
    <3> QED
      BY <3>1 DEF IsForm, NoForm
  <2>2. CASE IsBulkForm(form)
    <3>1. IsBulkForm(form') /\ form'.kind = "bulk" /\ form.kind = "bulk"
      BY <1>2, <2>2 DEF IsBulkForm, Explained, Raises
    <3> QED
      BY <3>1 DEF IsForm, NoForm
  <2> QED
    BY <1>4, <2>1, <2>2
<1>6. /\ {e.of : e \in verdicts'} = asking[s].of
      /\ \A e \in verdicts' : e.says \in {Verdict(asking[s].since, e.of), Verdict(situation, e.of), Unanswered}
  BY <1>2, RepliesSay
<1>7. still => \A e \in verdicts' : e.says = Verdict(situation, e.of) \/ (e.says = Unanswered /\ form.kind # "switch")
  <2>1. still => asking[s].since = situation
    BY DEF Kept, Timely
  <2> QED
    BY <1>3, <1>6, <2>1
<1>8. Clicked' /\ PlansAnswered'
  BY <1>3, <1>5 DEF Clicked, PlansAnswered
<1>9. CASE form' # form
  <2> DEFINE f == form'
  <2>1. IsForm(f) /\ f.kind = form.kind /\ f.kind \in {"disk", "bulk", "switch"} /\ Ask(s, f) /\ form' = f
    BY <1>2, <1>3, <1>5, <1>9
  <2>2. staged' = Nothing
    BY <1>3
  <2> HIDE DEF f
  <2> QED
    BY <1>3, <1>7, <1>8, <2>1, <2>2, Rechecked
<1>10. CASE form' = form
  <2>1. asking' = [asking EXCEPT ![s] = NoCheck] /\ checking' = FALSE /\ inTurn' = inTurn
    BY <1>2, <1>10
  <2>2. asking = [t \in Checks |-> asking[t]]
    BY DEF Kept, DialogTyped
  <2>3. /\ asking' = [t \in Checks |-> asking'[t]]
        /\ InFlight' = InFlight \ {s}
        /\ \A t \in InFlight' : t \in InFlight /\ t # s /\ asking'[t] = asking[t]
    BY <1>3, <2>1, <2>2, Freeing
  <2>4. DialogTyped'
    BY <1>3, <1>5, <1>10, <2>3 DEF Kept, DialogTyped, IsRequest
  <2>5. Timely'
    <3>1. SUFFICES ASSUME still PROVE Timely'
      BY <1>3 DEF Timely
    <3>2. \A t \in InFlight' : asking'[t].since = situation'
      BY <1>3, <2>3, <3>1 DEF Kept, Timely
    <3>3. \A e \in verdicts' : e.says = Verdict(situation, e.of)' \/ (e.says = Unanswered /\ form'.kind # "switch")
      BY <1>3, <1>7, <1>10, <3>1 DEF Verdict, Blockers, Raised
    <3> QED
      BY <3>2, <3>3 DEF Timely
  <2>6. InOrder'
    <3>1. SUFFICES ASSUME inTurn PROVE InOrder'
      BY <2>1 DEF InOrder
    <3>2. /\ \A t, u \in InFlight : t = u
          /\ asking[s].of = Questions(form) \/ Questions(form) = {}
      BY <1>3, <3>1 DEF Kept, InOrder
    <3>3. InFlight' = {}
      BY <2>3, <3>2
    <3>4. Questions(form) # {} => Answered(Questions(form))'
      BY <1>6, <1>10, <3>2 DEF Answered
    <3> QED
      BY <1>3, <1>10, <3>3, <3>4 DEF InOrder
  <2> QED
    BY <1>8, <2>4, <2>5, <2>6 DEF Kept
<1> QED
  BY <1>9, <1>10

\* The invariant of a plan, which no order of the checks is needed for.
LEMMA StillAPlan ==
  ASSUME IsCreateForm(form'), DialogTyped', Timely', PlansAnswered'
  PROVE  Kept'
<1>1. form'.kind = "create"
  BY DEF IsCreateForm
<1>2. InOrder' /\ Clicked'
  BY <1>1 DEF InOrder, Clicked
<1> QED
  BY <1>2 DEF Kept

LEMMA PlanEdited ==
  ASSUME Kept, staged = Nothing, EditPlan
  PROVE  Kept'
<1>1. UNCHANGED <<situation, verdicts, asking, staged, still>> /\ form.kind = "create"
  BY DEF EditPlan
<1>2. IsCreateForm(form)
  BY <1>1, KindsOfForms DEF Kept, DialogTyped
<1>3. IsCreateForm(form') /\ form'.checkedFor = form.checkedFor
  <2>1. CASE \E draft \in Drafts, recursive \in BOOLEAN :
               form' = [form EXCEPT !.plan = draft, !.recursive = recursive, !.due = TRUE]
    BY <1>2, <2>1 DEF IsCreateForm
  <2>2. CASE form' = [form EXCEPT !.skip = ~@]
    BY <1>2, <2>2 DEF IsCreateForm
  <2> QED
    BY <2>1, <2>2 DEF EditPlan
<1>4. form'.kind = "create" /\ IsForm(form') /\ form' # NoForm
  BY <1>3 DEF IsCreateForm, IsForm, NoForm
<1>5. InFlight' = InFlight
  BY <1>1 DEF InFlight, Idle
<1>6. DialogTyped'
  BY <1>1, <1>4, <1>5 DEF Kept, DialogTyped
<1>7. Timely'
  BY <1>1, <1>4, <1>5 DEF Kept, Timely, Verdict, Blockers, Raised
<1>8. PlansAnswered'
  BY <1>1, <1>3, <1>5 DEF Kept, PlansAnswered, Answered
<1> QED
  BY <1>3, <1>6, <1>7, <1>8, StillAPlan

\* Taking a check for an older one changes nothing of what it asks.
LEMMA SupersededIsAsked ==
  ASSUME Kept
  PROVE  \A t \in Checks :
           /\ t \in InFlight => /\ IsRequest(Superseded[t]) /\ Superseded[t] # NoCheck
                                /\ Superseded[t].of = asking[t].of /\ Superseded[t].key = asking[t].key
                                /\ Superseded[t].since = asking[t].since
           /\ t \notin InFlight => Superseded[t] = NoCheck
<1>1. TAKE t \in Checks
<1>2. CASE t \notin InFlight
  BY <1>2 DEF InFlight, Superseded
<1>3. CASE t \in InFlight
  <2>1. IsRequest(asking[t]) /\ ~Idle(t)
    BY <1>3 DEF Kept, DialogTyped, InFlight
  <2>2. Superseded[t] = [asking[t] EXCEPT !.latest = FALSE]
    BY <2>1 DEF Superseded
  <2>3. Superseded[t] = [phase |-> asking[t].phase, of |-> asking[t].of, since |-> asking[t].since,
                         latest |-> FALSE, key |-> asking[t].key]
    BY <2>1, <2>2 DEF IsRequest
  <2> QED
    BY <1>3, <2>1, <2>3 DEF IsRequest, NoCheck
<1> QED
  BY <1>2, <1>3

LEMMA PlanSettled ==
  ASSUME Kept, staged = Nothing, PlanSettles
  PROVE  Kept'
<1>1. UNCHANGED <<situation, staged, still>> /\ form.kind = "create"
  BY DEF PlanSettles
<1>2. IsCreateForm(form)
  BY <1>1, KindsOfForms DEF Kept, DialogTyped
<1>3. Superseded = [t \in Checks |-> Superseded[t]]
  BY DEF Superseded
<1>4. CASE Questions(form) = {}
  <2>1. asking' = Superseded /\ verdicts' = {} /\ form' = [form EXCEPT !.due = FALSE, !.checkedFor = PlanKey(form)]
    BY <1>4 DEF PlanSettles
  <2>2. IsCreateForm(form') /\ form'.checkedFor = PlanKey(form)
    BY <1>2, <2>1 DEF IsCreateForm
  <2>3. form'.kind = "create" /\ IsForm(form') /\ form' # NoForm
    BY <2>2 DEF IsCreateForm, IsForm, NoForm
  <2>4. InFlight' = InFlight /\ InFlight \subseteq Checks
    BY <2>1, SupersededIsAsked DEF InFlight, Idle
  <2>5. DialogTyped'
    <3>1. \A t \in InFlight' : IsRequest(asking[t])'
      BY <2>1, <2>4, SupersededIsAsked DEF IsRequest
    <3> QED
      BY <1>1, <1>3, <2>1, <2>3, <3>1 DEF Kept, DialogTyped
  <2>6. Timely'
    BY <1>1, <2>1, <2>4, SupersededIsAsked DEF Kept, Timely
  <2>7. Questions(form) = QuestionsOf(PlanKey(form))
    BY <1>1, PlanQuestions
  <2>8. PlansAnswered'
    BY <1>1, <1>4, <2>1, <2>2, <2>4, <2>7, SupersededIsAsked DEF Kept, PlansAnswered, Answered
  <2> QED
    BY <2>2, <2>5, <2>6, <2>8, StillAPlan
<1>5. CASE Questions(form) # {}
  <2>1. PICK s \in Checks : Idle(s) /\ asking' = [Superseded EXCEPT ![s] = Request(form)]
    BY <1>5 DEF PlanSettles
  <2>2. form' = [form EXCEPT !.due = FALSE] /\ UNCHANGED verdicts
    BY <1>5 DEF PlanSettles
  <2>3. IsCreateForm(form') /\ form'.checkedFor = form.checkedFor
    BY <1>2, <2>2 DEF IsCreateForm
  <2>4. form'.kind = "create" /\ IsForm(form') /\ form' # NoForm
    BY <2>3 DEF IsCreateForm, IsForm, NoForm
  <2>5. /\ IsRequest(Request(form)) /\ Request(form) # NoCheck /\ Request(form).since = situation
        /\ Request(form).of = QuestionsOf(Request(form).key)
    BY <1>1, PlanQuestions DEF Request, IsRequest, NoCheck
  <2>6. /\ \A t \in Checks : asking'[t] = IF t = s THEN Request(form) ELSE Superseded[t]
        /\ asking' = [t \in Checks |-> asking'[t]]
    BY <1>3, <2>1
  <2>7. InFlight' = InFlight \cup {s} /\ InFlight \subseteq Checks
    BY <2>5, <2>6, SupersededIsAsked DEF InFlight, Idle
  <2>8. DialogTyped'
    <3>1. \A t \in InFlight' : IsRequest(asking[t])'
      BY <2>5, <2>6, <2>7, SupersededIsAsked DEF IsRequest
    <3> QED
      BY <1>1, <2>4, <2>6, <3>1 DEF Kept, DialogTyped
  <2>9. Timely'
    <3>1. still => \A t \in InFlight' : asking'[t].since = situation
      BY <2>5, <2>6, <2>7, SupersededIsAsked DEF Kept, Timely
    <3> QED
      BY <1>1, <2>2, <2>4, <3>1 DEF Kept, Timely, Verdict, Blockers, Raised
  <2>10. PlansAnswered'
    <3>1. \A t \in InFlight' : asking'[t].of = QuestionsOf(asking'[t].key)
      BY <1>1, <2>5, <2>6, <2>7, SupersededIsAsked DEF Kept, PlansAnswered
    <3> QED
      BY <1>1, <2>2, <2>3, <3>1 DEF Kept, PlansAnswered, Answered
  <2> QED
    BY <2>3, <2>8, <2>9, <2>10, StillAPlan
<1> QED
  BY <1>4, <1>5

LEMMA PlanChecked ==
  ASSUME Kept, staged = Nothing, CreateAnswered
  PROVE  Kept'
<1>1. PICK s \in InFlight : \E answers \in Replies(asking[s]) :
         /\ asking' = [asking EXCEPT ![s] = NoCheck]
         /\ IF IsMine(asking[s])
            THEN verdicts' = answers /\ checking' = FALSE /\ form' = [form EXCEPT !.checkedFor = asking[s].key]
            ELSE UNCHANGED <<verdicts, checking, form>>
  BY DEF CreateAnswered
<1>2. /\ asking' = [asking EXCEPT ![s] = NoCheck]
      /\ \/ verdicts' \in Replies(asking[s]) /\ form' = [form EXCEPT !.checkedFor = asking[s].key]
         \/ UNCHANGED <<verdicts, form>>
  BY <1>1
<1>3. UNCHANGED <<situation, staged, still>> /\ form.kind = "create" /\ s \in Checks
  BY DEF CreateAnswered, InFlight
<1>4. IsCreateForm(form)
  BY <1>3, KindsOfForms DEF Kept, DialogTyped
<1>5. asking = [t \in Checks |-> asking[t]]
  BY DEF Kept, DialogTyped
<1>6. /\ asking' = [t \in Checks |-> asking'[t]]
      /\ InFlight' = InFlight \ {s}
      /\ \A t \in InFlight' : t \in InFlight /\ t # s /\ asking'[t] = asking[t]
  BY <1>2, <1>3, <1>5, Freeing
<1>7. IsCreateForm(form') /\ form'.kind = "create" /\ IsForm(form') /\ form' # NoForm
  <2>1. IsCreateForm(form')
    BY <1>2, <1>4 DEF IsCreateForm
  <2> QED
    BY <2>1 DEF IsCreateForm, IsForm, NoForm
<1>8. DialogTyped'
  BY <1>3, <1>6, <1>7 DEF Kept, DialogTyped, IsRequest
<1>9. CASE UNCHANGED <<verdicts, form>>
  <2>1. Timely'
    BY <1>3, <1>6, <1>9 DEF Kept, Timely, Verdict, Blockers, Raised
  <2>2. PlansAnswered'
    BY <1>6, <1>9 DEF Kept, PlansAnswered, Answered
  <2> QED
    BY <1>7, <1>8, <2>1, <2>2, StillAPlan
<1>10. CASE verdicts' \in Replies(asking[s]) /\ form' = [form EXCEPT !.checkedFor = asking[s].key]
  <2>1. /\ {e.of : e \in verdicts'} = asking[s].of
        /\ \A e \in verdicts' : e.says \in {Verdict(asking[s].since, e.of), Verdict(situation, e.of), Unanswered}
    BY <1>10, RepliesSay
  <2>2. Timely'
    <3>1. SUFFICES ASSUME still PROVE Timely'
      BY <1>3 DEF Timely
    <3>2. \A t \in InFlight' : asking'[t].since = situation'
      BY <1>3, <1>6, <3>1 DEF Kept, Timely
    <3>3. asking[s].since = situation
      BY <3>1 DEF Kept, Timely
    <3>5. \A e \in verdicts' : e.says = Verdict(situation, e.of) \/ e.says = Unanswered
      BY <2>1, <3>3
    <3>4. \A e \in verdicts' : e.says = Verdict(situation, e.of)' \/ (e.says = Unanswered /\ form'.kind # "switch")
      BY <1>3, <1>7, <3>5 DEF Verdict, Blockers, Raised
    <3> QED
      BY <3>2, <3>4 DEF Timely
  <2>3. PlansAnswered'
    <3>1. asking[s].of = QuestionsOf(asking[s].key)
      BY <1>3 DEF Kept, PlansAnswered
    <3>2. form'.checkedFor = asking[s].key
      BY <1>4, <1>10 DEF IsCreateForm
    <3>3. Answered(QuestionsOf(form.checkedFor))'
      BY <2>1, <3>1, <3>2 DEF Answered
    <3>4. \A t \in InFlight' : asking'[t].of = QuestionsOf(asking'[t].key)
      BY <1>3, <1>6 DEF Kept, PlansAnswered
    <3> QED
      BY <3>3, <3>4 DEF PlansAnswered
  <2> QED
    BY <1>7, <1>8, <2>2, <2>3, StillAPlan
<1> QED
  BY <1>2, <1>9, <1>10

\* A step that changes neither the destination nor the checks of a switch.
LEMMA StillASwitch ==
  ASSUME Kept, IsSwitchForm(form), IsSwitchForm(form'), form'.to = form.to, staged = Nothing, staged' = Nothing, Clicked',
         UNCHANGED <<situation, verdicts, asking, checking, inTurn, still>>
  PROVE  Kept'
<1>1. form.kind = "switch" /\ form'.kind = "switch" /\ IsForm(form') /\ form' # NoForm
  BY DEF IsSwitchForm, IsForm, NoForm
<1>2. InFlight' = InFlight /\ Questions(form)' = Questions(form)
  BY <1>1 DEF InFlight, Idle, Questions
<1>3. DialogTyped'
  BY <1>1, <1>2 DEF Kept, DialogTyped
<1>4. Timely'
  BY <1>1, <1>2 DEF Kept, Timely, Verdict, Blockers, Raised
<1>5. InOrder'
  BY <1>1, <1>2 DEF Kept, InOrder
<1>6. PlansAnswered'
  BY <1>1 DEF PlansAnswered
<1> QED
  BY <1>3, <1>4, <1>5, <1>6 DEF Kept

LEMMA DestinationEdited ==
  ASSUME Kept, staged = Nothing, EditDestination
  PROVE  Kept'
<1>1. PICK s \in Checks, to \in TypedPaths :
        form' = [form EXCEPT !.to = to, !.touched = @ \/ form.confirming] /\ Ask(s, form')
  BY DEF EditDestination
<1>2. UNCHANGED <<situation, verdicts, staged, still>> /\ form.kind = "switch"
  BY DEF EditDestination
<1>3. IsSwitchForm(form)
  BY <1>2, KindsOfForms DEF Kept, DialogTyped
<1>4. IsSwitchForm(form') /\ form'.confirming = form.confirming /\ form'.touched = (form.touched \/ form.confirming)
  BY <1>1, <1>3 DEF IsSwitchForm
<1>5. Clicked'
  BY <1>4 DEF Clicked
<1>6. still => \A e \in verdicts' : e.says = Verdict(situation, e.of) \/ (e.says = Unanswered /\ form.kind # "switch")
  BY <1>2 DEF Kept, Timely
<1> DEFINE f == form'
<1>7. IsForm(f) /\ f.kind = form.kind /\ f.kind \in {"disk", "bulk", "switch"} /\ Ask(s, f) /\ form' = f
  BY <1>1, <1>2, <1>4 DEF IsForm, IsSwitchForm
<1>8. staged' = Nothing
  BY <1>2
<1> HIDE DEF f
<1> QED
  BY <1>2, <1>5, <1>6, <1>7, <1>8, Rechecked

LEMMA SwitchTouched ==
  ASSUME Kept, staged = Nothing,
         \/ Acknowledge \/ CountFails \/ IdsFailed
         \/ Confirm /\ ~form.counted
  PROVE  Kept'
<1>1. /\ form.kind = "switch" /\ staged' = Nothing
      /\ UNCHANGED <<situation, verdicts, asking, checking, inTurn, still>>
  BY DEF Acknowledge, CountFails, IdsFailed, Confirm
<1>2. IsSwitchForm(form)
  BY <1>1, KindsOfForms DEF Kept, DialogTyped
<1>3. InFlight' = InFlight /\ OtherBlockers' = OtherBlockers
  BY <1>1 DEF InFlight, Idle, OtherBlockers
<1>4. CASE Acknowledge
  <2>1. form' = [form EXCEPT !.ack = ~@, !.touched = @ \/ form.confirming]
    BY <1>4 DEF Acknowledge
  <2>2. /\ IsSwitchForm(form') /\ form'.to = form.to /\ form'.confirming = form.confirming
        /\ form'.touched = (form.touched \/ form.confirming)
    BY <1>2, <2>1 DEF IsSwitchForm
  <2>3. Clicked'
    BY <2>2 DEF Clicked
  <2> QED
    BY <1>1, <1>2, <2>2, <2>3, StillASwitch
<1>5. CASE CountFails
  <2>1. form' = [form EXCEPT !.counted = FALSE]
    BY <1>5 DEF CountFails
  <2>2. /\ IsSwitchForm(form') /\ form'.to = form.to /\ form'.confirming = form.confirming
        /\ form'.touched = form.touched /\ form'.ack = form.ack /\ form'.known = form.known
    BY <1>2, <2>1 DEF IsSwitchForm
  <2>3. Emptiness' = Emptiness
    BY <1>1, <2>2 DEF Emptiness, MkdirPath
  <2>4. Clicked'
    BY <1>1, <1>3, <2>2, <2>3 DEF Kept, Clicked
  <2> QED
    BY <1>1, <1>2, <2>2, <2>4, StillASwitch
<1>6. CASE IdsFailed
  <2>1. form' = [form EXCEPT !.confirming = FALSE, !.touched = FALSE]
    BY <1>6 DEF IdsFailed
  <2>2. IsSwitchForm(form') /\ form'.to = form.to /\ ~form'.confirming
    BY <1>2, <2>1 DEF IsSwitchForm
  <2>3. Clicked'
    BY <2>2 DEF Clicked
  <2> QED
    BY <1>1, <1>2, <2>2, <2>3, StillASwitch
<1>7. CASE Confirm /\ ~form.counted
  <2>1. form' = [form EXCEPT !.confirming = TRUE] /\ Valid /\ form.to # Nowhere
    BY <1>7 DEF Confirm
  <2>2. /\ IsSwitchForm(form') /\ form'.to = form.to /\ form'.ack = form.ack /\ form'.known = form.known
    BY <1>2, <2>1 DEF IsSwitchForm
  <2>3. Emptiness' = Emptiness
    BY <1>1, <2>2 DEF Emptiness, MkdirPath
  <2>4. inTurn => InFlight = {}
    BY <1>1, <2>1 DEF Kept, InOrder, Valid
  <2>5. Clicked'
    BY <1>1, <1>3, <2>1, <2>2, <2>3, <2>4 DEF Clicked, Valid
  <2> QED
    BY <1>1, <1>2, <2>2, <2>5, StillASwitch
<1> QED
  BY <1>4, <1>5, <1>6, <1>7

\* A check of a destination that comes to its end.
LEMMA SwitchFreed ==
  ASSUME Kept, form.kind = "switch", NEW s \in InFlight, asking' = [asking EXCEPT ![s] = NoCheck], checking' = FALSE,
         IsSwitchForm(form'), form'.to = form.to, form'.confirming = form.confirming, form'.touched = form.touched,
         UNCHANGED <<situation, staged, inTurn, still>>, staged = Nothing,
         still => \A e \in verdicts' : e.says = Verdict(situation, e.of),
         inTurn => \A e \in verdicts' : e.of \in Questions(form)
  PROVE  Kept'
<1>1. s \in Checks /\ asking = [t \in Checks |-> asking[t]]
  BY DEF InFlight, Kept, DialogTyped
<1>2. /\ asking' = [t \in Checks |-> asking'[t]]
      /\ InFlight' = InFlight \ {s}
      /\ \A t \in InFlight' : t \in InFlight /\ t # s /\ asking'[t] = asking[t]
  BY <1>1, Freeing
<1>3. form'.kind = "switch" /\ IsForm(form') /\ form' # NoForm /\ Questions(form)' = Questions(form)
  BY DEF IsSwitchForm, IsForm, NoForm, Questions
<1>4. DialogTyped'
  BY <1>2, <1>3 DEF Kept, DialogTyped, IsRequest
<1>5. Timely'
  BY <1>2 DEF Kept, Timely, Verdict, Blockers, Raised
<1>6. InOrder'
  <2>1. SUFFICES ASSUME inTurn PROVE InOrder'
    BY DEF InOrder
  <2>2. \A t, u \in InFlight : t = u
    BY <2>1 DEF Kept, InOrder
  <2>3. InFlight' = {}
    BY <1>2, <2>2
  <2> QED
    BY <1>3, <2>1, <2>3 DEF InOrder
<1>7. PlansAnswered'
  BY <1>3 DEF PlansAnswered
<1>8. Clicked'
  BY DEF Kept, Clicked
<1> QED
  BY <1>4, <1>5, <1>6, <1>7, <1>8 DEF Kept

LEMMA DestinationSaid ==
  ASSUME Kept, staged = Nothing, DestinationJudged
  PROVE  Kept'
<1>1. PICK s \in InFlight :
        /\ asking[s].phase = "verdict"
        /\ \/ \E q \in asking[s].of, w \in {asking[s].since, situation} :
                verdicts' = {[of |-> q, says |-> Verdict(w, q)]} /\ ThenLook(s)
           \/ verdicts' = {} /\ asking' = [asking EXCEPT ![s] = NoCheck] /\ checking' = FALSE
  BY DEF DestinationJudged
<1>2. UNCHANGED <<situation, form, staged, inTurn, still>> /\ form.kind = "switch"
  BY DEF DestinationJudged
<1>3. IsSwitchForm(form) /\ IsSwitchForm(form')
  BY <1>2, KindsOfForms DEF Kept, DialogTyped
<1>4. still => asking[s].since = situation
  BY DEF Kept, Timely
<1>5. inTurn => asking[s].of = Questions(form) /\ \A t, u \in InFlight : t = u
  BY <1>2 DEF Kept, InOrder
<1>6. CASE verdicts' = {} /\ asking' = [asking EXCEPT ![s] = NoCheck] /\ checking' = FALSE
  BY <1>2, <1>3, <1>6, SwitchFreed
<1>7. ASSUME NEW q \in asking[s].of, NEW w \in {asking[s].since, situation},
             verdicts' = {[of |-> q, says |-> Verdict(w, q)]}, ThenLook(s)
      PROVE  Kept'
  <2>1. still => \A e \in verdicts' : e.says = Verdict(situation, e.of)
    BY <1>4, <1>7
  <2>2. inTurn => \A e \in verdicts' : e.of \in Questions(form)
    BY <1>5, <1>7
  <2>3. CASE MkdirPath' # Nowhere
    <3>1. asking' = [asking EXCEPT ![s] = NoCheck] /\ checking' = FALSE
      BY <1>7, <2>3 DEF ThenLook
    <3> QED
      BY <1>2, <1>3, <2>1, <2>2, <3>1, SwitchFreed
  <2>4. CASE MkdirPath' = Nowhere
    <3>1. asking' = [asking EXCEPT ![s].phase = "level", ![s].key = form.to] /\ checking' = checking
      BY <1>7, <2>4 DEF ThenLook
    <3>2. asking = [t \in Checks |-> asking[t]] /\ s \in Checks /\ IsRequest(asking[s])
      BY DEF Kept, DialogTyped, InFlight
    <3>3. asking'[s] = [phase |-> "level", of |-> asking[s].of, since |-> asking[s].since, latest |-> asking[s].latest,
                        key |-> form.to]
      BY <3>1, <3>2 DEF IsRequest
    <3>4. /\ IsRequest(asking[s])' /\ asking'[s] # NoCheck /\ asking'[s].since = asking[s].since
          /\ asking'[s].of = asking[s].of
      BY <3>3 DEF IsRequest, NoCheck
    <3>5. asking' = [t \in Checks |-> asking'[t]] /\ \A t \in Checks \ {s} : asking'[t] = asking[t]
      BY <3>1, <3>2
    <3>6. InFlight' = InFlight
      BY <3>4, <3>5 DEF InFlight, Idle
    <3>7. DialogTyped'
      BY <1>2, <1>3, <3>2, <3>4, <3>5, <3>6 DEF Kept, DialogTyped, InFlight, IsRequest, IsSwitchForm, NoForm
    <3>8. Timely'
      <4>1. still => \A t \in InFlight' : asking'[t].since = situation
        BY <3>4, <3>5, <3>6 DEF Kept, Timely, InFlight
      <4> QED
        BY <1>2, <2>1, <4>1 DEF Timely, Verdict, Blockers, Raised
    <3>9. InOrder'
      <4>1. SUFFICES ASSUME inTurn PROVE InOrder'
        BY <1>2 DEF InOrder
      <4>2. InFlight' = {s}
        BY <1>5, <3>6, <4>1
      <4>3. checking
        BY <1>2, <4>1 DEF Kept, InOrder
      <4> QED
        BY <1>2, <1>5, <2>2, <3>1, <3>4, <4>1, <4>2, <4>3 DEF InOrder
    <3>10. PlansAnswered'
      BY <1>2 DEF PlansAnswered
    <3>11. Clicked'
      BY <1>2 DEF Kept, Clicked
    <3> QED
      BY <3>7, <3>8, <3>9, <3>10, <3>11 DEF Kept
  <2> QED
    BY <2>3, <2>4
<1> QED
  BY <1>1, <1>6, <1>7

LEMMA DestinationLookedAt ==
  ASSUME Kept, staged = Nothing, DestinationRead
  PROVE  Kept'
<1>1. PICK s \in InFlight :
        /\ asking[s].phase = "level"
        /\ \/ form' = form
           \/ \E read : form' = [form EXCEPT !.known = read]
        /\ asking' = [asking EXCEPT ![s] = NoCheck] /\ checking' = FALSE
  BY DEF DestinationRead
<1>2. UNCHANGED <<situation, verdicts, staged, inTurn, still>> /\ form.kind = "switch"
  BY DEF DestinationRead
<1>3. IsSwitchForm(form)
  BY <1>2, KindsOfForms DEF Kept, DialogTyped
<1>4. IsSwitchForm(form') /\ form'.to = form.to /\ form'.confirming = form.confirming /\ form'.touched = form.touched
  BY <1>1, <1>3 DEF IsSwitchForm
<1>5. still => \A e \in verdicts' : e.says = Verdict(situation, e.of)
  BY <1>2 DEF Kept, Timely
<1>6. inTurn => \A e \in verdicts' : e.of \in Questions(form)
  <2>1. SUFFICES ASSUME inTurn PROVE \A e \in verdicts' : e.of \in Questions(form)
    OBVIOUS
  <2>2. \A t \in InFlight : asking[t].phase = "level"
    BY <1>1, <1>2, <2>1 DEF Kept, InOrder
  <2> QED
    BY <1>2, <2>1, <2>2 DEF Kept, InOrder
<1> QED
  BY <1>1, <1>2, <1>4, <1>5, <1>6, SwitchFreed

LEMMA SituationChanged ==
  ASSUME Kept, staged = Nothing, SituationChanges
  PROVE  Kept'
<1>1. /\ situation' \in Situations /\ ~still'
      /\ UNCHANGED <<form, verdicts, asking, checking, staged, inTurn>>
  BY DEF SituationChanges
<1>2. InFlight' = InFlight /\ Emptiness' = Emptiness /\ OtherBlockers' = OtherBlockers
  BY <1>1 DEF InFlight, Idle, Emptiness, MkdirPath, OtherBlockers
<1>3. DialogTyped'
  BY <1>1, <1>2 DEF Kept, DialogTyped
<1>4. Timely'
  BY <1>1 DEF Timely
<1>5. InOrder' /\ PlansAnswered'
  BY <1>1, <1>2 DEF Kept, InOrder, PlansAnswered, Answered
<1>6. Clicked'
  BY <1>1, <1>2 DEF Kept, Clicked
<1> QED
  BY <1>3, <1>4, <1>5, <1>6 DEF Kept

-------------------------------------------------------------------------------
(* What is handed over passes.                                               *)

LEMMA Unblocked ==
  ASSUME NEW w, NEW q
  PROVE  Blockers(w, q) = {} <=>
           /\ q.op # "fs.delete" => /\ ~IsThere(w, q.to)
                                    /\ IsThere(w, ParentOf(q.to)) \/ (q.op = "fs.mkdir" /\ q.recursive)
           /\ q.op = "fs.rename" => ParentOf(q.to) = ParentOf(q.from)
           /\ q.op # "fs.mkdir" => q.from \in w.dirs
           /\ q.op = "fs.delete" => /\ q.recursive \/ Inside(w, q.from) = {}
                                    /\ Passes(ClaimsOn(w, q.from), q.force, q.assume)
<1> DEFINE names == {"destination_free", "destination_parent", "same_parent", "source", "recursive_required", "references"}
<1>1. Blockers(w, q) = {} <=> \A id \in names : id \notin Blockers(w, q)
  BY DEF Blockers
<1>2. /\ "destination_free" \in Blockers(w, q) <=> q.op # "fs.delete" /\ IsThere(w, q.to)
      /\ "destination_parent" \in Blockers(w, q) <=>
           q.op # "fs.delete" /\ ~IsThere(w, ParentOf(q.to)) /\ ~(q.op = "fs.mkdir" /\ q.recursive)
      /\ "same_parent" \in Blockers(w, q) <=> q.op = "fs.rename" /\ ParentOf(q.to) # ParentOf(q.from)
      /\ "source" \in Blockers(w, q) <=> q.op # "fs.mkdir" /\ q.from \notin w.dirs
      /\ "recursive_required" \in Blockers(w, q) <=> q.op = "fs.delete" /\ ~q.recursive /\ Inside(w, q.from) # {}
      /\ "references" \in Blockers(w, q) <=> q.op = "fs.delete" /\ ~Passes(ClaimsOn(w, q.from), q.force, q.assume)
  BY DEF Blockers
<1> QED
  BY <1>1, <1>2

\* Nothing claimed passes whatever is promised.
LEMMA NothingClaimed ==
  ASSUME NEW force \in BOOLEAN
  PROVE  Passes(NoClaims, force, {})
  BY DEF Passes, ReferenceChecks, NoClaims, RootFolderCheck, MediaCheck, ImportListCheck, CollectionCheck, UnknownCheck,
         Live, Automatic, Aimed, Monitored

\* What is left of the situation once others of the batch are deleted.
Without(gone, paths) == {p \in paths : ~\E q \in gone : IsPrefix(q, p)}

LEMMA DeletePasses ==
  ASSUME DialogTyped, NEW p, NEW f, f.force \in BOOLEAN, f.ticked \in SUBSET Bridges, NEW first,
         Blockers(situation, Delete(p, f)) = {},
         \A o \in first : o.op = "fs.delete" /\ ~IsPrefix(o.from, p)
  PROVE  Blockers(Meets(Delete(p, f), first), [Delete(p, f) EXCEPT !.assume = {}]) = {}
<1> DEFINE item == Delete(p, f)
           gone == {o.from : o \in {r \in first : r.op = "fs.delete"}}
           made == UNION {Makes(o) : o \in first}
           after == Meets(item, first)
           q == [item EXCEPT !.assume = {}]
<1>1. /\ item.op = "fs.delete" /\ item.from = p /\ item.recursive = f.recursive
      /\ item.force = f.force /\ item.assume = f.ticked
      /\ q.op = "fs.delete" /\ q.from = p /\ q.recursive = f.recursive /\ q.force = f.force /\ q.assume = {}
  BY DEF Delete
<1>2. /\ p \in situation.dirs /\ (f.recursive \/ Inside(situation, p) = {})
      /\ Passes(ClaimsOn(situation, p), f.force, f.ticked)
  <2> HIDE DEF q, after, gone
  <2> QED
    BY <1>1, Unblocked
<1>3. ~\E r \in gone : IsPrefix(r, p)
  OBVIOUS
<1>4. /\ after.dirs = Without(gone, situation.dirs) \cup made /\ after.files = Without(gone, situation.files)
      /\ after.claims = [r \in DOMAIN situation.claims |->
                           IF r = p THEN Bridged(situation.claims[r], f.ticked) ELSE situation.claims[r]]
  BY <1>1 DEF Meets, Without
<1>9. made = {}
  BY DEF Makes
<1> HIDE DEF gone, after, item, made
<1>5. p \in after.dirs
  BY <1>2, <1>3, <1>4 DEF Without
<1>6. Inside(after, p) \subseteq Inside(situation, p)
  BY <1>4, <1>9 DEF Inside, Without
<1>7. Passes(ClaimsOn(after, p), f.force, {})
  <2>1. CASE p \in DOMAIN situation.claims
    <3>1. situation.claims[p] \in Claims
      BY <2>1, DialogAssumption DEF DialogTyped
    <3>2. ClaimsOn(after, p) = Bridged(ClaimsOn(situation, p), f.ticked) /\ ClaimsOn(situation, p) = situation.claims[p]
      BY <1>4, <2>1 DEF ClaimsOn
    <3>3. PromiseKept(situation.claims[p], f.force, f.ticked)
      BY <3>1, BridgeKeepsItsPromise
    <3> QED
      BY <1>2, <3>2, <3>3 DEF PromiseKept
  <2>2. CASE p \notin DOMAIN situation.claims
    <3>1. ClaimsOn(after, p) = NoClaims
      BY <1>4, <2>2 DEF ClaimsOn
    <3> QED
      BY <3>1, NothingClaimed
  <2> QED
    BY <2>1, <2>2
<1>8. Blockers(after, q) = {}
  <2> HIDE DEF q
  <2> QED
    BY <1>1, <1>2, <1>5, <1>6, <1>7, Unblocked
<1> QED
  BY <1>8 DEF after, item

\* What is no delete meets the disk there is and the folders made ahead of it.
LEMMA OthersPass ==
  ASSUME NEW item, item.op # "fs.delete", NEW first, \A o \in first : o.op # "fs.delete",
         item = [op |-> item.op, from |-> item.from, to |-> item.to, recursive |-> item.recursive,
                 force |-> item.force, assume |-> item.assume],
         item.to \notin UNION {Makes(o) : o \in first},
         Blockers(situation, item) = {}
  PROVE  Blockers(Meets(item, first), [item EXCEPT !.assume = {}]) = {}
<1> DEFINE gone == {o.from : o \in {r \in first : r.op = "fs.delete"}}
           made == UNION {Makes(o) : o \in first}
           after == Meets(item, first)
           q == [item EXCEPT !.assume = {}]
<1>1. gone = {} /\ item.to \notin made
  OBVIOUS
<1>2. after.dirs = Without(gone, situation.dirs) \cup made /\ after.files = Without(gone, situation.files)
  BY DEF Meets, Without
<1> HIDE DEF gone, after, made
<1>3. after.dirs = situation.dirs \cup made /\ after.files = situation.files
  BY <1>1, <1>2 DEF Without
<1>4. (\A p : IsThere(situation, p) => IsThere(after, p)) /\ IsThere(after, item.to) = IsThere(situation, item.to)
  BY <1>1, <1>3 DEF IsThere
<1>5. q.op = item.op /\ q.from = item.from /\ q.to = item.to /\ q.recursive = item.recursive
  OBVIOUS
<1> HIDE DEF q
<1>6. Blockers(after, q) = {}
  BY <1>3, <1>4, <1>5, Unblocked
<1> QED
  BY <1>6 DEF after, q

\* An item of a batch passes, whichever of those before it went first.
PassesAmong(items, item) ==
  \A first \in SUBSET AheadOf(form, items, item) :
    item.to \notin UNION {Makes(o) : o \in first} => Blockers(Meets(item, first), [item EXCEPT !.assume = {}]) = {}

LEMMA HandedPasses ==
  ASSUME NEW items, NEW calm, Hand(items, calm),
         calm /\ still => \A item \in items \cap Questions(form) : PassesAmong(items, item)
  PROVE  StagedPasses'
<1>1. staged' = [items |-> items, form |-> form, calm |-> calm] /\ situation' = situation /\ still' = still
  BY DEF Hand
<1>2. staged'.items = items /\ staged'.form = form /\ staged'.calm = calm
  BY <1>1
<1>3. SUFFICES ASSUME calm, still, NEW item \in items \cap Questions(form),
                      NEW first \in SUBSET AheadOf(form, items, item), item.to \notin UNION {Makes(o) : o \in first}
               PROVE  Blockers(Meets(item, first), [item EXCEPT !.assume = {}])' = {}
  BY <1>1, <1>2 DEF StagedPasses
<1>4. Meets(item, first)' = Meets(item, first)
  BY <1>1 DEF Meets
<1> QED
  BY <1>3, <1>4 DEF PassesAmong

\* A verdict without blockers is one on the situation there is.
LEMMA SaidOfNow ==
  ASSUME Kept, still, NEW e \in verdicts, e.says.blockers = {}
  PROVE  Blockers(situation, e.of) = {}
<1>1. e.says # Unanswered
  BY DEF Unanswered
<1>2. e.says = Verdict(situation, e.of)
  BY <1>1 DEF Kept, Timely
<1>3. Verdict(situation, e.of).blockers = Blockers(situation, e.of)
  BY DEF Verdict
<1> QED
  BY <1>2, <1>3

LEMMA DiskStaged ==
  ASSUME Kept, StageDisk
  PROVE  Kept' /\ StagedAsJudged'
<1>1. /\ form.kind = "disk" /\ Questions(form) # {} /\ \E e \in verdicts : e.says.blockers = {}
      /\ Hand(Questions(form), inTurn /\ InFlight = {})
  BY DEF StageDisk
<1>2. IsDiskForm(form)
  BY <1>1, KindsOfForms DEF Kept, DialogTyped
<1>3. ASSUME inTurn, InFlight = {}, still, NEW item \in Questions(form)
      PROVE  PassesAmong(Questions(form), item)
  <2>1. \A q, r \in Questions(form) : q = r
    BY <1>1 DEF Questions
  <2>2. AheadOf(form, Questions(form), item) = {}
    BY <1>3, <2>1 DEF AheadOf
  <2>3. PICK e \in verdicts : e.says.blockers = {}
    BY <1>1
  <2>4. e.of = item
    BY <1>1, <1>3, <2>1 DEF Kept, InOrder, Answered
  <2>5. Blockers(situation, item) = {}
    BY <1>3, <2>3, <2>4, SaidOfNow
  <2>6. CASE form.op = "fs.delete"
    <3>1. item = Delete(form.target, form)
      BY <1>1, <1>3, <2>6 DEF Questions
    <3> QED
      BY <1>2, <2>2, <2>5, <3>1, DeletePasses DEF Kept, IsDiskForm, PassesAmong
  <2>7. CASE form.op # "fs.delete"
    <3>1. item = Relocate(form.op, form.target, form.to)
      BY <1>1, <1>3, <2>7 DEF Questions
    <3>2. /\ item.op # "fs.delete"
          /\ item = [op |-> item.op, from |-> item.from, to |-> item.to, recursive |-> item.recursive,
                     force |-> item.force, assume |-> item.assume]
      BY <2>7, <3>1 DEF Relocate
    <3> QED
      BY <2>2, <2>5, <3>2, OthersPass DEF PassesAmong
  <2> QED
    BY <2>6, <2>7
<1>4. Kept'
  BY <1>1, Closing
<1>5. StagedPasses'
  BY <1>1, <1>3, HandedPasses
<1>6. SwitchAsJudged'
  BY <1>1 DEF Hand, SwitchAsJudged
<1> QED
  BY <1>4, <1>5, <1>6 DEF StagedAsJudged

LEMMA BulkStaged ==
  ASSUME Kept, StageBulk
  PROVE  Kept' /\ StagedAsJudged'
<1> DEFINE stageable == {p \in form.targets : BlockersAt(p) = {}}
           items == {Delete(p, form) : p \in stageable}
<1>1. form.kind = "bulk" /\ ~checking /\ stageable # {} /\ Hand(items, inTurn)
  BY DEF StageBulk
<1>2. IsBulkForm(form)
  BY <1>1, KindsOfForms DEF Kept, DialogTyped
<1>3. ASSUME inTurn, still, NEW item \in items
      PROVE  PassesAmong(items, item)
  <2>1. PICK p \in stageable : item = Delete(p, form)
    BY <1>3
  <2>2. p \in form.targets /\ BlockersAt(p) = {}
    OBVIOUS
  <2>3. item \in Questions(form)
    BY <1>1, <2>1, <2>2 DEF Questions
  <2>4. InFlight = {}
    BY <1>1, <1>3 DEF Kept, InOrder
  <2>5. PICK e \in verdicts : e.of = item
    BY <1>1, <1>3, <2>3, <2>4 DEF Kept, InOrder, Answered
  <2>6. e.says.blockers = {}
    BY <2>1, <2>2, <2>5 DEF BlockersAt, Delete
  <2>7. Blockers(situation, item) = {}
    BY <1>3, <2>5, <2>6, SaidOfNow
  <2>8. ASSUME NEW o \in items \ {Delete(p, form)} PROVE o.op = "fs.delete" /\ ~IsPrefix(o.from, p)
    <3>1. PICK r \in stageable : o = Delete(r, form)
      OBVIOUS
    <3>2. r # p /\ o.op = "fs.delete" /\ o.from = r /\ r \in form.targets
      BY <3>1 DEF Delete
    <3> QED
      BY <1>2, <2>2, <3>2 DEF IsBulkForm
  <2> HIDE DEF items
  <2> QED
    BY <1>2, <2>1, <2>7, <2>8, DeletePasses DEF Kept, IsBulkForm, PassesAmong, AheadOf
<1> HIDE DEF items
<1>4. Kept'
  BY <1>1, Closing
<1>5. StagedPasses'
  BY <1>1, <1>3, HandedPasses
<1>6. SwitchAsJudged'
  BY <1>1 DEF Hand, SwitchAsJudged
<1> QED
  BY <1>4, <1>5, <1>6 DEF StagedAsJudged

LEMMA CreateStaged ==
  ASSUME Kept, StageCreate
  PROVE  Kept' /\ StagedAsJudged'
<1> DEFINE items == {MakeFolder(p, form.recursive) : p \in ToCreate}
<1>1. form.kind = "create" /\ UpToDate /\ (\A p \in ToCreate : BlockersAt(p) = {}) /\ Hand(items, TRUE)
  BY DEF StageCreate
<1>2. \A item \in items : /\ item.op # "fs.delete"
                          /\ item = [op |-> item.op, from |-> item.from, to |-> item.to, recursive |-> item.recursive,
                                     force |-> item.force, assume |-> item.assume]
  BY DEF MakeFolder
<1>3. Answered(Questions(form))
  <2>1. form.checkedFor = PlanKey(form) /\ PlanKey(form) # Nowhere
    BY <1>1 DEF UpToDate, PlanKey, Nowhere
  <2> QED
    BY <1>1, <2>1, PlanQuestions DEF Kept, PlansAnswered
<1>4. ASSUME still, NEW item \in items \cap Questions(form)
      PROVE  PassesAmong(items, item)
  <2>1. PICK p \in ToCreate : item = MakeFolder(p, form.recursive)
    BY <1>4
  <2>2. BlockersAt(p) = {}
    BY <1>1
  <2>3. PICK e \in verdicts : e.of = item
    BY <1>3, <1>4 DEF Answered
  <2>4. e.says.blockers = {}
    BY <2>1, <2>2, <2>3 DEF BlockersAt, MakeFolder
  <2>5. Blockers(situation, item) = {}
    BY <1>4, <2>3, <2>4, SaidOfNow
  <2>6. item \in items
    BY <1>4
  <2> HIDE DEF items
  <2> QED
    BY <1>2, <2>5, <2>6, OthersPass DEF PassesAmong, AheadOf
<1> HIDE DEF items
<1>5. Kept'
  BY <1>1, Closing
<1>6. StagedPasses'
  BY <1>1, <1>4, HandedPasses
<1>7. SwitchAsJudged'
  BY <1>1 DEF Hand, SwitchAsJudged
<1> QED
  BY <1>5, <1>6, <1>7 DEF StagedAsJudged

\* At the click, or when the ids are there: the form is as it was at the click, or
\* the hand-over is not called calm.
LEMMA SwitchStaged ==
  ASSUME Kept, form.kind = "switch", HandSwitch,
         inTurn /\ ~form.touched => /\ InFlight = {} /\ form.to # Nowhere /\ OtherBlockers = {}
                                    /\ Emptiness = "occupied" => form.ack
  PROVE  Kept' /\ StagedAsJudged'
<1> DEFINE items == IF MkdirPath = Nowhere THEN {} ELSE {MakeFolder(MkdirPath, TRUE)}
           calm == inTurn /\ ~form.touched /\ verdicts # {}
           asked == MakeFolder(form.to, TRUE)
<1>1. Hand(items, calm)
  BY DEF HandSwitch
<1>2. ASSUME calm, still
      PROVE  /\ form.to # Nowhere /\ (Emptiness = "occupied" => form.ack)
             /\ MkdirPath = (IF IsThere(situation, form.to) THEN Nowhere ELSE form.to)
             /\ MkdirPath # Nowhere => Blockers(situation, asked) = {}
  <2>1. /\ InFlight = {} /\ form.to # Nowhere /\ (Emptiness = "occupied" => form.ack) /\ verdicts # {}
        /\ OtherBlockers = {}
    BY <1>2
  <2>2. Questions(form) = {asked}
    BY <2>1 DEF Questions
  <2> HIDE DEF asked
  <2>3. \A e \in verdicts : e.of = asked
    BY <1>2, <2>1, <2>2 DEF Kept, InOrder
  <2>4. \A e \in verdicts : e.says = Verdict(situation, asked)
    BY <1>2, <2>3 DEF Kept, Timely
  <2>5. \A e \in verdicts : e.says.blockers = Blockers(situation, asked)
    BY <2>4 DEF Verdict
  <2>6. "destination_free" \in Blockers(situation, asked) <=> IsThere(situation, form.to)
    BY DEF Blockers, asked, MakeFolder
  <2>7. MkdirPath = (IF IsThere(situation, form.to) THEN Nowhere ELSE form.to)
    BY <2>1, <2>5, <2>6 DEF MkdirPath
  <2>8. Blockers(situation, asked) \subseteq {"destination_free"}
    <3>1. PICK e \in verdicts : e.says.blockers = Blockers(situation, asked)
      BY <2>1, <2>5
    <3>2. \A id \in Blockers(situation, asked) : id \in UNION {a.says.blockers : a \in verdicts}
      BY <3>1
    <3> QED
      BY <2>1, <3>2 DEF OtherBlockers
  <2> QED
    BY <2>1, <2>6, <2>7, <2>8
<1>3. Kept'
  BY <1>1, Closing
<1>4. StagedPasses'
  <2>1. ASSUME calm, still, NEW item \in items \cap Questions(form)
        PROVE  PassesAmong(items, item)
    <3>1. MkdirPath # Nowhere /\ items = {asked} /\ item = asked /\ Blockers(situation, asked) = {}
      BY <1>2, <2>1
    <3>3. AheadOf(form, items, asked) = {}
      BY <3>1 DEF AheadOf
    <3>2. /\ asked.op # "fs.delete"
          /\ asked = [op |-> asked.op, from |-> asked.from, to |-> asked.to, recursive |-> asked.recursive,
                      force |-> asked.force, assume |-> asked.assume]
      BY DEF MakeFolder
    <3> HIDE DEF items, asked
    <3> QED
      BY <3>1, <3>2, <3>3, OthersPass DEF PassesAmong
  <2> HIDE DEF items, calm
  <2> QED
    BY <1>1, <2>1, HandedPasses
<1>5. SwitchAsJudged'
  <2>1. staged' = [items |-> items, form |-> form, calm |-> calm] /\ situation' = situation /\ still' = still
    BY <1>1 DEF Hand
  <2>2. staged'.items = items /\ staged'.form = form /\ staged'.calm = calm
    BY <2>1
  <2>3. SUFFICES ASSUME calm, still
        PROVE  /\ items = {} <=> IsThere(situation, form.to)
               /\ form.to \in DOMAIN form.known /\ form.known[form.to] = "occupied" /\ IsThere(situation, form.to) => form.ack
    <3> HIDE DEF items, calm
    <3> QED
      BY <2>1, <2>2 DEF SwitchAsJudged, IsThere
  <2>4. /\ form.to # Nowhere /\ (Emptiness = "occupied" => form.ack)
        /\ MkdirPath = (IF IsThere(situation, form.to) THEN Nowhere ELSE form.to)
    BY <1>2, <2>3
  <2> QED
    BY <2>4 DEF Emptiness
<1> QED
  BY <1>3, <1>4, <1>5 DEF StagedAsJudged

-------------------------------------------------------------------------------
(* The theorem.                                                              *)

LEMMA DialogStep ==
  ASSUME DialogInv, [DialogNext]_dialogVars
  PROVE  DialogInv'
<1>1. Kept /\ DialogTyped
  BY DEF DialogInv, Kept
<1>2. CASE UNCHANGED dialogVars
  <2>1. UNCHANGED <<situation, form, verdicts, asking, checking, staged, inTurn, still>>
    BY <1>2 DEF dialogVars
  <2>2. Kept'
    BY <1>1, <2>1, TheSameDialog
  <2>3. StagedAsJudged'
    <3>1. ASSUME NEW item, NEW first PROVE Meets(item, first)' = Meets(item, first)
      BY <2>1 DEF Meets
    <3>2. StagedPasses'
      BY <2>1, <3>1 DEF DialogInv, StagedAsJudged, StagedPasses
    <3> QED
      BY <2>1, <3>2 DEF DialogInv, StagedAsJudged, SwitchAsJudged
  <2> QED
    BY <2>2, <2>3 DEF DialogInv, Kept
<1>3. CASE DialogNext
  <2>1. staged = Nothing
    BY <1>1, <1>3, OpenIsUnstaged
  <2>2. ASSUME Kept', staged' = Nothing PROVE DialogInv'
    BY <2>2, NothingStaged
  <2>3. ASSUME Kept' /\ StagedAsJudged' PROVE DialogInv'
    BY <2>3 DEF DialogInv, Kept
  <2>4. CASE ToggleSelected \/ ToggleAll \/ ExpandRow \/ CollapseRow \/ ReloadTree
    <3>1. AtTheTable
      BY <2>4 DEF ToggleSelected, ToggleAll, ExpandRow, CollapseRow, ReloadTree
    <3> QED
      BY <1>1, <2>1, <2>2, <3>1, TheSameDialog DEF AtTheTable
  <2>5. CASE OpenDisk \/ OpenBulk \/ OpenCreate \/ OpenSwitch
    BY <1>1, <2>2, <2>5, AnOpening
  <2>6. CASE Choose
    BY <1>1, <2>1, <2>2, <2>6, Chosen DEF Choose
  <2>7. CASE Rename
    BY <1>1, <2>1, <2>2, <2>7, Renamed DEF Rename
  <2>8. CASE OptionsAnswered
    BY <1>1, <2>1, <2>2, <2>8, OptionsSettled DEF OptionsAnswered
  <2>9. CASE EditPlan
    BY <1>1, <2>1, <2>2, <2>9, PlanEdited DEF EditPlan
  <2>10. CASE PlanSettles
    BY <1>1, <2>1, <2>2, <2>10, PlanSettled DEF PlanSettles
  <2>11. CASE CreateAnswered
    BY <1>1, <2>1, <2>2, <2>11, PlanChecked DEF CreateAnswered
  <2>12. CASE EditDestination
    BY <1>1, <2>1, <2>2, <2>12, DestinationEdited DEF EditDestination
  <2>13. CASE Acknowledge \/ CountFails \/ IdsFailed \/ (Confirm /\ ~form.counted)
    <3>1. staged' = Nothing
      BY <2>1, <2>13 DEF Acknowledge, CountFails, IdsFailed, Confirm
    <3> QED
      BY <1>1, <2>1, <2>2, <2>13, <3>1, SwitchTouched
  <2>14. CASE DestinationJudged
    BY <1>1, <2>1, <2>2, <2>14, DestinationSaid DEF DestinationJudged
  <2>15. CASE DestinationRead
    BY <1>1, <2>1, <2>2, <2>15, DestinationLookedAt DEF DestinationRead
  <2>16. CASE SituationChanges
    BY <1>1, <2>1, <2>2, <2>16, SituationChanged DEF SituationChanges
  <2>17. CASE StageDisk
    BY <1>1, <2>3, <2>17, DiskStaged
  <2>18. CASE StageBulk
    BY <1>1, <2>3, <2>18, BulkStaged
  <2>19. CASE StageCreate
    BY <1>1, <2>3, <2>19, CreateStaged
  <2>20. CASE Confirm /\ form.counted
    <3>1. form.kind = "switch" /\ HandSwitch /\ Valid /\ form.to # Nowhere
      BY <2>20 DEF Confirm
    <3>2. inTurn => InFlight = {}
      BY <1>1, <3>1 DEF Kept, InOrder, Valid
    <3> QED
      BY <1>1, <2>3, <3>1, <3>2, SwitchStaged DEF Valid
  <2>21. CASE IdsAnswered
    <3>1. form.kind = "switch" /\ form.confirming /\ HandSwitch
      BY <2>21 DEF IdsAnswered
    <3> QED
      BY <1>1, <2>3, <3>1, SwitchStaged DEF Kept, Clicked
  <2> QED
    BY <1>3, <2>4, <2>5, <2>6, <2>7, <2>8, <2>9, <2>10, <2>11, <2>12, <2>13, <2>14, <2>15, <2>16, <2>17, <2>18, <2>19,
       <2>20, <2>21 DEF DialogNext
<1> QED
  BY <1>2, <1>3

\* What a dialog stages on the verdicts it was given passes when its turn comes,
\* whichever of the items staged ahead of it have run: but for a folder of a plan that
\* one ahead has already made on its way (new-folders.ts:67-84).  And the head of a
\* switch's chain makes the destination exactly where it is missing.
THEOREM WhatIsJudgedIsStaged == DialogSpec => []StagedAsJudged
<1>1. DialogInv => StagedAsJudged
  BY DEF DialogInv
<1> QED
  BY <1>1, DialogStart, DialogStep, PTL DEF DialogSpec

=============================================================================
