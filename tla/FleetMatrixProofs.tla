-------------------------- MODULE FleetMatrixProofs --------------------------
(***************************************************************************)
(* What a batch of the page of tags does on the fleet: proofs.             *)
(*                                                                         *)
(* While a batch runs, item by item, what it has made of an instance is    *)
(* what its items that are done make of it together (Progress); a button   *)
(* that stages what it shows is then right by what it is made of           *)
(* (CreatesSay, DeletesSay, RenamesSay, ReplacesSay).  A dialog that keeps *)
(* its targets from when it was opened needs that they stay the holders of *)
(* its rows as long as nobody changes a tag (Held).                        *)
(***************************************************************************)
EXTENDS FleetMatrix, TLAPS

Tags == UNION {[S -> SUBSET Uses] : S \in SUBSET Labels}

-------------------------------------------------------------------------------
(* What a snapshot that is current tells.                                    *)

LEMMA ColumnsTyped == Columns \subseteq Instances /\ Comparable \subseteq Columns
  BY MatrixAssumption DEF Columns, Comparable

LEMMA CurrentRead ==
  ASSUME Current, NEW i \in Comparable
  PROVE  /\ i \in Instances /\ Column(i).status = "ok"
         /\ DOMAIN Column(i).tags = DOMAIN world[i] /\ Column(i).reported = (i \notin Mute)
         /\ \A l \in DOMAIN world[i] :
              Column(i).tags[l] = IF i \in Mute THEN world[i][l] \ {"collections"} ELSE world[i][l]
<1>1. Column(i) = Answer(i) /\ i \in Columns /\ Column(i).status = "ok"
  BY DEF Current, Comparable
<1>2. i \in Instances
  BY <1>1, ColumnsTyped
<1> QED
  BY <1>1, <1>2 DEF Answer

\* The pairs of what was seen that hold their label, and that lack it.
Having(seen) == {p \in seen.range \X seen.rows : p[2] \in DOMAIN world[p[1]]}
Lacking(seen) == {p \in seen.range \X seen.rows : p[2] \notin DOMAIN world[p[1]]}

\* Of the columns in a range, those that hold a label, or lack it.
LEMMA SeenRead ==
  ASSUME Current, NEW rows
  PROVE  /\ Seen(rows).rows = rows /\ Seen(rows).at = drift /\ Seen(rows).range \subseteq Comparable
         /\ Seen(rows).range \subseteq Instances
         /\ Holders(rows) = Having(Seen(rows))
         /\ {p \in Targets \X rows : p[1] \in MissingOn(p[2])} = Lacking(Seen(rows))
<1> DEFINE R == {i \in Columns : Column(i).status = "ok" /\ (selected = {} \/ i \in selected)}
<1>1. Seen(rows).rows = rows /\ Seen(rows).at = drift /\ Seen(rows).range = R
  BY DEF Seen
<1>2. R = Targets \cap Comparable
  BY DEF Targets, Comparable
<1>3. R \subseteq Instances /\ R \subseteq Comparable
  BY <1>2, ColumnsTyped
<1>4. \A i \in Comparable : DOMAIN Column(i).tags = DOMAIN world[i]
  BY CurrentRead
<1> HIDE DEF R
<1>5. Holders(rows) = {p \in R \X rows : p[2] \in DOMAIN world[p[1]]}
  BY <1>2, <1>4 DEF Holders, PresentOn
<1>6. {p \in Targets \X rows : p[1] \in MissingOn(p[2])} = {p \in R \X rows : p[2] \notin DOMAIN world[p[1]]}
  BY <1>2, <1>4 DEF MissingOn
<1> QED
  BY <1>1, <1>3, <1>5, <1>6 DEF Having, Lacking

-------------------------------------------------------------------------------
(* What the instances make of a batch.                                       *)

\* The items a batch is made of, for the pairs it is for.
Creates(work, seen) ==
  /\ \A x \in work : \E p \in seen.range \X seen.rows : x = Op("create", p, p[2])
  /\ \A p \in Lacking(seen) : Op("create", p, p[2]) \in work
Deletes(work, seen) == work = {Op("delete", p, p[2]) : p \in Having(seen)}
Renames(work, seen, to) ==
  /\ \E l \in Labels : seen.rows = {l} /\ to # l
  /\ work = {Op("rename", p, to) : p \in Having(seen)}
Replaceable(range) == {p \in range \X Labels : p[2] \in DOMAIN world[p[1]] /\ Replaced(p[2]) # p[2]}
Replaces(work, seen) ==
  work = {Op(IF Replaced(p[2]) \in DOMAIN world[p[1]] THEN "merge" ELSE "rename", p, Replaced(p[2])) :
            p \in Replaceable(seen.range)}

LEMMA OpRead ==
  ASSUME NEW op, NEW p, NEW to
  PROVE  Op(op, p, to).op = op /\ Op(op, p, to).inst = p[1] /\ Op(op, p, to).label = p[2] /\ Op(op, p, to).to = to
  BY DEF Op

\* Batches of new tags, of deletes, and of renames and merges.
AreNew(work) == \A x \in work : x.op = "create"
AreGoing(work) == \A x \in work : x.op = "delete"
AreMoving(work) ==
  \A x \in work :
    /\ x.op \in {"rename", "merge"} /\ x.label \in DOMAIN world[x.inst] /\ x.to # x.label
    /\ x.op = "merge" => x.to \in DOMAIN world[x.inst]
    /\ \A y \in work : y.inst = x.inst /\ y.label = x.label => y = x

\* What the items that are done have made of an instance, in whatever order.
Given(i, done, tags) ==
  tags = [t \in DOMAIN world[i] \cup {x.to : x \in done} |->
            [label |-> t, on |-> IF t \in DOMAIN world[i] THEN world[i][t] ELSE {}]]
Taken(i, done, tags) == tags = [t \in DOMAIN world[i] \ {x.label : x \in done} |-> [label |-> t, on |-> world[i][t]]]

Merging(done) == {x.label : x \in {y \in done : y.op = "merge"}}
Renaming(i, done) == {x \in done : x.op = "rename" /\ x.to \notin DOMAIN world[i]}
Joining(i, done, t) == UNION {world[i][x.label] : x \in {y \in done : y.op = "merge" /\ y.to = t}}
Moved(i, done, tags) ==
  /\ DOMAIN tags = DOMAIN world[i] \ Merging(done)
  /\ \A t \in DOMAIN tags : tags[t] = [label |-> tags[t].label, on |-> world[i][t] \cup Joining(i, done, t)]
  /\ \A t \in DOMAIN tags : \A x \in Renaming(i, done) : x.label = t => tags[t].label = x.to
  /\ \A t \in DOMAIN tags : (\A x \in Renaming(i, done) : x.label # t) => tags[t].label = t

ItemsOn(i, work) == {x \in work : x.inst = i}
Progress(i, work, done, tags) ==
  /\ AreNew(work) => Given(i, done, tags)
  /\ AreGoing(work) => Taken(i, done, tags)
  /\ AreMoving(work) /\ ~Tangled(work, i) => Moved(i, done, tags)

Result(tags, x) == IF Refused(tags, x) THEN tags ELSE Executed(tags, x)

\* A tag, and one whose uses or label change.
LEMMA TagRead ==
  ASSUME NEW tag, NEW l, NEW on, tag = [label |-> l, on |-> on]
  PROVE  tag.label = l /\ tag.on = on
OBVIOUS

LEMMA TagJoined ==
  ASSUME NEW l, NEW on, NEW more, NEW tag, tag = [label |-> l, on |-> on]
  PROVE  [tag EXCEPT !.on = @ \cup more] = [label |-> l, on |-> on \cup more]
OBVIOUS

LEMMA TagRenamed ==
  ASSUME NEW l, NEW on, NEW to, NEW tag, tag = [label |-> l, on |-> on]
  PROVE  [tag EXCEPT !.label = to] = [label |-> to, on |-> on]
OBVIOUS

LEMMA NothingDone ==
  ASSUME NEW i, NEW work
  PROVE  Progress(i, work, {}, ById(world[i]))
<1> DEFINE now == world[i]
           tags == ById(now)
<1>1. tags = [t \in DOMAIN now |-> [label |-> t, on |-> now[t]]]
  BY DEF ById
<1>2. Given(i, {}, tags)
  <2>1. DOMAIN now \cup {x.to : x \in {}} = DOMAIN now
    OBVIOUS
  <2> QED
    BY <1>1, <2>1 DEF Given
<1>3. Taken(i, {}, tags)
  <2>1. DOMAIN now \ {x.label : x \in {}} = DOMAIN now
    OBVIOUS
  <2> QED
    BY <1>1, <2>1 DEF Taken
<1>4. Moved(i, {}, tags)
  <2>1. Merging({}) = {} /\ Renaming(i, {}) = {} /\ \A t : Joining(i, {}, t) = {}
    BY DEF Merging, Renaming, Joining
  <2>2. DOMAIN tags = DOMAIN now /\ \A t \in DOMAIN now : tags[t] = [label |-> t, on |-> now[t]]
    BY <1>1
  <2>3. \A t \in DOMAIN now : tags[t].label = t /\ now[t] \cup Joining(i, {}, t) = now[t]
    <3> SUFFICES ASSUME NEW t \in DOMAIN now PROVE tags[t].label = t /\ now[t] \cup Joining(i, {}, t) = now[t]
      OBVIOUS
    <3>1. tags[t] = [label |-> t, on |-> now[t]]
      BY <2>2
    <3> HIDE DEF tags
    <3> QED
      BY <2>1, <3>1
  <2> HIDE DEF tags
  <2> QED
    BY <2>1, <2>2, <2>3 DEF Moved
<1> QED
  BY <1>2, <1>3, <1>4 DEF Progress

LEMMA OneGiven ==
  ASSUME NEW i, NEW done, NEW tags, Given(i, done, tags), NEW x, x.op = "create"
  PROVE  Given(i, done \cup {x}, Result(tags, x))
<1> DEFINE now == world[i]
           on(t) == IF t \in DOMAIN now THEN now[t] ELSE {}
           there == DOMAIN now \cup {y.to : y \in done}
<1>1. tags = [t \in there |-> [label |-> t, on |-> on(t)]]
  BY DEF Given
<1>2. DOMAIN now \cup {y.to : y \in done \cup {x}} = there \cup {x.to}
  OBVIOUS
<1> HIDE DEF there
<1>3. Refused(tags, x) <=> x.to \in there
  BY <1>1 DEF Refused
<1>4. CASE x.to \in there
  <2>1. Result(tags, x) = tags /\ there \cup {x.to} = there
    BY <1>3, <1>4 DEF Result
  <2> QED
    BY <1>1, <1>2, <2>1 DEF Given
<1>5. CASE x.to \notin there
  <2>1. Result(tags, x) = [t \in there \cup {x.to} |-> IF t = x.to THEN [label |-> t, on |-> {}] ELSE tags[t]]
    BY <1>1, <1>3, <1>5 DEF Result, Executed
  <2>2. x.to \notin DOMAIN now
    BY <1>5 DEF there
  <2>3. Result(tags, x) = [t \in there \cup {x.to} |-> [label |-> t, on |-> on(t)]]
    BY <1>1, <2>1, <2>2
  <2> QED
    BY <1>2, <2>3 DEF Given
<1> QED
  BY <1>4, <1>5

LEMMA OneTaken ==
  ASSUME NEW i, NEW done, NEW tags, Taken(i, done, tags), NEW x, x.op = "delete"
  PROVE  Taken(i, done \cup {x}, Result(tags, x))
<1> DEFINE now == world[i]
           there == DOMAIN now \ {y.label : y \in done}
<1>1. tags = [t \in there |-> [label |-> t, on |-> now[t]]]
  BY DEF Taken
<1>2. DOMAIN now \ {y.label : y \in done \cup {x}} = there \ {x.label}
  OBVIOUS
<1> HIDE DEF there
<1>3. Refused(tags, x) <=> x.label \notin there
  BY <1>1 DEF Refused
<1>4. CASE x.label \notin there
  <2>1. Result(tags, x) = tags /\ there \ {x.label} = there
    BY <1>3, <1>4 DEF Result
  <2> QED
    BY <1>1, <1>2, <2>1 DEF Taken
<1>5. CASE x.label \in there
  <2>1. Result(tags, x) = [t \in there \ {x.label} |-> tags[t]]
    BY <1>1, <1>3, <1>5 DEF Result, Executed
  <2>2. Result(tags, x) = [t \in there \ {x.label} |-> [label |-> t, on |-> now[t]]]
    BY <1>1, <2>1
  <2> QED
    BY <1>2, <2>2 DEF Taken
<1> QED
  BY <1>4, <1>5

LEMMA OneMoved ==
  ASSUME NEW i, NEW work, AreMoving(work), ~Tangled(work, i), NEW done \in SUBSET ItemsOn(i, work),
         NEW x \in ItemsOn(i, work) \ done, NEW tags, Moved(i, done, tags)
  PROVE  Moved(i, done \cup {x}, Result(tags, x))
<1> DEFINE now == world[i]
           after == done \cup {x}
           res == Result(tags, x)
<1>1. /\ x \in work /\ x.inst = i /\ x.op \in {"rename", "merge"} /\ x.label \in DOMAIN now /\ x.to # x.label
      /\ x.op = "merge" => x.to \in DOMAIN now
  BY DEF AreMoving, ItemsOn
<1>2. ASSUME NEW y \in done
      PROVE  /\ y \in work /\ y # x /\ y.label # x.label /\ y.to # x.label /\ x.to # y.label
             /\ y.op = "rename" => y.to # x.to
  <2>1. y \in work /\ y.inst = i /\ y # x
    BY DEF ItemsOn
  <2>2. y.label # x.label
    BY <1>1, <2>1 DEF AreMoving
  <2> QED
    BY <1>1, <2>1, <2>2 DEF Tangled
<1>3. /\ DOMAIN tags = DOMAIN now \ Merging(done)
      /\ \A t \in DOMAIN tags : tags[t] = [label |-> tags[t].label, on |-> now[t] \cup Joining(i, done, t)]
      /\ \A t \in DOMAIN tags : \A y \in Renaming(i, done) : y.label = t => tags[t].label = y.to
      /\ \A t \in DOMAIN tags : (\A y \in Renaming(i, done) : y.label # t) => tags[t].label = t
  BY DEF Moved
<1>4. x.label \in DOMAIN tags
  BY <1>1, <1>2, <1>3 DEF Merging
<1>5. ASSUME x.to \in DOMAIN now PROVE x.to \in DOMAIN tags /\ tags[x.to].label = x.to
  <2>1. x.to \notin Merging(done) /\ \A y \in Renaming(i, done) : y.label # x.to
    BY <1>2 DEF Merging, Renaming
  <2> QED
    BY <1>3, <1>5, <2>1
<1>6. ASSUME NEW t \in DOMAIN tags, tags[t].label = x.to PROVE x.to \in DOMAIN now
  <2>1. CASE \E y \in Renaming(i, done) : y.label = t
    BY <1>2, <1>3, <1>6, <2>1 DEF Renaming
  <2>2. CASE \A y \in Renaming(i, done) : y.label # t
    BY <1>3, <1>6, <2>2
  <2> QED
    BY <2>1, <2>2
<1>7. Refused(tags, x) <=> x.op = "rename" /\ x.to \in DOMAIN now
  BY <1>1, <1>4, <1>5, <1>6 DEF Refused
<1>8. CASE x.op = "merge"
  <2>1. res = [t \in DOMAIN tags \ {x.label} |-> IF t = x.to THEN [tags[t] EXCEPT !.on = @ \cup tags[x.label].on] ELSE tags[t]]
    BY <1>7, <1>8 DEF Result, Executed
  <2>2. Merging(after) = Merging(done) \cup {x.label}
    BY <1>8 DEF Merging
  <2>3. Renaming(i, after) = Renaming(i, done)
    BY <1>8 DEF Renaming
  <2>4. \A t : Joining(i, after, t) = Joining(i, done, t) \cup (IF t = x.to THEN now[x.label] ELSE {})
    BY <1>8 DEF Joining
  <2>5. tags[x.label].on = now[x.label]
    <3>1. Joining(i, done, x.label) = {}
      BY <1>2 DEF Joining
    <3>2. tags[x.label].on = now[x.label] \cup Joining(i, done, x.label)
      <4>1. tags[x.label] = [label |-> tags[x.label].label, on |-> now[x.label] \cup Joining(i, done, x.label)]
        BY <1>3, <1>4
      <4> QED
        BY <4>1, TagRead
    <3> QED
      BY <3>1, <3>2
  <2> HIDE DEF res, after
  <2>6. DOMAIN res = DOMAIN now \ Merging(after)
    BY <1>3, <2>1, <2>2
  <2>7. ASSUME NEW t \in DOMAIN res
        PROVE  t \in DOMAIN tags /\ res[t] = [label |-> tags[t].label, on |-> now[t] \cup Joining(i, after, t)]
    <3>1. t \in DOMAIN tags /\ tags[t] = [label |-> tags[t].label, on |-> now[t] \cup Joining(i, done, t)]
      BY <1>3, <2>1, <2>7
    <3>2. CASE t = x.to
      <4>1. res[t] = [tags[t] EXCEPT !.on = @ \cup now[x.label]]
        BY <2>1, <2>5, <2>7, <3>2
      <4>2. res[t] = [label |-> tags[t].label, on |-> (now[t] \cup Joining(i, done, t)) \cup now[x.label]]
        BY <3>1, <4>1, TagJoined
      <4>3. (now[t] \cup Joining(i, done, t)) \cup now[x.label] = now[t] \cup Joining(i, after, t)
        BY <2>4, <3>2
      <4> QED
        BY <3>1, <4>2, <4>3
    <3>3. CASE t # x.to
      <4>1. res[t] = tags[t] /\ Joining(i, after, t) = Joining(i, done, t)
        BY <2>1, <2>4, <2>7, <3>3
      <4> QED
        BY <3>1, <4>1
    <3> QED
      BY <3>2, <3>3
  <2>8. ASSUME NEW t \in DOMAIN res
        PROVE  t \in DOMAIN tags /\ res[t].label = tags[t].label /\ res[t] = [label |-> res[t].label, on |-> now[t] \cup Joining(i, after, t)]
    BY <2>7, TagRead
  <2>9. Moved(i, after, res)
    BY <1>3, <2>3, <2>6, <2>8 DEF Moved
  <2> QED
    BY <2>9 DEF res, after
<1>9. ASSUME x.op = "rename"
      PROVE  Merging(after) = Merging(done) /\ \A t : Joining(i, after, t) = Joining(i, done, t)
  BY <1>9 DEF Merging, Joining
<1>10. CASE x.op = "rename" /\ x.to \in DOMAIN now
  <2>1. res = tags
    BY <1>7, <1>10 DEF Result
  <2>2. Renaming(i, after) = Renaming(i, done)
    BY <1>10 DEF Renaming
  <2> HIDE DEF res, after
  <2>3. Moved(i, after, res)
    BY <1>3, <1>9, <1>10, <2>1, <2>2 DEF Moved
  <2> QED
    BY <2>3 DEF res, after
<1>11. CASE x.op = "rename" /\ x.to \notin DOMAIN now
  <2>1. res = [tags EXCEPT ![x.label].label = x.to]
    BY <1>7, <1>11 DEF Result, Executed
  <2>2. Renaming(i, after) = Renaming(i, done) \cup {x}
    BY <1>11 DEF Renaming
  <2>3. \A y \in Renaming(i, done) : y.label # x.label
    BY <1>2 DEF Renaming
  <2> HIDE DEF res, after
  <2>4. DOMAIN res = DOMAIN tags /\ DOMAIN tags = DOMAIN now \ Merging(after)
    BY <1>3, <1>9, <1>11, <2>1
  <2>5. \A t \in DOMAIN tags : res[t] = IF t = x.label THEN [tags[t] EXCEPT !.label = x.to] ELSE tags[t]
    BY <2>1
  <2>6. ASSUME NEW t \in DOMAIN tags
        PROVE  /\ res[t].label = IF t = x.label THEN x.to ELSE tags[t].label
               /\ res[t] = [label |-> res[t].label, on |-> now[t] \cup Joining(i, after, t)]
    <3>1. tags[t] = [label |-> tags[t].label, on |-> now[t] \cup Joining(i, after, t)]
      BY <1>3, <1>9, <1>11
    <3>2. CASE t = x.label
      <4>1. res[t] = [label |-> x.to, on |-> now[t] \cup Joining(i, after, t)]
        <5>1. res[t] = [tags[t] EXCEPT !.label = x.to]
          BY <2>5, <3>2
        <5> QED
          BY <3>1, <5>1, TagRenamed
      <4> QED
        BY <3>2, <4>1, TagRead
    <3>3. CASE t # x.label
      BY <2>5, <3>1, <3>3
    <3> QED
      BY <3>2, <3>3
  <2>8. \A t \in DOMAIN res : \A y \in Renaming(i, after) : y.label = t => res[t].label = y.to
    BY <1>3, <2>2, <2>3, <2>4, <2>6
  <2>9. \A t \in DOMAIN res : (\A y \in Renaming(i, after) : y.label # t) => res[t].label = t
    BY <1>3, <2>2, <2>4, <2>6
  <2>10. Moved(i, after, res)
    BY <2>4, <2>6, <2>8, <2>9 DEF Moved
  <2> QED
    BY <2>10 DEF res, after
<1> QED
  BY <1>1, <1>8, <1>10, <1>11

\* One item more: the others' instances are as they were.
LEMMA OneMore ==
  ASSUME NEW i, NEW work, NEW done \in SUBSET ItemsOn(i, work), NEW x \in ItemsOn(i, work) \ done, NEW tags,
         Progress(i, work, done, tags)
  PROVE  Progress(i, work, done \cup {x}, Result(tags, x))
<1>1. x \in work
  BY DEF ItemsOn
<1>2. AreNew(work) => Given(i, done \cup {x}, Result(tags, x))
  BY <1>1, OneGiven DEF AreNew, Progress
<1>3. AreGoing(work) => Taken(i, done \cup {x}, Result(tags, x))
  BY <1>1, OneTaken DEF AreGoing, Progress
<1>4. AreMoving(work) /\ ~Tangled(work, i) => Moved(i, done \cup {x}, Result(tags, x))
  BY OneMoved DEF Progress
<1> QED
  BY <1>2, <1>3, <1>4 DEF Progress

-------------------------------------------------------------------------------
(* What a batch that has run has done.                                       *)

\* Labels that are those at first.
LEMMA LabelsKept ==
  ASSUME NEW S, NEW on, NEW tags, DOMAIN tags = S, \A t \in S : tags[t].label = t /\ tags[t].on = on[t]
  PROVE  ByLabel(tags) = [l \in S |-> on[l]]
<1>1. DOMAIN tags = S /\ \A t \in S : tags[t].label = t /\ tags[t].on = on[t]
  OBVIOUS
<1>2. {tags[t].label : t \in DOMAIN tags} = S
  BY <1>1
<1>3. ASSUME NEW l \in S PROVE UNION {tags[t].on : t \in {t \in DOMAIN tags : tags[t].label = l}} = on[l]
  <2>1. {t \in DOMAIN tags : tags[t].label = l} = {l}
    BY <1>1
  <2> QED
    BY <1>1, <2>1
<1> QED
  BY <1>2, <1>3 DEF ByLabel

LEMMA CreatesSay ==
  ASSUME world \in [Instances -> Tags], NEW i \in Instances, batch.button \in {"propagate", "add"},
         NEW work, NEW seen, batch.seen = seen, Creates(work, seen),
         NEW tags, Progress(i, work, ItemsOn(i, work), tags)
  PROVE  ByLabel(tags) = Meant(i)
<1> DEFINE now == world[i]
           rows == seen.rows
           on == [t \in DOMAIN now \cup rows |-> IF t \in DOMAIN now THEN now[t] ELSE {}]
           made == {x.to : x \in ItemsOn(i, work)}
<1>1. ASSUME NEW x \in work
      PROVE  x.op = "create" /\ x.inst \in seen.range /\ x.to \in rows
  <2>1. PICK p \in seen.range \X rows : x = Op("create", p, p[2])
    BY DEF Creates
  <2> QED
    BY <2>1, OpRead
<1>2. Given(i, ItemsOn(i, work), tags)
  BY <1>1 DEF Progress, AreNew
<1>3. now = [l \in DOMAIN now |-> now[l]]
  BY DEF Tags
<1>4. CASE i \notin seen.range
  <2>1. made = {}
    BY <1>1, <1>4 DEF ItemsOn
  <2>2. tags = [t \in DOMAIN now |-> [label |-> t, on |-> now[t]]]
    <3> HIDE DEF made
    <3>1. tags = [t \in DOMAIN now \cup made |-> [label |-> t, on |-> IF t \in DOMAIN now THEN now[t] ELSE {}]]
      BY <1>2 DEF Given, made
    <3> QED
      BY <2>1, <3>1
  <2>3. ByLabel(tags) = [l \in DOMAIN now |-> now[l]]
    BY <2>2, LabelsKept
  <2> QED
    BY <1>3, <1>4, <2>3 DEF Meant
<1>5. CASE i \in seen.range
  <2>1. made \subseteq rows
    BY <1>1 DEF ItemsOn
  <2>2. ASSUME NEW l \in rows, l \notin DOMAIN now PROVE l \in made
    <3> DEFINE p == <<i, l>>
               x == Op("create", p, p[2])
    <3>1. p[1] = i /\ p[2] = l /\ p \in Lacking(seen)
      BY <1>5, <2>2 DEF Lacking
    <3>2. x \in work
      BY <3>1 DEF Creates
    <3>3. x.inst = i /\ x.to = l
      BY <3>1, OpRead
    <3> HIDE DEF x
    <3> QED
      BY <3>2, <3>3 DEF ItemsOn
  <2>3. DOMAIN now \cup made = DOMAIN now \cup rows
    BY <2>1, <2>2
  <2>4. tags = [t \in DOMAIN now \cup rows |-> [label |-> t, on |-> on[t]]]
    <3> HIDE DEF made
    <3>1. tags = [t \in DOMAIN now \cup made |-> [label |-> t, on |-> IF t \in DOMAIN now THEN now[t] ELSE {}]]
      BY <1>2 DEF Given, made
    <3> QED
      BY <2>3, <3>1
  <2>5. ByLabel(tags) = [l \in DOMAIN now \cup rows |-> on[l]]
    <3> HIDE DEF on
    <3> QED
      BY <2>4, LabelsKept
  <2> QED
    BY <1>5, <2>5 DEF Meant, GivenTo
<1> QED
  BY <1>4, <1>5

LEMMA DeletesSay ==
  ASSUME world \in [Instances -> Tags], NEW i \in Instances, batch.button = "delete",
         NEW work, NEW seen, batch.seen = seen, Deletes(work, seen),
         NEW tags, Progress(i, work, ItemsOn(i, work), tags)
  PROVE  ByLabel(tags) = Meant(i)
<1> DEFINE now == world[i]
           rows == seen.rows
           going == {x.label : x \in ItemsOn(i, work)}
<1>1. ASSUME NEW x \in work
      PROVE  x.op = "delete" /\ x.inst \in seen.range /\ x.label \in rows
  <2>1. PICK p \in Having(seen) : x = Op("delete", p, p[2])
    BY DEF Deletes
  <2> QED
    BY <2>1, OpRead DEF Having
<1>2. tags = [t \in DOMAIN now \ going |-> [label |-> t, on |-> now[t]]]
  BY <1>1 DEF Progress, AreGoing, Taken
<1>3. now = [l \in DOMAIN now |-> now[l]]
  BY DEF Tags
<1> HIDE DEF going
<1>4. ByLabel(tags) = [l \in DOMAIN now \ going |-> now[l]]
  BY <1>2, LabelsKept
<1>5. CASE i \notin seen.range
  <2>1. going = {}
    BY <1>1, <1>5 DEF ItemsOn, going
  <2>2. ByLabel(tags) = [l \in DOMAIN now |-> now[l]]
    BY <1>4, <2>1
  <2> QED
    BY <1>3, <1>5, <2>2 DEF Meant
<1>6. CASE i \in seen.range
  <2>1. going \subseteq rows
    BY <1>1 DEF ItemsOn, going
  <2>2. ASSUME NEW l \in rows, l \in DOMAIN now PROVE l \in going
    <3> DEFINE p == <<i, l>>
               x == Op("delete", p, p[2])
    <3>1. p[1] = i /\ p[2] = l /\ p \in Having(seen)
      BY <1>6, <2>2 DEF Having
    <3>2. x \in work
      BY <3>1 DEF Deletes
    <3>3. x.inst = i /\ x.label = l
      BY <3>1, OpRead
    <3> HIDE DEF x
    <3> QED
      BY <3>2, <3>3 DEF ItemsOn, going
  <2>3. DOMAIN now \ going = DOMAIN now \ rows
    BY <2>1, <2>2
  <2>4. ByLabel(tags) = [l \in DOMAIN now \ rows |-> now[l]]
    BY <1>4, <2>3
  <2> QED
    BY <1>6, <2>4 DEF Meant, TakenFrom
<1> QED
  BY <1>5, <1>6

LEMMA RenamesSay ==
  ASSUME world \in [Instances -> Tags], NEW i \in Instances, batch.button = "rename",
         NEW work, work # {}, batch.items = work, NEW seen, batch.seen = seen, NEW to, Renames(work, seen, to),
         NEW tags, Progress(i, work, ItemsOn(i, work), tags)
  PROVE  ByLabel(tags) = Meant(i)
<1> DEFINE now == world[i]
           mine == ItemsOn(i, work)
           rows == seen.rows
           into(k) == IF k \in rows THEN to ELSE k
           meant == [l \in {into(k) : k \in DOMAIN now} |-> UNION {now[k] : k \in {k \in DOMAIN now : l = into(k)}}]
<1>1. now = [l \in DOMAIN now |-> now[l]]
  BY DEF Tags
<1>2. PICK old \in Labels : rows = {old} /\ to # old
  BY DEF Renames
<1>3. ASSUME NEW x \in work
      PROVE  /\ x = Op("rename", <<x.inst, old>>, to)
             /\ x.op = "rename" /\ x.inst \in seen.range /\ x.label = old /\ x.to = to /\ old \in DOMAIN world[x.inst]
  <2>1. PICK p \in Having(seen) : x = Op("rename", p, to)
    BY DEF Renames
  <2>2. x.op = "rename" /\ x.inst = p[1] /\ x.label = p[2] /\ x.to = to
    BY <2>1, OpRead
  <2>3. p[1] \in seen.range /\ p[2] = old /\ old \in DOMAIN world[p[1]] /\ p = <<p[1], p[2]>>
    BY <1>2, <2>1 DEF Having
  <2> QED
    BY <2>1, <2>2, <2>3
<1>4. \A x, y \in mine : x = y
  BY <1>3 DEF ItemsOn
<1>5. AreMoving(work) /\ ~Tangled(work, i)
  <2>1. ASSUME NEW x \in work, NEW y \in work, y.inst = x.inst PROVE y = x
    BY <1>3, <2>1
  <2> QED
    BY <1>2, <1>3, <2>1 DEF AreMoving, Tangled
<1>6. Moved(i, mine, tags)
  BY <1>5 DEF Progress
<1>7. Merging(mine) = {} /\ \A t : Joining(i, mine, t) = {}
  BY <1>3 DEF Merging, Joining, ItemsOn
<1>8. Meant(i) = IF i \notin seen.range THEN now ELSE IF to \in DOMAIN now THEN now ELSE meant
  <2>1. RenamedIn(now, rows, to) = IF to \in DOMAIN now THEN now ELSE meant
    BY DEF RenamedIn
  <2> HIDE DEF meant
  <2>2. (CHOOSE x \in batch.items : TRUE).to = to
    BY <1>3
  <2> QED
    BY <2>1, <2>2 DEF Meant
<1> HIDE DEF mine
<1>9. /\ DOMAIN tags = DOMAIN now
      /\ \A t \in DOMAIN now : tags[t] = [label |-> tags[t].label, on |-> now[t]]
      /\ \A t \in DOMAIN now : \A x \in Renaming(i, mine) : x.label = t => tags[t].label = x.to
      /\ \A t \in DOMAIN now : (\A x \in Renaming(i, mine) : x.label # t) => tags[t].label = t
      /\ \A t \in DOMAIN now : tags[t].on = now[t]
  <2>1. /\ DOMAIN tags = DOMAIN now \ Merging(mine)
        /\ \A t \in DOMAIN tags : tags[t] = [label |-> tags[t].label, on |-> now[t] \cup Joining(i, mine, t)]
        /\ DOMAIN now \ Merging(mine) = DOMAIN now /\ \A t \in DOMAIN now : now[t] \cup Joining(i, mine, t) = now[t]
    BY <1>6, <1>7 DEF Moved
  <2>2. \A t \in DOMAIN now : tags[t] = [label |-> tags[t].label, on |-> now[t]]
    BY <2>1
  <2>3. ASSUME NEW t \in DOMAIN now PROVE tags[t].on = now[t]
    <3>1. tags[t] = [label |-> tags[t].label, on |-> now[t]]
      BY <2>2
    <3> QED
      BY <3>1, TagRead
  <2> QED
    BY <1>6, <2>1, <2>2, <2>3 DEF Moved
<1>10. CASE i \notin seen.range \/ to \in DOMAIN now \/ old \notin DOMAIN now
  <2>1. Renaming(i, mine) = {}
    BY <1>3, <1>10 DEF Renaming, ItemsOn, mine
  <2>2. DOMAIN tags = DOMAIN now /\ \A t \in DOMAIN now : tags[t].label = t /\ tags[t].on = now[t]
    BY <1>9, <2>1
  <2>3. ByLabel(tags) = now
    BY <1>1, <2>2, LabelsKept
  <2>4. ASSUME i \in seen.range, to \notin DOMAIN now PROVE meant = now
    <3>1. \A k \in DOMAIN now : into(k) = k
      BY <1>2, <1>10, <2>4
    <3>2. {into(k) : k \in DOMAIN now} = DOMAIN now
      BY <3>1
    <3>3. \A l \in DOMAIN now : UNION {now[k] : k \in {k \in DOMAIN now : l = into(k)}} = now[l]
      BY <3>1
    <3> QED
      BY <1>1, <3>2, <3>3
  <2> HIDE DEF meant
  <2> QED
    BY <1>8, <2>3, <2>4
<1>11. CASE i \in seen.range /\ to \notin DOMAIN now /\ old \in DOMAIN now
  <2> DEFINE p == <<i, old>>
             item == Op("rename", p, to)
  <2>1. p[1] = i /\ p[2] = old /\ p \in Having(seen)
    BY <1>2, <1>11 DEF Having
  <2>2. item \in work
    BY <2>1 DEF Renames
  <2>3. item.inst = i /\ item.op = "rename" /\ item.label = old /\ item.to = to
    BY <2>1, OpRead
  <2> HIDE DEF item
  <2>4. item \in Renaming(i, mine)
    BY <1>11, <2>2, <2>3 DEF Renaming, ItemsOn, mine
  <2>5. \A x \in Renaming(i, mine) : x.label = old
    BY <1>3 DEF Renaming, ItemsOn, mine
  <2>6. \A t \in DOMAIN now : tags[t].label = into(t) /\ tags[t].on = now[t]
    <3>1. tags[old].label = to
      BY <1>9, <1>11, <2>3, <2>4
    <3>2. \A t \in DOMAIN now : t # old => tags[t].label = t
      BY <1>9, <2>5
    <3>3. \A t \in DOMAIN now : tags[t].on = now[t]
      BY <1>9
    <3> QED
      BY <1>2, <3>1, <3>2, <3>3
  <2>7. {tags[t].label : t \in DOMAIN tags} = {into(k) : k \in DOMAIN now}
    BY <1>9, <2>6
  <2>8. \A l : UNION {tags[t].on : t \in {t \in DOMAIN tags : tags[t].label = l}}
                 = UNION {now[k] : k \in {k \in DOMAIN now : l = into(k)}}
    BY <1>9, <2>6
  <2>9. ByLabel(tags) = meant
    BY <2>7, <2>8 DEF ByLabel
  <2> HIDE DEF meant
  <2> QED
    BY <1>8, <1>11, <2>9
<1> QED
  BY <1>10, <1>11

LEMMA ReplacesSay ==
  ASSUME world \in [Instances -> Tags], NEW i \in Instances, batch.button = "replace",
         NEW work, NEW seen, batch.seen = seen, Replaces(work, seen), ~Tangled(work, i),
         NEW tags, Progress(i, work, ItemsOn(i, work), tags)
  PROVE  ByLabel(tags) = Meant(i)
<1> DEFINE now == world[i]
           mine == ItemsOn(i, work)
           all(l) == UNION {now[k] : k \in {k \in DOMAIN now : l = Replaced(k)}}
           item(p) == Op(IF Replaced(p[2]) \in DOMAIN world[p[1]] THEN "merge" ELSE "rename", p, Replaced(p[2]))
<1>1. now = [l \in DOMAIN now |-> now[l]] /\ DOMAIN now \subseteq Labels
  BY DEF Tags
<1>2. ASSUME NEW x \in work
      PROVE  /\ x.inst \in seen.range /\ x.label \in DOMAIN world[x.inst] /\ Replaced(x.label) # x.label
             /\ x.to = Replaced(x.label) /\ x.op = (IF x.to \in DOMAIN world[x.inst] THEN "merge" ELSE "rename")
             /\ x = item(<<x.inst, x.label>>)
  <2>1. PICK p \in Replaceable(seen.range) : x = item(p)
    BY DEF Replaces
  <2>2. /\ x.op = IF Replaced(p[2]) \in DOMAIN world[p[1]] THEN "merge" ELSE "rename"
        /\ x.inst = p[1] /\ x.label = p[2] /\ x.to = Replaced(p[2])
    BY <2>1, OpRead
  <2>3. p[1] \in seen.range /\ p[2] \in DOMAIN world[p[1]] /\ Replaced(p[2]) # p[2] /\ p = <<p[1], p[2]>>
    BY <2>1 DEF Replaceable
  <2> HIDE DEF item
  <2> QED
    BY <2>1, <2>2, <2>3
<1>3. AreMoving(work)
  <2>1. \A x, y \in work : y.inst = x.inst /\ y.label = x.label => y = x
    <3> HIDE DEF item
    <3> QED
      BY <1>2
  <2>2. \A x \in work : /\ x.op \in {"rename", "merge"} /\ x.label \in DOMAIN world[x.inst] /\ x.to # x.label
                        /\ x.op = "merge" => x.to \in DOMAIN world[x.inst]
    BY <1>2
  <2> QED
    BY <2>1, <2>2 DEF AreMoving
<1>4. Moved(i, mine, tags)
  BY <1>3 DEF Progress
<1>5. CASE i \notin seen.range
  <2>1. mine = {}
    BY <1>2, <1>5 DEF ItemsOn
  <2>2. Merging({}) = {} /\ Renaming(i, {}) = {} /\ \A t : Joining(i, {}, t) = {}
    BY DEF Merging, Renaming, Joining
  <2>4. DOMAIN tags = DOMAIN now /\ \A t \in DOMAIN now : tags[t].label = t /\ tags[t].on = now[t]
    <3> HIDE DEF mine
    <3>1. /\ DOMAIN tags = DOMAIN now
          /\ \A t \in DOMAIN now : tags[t] = [label |-> tags[t].label, on |-> now[t] \cup Joining(i, {}, t)]
          /\ \A t \in DOMAIN now : tags[t].label = t
      BY <1>4, <2>1, <2>2 DEF Moved
    <3>2. \A t \in DOMAIN now : now[t] \cup Joining(i, {}, t) = now[t]
      BY <2>2
    <3>3. ASSUME NEW t \in DOMAIN now PROVE tags[t].on = now[t]
      <4>1. tags[t] = [label |-> tags[t].label, on |-> now[t]]
        BY <3>1, <3>2
      <4> QED
        BY <4>1, TagRead
    <3> QED
      BY <3>1, <3>3
  <2>5. ByLabel(tags) = now
    BY <1>1, <2>4, LabelsKept
  <2> QED
    BY <1>5, <2>5 DEF Meant
<1>6. CASE i \in seen.range
  <2>1. ASSUME NEW k \in DOMAIN now, Replaced(k) # k
        PROVE  \E x \in mine : x.label = k /\ x.to = Replaced(k)
    <3> DEFINE p == <<i, k>>
               x == item(p)
    <3>1. p[1] = i /\ p[2] = k /\ p \in Replaceable(seen.range)
      BY <1>1, <1>6, <2>1 DEF Replaceable
    <3>2. x \in work
      BY <3>1 DEF Replaces
    <3>3. x.inst = i /\ x.label = k /\ x.to = Replaced(k)
      BY <3>1, OpRead
    <3> HIDE DEF x
    <3> QED
      BY <3>2, <3>3 DEF ItemsOn
  <2>2. \A x \in mine : /\ x \in work /\ x.inst = i /\ x.label \in DOMAIN now /\ Replaced(x.label) # x.label
                        /\ x.to = Replaced(x.label) /\ x.op = (IF x.to \in DOMAIN now THEN "merge" ELSE "rename")
    <3> HIDE DEF item
    <3> QED
      BY <1>2 DEF ItemsOn
  <2>3. /\ DOMAIN tags = DOMAIN now \ Merging(mine)
        /\ \A t \in DOMAIN tags : tags[t].on = now[t] \cup Joining(i, mine, t)
        /\ \A t \in DOMAIN tags : \A x \in Renaming(i, mine) : x.label = t => tags[t].label = x.to
        /\ \A t \in DOMAIN tags : (\A x \in Renaming(i, mine) : x.label # t) => tags[t].label = t
    <3> HIDE DEF mine
    <3>1. \A t \in DOMAIN tags : tags[t] = [label |-> tags[t].label, on |-> now[t] \cup Joining(i, mine, t)]
      BY <1>4 DEF Moved
    <3>2. ASSUME NEW t \in DOMAIN tags PROVE tags[t].on = now[t] \cup Joining(i, mine, t)
      <4>1. tags[t] = [label |-> tags[t].label, on |-> now[t] \cup Joining(i, mine, t)]
        BY <3>1
      <4> QED
        BY <4>1, TagRead
    <3> QED
      BY <1>4, <3>2 DEF Moved
  <2> HIDE DEF mine
  <2>4. ASSUME NEW t \in DOMAIN tags PROVE tags[t].label = Replaced(t)
    <3>1. CASE Replaced(t) = t
      <4>1. \A x \in Renaming(i, mine) : x.label # t
        BY <2>2, <3>1 DEF Renaming
      <4> QED
        BY <2>3, <2>4, <3>1, <4>1
    <3>2. CASE Replaced(t) # t
      <4>1. PICK x \in mine : x.label = t /\ x.to = Replaced(t)
        BY <2>1, <2>3, <2>4, <3>2
      <4>2. x.op # "merge"
        BY <2>3, <2>4, <4>1 DEF Merging
      <4>3. x \in Renaming(i, mine)
        BY <2>2, <4>1, <4>2 DEF Renaming
      <4> QED
        BY <2>3, <2>4, <4>1, <4>3
    <3> QED
      BY <3>1, <3>2
  <2>5. ASSUME NEW x \in mine, x.op = "merge" PROVE x.to \in DOMAIN tags /\ Replaced(x.to) = x.to
    <3>1. x.to \in DOMAIN now
      BY <2>2, <2>5
    <3>2. \A y \in mine : y.label # x.to
      BY <2>2 DEF Tangled
    <3>3. x.to \notin Merging(mine)
      BY <3>2 DEF Merging
    <3> QED
      BY <2>1, <2>3, <3>1, <3>2, <3>3
  <2>6. ASSUME NEW k \in DOMAIN now, k \notin DOMAIN tags
        PROVE  Replaced(k) \in DOMAIN tags /\ tags[Replaced(k)].label = Replaced(k)
               /\ now[k] \subseteq Joining(i, mine, Replaced(k))
    <3>1. PICK x \in mine : x.op = "merge" /\ x.label = k
      BY <2>3, <2>6 DEF Merging
    <3>2. x.to = Replaced(k)
      BY <2>2, <3>1
    <3>3. now[k] \subseteq Joining(i, mine, Replaced(k))
      BY <3>1, <3>2 DEF Joining
    <3> QED
      BY <2>4, <2>5, <3>1, <3>2, <3>3
  <2>7. {tags[t].label : t \in DOMAIN tags} = {Replaced(k) : k \in DOMAIN now}
    <3>1. \A t \in DOMAIN tags : t \in DOMAIN now /\ tags[t].label = Replaced(t)
      BY <2>3, <2>4
    <3>2. \A k \in DOMAIN now : \E t \in DOMAIN tags : tags[t].label = Replaced(k)
      BY <2>4, <2>6
    <3> QED
      BY <3>1, <3>2
  <2>8. ASSUME NEW l
        PROVE  UNION {tags[t].on : t \in {t \in DOMAIN tags : tags[t].label = l}} = all(l)
    <3>1. ASSUME NEW t \in DOMAIN tags, tags[t].label = l, NEW u \in tags[t].on PROVE u \in all(l)
      <4>1. t \in DOMAIN now /\ l = Replaced(t)
        BY <2>3, <2>4, <3>1
      <4>2. CASE u \in now[t]
        BY <4>1, <4>2
      <4>3. CASE u \in Joining(i, mine, t)
        <5>1. PICK x \in mine : x.op = "merge" /\ x.to = t /\ u \in now[x.label]
          BY <4>3 DEF Joining
        <5>2. x.label \in DOMAIN now /\ Replaced(x.label) = t /\ Replaced(t) = t
          BY <2>2, <2>5, <5>1
        <5> QED
          BY <4>1, <5>1, <5>2
      <4> QED
        BY <2>3, <3>1, <4>2, <4>3
    <3>2. ASSUME NEW k \in DOMAIN now, l = Replaced(k), NEW u \in now[k]
          PROVE  \E t \in DOMAIN tags : tags[t].label = l /\ u \in tags[t].on
      <4>1. CASE k \in DOMAIN tags
        BY <2>3, <2>4, <3>2, <4>1
      <4>2. CASE k \notin DOMAIN tags
        BY <2>3, <2>6, <3>2, <4>2
      <4> QED
        BY <4>1, <4>2
    <3> QED
      BY <3>1, <3>2
  <2> HIDE DEF all
  <2>9. ByLabel(tags) = [l \in {Replaced(k) : k \in DOMAIN now} |-> all(l)]
    BY <2>7, <2>8 DEF ByLabel
  <2>10. ReplacedIn(now) = [l \in {Replaced(k) : k \in DOMAIN now} |-> all(l)]
    BY DEF ReplacedIn, all
  <2> QED
    BY <1>6, <2>9, <2>10 DEF Meant
<1> QED
  BY <1>5, <1>6

-------------------------------------------------------------------------------
(* What is staged is what was seen.                                          *)

\* A dialog's targets are the holders of its rows until somebody changes a tag.
Held(targets, seen) ==
  /\ seen.at \in Nat /\ seen.at <= drift
  /\ seen.current /\ seen.at = drift => targets = Having(seen)

DialogMade ==
  \/ dialog = Nothing \/ dialog = [kind |-> "replace"]
  \/ \E l \in Labels, chosen \in SUBSET Instances : dialog = [kind |-> "add", label |-> l, chosen |-> chosen]
  \/ \E l \in Labels : dialog = [kind |-> "rename", label |-> l, targets |-> dialog.targets, seen |-> dialog.seen]
                       /\ dialog.seen.rows = {l} /\ Held(dialog.targets, dialog.seen)
  \/ dialog = [kind |-> "delete", targets |-> dialog.targets, seen |-> dialog.seen] /\ Held(dialog.targets, dialog.seen)

\* The items of a batch are those that its button says.
Says(button, work, seen) ==
  \/ button \in {"propagate", "add"} /\ Creates(work, seen)
  \/ button = "delete" /\ Deletes(work, seen)
  \/ button = "rename" /\ \E to \in Labels : Renames(work, seen, to)
  \/ button = "replace" /\ Replaces(work, seen)

BatchMade ==
  \/ batch = NoBatch
  \/ /\ batch = [button |-> batch.button, items |-> batch.items, seen |-> batch.seen, left |-> batch.left, tags |-> batch.tags]
     /\ batch.items # {}
     /\ batch.seen.current /\ batch.seen.at = drift => Says(batch.button, batch.items, batch.seen)

\* What the items that are done have made of every instance.
BatchRuns ==
  batch # NoBatch =>
    /\ batch.left \subseteq batch.items /\ DOMAIN batch.tags = Instances
    /\ \A i \in Instances : Progress(i, batch.items, ItemsOn(i, batch.items \ batch.left), batch.tags[i])

IInv == world \in [Instances -> Tags] /\ drift \in Nat /\ DialogMade /\ BatchMade /\ BatchRuns

LEMMA Sound ==
  ASSUME IInv
  PROVE  BatchesDoWhatTheirButtonsSay
<1>1. SUFFICES ASSUME NEW i \in Instances, batch # NoBatch, batch.left = {}, batch.seen.current, batch.seen.at = drift,
                      batch.button = "replace" => ~Tangled(batch.items, i)
               PROVE  ByLabel(batch.tags[i]) = Meant(i)
  BY DEF BatchesDoWhatTheirButtonsSay
<1>2. PICK work, seen, tags : work = batch.items /\ seen = batch.seen /\ tags = batch.tags[i]
  OBVIOUS
<1>3. work # {} /\ Says(batch.button, work, seen)
  BY <1>1, <1>2 DEF IInv, BatchMade
<1>4. world \in [Instances -> Tags]
  BY DEF IInv
<1>5. Progress(i, work, ItemsOn(i, work), tags)
  <2>1. batch.items \ batch.left = work
    BY <1>1, <1>2
  <2> QED
    BY <1>1, <1>2, <2>1 DEF IInv, BatchRuns
<1>6. CASE batch.button \in {"propagate", "add"} /\ Creates(work, seen)
  BY <1>2, <1>4, <1>5, <1>6, CreatesSay
<1>7. CASE batch.button = "delete" /\ Deletes(work, seen)
  BY <1>2, <1>4, <1>5, <1>7, DeletesSay
<1>8. CASE batch.button = "rename" /\ \E to \in Labels : Renames(work, seen, to)
  <2>1. PICK to : Renames(work, seen, to)
    BY <1>8
  <2> QED
    BY <1>2, <1>3, <1>4, <1>5, <1>8, <2>1, RenamesSay
<1>9. CASE batch.button = "replace" /\ Replaces(work, seen)
  BY <1>1, <1>2, <1>4, <1>5, <1>9, ReplacesSay
<1> QED
  BY <1>3, <1>6, <1>7, <1>8, <1>9 DEF Says

LEMMA Opens ==
  ASSUME IInv, UNCHANGED <<world, drift, batch>>, batch = NoBatch, DialogMade'
  PROVE  IInv'
BY DEF IInv, BatchMade, BatchRuns

LEMMA Stays ==
  ASSUME IInv, UNCHANGED <<world, drift, dialog, batch>>
  PROVE  IInv'
<1>1. DialogMade'
  BY DEF IInv, DialogMade, Held, Having
<1>2. BatchMade'
  BY DEF IInv, BatchMade, Says, Creates, Deletes, Renames, Replaces, Replaceable, Having, Lacking
<1>3. ASSUME NEW i, NEW work, NEW done, NEW tags PROVE Progress(i, work, done, tags)' <=> Progress(i, work, done, tags)
  BY DEF Progress, Given, Taken, Moved, AreMoving, Renaming, Joining
<1>4. BatchRuns'
  BY <1>3 DEF IInv, BatchRuns
<1> QED
  BY <1>1, <1>2, <1>4 DEF IInv

LEMMA Stages ==
  ASSUME IInv, UNCHANGED <<world, drift>>, DialogMade', NEW button, NEW work, NEW seen, Stage(button, work, seen),
         work # {} /\ seen.current /\ seen.at = drift => Says(button, work, seen)
  PROVE  IInv'
<1>1. CASE work = {}
  BY <1>1 DEF IInv, BatchMade, BatchRuns, Stage
<1>2. CASE work # {}
  <2> DEFINE tags == [i \in Instances |-> ById(world[i])]
  <2>1. batch' = [button |-> button, items |-> work, seen |-> seen, left |-> work, tags |-> tags]
    BY <1>2 DEF Stage
  <2> HIDE DEF tags
  <2>2. batch'.button = button /\ batch'.items = work /\ batch'.seen = seen /\ batch'.left = work /\ batch'.tags = tags
    BY <2>1
  <2>3. Says(button, work, seen)' <=> Says(button, work, seen)
    BY DEF Says, Creates, Deletes, Renames, Replaces, Replaceable, Having, Lacking
  <2>4. BatchMade'
    BY <1>2, <2>1, <2>2, <2>3 DEF BatchMade
  <2>5. ASSUME NEW i \in Instances
        PROVE  Progress(i, batch.items, ItemsOn(i, batch.items \ batch.left), batch.tags[i])'
    <3>1. batch'.items \ batch'.left = {} /\ ItemsOn(i, {}) = {} /\ batch'.tags[i] = ById(world[i])
      BY <2>2 DEF ItemsOn, tags
    <3>2. Progress(i, work, {}, ById(world[i]))
      BY NothingDone
    <3>3. Progress(i, work, {}, ById(world[i]))'
      BY <3>2 DEF Progress, Given, Taken, Moved, AreMoving, Renaming, Joining, ById
    <3> QED
      BY <2>2, <3>1, <3>3 DEF ById
  <2>6. BatchRuns'
    BY <2>2, <2>5 DEF BatchRuns, tags
  <2> QED
    BY <2>4, <2>6 DEF IInv
<1> QED
  BY <1>1, <1>2

\* Leaving a page, or a dialog, forgets what was seen.
LEMMA NothingMade == dialog' = Nothing => DialogMade'
BY DEF DialogMade

\* What is seen in one cell, or in all that have answered.
LEMMA SeenIn ==
  ASSUME NEW rows, NEW range
  PROVE  LET seen == [Seen(rows) EXCEPT !.range = range]
         IN  seen.rows = rows /\ seen.at = drift /\ seen.range = range /\ (seen.current <=> Current)
BY DEF Seen

LEMMA SeenNow ==
  ASSUME NEW rows
  PROVE  Seen(rows).rows = rows /\ Seen(rows).at = drift /\ (Seen(rows).current <=> Current)
BY DEF Seen

LEMMA HeldNow ==
  ASSUME IInv, UNCHANGED <<world, drift>>, NEW targets, NEW seen,
         seen.at = drift, seen.current => targets = Having(seen)
  PROVE  Held(targets, seen)'
<1>1. Having(seen)' = Having(seen)
  BY DEF Having
<1> QED
  BY <1>1 DEF Held, IInv

LEMMA DialogKept ==
  ASSUME IInv, UNCHANGED <<world, drift, dialog>>
  PROVE  DialogMade'
BY DEF IInv, DialogMade, Held, Having

-------------------------------------------------------------------------------
(* The steps.                                                                *)

LEMMA StillSteps ==
  ASSUME IInv,
         \/ Answered \/ Refresh \/ ClearSelection \/ ToggleAllVisible
         \/ \E i \in Instances : Probe(i) \/ Remove(i) \/ Create(i) \/ ToggleInstance(i)
         \/ (\E f \in {"all", "drift", "unused"} : SetFilter(f)) \/ \E l \in Labels : ToggleRow(l)
  PROVE  IInv'
<1>1. UNCHANGED <<world, drift, dialog, batch>>
  BY DEF Answered, Refresh, ClearSelection, ToggleAllVisible, Probe, Remove, Create, ToggleInstance, SetFilter, ToggleRow,
     OnTags, Undisturbed, Quiet, Stay, screen
<1> QED
  BY <1>1, Stays

LEMMA TagsMade ==
  ASSUME NEW S \in SUBSET Labels, NEW tags \in [S -> SUBSET Uses]
  PROVE  tags \in Tags
BY DEF Tags

LEMMA OthersStep ==
  ASSUME IInv, OthersEdit
  PROVE  IInv'
<1>1. batch = NoBatch /\ batch' = batch /\ dialog' = dialog /\ drift \in Nat /\ drift' = drift + 1
  BY DEF OthersEdit, screen, IInv
<1>2. world' \in [Instances -> Tags]
  <2>1. PICK i \in Instances, l \in Labels :
          \/ world' = [world EXCEPT ![i] = [k \in DOMAIN @ \cup {l} |-> IF k = l THEN {} ELSE @[k]]]
          \/ world' = [world EXCEPT ![i] = [k \in DOMAIN @ \ {l} |-> @[k]]]
    BY DEF OthersEdit
  <2>2. PICK S \in SUBSET Labels : world[i] \in [S -> SUBSET Uses]
    BY DEF IInv, Tags
  <2>3. [k \in DOMAIN world[i] \cup {l} |-> IF k = l THEN {} ELSE world[i][k]] \in Tags
    <3>1. [k \in DOMAIN world[i] \cup {l} |-> IF k = l THEN {} ELSE world[i][k]] \in [S \cup {l} -> SUBSET Uses]
      BY <2>2
    <3> QED
      BY <3>1, TagsMade
  <2>4. [k \in DOMAIN world[i] \ {l} |-> world[i][k]] \in Tags
    <3>1. [k \in DOMAIN world[i] \ {l} |-> world[i][k]] \in [S \ {l} -> SUBSET Uses]
      BY <2>2
    <3> QED
      BY <3>1, TagsMade
  <2>5. world \in [Instances -> Tags]
    BY DEF IInv
  <2> HIDE DEF Tags
  <2> QED
    BY <2>1, <2>3, <2>4, <2>5
<1>3. \A targets, seen : Held(targets, seen) => Held(targets, seen)'
  BY <1>1 DEF Held
<1>4. DialogMade'
  BY <1>1, <1>3 DEF IInv, DialogMade
<1>5. drift' \in Nat
  BY <1>1
<1> QED
  BY <1>1, <1>2, <1>4, <1>5 DEF IInv, BatchMade, BatchRuns

LEMMA DialogSteps ==
  ASSUME IInv,
         \/ Visit \/ Close \/ OpenReplace \/ DeleteSelected
         \/ \E i \in Instances : Choose(i)
         \/ \E l \in Labels : OpenAdd(l) \/ RenameRow(l)
         \/ \E l \in Labels, i \in Instances : StageCellDelete(l, i)
  PROVE  IInv'
<1>1. UNCHANGED <<world, drift, batch>> /\ batch = NoBatch
  BY DEF Visit, Close, OpenReplace, DeleteSelected, Choose, OpenAdd, RenameRow, StageCellDelete, Open, OnTags,
     Undisturbed, Click, Quiet, Confirm, InDialog
<1> SUFFICES DialogMade'
  BY <1>1, Opens
<1>2. CASE Visit \/ Close
  BY <1>2, NothingMade DEF Visit, Close, Confirm
<1>3. CASE OpenReplace
  BY <1>3 DEF OpenReplace, Open, DialogMade
<1>4. CASE \E l \in Labels : OpenAdd(l)
  <2>1. PICK l \in Labels : dialog' = [kind |-> "add", label |-> l, chosen |-> {}]
    BY <1>4 DEF OpenAdd, Open
  <2> QED
    BY <2>1 DEF DialogMade
<1>5. CASE \E i \in Instances : Choose(i)
  <2>1. PICK i \in Instances : dialog.kind = "add" /\ dialog' = [dialog EXCEPT !.chosen = Toggle(@, i)]
    BY <1>5 DEF Choose, InDialog
  <2>2. PICK l \in Labels, chosen \in SUBSET Instances : dialog = [kind |-> "add", label |-> l, chosen |-> chosen]
    BY <2>1 DEF IInv, DialogMade, Nothing
  <2>3. dialog' = [kind |-> "add", label |-> l, chosen |-> Toggle(chosen, i)] /\ Toggle(chosen, i) \in SUBSET Instances
    BY <2>1, <2>2 DEF Toggle
  <2> QED
    BY <2>3 DEF DialogMade
<1>6. CASE \E l \in Labels : RenameRow(l)
  <2>1. PICK l \in Labels :
          dialog' = [kind |-> "rename", label |-> l, targets |-> Holders({l}), seen |-> Seen({l})]
    BY <1>6 DEF RenameRow, Open
  <2>2. Seen({l}).current => Holders({l}) = Having(Seen({l}))
    BY SeenNow, SeenRead
  <2>3. PICK targets : targets = Holders({l})
    OBVIOUS
  <2>4. PICK seen : seen = Seen({l})
    OBVIOUS
  <2>5. Held(targets, seen)' /\ seen.rows = {l}
    BY <1>1, <2>2, <2>3, <2>4, SeenNow, HeldNow
  <2>6. dialog' = [kind |-> "rename", label |-> l, targets |-> targets, seen |-> seen]
    BY <2>1, <2>3, <2>4
  <2>7. dialog'.targets = targets /\ dialog'.seen = seen
    BY <2>6
  <2> QED
    BY <2>5, <2>6, <2>7 DEF DialogMade
<1>7. ASSUME NEW targets, NEW seen, dialog' = [kind |-> "delete", targets |-> targets, seen |-> seen],
             seen.at = drift, seen.current => targets = Having(seen)
      PROVE  DialogMade'
  <2>1. Held(targets, seen)'
    BY <1>1, <1>7, HeldNow
  <2>2. dialog'.targets = targets /\ dialog'.seen = seen
    BY <1>7
  <2> QED
    BY <1>7, <2>1, <2>2 DEF DialogMade
<1>8. CASE DeleteSelected
  <2>1. dialog' = [kind |-> "delete", targets |-> Holders(SelectedRows), seen |-> Seen(SelectedRows)]
    BY <1>8 DEF DeleteSelected, Open, SelectedRows
  <2>2. Seen(SelectedRows).current => Holders(SelectedRows) = Having(Seen(SelectedRows))
    BY SeenNow, SeenRead
  <2> QED
    BY <1>7, <2>1, <2>2, SeenNow
<1>9. CASE \E l \in Labels, i \in Instances : StageCellDelete(l, i)
  <2>1. PICK l \in Labels, i \in Instances :
          /\ i \in PresentOn(l)
          /\ dialog' = [kind |-> "delete", targets |-> {<<i, l>>}, seen |-> [Seen({l}) EXCEPT !.range = {i}]]
    BY <1>9 DEF StageCellDelete, Open
  <2>2. PICK seen : seen = [Seen({l}) EXCEPT !.range = {i}]
    OBVIOUS
  <2>3. seen.rows = {l} /\ seen.at = drift /\ seen.range = {i} /\ (seen.current <=> Current)
    BY <2>2, SeenIn
  <2>4. ASSUME Current PROVE {<<i, l>>} = Having(seen)
    <3>1. l \in DOMAIN world[i]
      BY <2>1, <2>4, CurrentRead DEF PresentOn
    <3> QED
      BY <2>3, <3>1 DEF Having
  <2> QED
    BY <1>7, <2>1, <2>2, <2>3, <2>4
<1> QED
  BY <1>2, <1>3, <1>4, <1>5, <1>6, <1>8, <1>9

\* New tags, for exactly those of what was seen that lack theirs.
LEMMA CreatesMade ==
  ASSUME NEW seen, NEW pairs, pairs = Lacking(seen)
  PROVE  Creates({Op("create", p, p[2]) : p \in pairs}, seen)
BY DEF Creates, Lacking

LEMMA PropagateStep == ASSUME IInv, PropagateSelected PROVE IInv'
<1>1. UNCHANGED <<world, drift, dialog>>
  BY DEF PropagateSelected, Quiet
<1>2. PICK work : work = {Op("create", p, p[2]) : p \in Propagatable}
  OBVIOUS
<1>3. PICK seen : seen = Seen(SelectedRows)
  OBVIOUS
<1>4. Stage("propagate", work, seen)
  BY <1>2, <1>3 DEF PropagateSelected, SelectedRows
<1>5. ASSUME seen.current PROVE Says("propagate", work, seen)
  <2>1. Current
    BY <1>3, <1>5, SeenNow
  <2>2. Propagatable = Lacking(seen)
    BY <1>3, <2>1, SeenRead DEF Propagatable
  <2> QED
    BY <1>2, <2>2, CreatesMade DEF Says
<1>6. DialogMade'
  BY <1>1, DialogKept
<1> QED
  BY <1>1, <1>4, <1>5, <1>6, Stages

LEMMA CellStep ==
  ASSUME IInv, NEW l \in Labels, NEW i \in Instances, StageCellCreate(l, i)
  PROVE  IInv'
<1>1. UNCHANGED <<world, drift, dialog>>
  BY DEF StageCellCreate, Quiet, screen
<1>2. PICK work : work = {Op("create", <<i, l>>, l)}
  OBVIOUS
<1>3. PICK seen : seen = [Seen({l}) EXCEPT !.range = {i}]
  OBVIOUS
<1>4. Stage("propagate", work, seen)
  BY <1>2, <1>3 DEF StageCellCreate
<1>5. Says("propagate", work, seen)
  <2>1. seen.range = {i} /\ seen.rows = {l}
    BY <1>3, SeenIn
  <2>2. Lacking(seen) \subseteq {<<i, l>>} /\ <<i, l>> \in seen.range \X seen.rows
    BY <2>1 DEF Lacking
  <2>3. \A p \in {<<i, l>>} : Op("create", p, p[2]) = Op("create", <<i, l>>, l)
    OBVIOUS
  <2>4. Creates(work, seen)
    BY <1>2, <2>2, <2>3 DEF Creates
  <2> QED
    BY <2>4 DEF Says
<1>6. DialogMade'
  BY <1>1, DialogKept
<1> QED
  BY <1>1, <1>4, <1>5, <1>6, Stages

LEMMA AddStep == ASSUME IInv, ConfirmAdd PROVE IInv'
<1>1. UNCHANGED <<world, drift>> /\ dialog' = Nothing /\ dialog.kind = "add"
  BY DEF ConfirmAdd, Confirm, InDialog, Quiet
<1>2. PICK l \in Labels, chosen \in SUBSET Instances : dialog = [kind |-> "add", label |-> l, chosen |-> chosen]
  BY <1>1 DEF IInv, DialogMade, Nothing
<1>3. PICK targets : targets = {i \in chosen : ~AlreadyHas(i, l)}
  OBVIOUS
<1>4. PICK work : work = {Op("create", <<i, l>>, l) : i \in targets}
  OBVIOUS
<1>5. PICK seen : seen = [Seen({l}) EXCEPT !.range = chosen]
  OBVIOUS
<1>6. Stage("add", work, seen)
  BY <1>2, <1>3, <1>4, <1>5 DEF ConfirmAdd
<1>7. ASSUME seen.current PROVE Says("add", work, seen)
  <2>1. seen.range = chosen /\ seen.rows = {l} /\ Current
    BY <1>5, <1>7, SeenIn
  <2>2. \A x \in work : \E p \in seen.range \X seen.rows : x = Op("create", p, p[2])
    <3>1. ASSUME NEW i \in targets
          PROVE  \E p \in seen.range \X seen.rows : Op("create", <<i, l>>, l) = Op("create", p, p[2])
      <4>1. <<i, l>> \in seen.range \X seen.rows /\ <<i, l>>[2] = l
        BY <1>3, <2>1
      <4> QED
        BY <4>1
    <3> QED
      BY <1>4, <3>1
  <2>3. ASSUME NEW p \in Lacking(seen) PROVE Op("create", p, p[2]) \in work
    <3>1. p = <<p[1], l>> /\ p[1] \in chosen /\ p[2] = l /\ l \notin DOMAIN world[p[1]]
      BY <2>1, <2>3 DEF Lacking
    <3>2. p[1] \notin PresentOn(l)
      BY <2>1, <3>1, CurrentRead DEF PresentOn
    <3>3. p[1] \in targets
      BY <1>3, <3>1, <3>2 DEF AlreadyHas
    <3> QED
      BY <1>4, <3>1, <3>3
  <2>4. Creates(work, seen)
    BY <2>2, <2>3 DEF Creates
  <2> QED
    BY <2>4 DEF Says
<1> QED
  BY <1>1, <1>6, <1>7, NothingMade, Stages

LEMMA RenameStep ==
  ASSUME IInv, NEW to \in Labels, ConfirmRename(to)
  PROVE  IInv'
<1>1. UNCHANGED <<world, drift>> /\ dialog' = Nothing /\ dialog.kind = "rename" /\ to # dialog.label
  BY DEF ConfirmRename, Confirm, InDialog, Quiet
<1>2. PICK l \in Labels :
        /\ dialog = [kind |-> "rename", label |-> l, targets |-> dialog.targets, seen |-> dialog.seen]
        /\ dialog.seen.rows = {l} /\ Held(dialog.targets, dialog.seen)
  BY <1>1 DEF IInv, DialogMade, Nothing
<1>3. PICK targets : targets = dialog.targets
  OBVIOUS
<1>4. PICK seen : seen = dialog.seen
  OBVIOUS
<1>5. PICK work : work = {Op("rename", p, to) : p \in targets}
  OBVIOUS
<1>6. Stage("rename", work, seen)
  BY <1>3, <1>4, <1>5 DEF ConfirmRename
<1>7. ASSUME seen.current, seen.at = drift PROVE Says("rename", work, seen)
  <2>1. targets = Having(seen)
    BY <1>2, <1>3, <1>4, <1>7 DEF Held
  <2>2. seen.rows = {l} /\ to # l
    BY <1>1, <1>2, <1>4
  <2>3. Renames(work, seen, to)
    BY <1>5, <2>1, <2>2 DEF Renames
  <2> QED
    BY <2>3 DEF Says
<1> QED
  BY <1>1, <1>6, <1>7, NothingMade, Stages

LEMMA DeleteStep == ASSUME IInv, ConfirmDelete PROVE IInv'
<1>1. UNCHANGED <<world, drift>> /\ dialog' = Nothing /\ dialog.kind = "delete"
  BY DEF ConfirmDelete, Confirm, InDialog, Quiet
<1>2. Held(dialog.targets, dialog.seen)
  BY <1>1 DEF IInv, DialogMade, Nothing
<1>3. PICK targets : targets = dialog.targets
  OBVIOUS
<1>4. PICK seen : seen = dialog.seen
  OBVIOUS
<1>5. PICK work : work = {Op("delete", p, p[2]) : p \in targets}
  OBVIOUS
<1>6. Stage("delete", work, seen)
  BY <1>3, <1>4, <1>5 DEF ConfirmDelete
<1>7. ASSUME seen.current, seen.at = drift PROVE Says("delete", work, seen)
  BY <1>2, <1>3, <1>4, <1>5, <1>7 DEF Held, Says, Deletes
<1> QED
  BY <1>1, <1>6, <1>7, NothingMade, Stages

LEMMA ReplaceStep ==
  ASSUME IInv, NEW only \in BOOLEAN, ConfirmReplace(only)
  PROVE  IInv'
<1>1. UNCHANGED <<world, drift>> /\ dialog' = Nothing
  BY DEF ConfirmReplace, Confirm, InDialog, Quiet
<1>2. PICK seen : seen = IF only THEN Seen({}) ELSE [Seen({}) EXCEPT !.range = {i \in Columns : Column(i).status = "ok"}]
  OBVIOUS
<1>3. PICK work : work = {Replacement(p) : p \in Previews(only)}
  OBVIOUS
<1>4. Stage("replace", work, seen)
  BY <1>2, <1>3 DEF ConfirmReplace
<1>5. ASSUME seen.current PROVE Says("replace", work, seen)
  <2>1. Current
    BY <1>2, <1>5, SeenNow, SeenIn
  <2>2. seen.range = IF only THEN Targets \cap Comparable ELSE Comparable
    BY <1>2 DEF Seen, Targets, Comparable
  <2>3. \A i \in Comparable : DOMAIN Column(i).tags = DOMAIN world[i] /\ i \in Columns
    BY <2>1, CurrentRead, ColumnsTyped
  <2>4. Previews(only) = Replaceable(seen.range)
    BY <2>2, <2>3 DEF Previews, Replaceable
  <2>5. ASSUME NEW p \in Previews(only)
        PROVE  Replacement(p) =
                 Op(IF Replaced(p[2]) \in DOMAIN world[p[1]] THEN "merge" ELSE "rename", p, Replaced(p[2]))
    <3>1. Collides(p[1], Replaced(p[2])) <=> Replaced(p[2]) \in DOMAIN world[p[1]]
      BY <2>3, <2>5 DEF Collides, Previews
    <3> QED
      BY <3>1 DEF Replacement
  <2>6. Replaces(work, seen)
    BY <1>3, <2>4, <2>5 DEF Replaces
  <2> QED
    BY <2>6 DEF Says
<1> QED
  BY <1>1, <1>4, <1>5, NothingMade, Stages

\* One item of the batch runs.
LEMMA RunStep == ASSUME IInv, RunOne PROVE IInv'
<1>1. PICK x \in batch.left :
        batch' = [batch EXCEPT !.left = @ \ {x}, !.tags[x.inst] = Result(batch.tags[x.inst], x)]
  BY DEF RunOne, Result
<1>2. batch # NoBatch /\ UNCHANGED <<world, drift, dialog>>
  BY DEF RunOne, screen
<1>3. /\ batch = [button |-> batch.button, items |-> batch.items, seen |-> batch.seen, left |-> batch.left, tags |-> batch.tags]
      /\ batch.items # {}
      /\ batch.seen.current /\ batch.seen.at = drift => Says(batch.button, batch.items, batch.seen)
  BY <1>2 DEF IInv, BatchMade
<1>4. /\ batch.left \subseteq batch.items /\ DOMAIN batch.tags = Instances
      /\ \A i \in Instances : Progress(i, batch.items, ItemsOn(i, batch.items \ batch.left), batch.tags[i])
  BY <1>2 DEF IInv, BatchRuns
<1>5. /\ batch'.button = batch.button /\ batch'.items = batch.items /\ batch'.seen = batch.seen
      /\ batch'.left = batch.left \ {x} /\ batch'.tags = [batch.tags EXCEPT ![x.inst] = Result(batch.tags[x.inst], x)]
      /\ batch' = [button |-> batch'.button, items |-> batch'.items, seen |-> batch'.seen, left |-> batch'.left, tags |-> batch'.tags]
  BY <1>1, <1>3
<1>6. DialogMade'
  BY <1>2, DialogKept
<1>7. Says(batch.button, batch.items, batch.seen)' <=> Says(batch.button, batch.items, batch.seen)
  BY <1>2, <1>5 DEF Says, Creates, Deletes, Renames, Replaces, Replaceable, Having, Lacking
<1>8. BatchMade'
  BY <1>2, <1>3, <1>5, <1>7 DEF BatchMade
<1>9. ASSUME NEW i \in Instances, NEW work, NEW done, NEW tags
      PROVE  Progress(i, work, done, tags)' <=> Progress(i, work, done, tags)
  BY <1>2 DEF Progress, Given, Taken, Moved, AreMoving, Renaming, Joining
<1>10. ASSUME NEW i \in Instances
       PROVE  Progress(i, batch'.items, ItemsOn(i, batch'.items \ batch'.left), batch'.tags[i])
  <2> DEFINE done == ItemsOn(i, batch.items \ batch.left)
  <2>1. CASE x.inst = i
    <3>1. x \in ItemsOn(i, batch.items) \ done /\ done \in SUBSET ItemsOn(i, batch.items)
      BY <1>4, <2>1 DEF ItemsOn
    <3>2. ItemsOn(i, batch'.items \ batch'.left) = done \cup {x}
      BY <1>4, <1>5, <2>1 DEF ItemsOn
    <3>3. batch'.tags[i] = Result(batch.tags[i], x)
      BY <1>4, <1>5, <2>1
    <3> HIDE DEF done
    <3>4. Progress(i, batch.items, done, batch.tags[i])
      BY <1>4 DEF done
    <3> QED
      BY <1>5, <3>1, <3>2, <3>3, <3>4, OneMore
  <2>2. CASE x.inst # i
    <3>1. ItemsOn(i, batch'.items \ batch'.left) = done /\ batch'.tags[i] = batch.tags[i]
      BY <1>4, <1>5, <2>2 DEF ItemsOn
    <3> QED
      BY <1>4, <1>5, <3>1
  <2> QED
    BY <2>1, <2>2
<1>11. BatchRuns'
  <2>1. DOMAIN batch'.tags = Instances /\ batch'.left \subseteq batch'.items
    BY <1>4, <1>5
  <2>2. ASSUME NEW i \in Instances
        PROVE  Progress(i, batch.items, ItemsOn(i, batch.items \ batch.left), batch.tags[i])'
    BY <1>9, <1>10 DEF ItemsOn
  <2> QED
    BY <2>1, <2>2 DEF BatchRuns
<1> QED
  BY <1>2, <1>6, <1>8, <1>11 DEF IInv

-------------------------------------------------------------------------------
(* The theorems.                                                             *)

\* The inductive invariant: the tags of every instance, what a dialog and a batch are
\* made of while nobody changes a tag, and what a batch has done so far.
THEOREM WhatIsStagedWasSeen == Spec => []IInv
<1>1. Init => IInv
  BY MatrixAssumption DEF Init, IInv, DialogMade, BatchMade, BatchRuns, Tags
<1>2. IInv /\ [Next]_vars => IInv'
  <2> SUFFICES ASSUME IInv, [Next]_vars PROVE IInv'
    OBVIOUS
  <2>1. CASE UNCHANGED vars
    BY <2>1, Stays DEF vars, screen
  <2>2. CASE \/ Answered \/ Refresh \/ ClearSelection \/ ToggleAllVisible
             \/ \E i \in Instances : Probe(i) \/ Remove(i) \/ Create(i) \/ ToggleInstance(i)
             \/ (\E f \in {"all", "drift", "unused"} : SetFilter(f)) \/ \E l \in Labels : ToggleRow(l)
    BY <2>2, StillSteps
  <2>3. CASE OthersEdit
    BY <2>3, OthersStep
  <2>4. CASE \/ Visit \/ Close \/ OpenReplace \/ DeleteSelected
             \/ \E i \in Instances : Choose(i)
             \/ \E l \in Labels : OpenAdd(l) \/ RenameRow(l)
             \/ \E l \in Labels, i \in Instances : StageCellDelete(l, i)
    BY <2>4, DialogSteps
  <2>5. CASE PropagateSelected
    BY <2>5, PropagateStep
  <2>6. CASE \E l \in Labels, i \in Instances : StageCellCreate(l, i)
    BY <2>6, CellStep
  <2>7. CASE ConfirmAdd
    BY <2>7, AddStep
  <2>8. CASE \E to \in Labels : ConfirmRename(to)
    BY <2>8, RenameStep
  <2>9. CASE ConfirmDelete
    BY <2>9, DeleteStep
  <2>10. CASE \E only \in BOOLEAN : ConfirmReplace(only)
    BY <2>10, ReplaceStep
  <2>11. CASE RunOne
    BY <2>11, RunStep
  <2> QED
    BY <2>1, <2>2, <2>3, <2>4, <2>5, <2>6, <2>7, <2>8, <2>9, <2>10, <2>11 DEF Next
<1> QED
  BY <1>1, <1>2, PTL DEF Spec

\* A batch that has run, its items in any order, has done on the instances what its
\* button says, on those it targets that have answered, whatever came and went between
\* the reading of the columns and the click - a find and replace where its items do
\* not make a label twice or one that another takes away.
THEOREM BatchesAreTrue == Spec => []BatchesDoWhatTheirButtonsSay
<1>1. IInv => BatchesDoWhatTheirButtonsSay
  BY Sound
<1> QED
  BY <1>1, WhatIsStagedWasSeen, PTL
=============================================================================
