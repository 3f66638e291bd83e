------------------------- MODULE MailboxSyncProofs -------------------------
(***************************************************************************)
(* The safety theorems of MailboxSync.  A diff that goes through leaves the *)
(* rows of the target set whatever renames, crashes and refused statements *)
(* came before; what it may remove from the disk is argued from the shape  *)
(* of the server's tree: two mailboxes never share a path, and nothing is  *)
(* below the path of a mailbox without children.                           *)
(***************************************************************************)
EXTENDS MailboxSync, OrderLemmas, SequenceTheorems

(***************************************************************************)
(* Paths                                                                   *)
(***************************************************************************)
LEMMA PathFacts ==
    ASSUME NEW p \in Paths
    PROVE  p \in Seq(Segment) /\ Len(p) \in Nat \ {0} /\ DOMAIN p = 1 .. Len(p)
BY DEF Paths

LEMMA LongIsPath ==
    ASSUME NEW p \in Seq(Segment), Len(p) # 0
    PROVE  p \in Paths
BY DEF Paths

LEMMA SinglePath == ASSUME NEW s \in Segment PROVE <<s>> \in Paths /\ Len(<<s>>) = 1
BY LongIsPath DEF Paths

LEMMA AppendPath ==
    ASSUME NEW p \in Paths, NEW s \in Segment
    PROVE  Append(p, s) \in Paths /\ Len(Append(p, s)) = Len(p) + 1
<1>1. Append(p, s) \in Seq(Segment) /\ Len(Append(p, s)) = Len(p) + 1 /\ Len(p) \in Nat
  BY PathFacts
<1>2. Append(p, s) # <<>>
  BY <1>1
<1> QED BY <1>1, <1>2 DEF Paths

LEMMA AppendOnce ==
    ASSUME NEW p \in Paths, NEW s \in Segment, NEW q \in Paths, NEW t \in Segment,
           Append(p, s) = Append(q, t)
    PROVE  p = q /\ s = t
<1>1. p \in Seq(Segment) /\ q \in Seq(Segment)
  BY PathFacts
<1>2. Len(p) = Len(q)
  <2>1. Len(Append(p, s)) = Len(p) + 1 /\ Len(Append(q, t)) = Len(q) + 1
    BY <1>1
  <2> QED BY <1>1, <2>1
<1>3. s = t
  <2>1. Append(p, s)[Len(p) + 1] = s /\ Append(q, t)[Len(q) + 1] = t
    BY <1>1
  <2> QED BY <1>2, <2>1
<1>4. \A i \in 1 .. Len(p) : p[i] = q[i]
  <2> TAKE i \in 1 .. Len(p)
  <2>1. Append(p, s)[i] = p[i] /\ Append(q, t)[i] = q[i]
    BY <1>1, <1>2
  <2> QED BY <2>1
<1> QED BY <1>1, <1>2, <1>3, <1>4

\* A path is under another when it is its beginning.
LEMMA UnderByIndex ==
    ASSUME NEW p \in Paths, NEW q \in Paths
    PROVE  Under(p, q) <=> Len(p) <= Len(q) /\ \A i \in 1 .. Len(p) : q[i] = p[i]
<1>1. p \in Seq(Segment) /\ q \in Seq(Segment)
  BY PathFacts
<1>2. ASSUME Len(p) <= Len(q)
      PROVE  /\ SubSeq(q, 1, Len(p)) \in Seq(Segment) /\ Len(SubSeq(q, 1, Len(p))) = Len(p)
             /\ \A i \in 1 .. Len(p) : SubSeq(q, 1, Len(p))[i] = q[i]
  BY <1>1, <1>2
<1>3. ASSUME Len(p) <= Len(q), \A i \in 1 .. Len(p) : q[i] = p[i]
      PROVE  SubSeq(q, 1, Len(p)) = p
  BY <1>1, <1>2, <1>3
<1> QED BY <1>1, <1>2, <1>3 DEF Under

LEMMA UnderParent ==
    ASSUME NEW p \in Paths, NEW q \in Paths, NEW s \in Segment,
           Under(p, Append(q, s)), Len(p) # Len(q) + 1
    PROVE  Under(p, q)
<1>1. q \in Seq(Segment) /\ Len(p) \in Nat /\ Len(q) \in Nat
  BY PathFacts
<1>2. Append(q, s) \in Paths /\ Len(Append(q, s)) = Len(q) + 1
  BY AppendPath
<1>3. Len(p) <= Len(q) /\ \A i \in 1 .. Len(p) : Append(q, s)[i] = p[i]
  <2>1. PICK r \in Paths : r = Append(q, s)
    BY <1>2
  <2>2. Len(p) <= Len(r) /\ \A i \in 1 .. Len(p) : r[i] = p[i]
    BY <2>1, UnderByIndex
  <2> QED BY <1>1, <1>2, <2>1, <2>2
<1>4. \A i \in 1 .. Len(p) : q[i] = p[i]
  BY <1>1, <1>3
<1> QED BY <1>3, <1>4, UnderByIndex

LEMMA UnderSameLength ==
    ASSUME NEW p \in Paths, NEW q \in Paths, Under(p, q), Len(p) = Len(q)
    PROVE  p = q
<1>1. p \in Seq(Segment) /\ q \in Seq(Segment)
  BY PathFacts
<1> QED BY <1>1, UnderByIndex

\* Below a path of one segment there is nothing shorter.
LEMMA OverSingle ==
    ASSUME NEW p \in Paths, NEW x \in Excluded, Under(p, x)
    PROVE  p = x
<1>1. x \in Paths /\ Len(x) = 1
  BY SinglePath, PathsAssumption
<1>2. Len(p) \in Nat \ {0}
  BY PathFacts
<1>3. Len(p) <= Len(x)
  BY DEF Under
<1> QED BY <1>1, <1>2, <1>3, UnderSameLength

LEMMA PrefixesArePaths ==
    ASSUME NEW p \in Paths
    PROVE  Prefixes(p) \subseteq Paths /\ p \in Prefixes(p)
<1>1. p \in Seq(Segment) /\ Len(p) \in Nat \ {0}
  BY PathFacts
<1>2. ASSUME NEW k \in 1 .. Len(p) PROVE SubSeq(p, 1, k) \in Paths
  <2>1. SubSeq(p, 1, k) \in Seq(Segment) /\ Len(SubSeq(p, 1, k)) = k
    BY <1>1
  <2>2. SubSeq(p, 1, k) # <<>>
    BY <2>1
  <2> QED BY <2>1, <2>2 DEF Paths
<1>3. SubSeq(p, 1, Len(p)) = p
  BY <1>1
<1>4. Len(p) \in 1 .. Len(p)
  BY <1>1
<1>5. Prefixes(p) \subseteq Paths
  BY <1>2 DEF Prefixes
<1>6. p \in Prefixes(p)
  BY <1>3, <1>4 DEF Prefixes
<1> QED BY <1>5, <1>6

LEMMA ParentPrefixes ==
    ASSUME NEW p \in Paths PROVE Prefixes(Parent(p)) \subseteq Paths
<1>1. p \in Seq(Segment) /\ Len(p) \in Nat \ {0}
  BY PathFacts
<1>2. PICK q \in Seq(Segment) : q = Parent(p)
  <2>1. PICK k \in Nat : k = Len(p) - 1
    BY <1>1
  <2>2. SubSeq(p, 1, k) \in Seq(Segment)
    BY <1>1, <2>1
  <2> QED BY <2>1, <2>2 DEF Parent
<1>3. CASE q = <<>>
  <2>1. 1 .. Len(q) = {}
    BY <1>3
  <2> QED BY <1>2, <2>1 DEF Prefixes
<1>4. CASE q # <<>>
  BY <1>2, <1>4, PrefixesArePaths DEF Paths
<1> QED BY <1>3, <1>4

LEMMA RenamedIsPath ==
    ASSUME NEW p \in Paths, NEW q \in Paths, NEW d \in Paths \cup {NoDir}
    PROVE  /\ Renamed(p, q, d) \in Paths \cup {NoDir}
           /\ d # NoDir => Renamed(p, q, d) # NoDir
<1>1. CASE d # NoDir /\ Under(p, d)
  <2>1. d \in Seq(Segment) /\ q \in Seq(Segment) /\ Len(q) # 0 /\ Len(p) \in Nat
    BY <1>1, PathFacts
  <2>2. SubSeq(d, Len(p) + 1, Len(d)) \in Seq(Segment)
    BY <2>1
  <2>3. q \o SubSeq(d, Len(p) + 1, Len(d)) \in Seq(Segment)
    BY <2>1, <2>2
  <2>4. Len(q \o SubSeq(d, Len(p) + 1, Len(d))) # 0
    BY <2>1, <2>2
  <2> QED BY <1>1, <2>3, <2>4, LongIsPath, NullsAssumption DEF Renamed
<1>2. CASE ~(d # NoDir /\ Under(p, d))
  BY <1>2 DEF Renamed
<1> QED BY <1>1, <1>2

(***************************************************************************)
(* The server's tree                                                       *)
(***************************************************************************)
Closed(t) == \A b \in Present(t) : t[b].parent \in Present(t) \cup {Root}
Siblings(t) ==
    \A b, c \in Present(t) : t[b].parent = t[c].parent /\ t[b].name = t[c].name => b = c
Treed(t) == t \in [Box -> Node \cup {NoNode}] /\ Closed(t) /\ Siblings(t)

\* A path for every mailbox, each made from its parent's.
IsPaths(t, p) ==
    /\ p \in [Present(t) -> Paths]
    /\ \A b \in Present(t) : p[b] = IF t[b].parent = Root THEN <<Local[t[b].name]>>
                                    ELSE Append(p[t[b].parent], Local[t[b].name])

LEMMA NodeFacts ==
    ASSUME NEW t, Treed(t), NEW b \in Present(t)
    PROVE  /\ b \in Box /\ t[b] \in Node /\ Local[t[b].name] \in Segment
           /\ t[b].parent # Root => t[b].parent \in Present(t)
BY PathsAssumption DEF Treed, Closed, Present, Node

\* resolve_path goes up from child to parent; where it ends at the root for
\* every mailbox, it gives each of them one path.
LEMMA PathsUnique ==
    ASSUME NEW t, Treed(t), NEW p, IsPaths(t, p)
    PROVE  PathIn(t) = p
<1> DEFINE Step(f) == [b \in Present(t) |-> IF t[b].parent = Root THEN <<Local[t[b].name]>>
                                            ELSE Append(f[t[b].parent], Local[t[b].name])]
<1>1. p = Step(p)
  BY DEF IsPaths
<1>2. ASSUME NEW f, f = Step(f), NEW b \in Present(t), f[b] # p[b] PROVE FALSE
  <2> DEFINE Odds == {Len(p[c]) : c \in {d \in Present(t) : f[d] # p[d]}}
  <2>1. \A c \in Present(t) : p[c] \in Paths /\ Len(p[c]) \in Nat
    BY PathFacts DEF IsPaths
  <2>2. PICK n \in Odds : \A k \in Odds : n <= k
    <3>1. Odds \in SUBSET Nat /\ Odds # {}
      BY <1>2, <2>1
    <3> HIDE DEF Odds
    <3> QED BY <3>1, LeastNatural
  <2>3. PICK c \in Present(t) : f[c] # p[c] /\ Len(p[c]) = n
    BY <2>2
  <2>4. f[c] = IF t[c].parent = Root THEN <<Local[t[c].name]>>
               ELSE Append(f[t[c].parent], Local[t[c].name])
    BY <1>2
  <2>5. p[c] = IF t[c].parent = Root THEN <<Local[t[c].name]>>
               ELSE Append(p[t[c].parent], Local[t[c].name])
    BY DEF IsPaths
  <2>6. /\ t[c].parent # Root /\ t[c].parent \in Present(t)
        /\ f[t[c].parent] # p[t[c].parent] /\ Local[t[c].name] \in Segment
    BY <2>3, <2>4, <2>5, NodeFacts
  <2>7. Len(p[c]) = Len(p[t[c].parent]) + 1
    BY <2>1, <2>5, <2>6, AppendPath
  <2>8. n <= Len(p[t[c].parent])
    BY <2>2, <2>6
  <2> QED BY <2>1, <2>3, <2>6, <2>7, <2>8
<1>3. ASSUME NEW f, f = Step(f) PROVE f = p
  <2>1. \A b \in Present(t) : f[b] = p[b]
    BY <1>2, <1>3
  <2>2. p \in [Present(t) -> Paths]
    BY DEF IsPaths
  <2> HIDE DEF Step
  <2>3. f = [b \in Present(t) |-> f[b]]
    BY <1>3 DEF Step
  <2> QED BY <2>1, <2>2, <2>3
<1>4. (CHOOSE f : f = Step(f)) = p
  <2> HIDE DEF Step
  <2> QED BY <1>1, <1>3
<1> QED BY <1>4 DEF PathIn

LEMMA PathLength ==
    ASSUME NEW t, Treed(t), NEW p, IsPaths(t, p), NEW b \in Present(t)
    PROVE  /\ p[b] \in Paths /\ Len(p[b]) \in Nat /\ Len(p[b]) >= 1
           /\ t[b].parent = Root => p[b] = <<Local[t[b].name]>> /\ Len(p[b]) = 1
           /\ t[b].parent # Root => /\ t[b].parent \in Present(t)
                                    /\ p[b] = Append(p[t[b].parent], Local[t[b].name])
                                    /\ Len(p[b]) = Len(p[t[b].parent]) + 1
                                    /\ Len(p[b]) > 1
<1>1. \A c \in Present(t) : p[c] \in Paths
  BY DEF IsPaths
<1>2. \A c \in Present(t) : Len(p[c]) \in Nat /\ Len(p[c]) >= 1
  <2> TAKE c \in Present(t)
  <2>1. PICK q \in Paths : q = p[c]
    BY <1>1
  <2>2. Len(q) \in Nat /\ Len(q) >= 1
    BY PathFacts
  <2> QED BY <2>1, <2>2
<1>3. Local[t[b].name] \in Segment /\ (t[b].parent # Root => t[b].parent \in Present(t))
  BY NodeFacts
<1>4. CASE t[b].parent = Root
  <2>1. p[b] = <<Local[t[b].name]>>
    BY <1>4 DEF IsPaths
  <2> QED BY <1>1, <1>2, <1>3, <1>4, <2>1, SinglePath
<1>5. CASE t[b].parent # Root
  <2>1. p[b] = Append(p[t[b].parent], Local[t[b].name])
    BY <1>5 DEF IsPaths
  <2>2. PICK q \in Paths : q = p[t[b].parent]
    BY <1>1, <1>3, <1>5
  <2>3. Len(p[b]) = Len(q) + 1
    BY <1>3, <2>1, <2>2, AppendPath
  <2>4. Len(q) \in Nat /\ Len(q) >= 1
    BY <1>2, <1>3, <1>5, <2>2
  <2>5. Len(p[b]) \in Nat /\ Len(p[b]) >= 1 /\ Len(p[b]) > 1
    BY <2>3, <2>4
  <2> QED BY <1>1, <1>3, <1>5, <2>1, <2>2, <2>3, <2>5
<1> QED BY <1>4, <1>5

\* No two mailbox names have the same directory name.
Distinct == \A m, n \in Name : Local[m] = Local[n] => m = n

LEMMA OnePathEach ==
    ASSUME NEW t, Treed(t), NEW p, IsPaths(t, p), Distinct,
           NEW b \in Present(t), NEW c \in Present(t), p[b] = p[c]
    PROVE  b = c
<1> DEFINE Twin(x, y) == x # y /\ p[x] = p[y]
           Twins == {Len(p[x]) : x \in {y \in Present(t) : \E z \in Present(t) : Twin(y, z)}}
<1> SUFFICES ASSUME b # c PROVE FALSE
  OBVIOUS
<1>1. PICK n \in Twins : \A k \in Twins : n <= k
  <2>1. Twins \in SUBSET Nat
    BY PathLength
  <2>2. Len(p[b]) \in Twins
    OBVIOUS
  <2> HIDE DEF Twins
  <2> QED BY <2>1, <2>2, LeastNatural
<1>2. PICK x \in Present(t), y \in Present(t) : Twin(x, y) /\ Len(p[x]) = n
  BY <1>1
<1>3. t[x].name \in Name /\ t[y].name \in Name
  BY NodeFacts DEF Node
<1>4. CASE t[x].parent = Root
  <2>1. Len(p[y]) = 1 /\ Len(p[x]) = 1
    <3>1. Len(p[x]) = 1
      BY <1>4, PathLength
    <3> QED BY <1>2, <3>1
  <2>2. t[y].parent = Root
    <3>1. t[y].parent # Root => Len(p[y]) > 1
      BY PathLength
    <3> QED BY <2>1, <3>1
  <2>3. <<Local[t[x].name]>> = <<Local[t[y].name]>>
    BY <1>2, <1>4, <2>2 DEF IsPaths
  <2>4. t[x].name = t[y].name
    BY <1>3, <2>3 DEF Distinct
  <2> QED BY <1>2, <1>4, <2>2, <2>4 DEF Treed, Siblings
<1>5. CASE t[x].parent # Root
  <2>1. /\ t[x].parent \in Present(t) /\ p[x] = Append(p[t[x].parent], Local[t[x].name])
        /\ Len(p[x]) = Len(p[t[x].parent]) + 1 /\ Len(p[x]) > 1
    BY <1>5, PathLength
  <2>2. p[t[x].parent] \in Paths /\ Len(p[t[x].parent]) \in Nat
    BY <2>1, PathLength
  <2>3. t[y].parent # Root
    <3>1. t[y].parent = Root => Len(p[y]) = 1
      BY PathLength
    <3> QED BY <1>2, <2>1, <3>1
  <2>4. /\ t[y].parent \in Present(t) /\ p[y] = Append(p[t[y].parent], Local[t[y].name])
    BY <2>3, PathLength
  <2>5. p[t[y].parent] \in Paths
    BY <2>4, PathLength
  <2>6. Local[t[x].name] \in Segment /\ Local[t[y].name] \in Segment
    BY NodeFacts
  <2>7. p[t[x].parent] = p[t[y].parent] /\ Local[t[x].name] = Local[t[y].name]
    <3>1. PICK q \in Paths, r \in Paths : q = p[t[x].parent] /\ r = p[t[y].parent]
      BY <2>2, <2>5
    <3>2. PICK u \in Segment, v \in Segment : u = Local[t[x].name] /\ v = Local[t[y].name]
      BY <2>6
    <3>3. Append(q, u) = Append(r, v)
      BY <1>2, <2>1, <2>4, <3>1, <3>2
    <3>4. q = r /\ u = v
      BY <3>3, AppendOnce
    <3> QED BY <3>1, <3>2, <3>4
  <2>8. t[x].name = t[y].name
    BY <1>3, <2>7 DEF Distinct
  <2>9. t[x].parent # t[y].parent
    BY <1>2, <2>8 DEF Treed, Siblings
  <2>10. n <= Len(p[t[x].parent])
    BY <1>1, <2>1, <2>4, <2>7, <2>9
  <2> QED BY <1>2, <2>1, <2>2, <2>10
<1> QED BY <1>4, <1>5

\* Nothing is below the path of a mailbox without children.
LEMMA LeafPaths ==
    ASSUME NEW t, Treed(t), NEW p, IsPaths(t, p), Distinct,
           NEW c \in Present(t), \A d \in Present(t) : t[d].parent # c,
           NEW b \in Present(t), b # c
    PROVE  ~Under(p[c], p[b])
<1> DEFINE Lows == {Len(p[x]) : x \in {y \in Present(t) : y # c /\ Under(p[c], p[y])}}
<1> SUFFICES ASSUME Under(p[c], p[b]) PROVE FALSE
  OBVIOUS
<1>1. PICK n \in Lows : \A k \in Lows : n <= k
  <2>1. Lows \in SUBSET Nat
    BY PathLength
  <2>2. Len(p[b]) \in Lows
    OBVIOUS
  <2> HIDE DEF Lows
  <2> QED BY <2>1, <2>2, LeastNatural
<1>2. PICK x \in Present(t) : x # c /\ Under(p[c], p[x]) /\ Len(p[x]) = n
  BY <1>1
<1>3. p[c] \in Paths /\ p[x] \in Paths /\ Len(p[c]) \in Nat /\ Len(p[x]) \in Nat /\ Len(p[c]) >= 1
  BY PathLength
<1>4. Len(p[c]) # Len(p[x])
  BY <1>2, <1>3, UnderSameLength, OnePathEach
<1>5. t[x].parent # Root
  <2>1. Len(p[c]) <= Len(p[x])
    BY <1>2 DEF Under
  <2>2. \A k, l \in Nat : k <= l /\ k >= 1 /\ k # l => l # 1
    OBVIOUS
  <2>3. Len(p[x]) # 1
    BY <1>3, <1>4, <2>1, <2>2
  <2> QED BY <2>3, PathLength
<1>6. /\ t[x].parent \in Present(t) /\ p[x] = Append(p[t[x].parent], Local[t[x].name])
      /\ Len(p[x]) = Len(p[t[x].parent]) + 1
  BY <1>5, PathLength
<1>7. p[t[x].parent] \in Paths /\ Len(p[t[x].parent]) \in Nat /\ Local[t[x].name] \in Segment
  BY <1>6, PathLength, NodeFacts
<1>8. Under(p[c], p[t[x].parent])
  BY <1>2, <1>3, <1>4, <1>6, <1>7, UnderParent
<1>9. n <= Len(p[t[x].parent])
  BY <1>1, <1>6, <1>8
<1> QED BY <1>2, <1>6, <1>7, <1>9

TreeOK == Treed(tree) /\ IsPaths(tree, PathIn(tree))

\* t and u give the same paths to the mailboxes they share.
SamePaths(t, u) == \A b \in Present(t) \cap Present(u) : PathIn(u)[b] = PathIn(t)[b]

LEMMA CreatePaths ==
    ASSUME NEW t, Treed(t), IsPaths(t, PathIn(t)),
           NEW b \in Box \ Present(t), NEW node \in Node,
           node.parent \in Present(t) \cup {Root},
           \A c \in Present(t) : t[c].parent = node.parent => t[c].name # node.name,
           NEW u, u = [t EXCEPT ![b] = node]
    PROVE  /\ Treed(u) /\ IsPaths(u, PathIn(u)) /\ SamePaths(t, u)
           /\ Present(u) = Present(t) \cup {b}
<1> DEFINE p == PathIn(t)
           new == IF node.parent = Root THEN <<Local[node.name]>>
                  ELSE Append(p[node.parent], Local[node.name])
           q == [c \in Present(u) |-> IF c = b THEN new ELSE p[c]]
<1>1. node # NoNode /\ node.name \in Name
  BY NullsAssumption DEF Node
<1>2. t \in [Box -> Node \cup {NoNode}] /\ u = [t EXCEPT ![b] = node]
  BY DEF Treed
<1>3. u \in [Box -> Node \cup {NoNode}] /\ u[b] = node /\ \A c \in Box \ {b} : u[c] = t[c]
  BY <1>1, <1>2
<1>4. Present(u) = Present(t) \cup {b}
  BY <1>1, <1>3 DEF Present
<1>5. \A c \in Present(t) : u[c] = t[c] /\ c # b
  BY <1>3 DEF Present
<1>6. Treed(u)
  <2>1. b \notin Present(t) /\ b # Root /\ Root \notin Present(t)
    BY NullsAssumption DEF Present
  <2>2. Closed(u)
    BY <1>1, <1>3, <1>4, <1>5 DEF Treed, Closed
  <2>3. Siblings(u)
    BY <1>1, <1>3, <1>4, <1>5 DEF Treed, Siblings
  <2> QED BY <1>3, <2>2, <2>3 DEF Treed
<1>7. new \in Paths
  <2>1. Local[node.name] \in Segment
    BY <1>1, PathsAssumption
  <2>2. node.parent # Root => p[node.parent] \in Paths
    BY DEF IsPaths
  <2> QED BY <2>1, <2>2, SinglePath, AppendPath
<1>8. /\ q \in [Present(u) -> Paths] /\ q[b] = new
      /\ \A c \in Present(t) : q[c] = p[c]
  <2>1. p \in [Present(t) -> Paths]
    BY DEF IsPaths
  <2> HIDE DEF new, p
  <2> QED BY <1>4, <1>5, <1>7, <2>1
<1>9. IsPaths(u, q)
  <2>1. ASSUME NEW c \in Present(t)
        PROVE  q[c] = IF u[c].parent = Root THEN <<Local[u[c].name]>>
                      ELSE Append(q[u[c].parent], Local[u[c].name])
    <3>1. t[c].parent # Root => t[c].parent \in Present(t)
      BY NodeFacts
    <3>2. p[c] = IF t[c].parent = Root THEN <<Local[t[c].name]>>
                 ELSE Append(p[t[c].parent], Local[t[c].name])
      BY DEF IsPaths
    <3> HIDE DEF q, p
    <3> QED BY <1>5, <1>8, <3>1, <3>2
  <2>2. q[b] = IF u[b].parent = Root THEN <<Local[u[b].name]>>
               ELSE Append(q[u[b].parent], Local[u[b].name])
    <3> HIDE DEF q, p
    <3> QED BY <1>1, <1>3, <1>8
  <2> HIDE DEF q
  <2> QED BY <1>4, <1>8, <2>1, <2>2 DEF IsPaths
<1>10. PathIn(u) = q
  <2> HIDE DEF q
  <2> QED BY <1>6, <1>9, PathsUnique
<1> HIDE DEF q
<1> QED BY <1>4, <1>6, <1>8, <1>9, <1>10 DEF SamePaths

LEMMA DestroyPaths ==
    ASSUME NEW t, Treed(t), IsPaths(t, PathIn(t)),
           NEW b \in Present(t), \A c \in Present(t) : t[c].parent # b,
           NEW u, u = [t EXCEPT ![b] = NoNode]
    PROVE  /\ Treed(u) /\ IsPaths(u, PathIn(u)) /\ SamePaths(t, u)
           /\ Present(u) = Present(t) \ {b}
<1> DEFINE p == PathIn(t)
           q == [c \in Present(u) |-> p[c]]
<1>1. t \in [Box -> Node \cup {NoNode}] /\ b \in Box
  BY DEF Treed, Present
<1>2. u \in [Box -> Node \cup {NoNode}] /\ u[b] = NoNode /\ \A c \in Box \ {b} : u[c] = t[c]
  BY <1>1
<1>3. Present(u) = Present(t) \ {b} /\ \A c \in Present(u) : u[c] = t[c]
  BY <1>2 DEF Present
<1>4. Treed(u)
  <2>1. Closed(u)
    BY <1>3 DEF Treed, Closed
  <2>2. Siblings(u)
    BY <1>3 DEF Treed, Siblings
  <2> QED BY <1>2, <2>1, <2>2 DEF Treed
<1>5. q \in [Present(u) -> Paths] /\ \A c \in Present(u) : q[c] = p[c]
  BY <1>3 DEF IsPaths
<1>6. IsPaths(u, q)
  <2>1. ASSUME NEW c \in Present(u)
        PROVE  q[c] = IF u[c].parent = Root THEN <<Local[u[c].name]>>
                      ELSE Append(q[u[c].parent], Local[u[c].name])
    <3>1. u[c].parent # Root => u[c].parent \in Present(u)
      BY <1>4, NodeFacts
    <3>2. p[c] = IF t[c].parent = Root THEN <<Local[t[c].name]>>
                 ELSE Append(p[t[c].parent], Local[t[c].name])
      BY <1>3 DEF IsPaths
    <3> HIDE DEF q, p
    <3> QED BY <1>3, <1>5, <3>1, <3>2
  <2> HIDE DEF q
  <2> QED BY <1>5, <2>1 DEF IsPaths
<1>7. PathIn(u) = q
  <2> HIDE DEF q
  <2> QED BY <1>4, <1>6, PathsUnique
<1> HIDE DEF q
<1> QED BY <1>3, <1>4, <1>5, <1>6, <1>7 DEF SamePaths

LEMMA KeepPaths ==
    ASSUME NEW t, Treed(t), IsPaths(t, PathIn(t)), NEW b \in Present(t), NEW kept \in BOOLEAN,
           NEW u, u = [t EXCEPT ![b].kept = kept]
    PROVE  Treed(u) /\ IsPaths(u, PathIn(u)) /\ SamePaths(t, u) /\ Present(u) = Present(t)
<1>1. t \in [Box -> Node \cup {NoNode}] /\ b \in Box /\ t[b] \in Node
  BY DEF Treed, Present
<1>2. u \in [Box -> Node \cup {NoNode}] /\ u[b] \in Node /\ u[b].name = t[b].name
      /\ u[b].parent = t[b].parent /\ \A c \in Box \ {b} : u[c] = t[c]
  BY <1>1 DEF Node
<1>3. Present(u) = Present(t)
      /\ \A c \in Present(t) : u[c].name = t[c].name /\ u[c].parent = t[c].parent
  BY <1>1, <1>2, NullsAssumption DEF Present
<1>4. Treed(u)
  <2>1. Closed(u)
    BY <1>3 DEF Treed, Closed
  <2>2. Siblings(u)
    BY <1>3 DEF Treed, Siblings
  <2> QED BY <1>2, <2>1, <2>2 DEF Treed
<1>5. IsPaths(u, PathIn(t))
  BY <1>3 DEF IsPaths
<1>6. PathIn(u) = PathIn(t)
  BY <1>4, <1>5, PathsUnique
<1> QED BY <1>3, <1>4, <1>5, <1>6 DEF SamePaths

\* x with its first k directories replaced by p.
Graft(p, k, x) == p \o SubSeq(x, k + 1, Len(x))

LEMMA GraftFacts ==
    ASSUME NEW p \in Paths, NEW x \in Paths, NEW k \in Nat, k <= Len(x)
    PROVE  /\ Graft(p, k, x) \in Paths
           /\ Len(Graft(p, k, x)) = Len(p) + Len(x) - k
           /\ \A i \in 1 .. Len(p) : Graft(p, k, x)[i] = p[i]
           /\ \A i \in Len(p) + 1 .. Len(p) + Len(x) - k : Graft(p, k, x)[i] = x[i - Len(p) + k]
<1> DEFINE y == SubSeq(x, k + 1, Len(x))
<1>1. /\ p \in Seq(Segment) /\ x \in Seq(Segment) /\ Len(p) \in Nat /\ Len(x) \in Nat
      /\ Len(p) # 0
  BY PathFacts
<1>2. /\ y \in Seq(Segment) /\ Len(y) = Len(x) - k
      /\ \A i \in 1 .. Len(x) - k : y[i] = x[i + k]
  BY <1>1
<1> HIDE DEF y
<1>3. /\ p \o y \in Seq(Segment) /\ Len(p \o y) = Len(p) + Len(y)
      /\ \A i \in 1 .. Len(p) : (p \o y)[i] = p[i]
      /\ \A i \in Len(p) + 1 .. Len(p) + Len(y) : (p \o y)[i] = y[i - Len(p)]
  <2>1. p \o y \in Seq(Segment) /\ Len(p \o y) = Len(p) + Len(y)
    BY <1>1, <1>2, ConcatProperties
  <2>2. ASSUME NEW i \in 1 .. Len(p) PROVE (p \o y)[i] = p[i]
    BY <1>1, <1>2
  <2>3. ASSUME NEW i \in Len(p) + 1 .. Len(p) + Len(y) PROVE (p \o y)[i] = y[i - Len(p)]
    BY <1>1, <1>2
  <2> QED BY <2>1, <2>2, <2>3
<1>4. p \o y \in Paths
  <2>1. p \o y # <<>>
    BY <1>1, <1>2, <1>3
  <2> QED BY <1>3, <2>1 DEF Paths
<1>5. \A i \in Len(p) + 1 .. Len(p) + Len(x) - k : (p \o y)[i] = x[i - Len(p) + k]
  <2> TAKE i \in Len(p) + 1 .. Len(p) + Len(x) - k
  <2>1. i - Len(p) \in 1 .. Len(x) - k /\ i \in Len(p) + 1 .. Len(p) + Len(y)
    BY <1>1, <1>2
  <2>2. (p \o y)[i] = y[i - Len(p)]
    BY <1>3, <2>1
  <2>3. y[i - Len(p)] = x[(i - Len(p)) + k]
    BY <1>2, <2>1
  <2> QED BY <2>2, <2>3
<1>6. Graft(p, k, x) = p \o y
  BY DEF Graft, y
<1>7. Len(p \o y) = Len(p) + Len(x) - k
  BY <1>1, <1>2, <1>3
<1> QED BY <1>3, <1>4, <1>5, <1>6, <1>7

LEMMA GraftWhole ==
    ASSUME NEW p \in Paths, NEW x \in Paths PROVE Graft(p, Len(x), x) = p
<1>1. /\ p \in Seq(Segment) /\ x \in Seq(Segment) /\ Len(x) \in Nat
  BY PathFacts
<1>2. SubSeq(x, Len(x) + 1, Len(x)) = <<>>
  BY <1>1
<1> QED BY <1>1, <1>2 DEF Graft

LEMMA GraftAppend ==
    ASSUME NEW p \in Paths, NEW x \in Paths, NEW s \in Segment, NEW k \in Nat, k <= Len(x)
    PROVE  Graft(p, k, Append(x, s)) = Append(Graft(p, k, x), s)
<1>1. PICK z \in Paths : z = Append(x, s)
  BY AppendPath
<1>2. /\ Len(p) \in Nat /\ Len(x) \in Nat /\ Len(z) = Len(x) + 1 /\ x \in Seq(Segment)
  BY <1>1, AppendPath, PathFacts
<1>3. /\ \A i \in 1 .. Len(x) : z[i] = x[i]
      /\ z[Len(x) + 1] = s
  BY <1>1, <1>2
<1>4. PICK g \in Paths : g = Graft(p, k, x)
  BY GraftFacts
<1>5. PICK h \in Paths : h = Graft(p, k, z)
  BY <1>2, GraftFacts
<1>6. /\ Len(g) = Len(p) + Len(x) - k
      /\ \A i \in 1 .. Len(p) : g[i] = p[i]
      /\ \A i \in Len(p) + 1 .. Len(p) + Len(x) - k : g[i] = x[i - Len(p) + k]
  BY <1>4, GraftFacts
<1>7. /\ Len(h) = Len(p) + Len(z) - k
      /\ \A i \in 1 .. Len(p) : h[i] = p[i]
      /\ \A i \in Len(p) + 1 .. Len(p) + Len(z) - k : h[i] = z[i - Len(p) + k]
  <2>1. k <= Len(z)
    BY <1>2
  <2> QED BY <1>5, <2>1, GraftFacts
<1>8. g \in Seq(Segment) /\ h \in Seq(Segment)
  BY PathFacts
<1>9. PICK a : a = Append(g, s)
  OBVIOUS
<1>10. /\ a \in Seq(Segment) /\ Len(a) = Len(g) + 1
       /\ \A i \in 1 .. Len(g) : a[i] = g[i]
       /\ a[Len(g) + 1] = s
  BY <1>8, <1>9
<1>11. Len(h) = Len(a)
  BY <1>2, <1>6, <1>7, <1>10
<1>12. \A i \in 1 .. Len(a) : h[i] = a[i]
  <2> TAKE i \in 1 .. Len(a)
  <2>1. CASE i \in 1 .. Len(p)
    BY <1>2, <1>6, <1>7, <1>10, <2>1
  <2>2. CASE i \in Len(p) + 1 .. Len(g)
    <3>1. i - Len(p) + k \in 1 .. Len(x) /\ i \in Len(p) + 1 .. Len(p) + Len(x) - k
          /\ i \in Len(p) + 1 .. Len(p) + Len(z) - k /\ i \in 1 .. Len(g)
      BY <1>2, <1>6, <2>2
    <3>2. h[i] = z[i - Len(p) + k] /\ a[i] = g[i] /\ g[i] = x[i - Len(p) + k]
      BY <1>6, <1>7, <1>10, <3>1
    <3> QED BY <1>3, <3>1, <3>2
  <2>3. CASE i = Len(g) + 1
    <3>1. i - Len(p) + k = Len(x) + 1 /\ i \in Len(p) + 1 .. Len(p) + Len(z) - k
      BY <1>2, <1>6, <2>3
    <3>2. h[i] = z[i - Len(p) + k]
      BY <1>7, <3>1
    <3> QED BY <1>3, <1>10, <2>3, <3>1, <3>2
  <2>4. i \in 1 .. Len(p) \/ i \in Len(p) + 1 .. Len(g) \/ i = Len(g) + 1
    <3>1. Len(g) \in Nat /\ Len(p) <= Len(g) /\ Len(a) = Len(g) + 1
      BY <1>2, <1>6, <1>10
    <3> QED BY <1>2, <3>1
  <2> QED BY <2>1, <2>2, <2>3, <2>4
<1>13. h = a
  BY <1>8, <1>10, <1>11, <1>12
<1> QED BY <1>1, <1>4, <1>5, <1>9, <1>13

\* What is below b is b and what hangs on it, and its paths are longer.
LEMMA BelowFacts ==
    ASSUME NEW t, Treed(t), NEW p, IsPaths(t, p), NEW b \in Present(t)
    PROVE  /\ b \in Below(t, b) /\ Below(t, b) \subseteq Present(t)
           /\ \A c \in Present(t) : t[c].parent \in Below(t, b) => c \in Below(t, b)
           /\ \A c \in Below(t, b) : c # b => t[c].parent \in Below(t, b)
           /\ \A c \in Below(t, b) : Len(p[b]) <= Len(p[c])
<1> DEFINE Heir(S) == b \in S /\ \A d \in Present(t) : t[d].parent \in S => d \in S
<1>1. \A c : c \in Below(t, b) <=> c \in Present(t) /\ \A S \in SUBSET Present(t) : Heir(S) => c \in S
  BY DEF Below
<1>2. b \in Below(t, b) /\ Below(t, b) \subseteq Present(t)
  BY <1>1
<1>3. ASSUME NEW c \in Present(t), t[c].parent \in Below(t, b) PROVE c \in Below(t, b)
  BY <1>1, <1>3
<1>4. ASSUME NEW c \in Below(t, b), c # b, t[c].parent \notin Below(t, b) PROVE FALSE
  <2>1. PICK S : S = Below(t, b) \ {c}
    OBVIOUS
  <2>2. S \in SUBSET Present(t) /\ Heir(S)
    BY <1>2, <1>3, <1>4, <2>1
  <2> HIDE DEF Heir
  <2>3. c \in S
    BY <1>1, <2>2
  <2> QED BY <2>1, <2>3
<1>5. ASSUME NEW c \in Below(t, b) PROVE Len(p[b]) <= Len(p[c])
  <2>1. PICK S : S = {d \in Present(t) : Len(p[b]) <= Len(p[d])}
    OBVIOUS
  <2>2. S \in SUBSET Present(t) /\ b \in S
    <3>1. Len(p[b]) \in Nat
      BY PathLength
    <3> QED BY <2>1, <3>1
  <2>3. ASSUME NEW d \in Present(t), t[d].parent \in S PROVE d \in S
    <3>1. t[d].parent # Root
      BY <2>2, <2>3, NullsAssumption DEF Present
    <3>2. /\ t[d].parent \in Present(t) /\ Len(p[b]) <= Len(p[t[d].parent])
          /\ Len(p[d]) = Len(p[t[d].parent]) + 1
      BY <2>1, <2>3, <3>1, PathLength
    <3>3. Len(p[b]) \in Nat /\ Len(p[t[d].parent]) \in Nat
      BY <3>2, PathLength
    <3> QED BY <2>1, <3>2, <3>3
  <2>4. c \in S
    BY <1>1, <2>2, <2>3
  <2> QED BY <2>1, <2>4
<1> QED BY <1>2, <1>3, <1>4, <1>5

LEMMA RenamePaths ==
    ASSUME NEW t, Treed(t), IsPaths(t, PathIn(t)), NEW b \in Present(t), NEW name \in Name,
           NEW parent \in (Present(t) \ Below(t, b)) \cup {Root},
           \A c \in Present(t) \ {b} : t[c].parent = parent => t[c].name # name,
           NEW u, u = [t EXCEPT ![b].name = name, ![b].parent = parent]
    PROVE  Treed(u) /\ IsPaths(u, PathIn(u)) /\ Present(u) = Present(t)
<1> DEFINE p == PathIn(t)
           new == IF parent = Root THEN <<Local[name]>> ELSE Append(p[parent], Local[name])
           q == [c \in Present(t) |-> IF c \in Below(t, b) THEN Graft(new, Len(p[b]), p[c])
                                      ELSE p[c]]
<1>1. t \in [Box -> Node \cup {NoNode}] /\ b \in Box /\ t[b] \in Node
  BY DEF Treed, Present
<1>2. parent \in Box \cup {Root}
  BY DEF Present
<1>3. u \in [Box -> Node \cup {NoNode}] /\ u[b] \in Node /\ u[b].name = name
      /\ u[b].parent = parent /\ \A c \in Box \ {b} : u[c] = t[c]
  BY <1>1, <1>2 DEF Node
<1>4. Present(u) = Present(t) /\ \A c \in Present(t) \ {b} : u[c] = t[c]
  BY <1>1, <1>3, NullsAssumption DEF Present
<1>5. Treed(u)
  <2>1. Closed(u)
    BY <1>3, <1>4 DEF Treed, Closed
  <2>2. Siblings(u)
    <3> SUFFICES ASSUME NEW c \in Present(u), NEW d \in Present(u),
                        u[c].parent = u[d].parent, u[c].name = u[d].name, c # d
                 PROVE  FALSE
      BY DEF Siblings
    <3>1. CASE c = b
      BY <1>3, <1>4, <3>1
    <3>2. CASE d = b
      BY <1>3, <1>4, <3>2
    <3>3. CASE c # b /\ d # b
      BY <1>4, <3>3 DEF Treed, Siblings
    <3> QED BY <3>1, <3>2, <3>3
  <2> QED BY <1>3, <2>1, <2>2 DEF Treed
<1>6. /\ \A c \in Present(t) : p[c] \in Paths /\ Len(p[c]) \in Nat
      /\ \A c \in Below(t, b) : c \in Present(t) /\ Len(p[b]) <= Len(p[c])
      /\ b \in Below(t, b)
  BY PathLength, BelowFacts
<1>7. new \in Paths
  <2>1. Local[name] \in Segment
    BY PathsAssumption
  <2>2. parent # Root => p[parent] \in Paths
    BY <1>6
  <2> QED BY <2>1, <2>2, SinglePath, AppendPath
<1>8. \A c \in Present(t) : IF c \in Below(t, b) THEN q[c] = Graft(new, Len(p[b]), p[c])
                            ELSE q[c] = p[c]
  OBVIOUS
<1>9. q \in [Present(t) -> Paths]
  <2>1. \A c \in Below(t, b) : Graft(new, Len(p[b]), p[c]) \in Paths
    <3> TAKE c \in Below(t, b)
    <3>1. PICK x \in Paths : x = p[c]
      BY <1>6
    <3>2. PICK k \in Nat : k = Len(p[b])
      BY <1>6
    <3>3. k <= Len(x)
      BY <1>6, <3>1, <3>2
    <3>4. Graft(new, k, x) \in Paths
      BY <1>7, <3>3, GraftFacts
    <3> QED BY <3>1, <3>2, <3>4
  <2> HIDE DEF new, p
  <2> QED BY <1>6, <2>1
<1>10. q[b] = new
  <2>1. PICK x \in Paths : x = p[b]
    BY <1>6
  <2>2. Graft(new, Len(x), x) = new
    BY <1>7, GraftWhole
  <2> HIDE DEF q, new
  <2> QED BY <1>6, <1>8, <2>1, <2>2
<1>11. ASSUME NEW c \in Present(t)
       PROVE  q[c] = IF u[c].parent = Root THEN <<Local[u[c].name]>>
                     ELSE Append(q[u[c].parent], Local[u[c].name])
  <2>1. CASE c = b
    <3>1. parent # Root => q[parent] = p[parent]
      <4> HIDE DEF q, p
      <4> QED BY <1>8
    <3> HIDE DEF q, p
    <3> QED BY <1>3, <1>10, <2>1, <3>1
  <2>2. CASE c # b /\ c \notin Below(t, b)
    <3>1. u[c] = t[c] /\ (t[c].parent # Root => t[c].parent \in Present(t) \ Below(t, b))
      BY <1>4, <2>2, BelowFacts, NodeFacts
    <3>2. p[c] = IF t[c].parent = Root THEN <<Local[t[c].name]>>
                 ELSE Append(p[t[c].parent], Local[t[c].name])
      BY DEF IsPaths
    <3> HIDE DEF q, p
    <3> QED BY <1>8, <2>2, <3>1, <3>2
  <2>3. CASE c # b /\ c \in Below(t, b)
    <3>1. u[c] = t[c] /\ t[c].parent \in Below(t, b) /\ Local[t[c].name] \in Segment
      BY <1>4, <2>3, BelowFacts, NodeFacts
    <3>2. t[c].parent # Root /\ t[c].parent \in Present(t)
      BY <1>6, <3>1, NullsAssumption DEF Present
    <3>3. p[c] = Append(p[t[c].parent], Local[t[c].name])
      BY <3>2 DEF IsPaths
    <3>4. PICK x \in Paths : x = p[t[c].parent]
      BY <1>6, <3>2
    <3>5. PICK k \in Nat : k = Len(p[b]) /\ k <= Len(x)
      BY <1>6, <3>1, <3>4
    <3>6. PICK s \in Segment : s = Local[t[c].name]
      BY <3>1
    <3>7. Graft(new, k, Append(x, s)) = Append(Graft(new, k, x), s)
      BY <1>7, <3>5, GraftAppend
    <3>8. q[c] = Graft(new, k, Append(x, s)) /\ q[t[c].parent] = Graft(new, k, x)
      <4> HIDE DEF q, new, p
      <4> QED BY <1>8, <2>3, <3>1, <3>2, <3>3, <3>4, <3>5, <3>6
    <3> HIDE DEF q, new, p
    <3> QED BY <3>1, <3>2, <3>6, <3>7, <3>8
  <2> QED BY <2>1, <2>2, <2>3
<1>12. IsPaths(u, q)
  <2> HIDE DEF q
  <2> QED BY <1>4, <1>9, <1>11 DEF IsPaths
<1>13. PathIn(u) = q
  <2> HIDE DEF q
  <2> QED BY <1>5, <1>12, PathsUnique
<1> QED BY <1>4, <1>5, <1>12, <1>13

(***************************************************************************)
(* The state of a tick                                                     *)
(***************************************************************************)

\* The locals agree: what is doomed has a row outside the target set, what
\* waits for its turn is in it, and what was placed is about to be written.
TickOK ==
    /\ \A b \in tick.doomed : /\ tick.known[b] # NoRow /\ tick.target[b] = NoRow
                              /\ tick.known[b].path \notin Excluded
    /\ tick.pc = "unlinked" => tick.box \in Box \ tick.doomed /\ tick.target[tick.box] = NoRow
    /\ tick.pc \in {"idle", "fetch"} => tick.target = None /\ tick.known = None
    /\ tick.left \subseteq Those(tick.target)
    /\ tick.round \subseteq tick.left
    /\ tick.pc = "placed" => /\ tick.box \in tick.left /\ tick.new \in BoxRow
                             /\ tick.new.path = tick.target[tick.box].path

Sound == TypeOK /\ TreeOK /\ TickOK

LEMMA TargetType ==
    ASSUME NEW t, Treed(t), IsPaths(t, PathIn(t))
    PROVE  /\ Target(t) \in [Box -> BoxRow \cup {NoRow}]
           /\ \A b \in Those(Target(t)) :
                /\ b \in Present(t) /\ t[b].kept
                /\ Target(t)[b].path = PathIn(t)[b]
<1>1. \A b \in Present(t) : t[b] \in Node /\ PathIn(t)[b] \in Paths
  BY NodeFacts DEF IsPaths
<1>2. \A b \in Present(t) : [name |-> t[b].name, parent |-> t[b].parent,
                             path |-> PathIn(t)[b]] \in BoxRow
  BY <1>1 DEF Node, BoxRow
<1> QED BY <1>2 DEF Target, Those

LEMMA IdleType == Idle \in Tick /\ Idle.pc = "idle" /\ Idle.target = None /\ Idle.known = None
                  /\ Idle.doomed = {} /\ Idle.left = {} /\ Idle.round = {}
BY DEF Idle, Tick, None, Pcs

LEMMA IdleOK == ASSUME tick' = Idle PROVE TickOK' /\ tick' \in Tick
BY IdleType DEF TickOK, Those

LEMMA ExcludedPaths == Excluded \subseteq Paths /\ \A x \in Excluded : Prefixes(x) = {x}
<1> SUFFICES ASSUME NEW x \in Excluded PROVE x \in Paths /\ Prefixes(x) = {x}
  OBVIOUS
<1>1. x \in Paths /\ Len(x) = 1
  BY SinglePath, PathsAssumption
<1>2. x \in Seq(Segment) /\ SubSeq(x, 1, 1) = x
  BY <1>1, PathFacts
<1>3. 1 .. Len(x) = {1}
  BY <1>1
<1> QED BY <1>1, <1>2, <1>3 DEF Prefixes

LEMMA SoundInit == Init => Sound
<1> SUFFICES ASSUME Init PROVE Sound
  OBVIOUS
<1>1. Present(tree) = {} /\ Treed(tree)
  BY DEF Init, Present, Treed, Closed, Siblings
<1>2. IsPaths(tree, [b \in Present(tree) |-> <<>>])
  BY <1>1 DEF IsPaths
<1>3. TreeOK
  BY <1>1, <1>2, PathsUnique DEF TreeOK
<1>4. dirs \subseteq Paths /\ maildirs \subseteq dirs
  <2>1. dirs = UNION {{x} : x \in Excluded}
    BY ExcludedPaths DEF Init
  <2> QED BY <2>1, ExcludedPaths DEF Init
<1>5. TypeOK
  BY <1>4, IdleType, BoundsAssumption DEF Init, TypeOK, None
<1>6. TickOK
  BY IdleType DEF Init, TickOK, Those
<1> QED BY <1>3, <1>5, <1>6 DEF Sound

\* The tree changes with the server's edits only.
ServerStep(b) ==
    \/ \E n \in Name, p \in Box \cup {Root} :
           \/ \E k \in BOOLEAN : CreateBox(b, n, p, k)
           \/ RenameBox(b, n, p)
    \/ DestroyBox(b)
    \/ KeepBox(b)

LEMMA TreeStep ==
    ASSUME Sound, NEW b \in Box, ServerStep(b)
    PROVE  TreeOK'
<1>1. Treed(tree) /\ IsPaths(tree, PathIn(tree))
  BY DEF Sound, TreeOK
<1>2. ASSUME NEW n \in Name, NEW p \in Box \cup {Root}, NEW k \in BOOLEAN, CreateBox(b, n, p, k)
      PROVE  TreeOK'
  <2>1. PICK node \in Node : /\ node.name = n /\ node.parent = p
                             /\ tree' = [tree EXCEPT ![b] = node]
    BY <1>2 DEF CreateBox, Node
  <2>2. node.parent \in Present(tree) \cup {Root} /\ b \in Box \ Present(tree)
    BY <1>2, <2>1 DEF CreateBox, Fresh
  <2>3. \A c \in Present(tree) : tree[c].parent = node.parent => tree[c].name # node.name
    BY <1>2, <2>1, <2>2 DEF CreateBox, FreeName
  <2>4. Treed(tree') /\ IsPaths(tree', PathIn(tree'))
    BY <1>1, <2>1, <2>2, <2>3, CreatePaths
  <2> QED BY <2>4 DEF TreeOK
<1>3. ASSUME NEW n \in Name, NEW p \in Box \cup {Root}, RenameBox(b, n, p)
      PROVE  TreeOK'
  <2>1. p \in (Present(tree) \ Below(tree, b)) \cup {Root} /\ b \in Present(tree)
    BY <1>3 DEF RenameBox
  <2>2. \A c \in Present(tree) \ {b} : tree[c].parent = p => tree[c].name # n
    BY <1>3 DEF RenameBox, FreeName
  <2>3. Treed(tree') /\ IsPaths(tree', PathIn(tree'))
    BY <1>1, <1>3, <2>1, <2>2, RenamePaths DEF RenameBox
  <2> QED BY <2>3 DEF TreeOK
<1>4. CASE DestroyBox(b)
  <2>1. Treed(tree') /\ IsPaths(tree', PathIn(tree'))
    BY <1>1, <1>4, DestroyPaths DEF DestroyBox
  <2> QED BY <2>1 DEF TreeOK
<1>5. CASE KeepBox(b)
  <2>1. b \in Present(tree) /\ (~tree[b].kept) \in BOOLEAN
    BY <1>5 DEF KeepBox
  <2>2. tree' = [tree EXCEPT ![b].kept = ~tree[b].kept]
    BY <1>5 DEF KeepBox
  <2>3. Treed(tree') /\ IsPaths(tree', PathIn(tree'))
    BY <1>1, <2>1, <2>2, KeepPaths
  <2> QED BY <2>3 DEF TreeOK
<1> QED BY <1>2, <1>3, <1>4, <1>5 DEF ServerStep

LEMMA ServerStepType ==
    ASSUME Sound, NEW b \in Box, ServerStep(b)
    PROVE  /\ TypeOK'
           /\ UNCHANGED <<db, disk, tick>>
<1>1. UNCHANGED <<db, disk, tick>> /\ spent'.server > spent.server
      /\ spent' \in [server : 0 .. MaxServer, fault : 0 .. MaxFault, crash : 0 .. MaxCrash]
  <2>1. ServerEdit
    BY DEF ServerStep, CreateBox, RenameBox, DestroyBox, KeepBox
  <2> QED BY <2>1, BoundsAssumption DEF ServerEdit, Sound, TypeOK
<1>2. tree' \in [Box -> Node \cup {NoNode}]
  BY TreeStep DEF TreeOK, Treed
<1>3. mail' \in [Email -> Box \cup {NoBox}]
  BY DEF ServerStep, CreateBox, RenameBox, DestroyBox, KeepBox, Sound, TypeOK
<1> QED BY <1>1, <1>2, <1>3 DEF Sound, TypeOK, db, disk

LEMMA SyncEmailsType ==
    ASSUME Sound, SyncEmails
    PROVE  TypeOK'
<1> DEFINE home(e) == rows[mail[e]].path
           fetched == Listed \ Stored
           moved == {e \in (Listed \cap Stored) \ Missing : emails[e].box # mail[e]}
           placed == fetched \cup moved
<1>1. /\ mail \in [Email -> Box \cup {NoBox}] /\ rows \in [Box -> BoxRow \cup {NoRow}]
      /\ emails \in [Email -> MailRow \cup {NoRow}] /\ file \in [Email -> Paths \cup {NoDir}]
      /\ dirs \subseteq Paths /\ maildirs \subseteq dirs
  BY DEF Sound, TypeOK
<1>2. placed \subseteq Listed
  OBVIOUS
<1>3. \A e \in placed : e \in Email /\ mail[e] \in Box /\ home(e) \in Paths
  BY <1>1, <1>2 DEF Listed, Those, BoxRow
<1> HIDE DEF placed, home
<1>4. mail' \in [Email -> Box \cup {NoBox}]
  BY <1>1 DEF SyncEmails
<1>5. emails' \in [Email -> MailRow \cup {NoRow}]
  <2>1. ASSUME NEW e \in placed PROVE [box |-> mail[e], dir |-> home(e)] \in MailRow
    BY <1>3, <2>1 DEF MailRow
  <2>2. emails' = [e \in Email |->
                    CASE e \in placed -> [box |-> mail[e], dir |-> home(e)]
                      [] e \in Missing \cup (Stored \ Listed) -> NoRow
                      [] OTHER -> emails[e]]
    BY DEF SyncEmails, placed, home
  <2> QED BY <1>1, <2>1, <2>2
<1>6. file' \in [Email -> Paths \cup {NoDir}]
  <2>1. file' = [e \in Email |->
                    CASE e \in placed -> home(e)
                      [] e \in (Missing \cup (Stored \ Listed)) \ Missing -> NoDir
                      [] OTHER -> file[e]]
    BY DEF SyncEmails, placed, home
  <2> QED BY <1>1, <1>3, <2>1
<1>7. dirs' \subseteq Paths /\ maildirs' \subseteq dirs'
  <2>1. /\ dirs' = dirs \cup UNION {Prefixes(home(e)) : e \in placed}
        /\ maildirs' = maildirs \cup {home(e) : e \in placed}
    BY DEF SyncEmails, placed, home
  <2>2. \A e \in placed : Prefixes(home(e)) \subseteq Paths /\ home(e) \in Prefixes(home(e))
    BY <1>3, PrefixesArePaths
  <2> QED BY <1>1, <2>1, <2>2
<1>8. tick' \in Tick /\ UNCHANGED <<tree, rows, spent>>
  BY IdleType DEF SyncEmails
<1> QED BY <1>4, <1>5, <1>6, <1>7, <1>8 DEF Sound, TypeOK

LEMMA MakeMaildirType ==
    ASSUME TypeOK, NEW p \in Paths, MakeMaildir(p)
    PROVE  dirs' \subseteq Paths /\ maildirs' \subseteq dirs' /\ file' = file
BY PrefixesArePaths DEF TypeOK, MakeMaildir

LEMMA RenameTreeType ==
    ASSUME TypeOK, NEW p \in Paths, NEW q \in Paths, RenameTree(p, q)
    PROVE  /\ dirs' \subseteq Paths /\ maildirs' \subseteq dirs'
           /\ file' \in [Email -> Paths \cup {NoDir}]
<1>1. dirs \subseteq Paths /\ maildirs \subseteq dirs /\ file \in [Email -> Paths \cup {NoDir}]
  BY DEF TypeOK
<1>2. \A d \in dirs : Renamed(p, q, d) \in Paths
  <2> TAKE d \in dirs
  <2>1. d \in Paths \cup {NoDir} /\ d # NoDir
    BY <1>1, NullsAssumption
  <2> QED BY <2>1, RenamedIsPath
<1>3. \A e \in Email : Renamed(p, q, file[e]) \in Paths \cup {NoDir}
  BY <1>1, RenamedIsPath
<1>4. Prefixes(q) \subseteq Paths
  BY PrefixesArePaths
<1> QED BY <1>1, <1>2, <1>3, <1>4 DEF RenameTree

LEMMA RowWithType ==
    ASSUME Sound, NEW b \in tick.left, NEW parent \in Box \cup {Root}
    PROVE  /\ b \in Box /\ tick.target[b] \in BoxRow
           /\ RowWith(b, parent) \in BoxRow
           /\ RowWith(b, parent).path = tick.target[b].path
           /\ RowWith(b, parent).path \in Paths
<1>1. b \in Box /\ tick.target[b] \in BoxRow
  BY DEF Sound, TypeOK, Tick, TickOK, Those
<1> QED BY <1>1 DEF RowWith, BoxRow

LEMMA TurnFacts ==
    ASSUME Sound, NEW b \in Box, Turn(b)
    PROVE  /\ tick.pc = "rounds" /\ b \in tick.left /\ tick \in Tick
           /\ KnownParent(b) \in Box \cup {Root} /\ FoundParent(b) \in Box \cup {Root}
           /\ tick.known[b] # NoRow => tick.known[b].path \in Paths
BY DEF Turn, Sound, TickOK, TypeOK, Tick, KnownParent, FoundParent, Those, BoxRow

LEMMA EmitOK ==
    ASSUME Sound, NEW b \in Box, tick.pc \in {"rounds", "placed"}, tick' = Emit(b)
    PROVE  tick' \in Tick /\ TickOK'
<1>1. tick \in Tick /\ TickOK
  BY DEF Sound, TypeOK
<1>2. /\ tick' \in Tick /\ tick'.pc = "rounds"
      /\ tick'.target = tick.target /\ tick'.known = tick.known /\ tick'.doomed = tick.doomed
      /\ tick'.left = tick.left \ {b} /\ tick'.round = tick.round \ {b}
  BY <1>1 DEF Emit, Tick, Pcs
<1> QED BY <1>1, <1>2 DEF TickOK

LEMMA WriteNextOK ==
    ASSUME Sound, NEW b \in Box, Turn(b), NEW parent \in Box \cup {Root},
           WriteNext(b, RowWith(b, parent))
    PROVE  tick' \in Tick /\ TickOK'
<1>1. tick \in Tick /\ TickOK /\ b \in tick.left
  BY TurnFacts DEF Sound, TypeOK
<1>2. PICK new \in BoxRow : new = RowWith(b, parent) /\ new.path = tick.target[b].path
  BY <1>1, RowWithType
<1>3. tick' = [tick EXCEPT !.pc = "placed", !.box = b, !.new = new]
  BY <1>2 DEF WriteNext
<1>4. /\ tick' \in Tick /\ tick'.pc = "placed" /\ tick'.box = b /\ tick'.new = new
      /\ tick'.target = tick.target /\ tick'.known = tick.known /\ tick'.doomed = tick.doomed
      /\ tick'.left = tick.left /\ tick'.round = tick.round
  BY <1>1, <1>3 DEF Tick, Pcs
<1> QED BY <1>1, <1>2, <1>4 DEF TickOK

\* What a step of the daemon's keeps: the server's tree, the budget of the
\* others, and the types.
LEMMA DaemonType ==
    ASSUME Sound, Daemon
    PROVE  TypeOK' /\ TickOK' /\ UNCHANGED <<tree, spent>>
<1> USE DEF Sound
<1>1. CASE StartTick
  <2>1. tick' \in Tick /\ TickOK'
    BY <1>1, IdleType DEF StartTick, Tick, TickOK, Those, Idle, None, Pcs
  <2> QED BY <1>1, <2>1 DEF StartTick, TypeOK, remote, db, disk
<1>2. CASE FetchTree
  <2>1. Target(tree) \in [Box -> BoxRow \cup {NoRow}]
    BY TargetType DEF TreeOK
  <2>2. tick \in Tick /\ rows \in [Box -> BoxRow \cup {NoRow}]
    BY DEF TypeOK
  <2>3. Doomed(Target(tree)) \subseteq Box
    BY DEF Doomed, Those
  <2>4. tick' = [tick EXCEPT !.pc = "deletes", !.target = Target(tree), !.known = rows,
                             !.doomed = Doomed(Target(tree))]
    BY <1>2 DEF FetchTree
  <2>5. /\ tick' \in Tick /\ tick'.pc = "deletes" /\ tick'.target = Target(tree)
        /\ tick'.known = rows /\ tick'.doomed = Doomed(Target(tree))
    BY <2>1, <2>2, <2>3, <2>4 DEF Tick, Pcs
  <2>6. tick'.left = {} /\ tick'.round = {}
    BY <1>2, <2>2, <2>4 DEF FetchTree, Tick, TickOK, Those, None
  <2>7. TickOK'
    BY <2>5, <2>6 DEF TickOK, Doomed, Those
  <2> QED BY <1>2, <2>5, <2>7 DEF FetchTree, TypeOK, remote, db, disk
<1>3. ASSUME NEW b \in Box, RemoveDir(b) PROVE TypeOK' /\ TickOK' /\ UNCHANGED <<tree, spent>>
  <2>1. tick' \in Tick /\ TickOK'
    BY <1>3 DEF RemoveDir, TypeOK, Tick, TickOK, Pcs
  <2>2. dirs' \subseteq Paths /\ maildirs' \subseteq dirs' /\ file' \in [Email -> Paths \cup {NoDir}]
    BY <1>3 DEF RemoveDir, RemoveTree, TypeOK
  <2> QED BY <1>3, <2>1, <2>2 DEF RemoveDir, TypeOK, remote, db
<1>4. CASE DropRow
  <2>1. tick' \in Tick /\ TickOK'
    BY <1>4 DEF DropRow, TypeOK, Tick, TickOK, Pcs
  <2>2. rows' \in [Box -> BoxRow \cup {NoRow}]
    BY <1>4 DEF DropRow, TypeOK
  <2> QED BY <1>4, <2>1, <2>2 DEF DropRow, TypeOK, remote, disk
<1>5. CASE DropRowRefused
  BY <1>5, IdleOK DEF DropRowRefused, TypeOK, remote, db, disk
<1>6. CASE DeletesDone
  <2>1. PICK left, emitted, round :
          /\ left = Those(tick.target) /\ emitted = Those(tick.known)
          /\ round = Ready(tick.target, left, emitted)
    OBVIOUS
  <2>2. tick' = [tick EXCEPT !.pc = "rounds", !.left = left, !.emitted = emitted, !.round = round]
    BY <1>6, <2>1 DEF DeletesDone
  <2>3. left \subseteq Box /\ emitted \subseteq Box /\ round \subseteq left
    BY <2>1 DEF Those, Ready
  <2>4. /\ tick' \in Tick /\ tick'.pc = "rounds" /\ tick'.target = tick.target
        /\ tick'.known = tick.known /\ tick'.doomed = tick.doomed
        /\ tick'.left = left /\ tick'.round = round
    BY <2>2, <2>3 DEF TypeOK, Tick, Pcs
  <2>5. TickOK'
    BY <2>1, <2>3, <2>4 DEF TickOK, Those
  <2> QED BY <1>6, <2>4, <2>5 DEF DeletesDone, TypeOK, remote, db, disk
<1>7. CASE NextRound
  <2>1. PICK round : round = Ready(tick.target, tick.left, tick.emitted)
    OBVIOUS
  <2>2. tick' = [tick EXCEPT !.round = round] /\ round \subseteq tick.left
    BY <1>7, <2>1 DEF NextRound, Ready
  <2>3. tick' \in Tick /\ TickOK'
    BY <1>7, <2>2 DEF NextRound, TypeOK, Tick, TickOK
  <2> QED BY <1>7, <2>3 DEF NextRound, TypeOK, remote, db, disk
<1>8. ASSUME NEW b \in Box, Create(b) PROVE TypeOK' /\ TickOK' /\ UNCHANGED <<tree, spent>>
  <2>1. tick' \in Tick /\ TickOK'
    BY <1>8, TurnFacts, WriteNextOK DEF Create
  <2>2. tick.target[b].path \in Paths
    BY <1>8, TurnFacts, RowWithType DEF Create
  <2>3. dirs' \subseteq Paths /\ maildirs' \subseteq dirs' /\ file' = file
    BY <1>8, <2>2, MakeMaildirType DEF Create
  <2> QED BY <1>8, <2>1, <2>3 DEF Create, TypeOK, remote, db
<1>9. ASSUME NEW b \in Box, Skip(b) PROVE TypeOK' /\ TickOK' /\ UNCHANGED <<tree, spent>>
  <2>1. tick' \in Tick /\ TickOK'
    BY <1>9, EmitOK DEF Skip, Turn
  <2> QED BY <1>9, <2>1 DEF Skip, TypeOK, remote, db, disk
<1>10. ASSUME NEW b \in Box, Update(b) PROVE TypeOK' /\ TickOK' /\ UNCHANGED <<tree, spent>>
  <2>1. tick' \in Tick /\ TickOK'
    BY <1>10, TurnFacts, WriteNextOK DEF Update
  <2>2. tick.target[b].path \in Paths /\ tick.known[b].path \in Paths
    BY <1>10, TurnFacts, RowWithType DEF Update
  <2>3. \/ UNCHANGED disk
        \/ RenameTree(tick.known[b].path, tick.target[b].path)
        \/ MakeMaildir(tick.target[b].path)
    BY <1>10 DEF Update
  <2>4. /\ dirs' \subseteq Paths /\ maildirs' \subseteq dirs'
        /\ file' \in [Email -> Paths \cup {NoDir}]
    BY <2>2, <2>3, RenameTreeType, MakeMaildirType DEF disk, TypeOK
  <2> QED BY <1>10, <2>1, <2>4 DEF Update, TypeOK, remote, db
<1>11. ASSUME NEW b \in Box, RenameRefused(b) PROVE TypeOK' /\ TickOK' /\ UNCHANGED <<tree, spent>>
  <2>1. tick.target[b].path \in Paths
    BY <1>11, TurnFacts, RowWithType DEF RenameRefused
  <2>2. PICK p \in Paths : p = tick.target[b].path
    BY <2>1
  <2>3. Prefixes(Parent(p)) \subseteq Paths
    BY ParentPrefixes
  <2> QED BY <1>11, <2>2, <2>3, IdleOK DEF RenameRefused, Made, TypeOK, remote, db
<1>12. CASE WriteRow
  <2>1. tick.box \in Box /\ tick.new \in BoxRow
    BY <1>12 DEF WriteRow, TypeOK, Tick, TickOK
  <2>2. tick' \in Tick /\ TickOK'
    BY <1>12, <2>1, EmitOK DEF WriteRow
  <2>3. rows' \in [Box -> BoxRow \cup {NoRow}]
    BY <1>12, <2>1 DEF WriteRow, TypeOK
  <2> QED BY <1>12, <2>2, <2>3 DEF WriteRow, TypeOK, remote, disk
<1>13. CASE WriteRowRefused
  BY <1>13, IdleOK DEF WriteRowRefused, TypeOK, remote, db, disk
<1>14. CASE RoundsDone
  <2>1. tick' \in Tick /\ TickOK'
    BY <1>14 DEF RoundsDone, TypeOK, Tick, TickOK, Pcs
  <2> QED BY <1>14, <2>1 DEF RoundsDone, TypeOK, remote, db, disk
<1>15. CASE SyncEmails
  BY <1>15, SyncEmailsType, IdleOK DEF SyncEmails
<1> QED BY <1>1, <1>2, <1>3, <1>4, <1>5, <1>6, <1>7, <1>8, <1>9, <1>10, <1>11, <1>12, <1>13,
           <1>14, <1>15 DEF Daemon

LEMMA MailStepType ==
    ASSUME Sound, NEW e \in Email, (\E b \in Box : PutMail(e, b)) \/ DestroyMail(e)
    PROVE  TypeOK' /\ UNCHANGED <<tree, db, disk, tick>>
<1>1. /\ UNCHANGED <<tree, db, disk, tick>>
      /\ mail' \in [Email -> Box \cup {NoBox}]
      /\ ServerEdit
  BY DEF PutMail, DestroyMail, ServerEdit, Sound, TypeOK
<1>2. spent' \in [server : 0 .. MaxServer, fault : 0 .. MaxFault, crash : 0 .. MaxCrash]
  BY <1>1, BoundsAssumption DEF ServerEdit, Sound, TypeOK
<1> QED BY <1>1, <1>2 DEF Sound, TypeOK, db, disk

\* The others touch the server alone.
LEMMA OthersType ==
    ASSUME Sound, Others PROVE Sound' /\ UNCHANGED <<db, disk, tick>>
<1>1. \/ \E b \in Box : ServerStep(b)
      \/ \E e \in Email : (\E b \in Box : PutMail(e, b)) \/ DestroyMail(e)
  BY DEF Others, ServerStep
<1>2. ASSUME UNCHANGED tick PROVE TickOK'
  BY <1>2 DEF Sound, TickOK
<1>3. ASSUME UNCHANGED tree PROVE TreeOK'
  BY <1>3 DEF Sound, TreeOK
<1> QED BY <1>1, <1>2, <1>3, ServerStepType, TreeStep, MailStepType DEF Sound

LEMMA FailuresType ==
    ASSUME Sound, Failures
    PROVE  Sound' /\ tick' = Idle /\ UNCHANGED <<remote, db, disk>> /\ spent'.server = spent.server
<1>1. /\ tick' = Idle /\ UNCHANGED <<remote, db, disk>> /\ spent'.server = spent.server
      /\ spent' \in [server : 0 .. MaxServer, fault : 0 .. MaxFault, crash : 0 .. MaxCrash]
  BY BoundsAssumption DEF Failures, RequestFails, Crash, Sound, TypeOK
<1>2. TickOK' /\ tick' \in Tick
  BY <1>1, IdleOK
<1>3. TreeOK'
  BY <1>1 DEF Sound, TreeOK, remote
<1> QED BY <1>1, <1>2, <1>3 DEF Sound, TypeOK, remote, db, disk

LEMMA SoundStep == Sound /\ [Next]_vars => Sound'
<1> SUFFICES ASSUME Sound, [Next]_vars PROVE Sound'
  OBVIOUS
<1>1. CASE Daemon
  BY <1>1, DaemonType DEF Sound, TreeOK
<1>2. CASE Others
  BY <1>2, OthersType
<1>3. CASE Failures
  BY <1>3, FailuresType
<1>4. CASE UNCHANGED vars
  BY <1>4 DEF vars, Sound, TypeOK, TreeOK, TickOK
<1> QED BY <1>1, <1>2, <1>3, <1>4 DEF Next

LEMMA SoundAlways == Spec => []Sound
<1>1. Init => Sound
  BY SoundInit
<1>2. Sound /\ [Next]_vars => Sound'
  BY SoundStep
<1> QED BY <1>1, <1>2, PTL DEF Spec

\* Whatever the others do to the tree, every mailbox has a path, and rows,
\* directories and the locals of the tick keep their types.
THEOREM TypeCorrect == Spec => []TypeOK
<1>1. Sound => TypeOK
  BY DEF Sound
<1> QED BY <1>1, SoundAlways, PTL

(***************************************************************************)
(* apply_diff leaves the rows of the target set                            *)
(***************************************************************************)

\* Where a tick has come to, row by row.
RowOK(b) ==
    CASE tick.pc \in {"deletes", "unlinked"} ->
           IF tick.target[b] # NoRow \/ b \in tick.doomed THEN rows[b] = tick.known[b]
           ELSE \/ tick.pc = "unlinked" /\ b = tick.box
                \/ rows[b] # NoRow => rows[b].path \in Excluded
      [] tick.pc \in {"rounds", "placed", "emails"} ->
           IF tick.target[b] = NoRow THEN rows[b] # NoRow => rows[b].path \in Excluded
           ELSE IF b \in tick.left THEN rows[b] = tick.known[b]
           ELSE rows[b] # NoRow /\ rows[b].path = tick.target[b].path
      [] OTHER -> TRUE

RowsOK ==
    /\ \A b \in Box : RowOK(b)
    /\ tick.pc = "emails" => tick.left = {}

LEMMA RowsOKInit == Init => RowsOK
BY DEF Init, RowsOK, RowOK, Idle

LEMMA RowsOKStep == Sound /\ RowsOK /\ [Next]_vars => RowsOK'
<1> SUFFICES ASSUME Sound, RowsOK, [Next]_vars PROVE RowsOK'
  OBVIOUS
<1>0. /\ tick \in Tick /\ rows \in [Box -> BoxRow \cup {NoRow}] /\ TickOK
  BY DEF Sound, TypeOK
<1>1. ASSUME UNCHANGED <<rows, tick>> PROVE RowsOK'
  BY <1>1 DEF RowsOK, RowOK
<1>2. ASSUME tick'.pc \in {"idle", "fetch"} PROVE RowsOK'
  BY <1>2 DEF RowsOK, RowOK
<1>3. CASE FetchTree
  <2>1. /\ tick'.pc = "deletes" /\ tick'.target = Target(tree)
        /\ tick'.known = rows /\ tick'.doomed = Doomed(Target(tree)) /\ rows' = rows
    BY <1>0, <1>3 DEF FetchTree, db, Tick
  <2> QED BY <2>1 DEF RowsOK, RowOK, Doomed, Those
<1>4. ASSUME NEW c \in Box, RemoveDir(c) PROVE RowsOK'
  <2>1. /\ tick.pc = "deletes" /\ c \in tick.doomed /\ rows' = rows
        /\ tick'.pc = "unlinked" /\ tick'.box = c /\ tick'.doomed = tick.doomed \ {c}
        /\ tick'.target = tick.target /\ tick'.known = tick.known
    BY <1>0, <1>4 DEF RemoveDir, Tick, db
  <2>2. tick.target[c] = NoRow
    BY <1>0, <2>1 DEF TickOK
  <2> QED BY <2>1, <2>2 DEF RowsOK, RowOK
<1>5. CASE DropRow
  <2>1. /\ tick.pc = "unlinked" /\ tick.box \in Box \ tick.doomed
        /\ tick.target[tick.box] = NoRow
    BY <1>0, <1>5 DEF DropRow, TickOK
  <2>2. /\ rows' = [rows EXCEPT ![tick.box] = NoRow]
        /\ tick'.pc = "deletes" /\ tick'.doomed = tick.doomed
        /\ tick'.target = tick.target /\ tick'.known = tick.known
    BY <1>0, <1>5 DEF DropRow, Tick
  <2>3. rows'[tick.box] = NoRow /\ \A b \in Box \ {tick.box} : rows'[b] = rows[b]
    BY <1>0, <2>1, <2>2
  <2> QED BY <2>1, <2>2, <2>3 DEF RowsOK, RowOK
<1>6. CASE DeletesDone
  <2>1. /\ tick.pc = "deletes" /\ tick.doomed = {} /\ rows' = rows
        /\ tick'.pc = "rounds" /\ tick'.target = tick.target /\ tick'.known = tick.known
        /\ tick'.left = Those(tick.target)
    BY <1>0, <1>6 DEF DeletesDone, Tick, db
  <2> QED BY <2>1 DEF RowsOK, RowOK, Those
<1>7. CASE NextRound
  <2>1. /\ tick.pc = "rounds" /\ rows' = rows
        /\ tick'.pc = "rounds" /\ tick'.target = tick.target /\ tick'.known = tick.known
        /\ tick'.left = tick.left
    BY <1>0, <1>7 DEF NextRound, Tick, db
  <2> QED BY <2>1 DEF RowsOK, RowOK
<1>8. ASSUME NEW c \in Box, Create(c) \/ Update(c) PROVE RowsOK'
  <2>1. /\ tick.pc = "rounds" /\ rows' = rows
        /\ tick'.pc = "placed" /\ tick'.target = tick.target /\ tick'.known = tick.known
        /\ tick'.left = tick.left
    BY <1>0, <1>8 DEF Create, Update, Turn, WriteNext, Tick, db
  <2> QED BY <2>1 DEF RowsOK, RowOK
<1>9. ASSUME NEW c \in Box, Skip(c) PROVE RowsOK'
  <2>1. Turn(c) /\ Unchanged(c) /\ rows' = rows /\ tick' = Emit(c)
    BY <1>9 DEF Skip, db
  <2>2. /\ tick.pc = "rounds" /\ c \in tick.left
        /\ tick'.pc = "rounds" /\ tick'.target = tick.target /\ tick'.known = tick.known
        /\ tick'.left = tick.left \ {c}
    BY <1>0, <2>1, TurnFacts DEF Emit, Tick
  <2>3. /\ tick.known[c] = RowWith(c, KnownParent(c)) /\ RowWith(c, KnownParent(c)) \in BoxRow
        /\ RowWith(c, KnownParent(c)).path = tick.target[c].path
    BY <2>1, <2>2, TurnFacts, RowWithType DEF Unchanged
  <2>4. rows[c] = tick.known[c] /\ tick.target[c] # NoRow
    BY <1>0, <2>2 DEF RowsOK, RowOK, TickOK, Those
  <2>5. rows[c] # NoRow /\ rows[c].path = tick.target[c].path
    BY <2>3, <2>4, NullsAssumption
  <2> QED BY <2>1, <2>2, <2>4, <2>5 DEF RowsOK, RowOK
<1>10. CASE WriteRow
  <2>1. PICK c \in Box, new \in BoxRow :
          /\ c = tick.box /\ new = tick.new /\ c \in tick.left
          /\ new.path = tick.target[c].path
    BY <1>0, <1>10 DEF WriteRow, TickOK, Tick
  <2>2. /\ tick.pc = "placed" /\ rows' = [rows EXCEPT ![c] = new] /\ tick' = Emit(c)
    BY <1>10, <2>1 DEF WriteRow
  <2>3. /\ tick'.pc = "rounds" /\ tick'.target = tick.target /\ tick'.known = tick.known
        /\ tick'.left = tick.left \ {c}
    BY <1>0, <2>2 DEF Emit, Tick
  <2>4. /\ rows'[c] = new /\ \A b \in Box \ {c} : rows'[b] = rows[b]
        /\ new # NoRow /\ tick.target[c] # NoRow
    BY <1>0, <2>1, <2>2, NullsAssumption DEF TickOK, Those
  <2> QED BY <2>1, <2>2, <2>3, <2>4 DEF RowsOK, RowOK
<1>11. CASE RoundsDone
  <2>1. /\ tick.pc = "rounds" /\ tick.left = {} /\ rows' = rows
        /\ tick'.pc = "emails" /\ tick'.target = tick.target /\ tick'.known = tick.known
        /\ tick'.left = tick.left
    BY <1>0, <1>11 DEF RoundsDone, Tick, db
  <2> QED BY <2>1 DEF RowsOK, RowOK
<1>12. ASSUME \/ StartTick \/ DropRowRefused \/ WriteRowRefused \/ SyncEmails
              \/ \E b \in Box : RenameRefused(b)
       PROVE  RowsOK'
  <2>1. tick'.pc \in {"idle", "fetch"}
    BY <1>12 DEF StartTick, DropRowRefused, WriteRowRefused, SyncEmails, RenameRefused, Idle
  <2> QED BY <1>2, <2>1
<1>13. CASE Others
  BY <1>1, <1>13, OthersType DEF db
<1>14. CASE Failures
  BY <1>2, <1>14, FailuresType, IdleType
<1>15. CASE UNCHANGED vars
  BY <1>1, <1>15 DEF vars
<1> QED BY <1>3, <1>4, <1>5, <1>6, <1>7, <1>8, <1>9, <1>10, <1>11, <1>12, <1>13, <1>14, <1>15
        DEF Next, Daemon

\* When the diff has gone through, the table holds exactly the mailboxes of
\* the target set under their paths, and excluded ones: whatever renames,
\* deletions, crashes, failures and refused statements came before.
THEOREM RowsAreMirrored == Spec => []RowsMirrored
<1>1. Init => RowsOK
  BY RowsOKInit
<1>2. Sound /\ RowsOK /\ [Next]_vars => RowsOK'
  BY RowsOKStep
<1>3. RowsOK => RowsMirrored
  BY DEF RowsOK, RowOK, RowsMirrored
<1> QED BY <1>1, <1>2, <1>3, SoundAlways, PTL DEF Spec

(***************************************************************************)
(* As long as nobody renames a mailbox                                     *)
(***************************************************************************)

\* What a step of the daemon's does to the locals that the invariants below
\* read, ...
LEMMA TickStep ==
    ASSUME Sound, Daemon
    PROVE  \/ FetchTree /\ tick'.target = Target(tree) /\ tick'.known = rows /\ rows' = rows
           \/ ~FetchTree /\ tick'.target = None /\ tick'.known = None
           \/ ~FetchTree /\ tick'.target = tick.target /\ tick'.known = tick.known
<1>0. tick \in Tick
  BY DEF Sound, TypeOK
<1>1. CASE FetchTree
  BY <1>0, <1>1 DEF FetchTree, Tick, db
<1>2. CASE StartTick
  BY <1>2 DEF StartTick, Idle, FetchTree
<1>3. CASE DropRow
  BY <1>0, <1>3 DEF DropRow, FetchTree, Tick
<1>4. CASE DeletesDone
  BY <1>0, <1>4 DEF DeletesDone, FetchTree, Tick
<1>5. CASE NextRound
  BY <1>0, <1>5 DEF NextRound, FetchTree, Tick
<1>6. CASE WriteRow
  BY <1>0, <1>6 DEF WriteRow, Emit, FetchTree, Tick
<1>7. CASE RoundsDone
  BY <1>0, <1>7 DEF RoundsDone, FetchTree, Tick
<1>8. CASE DropRowRefused \/ WriteRowRefused \/ SyncEmails \/ \E b \in Box : RenameRefused(b)
  BY <1>8, IdleType DEF DropRowRefused, WriteRowRefused, SyncEmails, RenameRefused, Turn,
                        FetchTree
<1>9. ASSUME NEW b \in Box, RemoveDir(b)
      PROVE  ~FetchTree /\ tick'.target = tick.target /\ tick'.known = tick.known
  BY <1>0, <1>9 DEF RemoveDir, FetchTree, Tick
<1>10. ASSUME NEW b \in Box, Create(b) \/ Skip(b) \/ Update(b)
       PROVE  ~FetchTree /\ tick'.target = tick.target /\ tick'.known = tick.known
  BY <1>0, <1>10 DEF Create, Skip, Update, Turn, WriteNext, Emit, FetchTree, Tick
<1> QED BY <1>1, <1>2, <1>3, <1>4, <1>5, <1>6, <1>7, <1>8, <1>9, <1>10 DEF Daemon

\* ... and to the rows.
Written(b, new) ==
    /\ tick.pc = "placed" /\ b = tick.box /\ b \in tick.left
    /\ new.path = tick.target[b].path
    /\ tick' = Emit(b)
    /\ rows' = [rows EXCEPT ![b] = new]

LEMMA RowsStep ==
    ASSUME Sound, Daemon
    PROVE  \/ rows' = rows
           \/ DropRow /\ rows' = [rows EXCEPT ![tick.box] = NoRow]
           \/ \E b \in Box, new \in BoxRow : WriteRow /\ Written(b, new)
<1>1. CASE WriteRow
  <2>1. tick.box \in Box /\ tick.new \in BoxRow /\ Written(tick.box, tick.new)
    BY <1>1 DEF WriteRow, Written, Sound, TypeOK, Tick, TickOK
  <2> QED BY <1>1, <2>1
<1>2. CASE ~WriteRow
  BY <1>2 DEF Daemon, StartTick, FetchTree, DropRow, DropRowRefused, DeletesDone, NextRound,
              WriteRowRefused, RoundsDone, SyncEmails, RemoveDir, Create, Skip, Update,
              RenameRefused, db
<1> QED BY <1>1, <1>2

\* A mailbox that is new has no row, and the others keep their paths.
LEMMA ServerKeepsPaths ==
    ASSUME Sound, Renames = FALSE, NEW b \in Box, ServerStep(b)
    PROVE  /\ SamePaths(tree, tree')
           /\ \A c \in Present(tree') \ Present(tree) :
                 c \notin Those(rows) \cup Those(tick.known) \cup Those(tick.target)
<1>1. Treed(tree) /\ IsPaths(tree, PathIn(tree))
  BY DEF Sound, TreeOK
<1>2. ASSUME NEW n \in Name, NEW p \in Box \cup {Root}, NEW k \in BOOLEAN, CreateBox(b, n, p, k)
      PROVE  /\ SamePaths(tree, tree') /\ Present(tree') = Present(tree) \cup {b}
             /\ b \notin Those(rows) \cup Those(tick.known) \cup Those(tick.target)
  <2>1. PICK node \in Node : /\ node.name = n /\ node.parent = p
                             /\ tree' = [tree EXCEPT ![b] = node]
    BY <1>2 DEF CreateBox, Node
  <2>2. node.parent \in Present(tree) \cup {Root} /\ b \in Box \ Present(tree)
    BY <1>2, <2>1 DEF CreateBox, Fresh
  <2>3. \A c \in Present(tree) : tree[c].parent = node.parent => tree[c].name # node.name
    BY <1>2, <2>1, <2>2 DEF CreateBox, FreeName
  <2>4. SamePaths(tree, tree') /\ Present(tree') = Present(tree) \cup {b}
    BY <1>1, <2>1, <2>2, <2>3, CreatePaths
  <2>5. b \notin Those(rows) \cup Those(tick.known) \cup Those(tick.target)
    BY <1>2 DEF CreateBox, Fresh
  <2> QED BY <2>4, <2>5
<1>3. CASE DestroyBox(b)
  <2>1. SamePaths(tree, tree') /\ Present(tree') = Present(tree) \ {b}
    BY <1>1, <1>3, DestroyPaths DEF DestroyBox
  <2> QED BY <2>1
<1>4. CASE KeepBox(b)
  <2>1. b \in Present(tree) /\ (~tree[b].kept) \in BOOLEAN
    BY <1>4 DEF KeepBox
  <2>2. tree' = [tree EXCEPT ![b].kept = ~tree[b].kept]
    BY <1>4 DEF KeepBox
  <2> QED BY <1>1, <2>1, <2>2, KeepPaths
<1>5. ~(\E n \in Name, p \in Box \cup {Root} : RenameBox(b, n, p))
  BY DEF RenameBox
<1> QED BY <1>2, <1>3, <1>4, <1>5 DEF ServerStep

\* Rows and targets hold the paths that the server's tree gives now.
StillOK ==
    /\ \A b \in Those(rows) \cap Present(tree) : rows[b].path = PathIn(tree)[b]
    /\ \A b \in Those(tick.target) \cap Present(tree) : tick.target[b].path = PathIn(tree)[b]
    /\ \A b \in Those(tick.known) \cap Those(tick.target) :
          tick.known[b].path = tick.target[b].path

LEMMA StillOKInit == Init => StillOK
BY DEF Init, StillOK, Those, None, Idle

LEMMA StillOKStep ==
    ASSUME Renames = FALSE, Sound, StillOK, [Next]_vars
    PROVE  StillOK'
<1>1. CASE Daemon
  <2>1. tree' = tree
    BY <1>1, DaemonType
  <2>2. Present(tree') = Present(tree) /\ PathIn(tree') = PathIn(tree)
    BY <2>1
  <2>3. ASSUME FetchTree, tick'.target = Target(tree), tick'.known = rows, rows' = rows
        PROVE  StillOK'
    <3>1. \A b \in Those(tick'.target) : b \in Present(tree) /\ tick'.target[b].path = PathIn(tree)[b]
      BY <2>3, TargetType DEF Sound, TreeOK
    <3> QED BY <2>1, <2>2, <2>3, <3>1 DEF StillOK
  <2>4. ASSUME \/ tick'.target = None /\ tick'.known = None
               \/ tick'.target = tick.target /\ tick'.known = tick.known
        PROVE  /\ \A b \in Those(tick'.target) \cap Present(tree) :
                     tick'.target[b].path = PathIn(tree)[b]
               /\ \A b \in Those(tick'.known) \cap Those(tick'.target) :
                     tick'.known[b].path = tick'.target[b].path
    BY <2>4 DEF StillOK, Those, None
  <2>5. ASSUME ~FetchTree
        PROVE  \A b \in Those(rows') \cap Present(tree) : rows'[b].path = PathIn(tree)[b]
    <3>1. CASE rows' = rows
      BY <3>1 DEF StillOK
    <3>2. CASE rows' = [rows EXCEPT ![tick.box] = NoRow]
      BY <3>2 DEF StillOK, Those, Sound, TypeOK
    <3>3. ASSUME NEW c \in Box, NEW new \in BoxRow, Written(c, new)
          PROVE  \A b \in Those(rows') \cap Present(tree) : rows'[b].path = PathIn(tree)[b]
      <4>1. c \in Those(tick.target) /\ new.path = tick.target[c].path
            /\ rows' = [rows EXCEPT ![c] = new]
        BY <3>3 DEF Written, Sound, TickOK
      <4>2. rows'[c] = new /\ \A b \in Box \ {c} : rows'[b] = rows[b]
        BY <4>1 DEF Sound, TypeOK
      <4> QED BY <4>1, <4>2 DEF StillOK, Those
    <3> QED BY <1>1, <3>1, <3>2, <3>3, RowsStep
  <2>6. ASSUME ~FetchTree, \/ tick'.target = None /\ tick'.known = None
                           \/ tick'.target = tick.target /\ tick'.known = tick.known
        PROVE  StillOK'
    BY <2>2, <2>4, <2>5, <2>6 DEF StillOK
  <2> QED BY <1>1, <2>3, <2>6, TickStep
<1>2. CASE Others
  <2>1. rows' = rows /\ tick' = tick
    BY <1>2, OthersType DEF db
  <2>2. CASE UNCHANGED tree
    BY <2>1, <2>2 DEF StillOK
  <2>3. ASSUME NEW b \in Box, ServerStep(b) PROVE StillOK'
    <3>1. /\ \A c \in Present(tree) \cap Present(tree') : PathIn(tree')[c] = PathIn(tree)[c]
          /\ \A c \in Present(tree') \ Present(tree) :
                 c \notin Those(rows) \cup Those(tick.known) \cup Those(tick.target)
      BY <2>3, ServerKeepsPaths DEF SamePaths
    <3> QED BY <2>1, <3>1 DEF StillOK
  <2>4. UNCHANGED tree \/ \E b \in Box : ServerStep(b)
    BY <1>2 DEF Others, ServerStep, PutMail, DestroyMail
  <2> QED BY <2>2, <2>3, <2>4
<1>3. CASE Failures
  <2>1. tick' = Idle /\ rows' = rows /\ tree' = tree
    BY <1>3, FailuresType DEF remote, db
  <2> QED BY <2>1, IdleType DEF StillOK, Those, None
<1>4. CASE UNCHANGED vars
  BY <1>4 DEF vars, StillOK
<1> QED BY <1>1, <1>2, <1>3, <1>4 DEF Next

LEMMA StillAlways == ASSUME Renames = FALSE PROVE Spec => [](Sound /\ StillOK)
<1>1. Init => StillOK
  BY StillOKInit
<1>2. Sound /\ StillOK /\ [Next]_vars => StillOK'
  BY StillOKStep
<1> QED BY <1>1, <1>2, SoundAlways, PTL DEF Spec

\* So the diff finds no directory to move.
LEMMA NothingMoves ==
    ASSUME Sound, StillOK, NEW b \in Box
    PROVE  /\ Update(b) => UNCHANGED disk
           /\ ~RenameRefused(b)
<1>1. ASSUME Turn(b), tick.known[b] # NoRow PROVE tick.known[b].path = tick.target[b].path
  BY <1>1, TurnFacts DEF StillOK, Those, Sound, TickOK
<1> QED BY <1>1 DEF Update, RenameRefused

\* What a step of the daemon's does to the disk then.
LEMMA DiskStep ==
    ASSUME Sound, StillOK, Daemon
    PROVE  \/ UNCHANGED disk
           \/ \E b \in Box : RemoveDir(b)
           \/ \E b \in Box : Create(b) /\ MakeMaildir(tick.target[b].path)
           \/ SyncEmails /\ maildirs \subseteq maildirs'
<1>1. SyncEmails => maildirs \subseteq maildirs'
  BY DEF SyncEmails
<1> QED BY <1>1, NothingMoves DEF Daemon, StartTick, FetchTree, DropRow, DropRowRefused,
           DeletesDone, NextRound, WriteRow, WriteRowRefused, RoundsDone, Create, Skip

\* The diff never removes a client-only folder, even when a mailbox of that
\* name comes and goes on the server.
THEOREM ClientFoldersSurvive == ASSUME Renames = FALSE PROVE Spec => []ClientFoldersStay
<1>1. Init => ClientFoldersStay
  BY DEF Init, ClientFoldersStay
<1>2. ASSUME Sound, StillOK, ClientFoldersStay, [Next]_vars PROVE ClientFoldersStay'
  <2>1. CASE UNCHANGED disk
    BY <1>2, <2>1 DEF ClientFoldersStay, disk
  <2>2. ASSUME NEW b \in Box, RemoveDir(b) PROVE ClientFoldersStay'
    <3>1. PICK p \in Paths : p = tick.known[b].path /\ p \notin Excluded
      BY <1>2, <2>2 DEF RemoveDir, Sound, TypeOK, Tick, TickOK, BoxRow
    <3>2. \A x \in Excluded : ~Under(p, x)
      BY <3>1, OverSingle
    <3> QED BY <1>2, <2>2, <3>1, <3>2 DEF RemoveDir, RemoveTree, ClientFoldersStay
  <2>3. ASSUME NEW p, MakeMaildir(p) PROVE ClientFoldersStay'
    BY <1>2, <2>3 DEF MakeMaildir, ClientFoldersStay
  <2>4. CASE maildirs \subseteq maildirs'
    BY <1>2, <2>4 DEF ClientFoldersStay
  <2>5. CASE Daemon
    BY <1>2, <2>1, <2>2, <2>3, <2>4, <2>5, DiskStep
  <2>6. CASE Others \/ Failures
    BY <1>2, <2>1, <2>6, OthersType, FailuresType
  <2>7. CASE UNCHANGED vars
    BY <2>1, <2>7 DEF vars, disk
  <2> QED BY <1>2, <2>5, <2>6, <2>7 DEF Next
<1> QED BY <1>1, <1>2, StillAlways, PTL DEF Spec

(***************************************************************************)
(* ... and no mailbox leaves the mirror but by being destroyed             *)
(***************************************************************************)

\* Nothing that is gone, and not a client-only folder, has a path above that
\* of a mailbox that is there.
Apart(r) ==
    \A b, c \in Those(r) :
       (b \in Present(tree) /\ c \notin Present(tree) /\ r[c].path \notin Excluded)
          => ~Under(r[c].path, r[b].path)

ApartOK ==
    /\ Apart(rows)
    /\ Apart(tick.target)
    /\ \A b \in Those(tick.known) \cap Those(tick.target),
          c \in Those(tick.known) \ Those(tick.target) :
          tick.known[c].path \notin Excluded => ~Under(tick.known[c].path, tick.known[b].path)

\* What was mirrored stays so; what is to be deleted is gone from the server.
KeptOK ==
    /\ \A b \in (Those(rows) \cup Those(tick.target)) \cap Present(tree) : tree[b].kept
    /\ \A c \in Those(tick.known) \ Those(tick.target) : c \notin Present(tree)

Steady == Sound /\ RowsOK /\ StillOK

LEMMA SteadyAlways == ASSUME Renames = FALSE PROVE Spec => []Steady
<1>1. Init => RowsOK
  BY RowsOKInit
<1>2. Sound /\ RowsOK /\ [Next]_vars => RowsOK'
  BY RowsOKStep
<1>3. Sound /\ StillOK /\ RowsOK => Steady
  BY DEF Steady
<1> QED BY <1>1, <1>2, <1>3, StillAlways, PTL DEF Spec

LEMMA KeptOKInit == Init => KeptOK
BY DEF Init, KeptOK, Those, None, Idle

LEMMA ApartOKInit == Init => ApartOK
BY DEF Init, ApartOK, Apart, Those, None, Idle

\* What the server's steps leave of the tree.
LEMMA ServerKeepsNodes ==
    ASSUME Steady, Renames = FALSE, Unkeeps = FALSE, NEW b \in Box, ServerStep(b)
    PROVE  /\ \A c \in Present(tree') \ Present(tree) :
                 c \notin Those(rows) \cup Those(tick.known) \cup Those(tick.target)
           /\ \A c \in Present(tree) \cap Present(tree') : tree'[c].kept = tree[c].kept
           /\ \A c \in Present(tree) \ Present(tree') : c = b /\ DestroyBox(b)
<1>1. tree \in [Box -> Node \cup {NoNode}]
  BY DEF Steady, Sound, TypeOK
<1>2. ASSUME NEW n \in Name, NEW p \in Box \cup {Root}, NEW k \in BOOLEAN, CreateBox(b, n, p, k)
      PROVE  /\ \A c \in Box \ {b} : tree'[c] = tree[c]
             /\ b \notin Present(tree)
             /\ b \notin Those(rows) \cup Those(tick.known) \cup Those(tick.target)
  BY <1>1, <1>2 DEF CreateBox, Fresh
<1>3. CASE DestroyBox(b)
  <2>1. /\ \A c \in Box \ {b} : tree'[c] = tree[c]
        /\ tree'[b] = NoNode
    BY <1>1, <1>3 DEF DestroyBox
  <2> QED BY <1>3, <2>1 DEF Present
<1>4. ~KeepBox(b) /\ ~(\E n \in Name, p \in Box \cup {Root} : RenameBox(b, n, p))
  BY DEF KeepBox, RenameBox
<1>5. CASE /\ \A c \in Box \ {b} : tree'[c] = tree[c]
           /\ b \notin Present(tree)
           /\ b \notin Those(rows) \cup Those(tick.known) \cup Those(tick.target)
  BY <1>5 DEF Present
<1> QED BY <1>2, <1>3, <1>4, <1>5 DEF ServerStep

LEMMA KeptOKStep ==
    ASSUME Renames = FALSE, Unkeeps = FALSE, Steady, KeptOK, [Next]_vars
    PROVE  KeptOK'
<1> USE DEF Steady
<1>1. CASE Daemon
  <2>1. tree' = tree
    BY <1>1, DaemonType
  <2>2. Those(rows') \subseteq Those(rows) \cup Those(tick.target)
    <3>1. CASE rows' = [rows EXCEPT ![tick.box] = NoRow]
      BY <3>1 DEF Those, Sound, TypeOK
    <3>2. ASSUME NEW c \in Box, NEW new \in BoxRow, Written(c, new)
          PROVE  Those(rows') \subseteq Those(rows) \cup Those(tick.target)
      BY <3>2 DEF Written, Those, Sound, TypeOK, TickOK
    <3> QED BY <1>1, <3>1, <3>2, RowsStep
  <2>3. ASSUME tick'.target = Target(tree), tick'.known = rows, rows' = rows
        PROVE  KeptOK'
    <3>1. \A b \in Those(tick'.target) : b \in Present(tree) /\ tree[b].kept
      BY <2>3, TargetType DEF Sound, TreeOK
    <3>2. \A b \in Present(tree) : tree[b].kept => b \in Those(tick'.target)
      <4> SUFFICES ASSUME NEW b \in Present(tree), tree[b].kept PROVE Target(tree)[b] # NoRow
        BY <2>3 DEF Those, Present
      <4>1. Target(tree)[b] = [name |-> tree[b].name, parent |-> tree[b].parent,
                               path |-> PathIn(tree)[b]]
        BY DEF Target, Present
      <4>2. tree[b] \in Node /\ PathIn(tree)[b] \in Paths
        BY NodeFacts DEF Sound, TreeOK, IsPaths
      <4>3. Target(tree)[b] \in BoxRow
        BY <4>1, <4>2 DEF Node, BoxRow
      <4> QED BY <4>3, NullsAssumption
    <3> QED BY <2>1, <2>3, <3>1, <3>2 DEF KeptOK
  <2>4. ASSUME \/ tick'.target = None /\ tick'.known = None
               \/ tick'.target = tick.target /\ tick'.known = tick.known
        PROVE  KeptOK'
    <3>1. Those(tick'.target) \subseteq Those(tick.target)
          /\ Those(tick'.known) \ Those(tick'.target) \subseteq Those(tick.known) \ Those(tick.target)
      BY <2>4 DEF Those, None
    <3> QED BY <2>1, <2>2, <3>1 DEF KeptOK
  <2> QED BY <1>1, <2>3, <2>4, TickStep
<1>2. CASE Others
  <2>1. rows' = rows /\ tick' = tick
    BY <1>2, OthersType DEF db
  <2>2. CASE UNCHANGED tree
    BY <2>1, <2>2 DEF KeptOK
  <2>3. ASSUME NEW b \in Box, ServerStep(b) PROVE KeptOK'
    BY <2>1, <2>3, ServerKeepsNodes DEF KeptOK
  <2>4. UNCHANGED tree \/ \E b \in Box : ServerStep(b)
    BY <1>2 DEF Others, ServerStep, PutMail, DestroyMail
  <2> QED BY <2>2, <2>3, <2>4
<1>3. CASE Failures
  <2>1. tick' = Idle /\ rows' = rows /\ tree' = tree
    BY <1>3, FailuresType DEF remote, db
  <2> QED BY <2>1, IdleType DEF KeptOK, Those, None
<1>4. CASE UNCHANGED vars
  BY <1>4 DEF vars, KeptOK
<1> QED BY <1>1, <1>2, <1>3, <1>4 DEF Next

\* A destroyed mailbox had no children, so its directory is above no other.
LEMMA ApartDestroyed ==
    ASSUME Distinct, Steady, NEW x \in Box, DestroyBox(x), NEW r \in [Box -> BoxRow \cup {NoRow}],
           Apart(r), \A b \in Those(r) \cap Present(tree) : r[b].path = PathIn(tree)[b]
    PROVE  Apart(r)'
<1>1. Treed(tree) /\ IsPaths(tree, PathIn(tree)) /\ tree \in [Box -> Node \cup {NoNode}]
  BY DEF Steady, Sound, TreeOK, TypeOK
<1>2. Present(tree') = Present(tree) \ {x} /\ x \in Present(tree)
  BY <1>1, DestroyPaths DEF DestroyBox
<1>3. \A b \in Present(tree) \ {x} : ~Under(PathIn(tree)[x], PathIn(tree)[b])
  BY <1>1, <1>2, LeafPaths DEF DestroyBox
<1> SUFFICES ASSUME NEW b \in Those(r), NEW c \in Those(r),
                    b \in Present(tree'), c \notin Present(tree'), r[c].path \notin Excluded
             PROVE  ~Under(r[c].path, r[b].path)
  BY DEF Apart
<1>4. CASE c = x
  BY <1>2, <1>3, <1>4
<1>5. CASE c # x
  BY <1>2, <1>5 DEF Apart
<1> QED BY <1>4, <1>5

\* The row that is written has the path of its target, and so has every row
\* that is not a client-only folder's by now, or will have.
LEMMA ApartWritten ==
    ASSUME Steady, ApartOK, NEW x \in Box, NEW new \in BoxRow, Written(x, new)
    PROVE  \A b, c \in Those(rows') :
              (b \in Present(tree) /\ c \notin Present(tree) /\ rows'[c].path \notin Excluded)
                 => ~Under(rows'[c].path, rows'[b].path)
<1>1. /\ tick.pc = "placed" /\ x \in Those(tick.target) /\ new.path = tick.target[x].path
      /\ rows' = [rows EXCEPT ![x] = new] /\ rows \in [Box -> BoxRow \cup {NoRow}]
  BY DEF Written, Steady, Sound, TickOK, TypeOK
<1>2. rows'[x] = new /\ \A b \in Box \ {x} : rows'[b] = rows[b]
  BY <1>1
<1>3. ASSUME NEW b \in Those(rows'), b \in Those(tick.target)
      PROVE  rows'[b].path = tick.target[b].path
  <2>1. CASE b = x
    BY <1>1, <1>2, <2>1
  <2>2. CASE b # x /\ b \in tick.left
    <3>1. rows'[b] = tick.known[b] /\ b \in Those(tick.known)
      BY <1>1, <1>2, <1>3, <2>2 DEF Steady, RowsOK, RowOK, Those
    <3> QED BY <1>3, <3>1 DEF Steady, StillOK
  <2>3. CASE b # x /\ b \notin tick.left
    BY <1>1, <1>2, <1>3, <2>3 DEF Steady, RowsOK, RowOK, Those
  <2> QED BY <2>1, <2>2, <2>3
<1>4. ASSUME NEW b \in Those(rows'), b \notin Those(tick.target)
      PROVE  rows'[b].path \in Excluded
  <2>1. b \in Box \ {x} /\ tick.target[b] = NoRow
    BY <1>1, <1>4 DEF Those
  <2> QED BY <1>1, <1>2, <1>4, <2>1 DEF Steady, RowsOK, RowOK, Those
<1>5. \A b \in Those(rows') : rows'[b].path \in Paths
  BY <1>1, <1>2 DEF Those, BoxRow
<1> SUFFICES ASSUME NEW b \in Those(rows'), NEW c \in Those(rows'),
                    b \in Present(tree), c \notin Present(tree), rows'[c].path \notin Excluded
             PROVE  ~Under(rows'[c].path, rows'[b].path)
  OBVIOUS
<1>6. c \in Those(tick.target) /\ rows'[c].path = tick.target[c].path
  BY <1>3, <1>4
<1>7. CASE b \in Those(tick.target)
  BY <1>3, <1>6, <1>7 DEF ApartOK, Apart
<1>8. CASE b \notin Those(tick.target)
  BY <1>4, <1>5, <1>8, OverSingle
<1> QED BY <1>7, <1>8

LEMMA ApartOKStep ==
    ASSUME Renames = FALSE, Unkeeps = FALSE, Distinct, Steady, KeptOK, ApartOK, [Next]_vars
    PROVE  ApartOK'
<1> USE DEF Steady
<1>1. CASE Daemon
  <2>1. tree' = tree
    BY <1>1, DaemonType
  <2>3. Apart(rows)'
    <3>1. CASE rows' = rows
      BY <2>1, <3>1 DEF Apart, ApartOK
    <3>2. CASE rows' = [rows EXCEPT ![tick.box] = NoRow]
      BY <2>1, <3>2 DEF Apart, ApartOK, Those, Sound, TypeOK
    <3>3. ASSUME NEW c \in Box, NEW new \in BoxRow, Written(c, new) PROVE Apart(rows)'
      BY <2>1, <3>3, ApartWritten DEF Apart
    <3> QED BY <1>1, <3>1, <3>2, <3>3, RowsStep
  <2>4. ASSUME tick'.target = Target(tree), tick'.known = rows, rows' = rows
        PROVE  ApartOK'
    <3>1. \A b \in Those(tick'.target) : b \in Present(tree)
      BY <2>4, TargetType DEF Sound, TreeOK
    <3>2. Apart(tick.target)'
      BY <2>1, <2>4, <3>1 DEF Apart
    <3>3. \A c \in Those(tick'.known) \ Those(tick'.target) : c \notin Present(tree)
      BY <1>1, <2>1, KeptOKStep DEF KeptOK, Next
    <3> QED BY <2>3, <2>4, <3>1, <3>2, <3>3 DEF ApartOK, Apart
  <2>5. ASSUME \/ tick'.target = None /\ tick'.known = None
               \/ tick'.target = tick.target /\ tick'.known = tick.known
        PROVE  ApartOK'
    <3>1. CASE tick'.target = None /\ tick'.known = None
      BY <2>3, <3>1 DEF ApartOK, Apart, Those, None
    <3>2. CASE tick'.target = tick.target /\ tick'.known = tick.known
      BY <2>1, <2>3, <3>2 DEF ApartOK, Apart
    <3> QED BY <2>5, <3>1, <3>2
  <2> QED BY <1>1, <2>4, <2>5, TickStep
<1>2. CASE Others
  <2>1. rows' = rows /\ tick' = tick
    BY <1>2, OthersType DEF db
  <2>2. CASE UNCHANGED tree
    BY <2>1, <2>2 DEF ApartOK, Apart
  <2>3. ASSUME NEW b \in Box, ServerStep(b) PROVE ApartOK'
    <3>1. CASE DestroyBox(b)
      <4>1. /\ rows \in [Box -> BoxRow \cup {NoRow}]
            /\ tick.target \in [Box -> BoxRow \cup {NoRow}]
        BY DEF Sound, TypeOK, Tick
      <4>2. \A c, d \in Those(rows) :
               (c \in Present(tree') /\ d \notin Present(tree') /\ rows[d].path \notin Excluded)
                  => ~Under(rows[d].path, rows[c].path)
        <5>1. PICK r \in [Box -> BoxRow \cup {NoRow}] : r = rows
          BY <4>1
        <5>2. Apart(r) /\ \A c \in Those(r) \cap Present(tree) : r[c].path = PathIn(tree)[c]
          BY <5>1 DEF ApartOK, StillOK
        <5> QED BY <3>1, <5>1, <5>2, ApartDestroyed DEF Apart
      <4>3. \A c, d \in Those(tick.target) :
               (c \in Present(tree') /\ d \notin Present(tree')
                   /\ tick.target[d].path \notin Excluded)
                  => ~Under(tick.target[d].path, tick.target[c].path)
        <5>1. PICK r \in [Box -> BoxRow \cup {NoRow}] : r = tick.target
          BY <4>1
        <5>2. Apart(r) /\ \A c \in Those(r) \cap Present(tree) : r[c].path = PathIn(tree)[c]
          BY <5>1 DEF ApartOK, StillOK
        <5> QED BY <3>1, <5>1, <5>2, ApartDestroyed DEF Apart
      <4> QED BY <2>1, <4>2, <4>3 DEF ApartOK, Apart
    <3>2. CASE ~DestroyBox(b)
      <4>1. /\ Present(tree) \subseteq Present(tree')
            /\ \A c \in Present(tree') \ Present(tree) : c \notin Those(rows) \cup Those(tick.target)
        BY <2>3, <3>2, ServerKeepsNodes
      <4> QED BY <2>1, <4>1 DEF ApartOK, Apart
    <3> QED BY <3>1, <3>2
  <2>4. UNCHANGED tree \/ \E b \in Box : ServerStep(b)
    BY <1>2 DEF Others, ServerStep, PutMail, DestroyMail
  <2> QED BY <2>2, <2>3, <2>4
<1>3. CASE Failures
  <2>1. tick' = Idle /\ rows' = rows /\ tree' = tree
    BY <1>3, FailuresType DEF remote, db
  <2> QED BY <2>1, IdleType DEF ApartOK, Apart, Those, None
<1>4. CASE UNCHANGED vars
  BY <1>4 DEF vars, ApartOK, Apart
<1> QED BY <1>1, <1>2, <1>3, <1>4 DEF Next

\* What a deletion leaves: a directory that a mailbox on the server has a row
\* for, and one of the target set that the tick found in the table.
LEMMA RemoveSpares ==
    ASSUME Steady, KeptOK, ApartOK, NEW x \in Box, RemoveDir(x)
    PROVE  /\ \A b \in Those(rows) \cap Present(tree) : ~Under(tick.known[x].path, rows[b].path)
           /\ \A b \in Those(tick.known) \cap Those(tick.target) :
                 ~Under(tick.known[x].path, tick.target[b].path)
<1>1. /\ tick.pc = "deletes" /\ x \in Those(tick.known) \ Those(tick.target)
      /\ tick.known[x].path \notin Excluded /\ tick.known[x].path \in Paths
      /\ rows \in [Box -> BoxRow \cup {NoRow}]
  BY DEF RemoveDir, Steady, Sound, TickOK, TypeOK, Tick, Those, BoxRow
<1>2. \A b \in Those(tick.known) \cap Those(tick.target) :
         /\ ~Under(tick.known[x].path, tick.known[b].path)
         /\ tick.known[b].path = tick.target[b].path
  BY <1>1 DEF ApartOK, Steady, StillOK
<1>3. ASSUME NEW b \in Those(rows) \cap Present(tree)
      PROVE  ~Under(tick.known[x].path, rows[b].path)
  <2>1. CASE b \in Those(tick.target)
    <3>1. rows[b] = tick.known[b] /\ b \in Those(tick.known)
      BY <1>1, <2>1 DEF Steady, RowsOK, RowOK, Those
    <3> QED BY <1>2, <2>1, <3>1
  <2>2. CASE b \in tick.doomed
    <3>1. b \in Those(tick.known) \ Those(tick.target)
      BY <2>2 DEF Steady, Sound, TickOK, Those
    <3> QED BY <3>1 DEF KeptOK
  <2>3. CASE b \notin Those(tick.target) /\ b \notin tick.doomed
    <3>1. rows[b].path \in Excluded
      BY <1>1, <2>3 DEF Steady, RowsOK, RowOK, Those
    <3> QED BY <1>1, <3>1, OverSingle
  <2> QED BY <2>1, <2>2, <2>3
<1> QED BY <1>2, <1>3

\* b's turn has gone so far that its directory is there.
Placed(b) ==
    \/ b \in Those(tick.known)
    \/ tick.pc \in {"rounds", "placed", "emails"} /\ b \notin tick.left
    \/ tick.pc = "placed" /\ b = tick.box

DirsOK ==
    /\ \A b \in Those(rows) \cap Present(tree) : rows[b].path \in maildirs
    /\ \A b \in Those(tick.target) : Placed(b) => tick.target[b].path \in maildirs

LEMMA DirsOKInit == Init => DirsOK
BY DEF Init, DirsOK, Those, None, Idle

\* Whose directory is made in a step, or was there before.
LEMMA PlacedStep ==
    ASSUME Steady, Daemon, ~FetchTree, tick'.target = tick.target, tick'.known = tick.known,
           NEW b \in Those(tick.target), Placed(b)'
    PROVE  Placed(b) \/ Create(b)
<1> USE DEF Steady
<1>0. tick \in Tick /\ TickOK
  BY DEF Sound, TypeOK
<1>1. CASE b \in Those(tick.known)
  BY <1>1 DEF Placed
<1>2. CASE b \notin Those(tick.known)
  <2>1. \/ tick'.pc \in {"rounds", "placed", "emails"} /\ b \notin tick'.left
        \/ tick'.pc = "placed" /\ b = tick'.box
    BY <1>2 DEF Placed
  <2>2. CASE DeletesDone
    BY <1>0, <2>1, <2>2 DEF DeletesDone, Tick
  <2>3. CASE NextRound
    BY <1>0, <2>1, <2>3 DEF NextRound, Tick, Placed
  <2>4. ASSUME NEW c \in Box, Create(c) PROVE Placed(b) \/ Create(b)
    BY <1>0, <2>1, <2>4 DEF Create, Turn, WriteNext, Tick, Placed
  <2>5. ASSUME NEW c \in Box, Update(c) PROVE Placed(b) \/ Create(b)
    <3>1. tick.pc = "rounds" /\ c \in Those(tick.known)
      BY <2>5 DEF Update, Turn, Those
    <3>2. tick'.pc = "placed" /\ tick'.box = c /\ tick'.left = tick.left
      BY <1>0, <2>5 DEF Update, WriteNext, Tick
    <3> QED BY <1>2, <2>1, <3>1, <3>2 DEF Placed
  <2>6. ASSUME NEW c \in Box, Skip(c) PROVE Placed(b) \/ Create(b)
    <3>1. tick.pc = "rounds" /\ c \in tick.left /\ tick.known[c] = RowWith(c, KnownParent(c))
          /\ KnownParent(c) \in Box \cup {Root}
      BY <2>6, TurnFacts DEF Skip, Unchanged
    <3>2. c \in Those(tick.known)
      BY <3>1, RowWithType, NullsAssumption DEF Those
    <3>3. tick'.pc = "rounds" /\ tick'.left = tick.left \ {c}
      BY <1>0, <2>6 DEF Skip, Emit, Tick
    <3> QED BY <1>2, <2>1, <3>1, <3>2, <3>3 DEF Placed
  <2>7. CASE WriteRow
    <3>1. tick.pc = "placed" /\ tick'.pc = "rounds" /\ tick'.left = tick.left \ {tick.box}
      BY <1>0, <2>7 DEF WriteRow, Emit, Tick
    <3> QED BY <2>1, <3>1 DEF Placed
  <2>8. CASE RoundsDone
    BY <1>0, <2>1, <2>8 DEF RoundsDone, Tick, Placed
  <2>9. ASSUME \/ StartTick \/ DropRow \/ DropRowRefused \/ WriteRowRefused \/ SyncEmails
               \/ \E c \in Box : RemoveDir(c) \/ RenameRefused(c)
        PROVE  FALSE
    <3>1. CASE \E c \in Box : RemoveDir(c)
      BY <1>0, <2>1, <3>1 DEF RemoveDir, Tick
    <3>2. CASE DropRow
      BY <1>0, <2>1, <3>2 DEF DropRow, Tick
    <3>3. CASE StartTick
      BY <2>1, <3>3 DEF StartTick, Idle
    <3>4. ASSUME tick' = Idle PROVE FALSE
      BY <2>1, <3>4, IdleType
    <3> QED BY <2>9, <3>1, <3>2, <3>3, <3>4
            DEF DropRowRefused, WriteRowRefused, SyncEmails, RenameRefused
  <2> QED BY <2>2, <2>3, <2>4, <2>5, <2>6, <2>7, <2>8, <2>9 DEF Daemon
<1> QED BY <1>1, <1>2

LEMMA DirsOKStep ==
    ASSUME Renames = FALSE, Unkeeps = FALSE, Steady, KeptOK, ApartOK, DirsOK, [Next]_vars
    PROVE  DirsOK'
<1> USE DEF Steady
<1>1. CASE Daemon
  <2>1. tree' = tree /\ Present(tree') = Present(tree)
    BY <1>1, DaemonType
  <2>2. ASSUME NEW p \in maildirs,
               \/ \E b \in Those(rows) \cap Present(tree) : p = rows[b].path
               \/ \E b \in Those(tick.known) \cap Those(tick.target) : p = tick.target[b].path
               \/ ~\E x \in Box : RemoveDir(x)
        PROVE  p \in maildirs'
    <3>1. ASSUME NEW x \in Box, RemoveDir(x) PROVE p \in maildirs'
      <4>1. tick.pc = "deletes" /\ maildirs' = {d \in maildirs : ~Under(tick.known[x].path, d)}
        BY <3>1 DEF RemoveDir, RemoveTree
      <4>2. ~Under(tick.known[x].path, p)
        BY <2>2, <3>1, RemoveSpares
      <4> QED BY <4>1, <4>2
    <3>2. CASE ~\E x \in Box : RemoveDir(x)
      BY <1>1, <3>2, DiskStep DEF disk, MakeMaildir
    <3> QED BY <3>1, <3>2
  <2>3. \A b \in Those(rows) \cap Present(tree) : rows[b].path \in maildirs'
    BY <2>2 DEF DirsOK
  <2>4. \A b \in Those(rows') \cap Present(tree') : rows'[b].path \in maildirs'
    <3>1. CASE rows' = rows
      BY <2>1, <2>3, <3>1
    <3>2. CASE rows' = [rows EXCEPT ![tick.box] = NoRow]
      BY <2>1, <2>3, <3>2 DEF Those, Sound, TypeOK
    <3>3. ASSUME NEW c \in Box, NEW new \in BoxRow, WriteRow, Written(c, new)
          PROVE  \A b \in Those(rows') \cap Present(tree') : rows'[b].path \in maildirs'
      <4>1. /\ tick.pc = "placed" /\ c = tick.box /\ c \in Those(tick.target)
            /\ new.path = tick.target[c].path /\ rows' = [rows EXCEPT ![c] = new]
        BY <3>3 DEF Written, Sound, TickOK
      <4>2. new.path \in maildirs /\ maildirs' = maildirs
        BY <3>3, <4>1 DEF DirsOK, Placed, WriteRow, disk
      <4>3. rows'[c] = new /\ \A b \in Box \ {c} : rows'[b] = rows[b]
        BY <4>1 DEF Sound, TypeOK
      <4> QED BY <2>1, <2>3, <4>2, <4>3 DEF Those
    <3> QED BY <1>1, <3>1, <3>2, <3>3, RowsStep
  <2>5. \A b \in Those(tick'.target) : Placed(b)' => tick'.target[b].path \in maildirs'
    <3>1. ASSUME FetchTree, tick'.target = Target(tree), tick'.known = rows,
                 NEW b \in Those(tick'.target), Placed(b)'
          PROVE  tick'.target[b].path \in maildirs'
      <4>1. b \in Present(tree) /\ tick'.target[b].path = PathIn(tree)[b]
        BY <3>1, TargetType DEF Sound, TreeOK
      <4>2. tick'.pc = "deletes"
        BY <3>1 DEF FetchTree, Sound, TypeOK, Tick
      <4>3. b \in Those(rows)
        BY <3>1, <4>2 DEF Placed
      <4>4. tick'.target[b].path = rows[b].path
        BY <4>1, <4>3 DEF StillOK
      <4> QED BY <2>3, <4>1, <4>3, <4>4
    <3>2. CASE tick'.target = None
      BY <3>2 DEF Those, None
    <3>3. ASSUME ~FetchTree, tick'.target = tick.target, tick'.known = tick.known,
                 NEW b \in Those(tick'.target), Placed(b)'
          PROVE  tick'.target[b].path \in maildirs'
      <4>1. CASE Create(b)
        <5>1. MakeMaildir(tick.target[b].path)
          BY <4>1 DEF Create
        <5> QED BY <3>3, <5>1 DEF MakeMaildir
      <4>2. CASE Placed(b)
        <5>1. tick.target[b].path \in maildirs
          BY <3>3, <4>2 DEF DirsOK
        <5>2. b \in Those(tick.known) \/ ~\E x \in Box : RemoveDir(x)
          BY <4>2 DEF Placed, RemoveDir
        <5> QED BY <2>2, <3>3, <5>1, <5>2
      <4> QED BY <1>1, <3>3, <4>1, <4>2, PlacedStep
    <3> QED BY <1>1, <3>1, <3>2, <3>3, TickStep
  <2> QED BY <2>4, <2>5 DEF DirsOK
<1>2. CASE Others
  <2>1. rows' = rows /\ tick' = tick /\ maildirs' = maildirs
    BY <1>2, OthersType DEF db, disk
  <2>2. Those(rows) \cap Present(tree') \subseteq Present(tree)
    <3>1. ASSUME NEW b \in Box, ServerStep(b)
          PROVE  Those(rows) \cap Present(tree') \subseteq Present(tree)
      BY <3>1, ServerKeepsNodes
    <3>2. UNCHANGED tree \/ \E b \in Box : ServerStep(b)
      BY <1>2 DEF Others, ServerStep, PutMail, DestroyMail
    <3> QED BY <3>1, <3>2
  <2> QED BY <2>1, <2>2 DEF DirsOK, Placed
<1>3. CASE Failures
  <2>1. tick' = Idle /\ rows' = rows /\ tree' = tree /\ maildirs' = maildirs
    BY <1>3, FailuresType DEF remote, db, disk
  <2> QED BY <2>1, IdleType DEF DirsOK, Those, None
<1>4. CASE UNCHANGED vars
  BY <1>4 DEF vars, DirsOK, Placed
<1> QED BY <1>1, <1>2, <1>3, <1>4 DEF Next

Laid == Steady /\ KeptOK /\ ApartOK /\ DirsOK

LEMMA LaidAlways ==
    ASSUME Renames = FALSE, Unkeeps = FALSE, Distinct PROVE Spec => []Laid
<1>1. Init => KeptOK /\ ApartOK /\ DirsOK
  BY KeptOKInit, ApartOKInit, DirsOKInit
<1>2. Steady /\ (KeptOK /\ ApartOK /\ DirsOK) /\ [Next]_vars => (KeptOK /\ ApartOK /\ DirsOK)'
  BY KeptOKStep, ApartOKStep, DirsOKStep
<1>3. Steady /\ (KeptOK /\ ApartOK /\ DirsOK) => Laid
  BY DEF Laid
<1> QED BY <1>1, <1>2, <1>3, SteadyAlways, PTL DEF Spec

\* When the diff has gone through, each mailbox of the target set has its
\* Maildir: no deletion of this tick or an earlier one took it away, as long
\* as mailboxes leave the mirror by being destroyed only, none is renamed and
\* no two names give the same directory.
THEOREM DirsAreMirrored ==
    ASSUME Renames = FALSE, Unkeeps = FALSE, Distinct PROVE Spec => []DirsMirrored
<1>1. Laid => DirsMirrored
  BY DEF Laid, Steady, RowsOK, DirsOK, Placed, DirsMirrored
<1> QED BY <1>1, LaidAlways, PTL

(***************************************************************************)
(* No tick takes a file that the daemon has removed for deleted            *)
(***************************************************************************)

\* The mailbox has been destroyed with mail in it: its row cannot go as long
\* as that of an e-mail refers to it, and no tick gets beyond the deletes.
Wedged(b) ==
    /\ b \notin Present(tree)
    /\ rows[b].path \notin Excluded
    /\ tick.pc \in {"idle", "fetch", "deletes", "unlinked"}
    /\ tick.pc \in {"deletes", "unlinked"} =>
          b \in tick.doomed \/ (tick.pc = "unlinked" /\ b = tick.box)

\* A stored e-mail belongs to a mailbox that has a row, and its file is there
\* unless the mailbox holds up every tick.
MailOK ==
    \A e \in Email :
       /\ mail[e] # NoBox => mail[e] \in Present(tree)
       /\ IF emails[e] = NoRow THEN file[e] = NoDir
          ELSE /\ emails[e].box \in Those(rows)
               /\ emails[e].dir = rows[emails[e].box].path
               /\ file[e] = emails[e].dir \/ Wedged(emails[e].box)

\* ... which no mailbox does that is destroyed only after it was seen empty.
HomesOK == \A e \in Email : emails[e] # NoRow => emails[e].box \in Present(tree)

LEMMA MailOKInit == Init => MailOK /\ HomesOK
BY DEF Init, MailOK, HomesOK

LEMMA NothingMissing == ASSUME MailOK, tick.pc = "emails" PROVE Missing = {}
BY DEF MailOK, Missing, Stored, Wedged

LEMMA WedgeStays ==
    ASSUME Laid, MailOK, Daemon, NEW b \in Those(rows), Wedged(b),
           \E e \in Email : emails[e] # NoRow /\ emails[e].box = b
    PROVE  Wedged(b)' /\ rows'[b] = rows[b]
<1>1. /\ tick \in Tick /\ tree' = tree /\ b \in Box
      /\ rows \in [Box -> BoxRow \cup {NoRow}]
  BY DEF Laid, Steady, Sound, TypeOK, Daemon, StartTick, FetchTree, DropRow, DropRowRefused,
         DeletesDone, NextRound, WriteRow, WriteRowRefused, RoundsDone, SyncEmails, RemoveDir,
         Create, Skip, Update, RenameRefused, remote, Those
<1>2. CASE StartTick
  BY <1>1, <1>2 DEF StartTick, Idle, Wedged, db
<1>3. CASE FetchTree
  <2>1. tick'.pc = "deletes" /\ tick'.doomed = Doomed(Target(tree)) /\ UNCHANGED db
    BY <1>1, <1>3 DEF FetchTree, Tick
  <2>2. b \in Doomed(Target(tree))
    BY <1>1 DEF Wedged, Doomed, Target
  <2> QED BY <1>1, <2>1, <2>2 DEF Wedged, db
<1>4. ASSUME NEW c \in Box, RemoveDir(c) PROVE Wedged(b)' /\ rows'[b] = rows[b]
  BY <1>1, <1>4 DEF RemoveDir, Wedged, Tick, db
<1>5. CASE DropRow
  <2>1. tick.box # b
    BY <1>5 DEF DropRow, Referenced
  <2>2. rows'[b] = rows[b] /\ tick'.pc = "deletes" /\ tick'.doomed = tick.doomed
        /\ b \in tick.doomed
    BY <1>1, <1>5, <2>1 DEF DropRow, Wedged, Tick
  <2> QED BY <1>1, <2>2 DEF Wedged
<1>6. CASE DropRowRefused
  BY <1>1, <1>6 DEF DropRowRefused, Idle, Wedged, db
<1> QED
  BY <1>2, <1>3, <1>4, <1>5, <1>6 DEF Daemon, DeletesDone, NextRound, WriteRow, WriteRowRefused,
     RoundsDone, SyncEmails, Create, Skip, Update, RenameRefused, Turn, Wedged

\* A directory that the diff removes takes along no file but those of a
\* mailbox that is doomed itself.
LEMMA RemoveWedges ==
    ASSUME Laid, MailOK, NEW x \in Box, RemoveDir(x), NEW e \in Email, emails[e] # NoRow
    PROVE  file'[e] = file[e] \/ Wedged(emails[e].box)'
<1> DEFINE b == emails[e].box
<1>1. /\ tick.pc = "deletes" /\ x \in tick.doomed
      /\ tick' = [tick EXCEPT !.pc = "unlinked", !.box = x, !.doomed = @ \ {x}]
      /\ rows' = rows /\ emails' = emails /\ tree' = tree /\ tick \in Tick
      /\ file' = [f \in Email |-> IF file[f] # NoDir /\ Under(tick.known[x].path, file[f])
                                  THEN NoDir ELSE file[f]]
      /\ b \in Those(rows)
  BY DEF RemoveDir, RemoveTree, remote, db, Laid, Steady, Sound, TypeOK, MailOK
<1>2. CASE Wedged(b)
  BY <1>1, <1>2 DEF Wedged, Tick
<1>3. CASE file[e] = rows[b].path /\ Under(tick.known[x].path, rows[b].path)
  <2>1. b \notin Those(tick.target)
    <3> SUFFICES ASSUME b \in Those(tick.target) PROVE FALSE
      OBVIOUS
    <3>1. rows[b] = tick.known[b] /\ b \in Those(tick.known) \cap Those(tick.target)
      BY <1>1 DEF Laid, Steady, RowsOK, RowOK, Those
    <3>2. tick.known[b].path = tick.target[b].path
      BY <3>1 DEF Laid, Steady, StillOK
    <3> QED BY <1>3, <3>1, <3>2, RemoveSpares DEF Laid
  <2>2. tick.known[x].path \in Paths \ Excluded /\ b \in Box
    BY <1>1 DEF Laid, Steady, Sound, TickOK, TypeOK, Tick, BoxRow, Those
  <2>3. rows[b].path \notin Excluded
    BY <1>3, <2>2, OverSingle
  <2>4. b \in tick.doomed /\ rows[b] = tick.known[b] /\ b \notin Present(tree)
    <3>1. b \in tick.doomed /\ rows[b] = tick.known[b]
      BY <1>1, <2>1, <2>3 DEF Laid, Steady, RowsOK, RowOK, Those
    <3>2. b \in Those(tick.known) \ Those(tick.target)
      BY <1>1, <2>1, <3>1 DEF Those
    <3> QED BY <3>1, <3>2 DEF Laid, KeptOK
  <2>5. tick'.pc = "unlinked" /\ (b \in tick'.doomed \/ b = tick'.box)
    BY <1>1, <2>4 DEF Tick
  <2> QED BY <1>1, <2>3, <2>4, <2>5 DEF Wedged
<1> QED BY <1>1, <1>2, <1>3 DEF MailOK

\* With the mailboxes of all rows there, no step of the daemon's but the e-mail
\* pass moves or removes a file.
LEMMA FilesStay ==
    ASSUME Laid, MailOK, HomesOK, Daemon, ~SyncEmails PROVE file' = file
<1>1. file \in [Email -> Paths \cup {NoDir}]
  BY DEF Laid, Steady, Sound, TypeOK
<1>2. ASSUME NEW x \in Box, RemoveDir(x) PROVE file' = file
  <2>1. file' = [e \in Email |-> IF file[e] # NoDir /\ Under(tick.known[x].path, file[e])
                                 THEN NoDir ELSE file[e]]
    BY <1>2 DEF RemoveDir, RemoveTree
  <2>2. \A e \in Email : file[e] # NoDir => ~Under(tick.known[x].path, file[e])
    BY <1>2, RemoveSpares DEF Laid, MailOK, HomesOK, Wedged
  <2> QED BY <1>1, <2>1, <2>2
<1> QED BY <1>2, DiskStep DEF Laid, Steady, disk, MakeMaildir

\* The e-mail pass finds nothing missing: it destroys nothing, and takes a
\* file away only where no mirrored mailbox lists its e-mail.
LEMMA PassSpares ==
    ASSUME Laid, MailOK, SyncEmails
    PROVE  /\ mail' = mail
           /\ \A e \in Email : file[e] # NoDir /\ file'[e] = NoDir => mail[e] \notin Those(rows)
           /\ MailOK'
           /\ HomesOK => HomesOK'
<1> DEFINE home(e) == rows[mail[e]].path
           placed == (Listed \ Stored) \cup
                     {e \in (Listed \cap Stored) \ Missing : emails[e].box # mail[e]}
<1>1. /\ Missing = {} /\ mail \in [Email -> Box \cup {NoBox}]
      /\ rows \in [Box -> BoxRow \cup {NoRow}] /\ emails \in [Email -> MailRow \cup {NoRow}]
      /\ file \in [Email -> Paths \cup {NoDir}]
  BY NothingMissing DEF Laid, Steady, Sound, TypeOK, SyncEmails
<1>2. \A e \in placed : e \in Listed
  OBVIOUS
<1>3. \A e \in Email : e \in Stored \ Listed => e \notin placed
  OBVIOUS
<1>4. ASSUME NEW e \in Email, e \notin placed, e \notin Stored \ Listed
      PROVE  emails[e] # NoRow => emails[e].box = mail[e]
  BY <1>1, <1>4 DEF Stored
<1>5. \A e \in placed : mail[e] \in Those(rows) /\ home(e) \in Paths
                        /\ mail[e] # NoBox /\ home(e) # NoDir
  BY <1>1, <1>2, NullsAssumption DEF Listed, Those, BoxRow
<1>6. \A e \in placed : [box |-> mail[e], dir |-> home(e)] # NoRow
  BY <1>1, <1>5, NullsAssumption DEF MailRow, Those
<1>7. /\ mail' = [e \in Email |-> IF e \in Missing THEN NoBox ELSE mail[e]]
      /\ emails' = [e \in Email |->
                     CASE e \in placed -> [box |-> mail[e], dir |-> home(e)]
                       [] e \in Missing \cup (Stored \ Listed) -> NoRow
                       [] OTHER -> emails[e]]
      /\ file' = [e \in Email |->
                    CASE e \in placed -> home(e)
                      [] e \in (Missing \cup (Stored \ Listed)) \ Missing -> NoDir
                      [] OTHER -> file[e]]
      /\ rows' = rows /\ tree' = tree
  BY DEF SyncEmails
<1> HIDE DEF placed, home
<1>8. mail' = mail
  BY <1>1, <1>7
<1>9. \A e \in Email : /\ e \in placed => /\ emails'[e] = [box |-> mail[e], dir |-> home(e)]
                                          /\ file'[e] = home(e)
                       /\ e \in Stored \ Listed => emails'[e] = NoRow /\ file'[e] = NoDir
                       /\ e \notin placed /\ e \notin Stored \ Listed =>
                             emails'[e] = emails[e] /\ file'[e] = file[e]
  BY <1>1, <1>3, <1>7
<1>10. \A e \in Email : file[e] # NoDir /\ file'[e] = NoDir => mail[e] \notin Those(rows)
  BY <1>5, <1>9 DEF Listed
<1>11. ASSUME NEW e \in Email, e \in placed
       PROVE  /\ emails'[e] # NoRow /\ emails'[e].box = mail[e] /\ emails'[e].dir = home(e)
              /\ file'[e] = home(e)
              /\ mail[e] \in Those(rows) \cap Present(tree) /\ home(e) = rows[mail[e]].path
  <2>1. PICK new : new = [box |-> mail[e], dir |-> home(e)]
    OBVIOUS
  <2>2. new # NoRow /\ new.box = mail[e] /\ new.dir = home(e)
    BY <1>6, <1>11, <2>1
  <2>3. emails'[e] = new /\ file'[e] = home(e)
    BY <1>9, <1>11, <2>1
  <2>4. mail[e] \in Those(rows) \cap Present(tree) /\ home(e) = rows[mail[e]].path
    BY <1>5, <1>11 DEF home, MailOK
  <2> QED BY <2>2, <2>3, <2>4
<1>12. MailOK'
  <2> SUFFICES ASSUME NEW e \in Email
               PROVE  /\ mail[e] # NoBox => mail[e] \in Present(tree)
                      /\ IF emails'[e] = NoRow THEN file'[e] = NoDir
                         ELSE /\ emails'[e].box \in Those(rows)
                              /\ emails'[e].dir = rows[emails'[e].box].path
                              /\ file'[e] = emails'[e].dir
    BY <1>7, <1>8 DEF MailOK
  <2>1. mail[e] # NoBox => mail[e] \in Present(tree)
    BY DEF MailOK
  <2>2. CASE e \in placed
    BY <1>11, <2>1, <2>2
  <2>3. CASE e \in Stored \ Listed
    BY <1>9, <2>1, <2>3
  <2>4. CASE e \notin placed /\ e \notin Stored \ Listed
    <3>1. ~Wedged(emails[e].box)
      BY DEF SyncEmails, Wedged
    <3> QED BY <1>9, <2>1, <2>4, <3>1 DEF MailOK
  <2> QED BY <2>2, <2>3, <2>4
<1>13. HomesOK => HomesOK'
  <2> SUFFICES ASSUME HomesOK, NEW e \in Email, emails'[e] # NoRow
               PROVE  emails'[e].box \in Present(tree)
    BY <1>7 DEF HomesOK
  <2> QED BY <1>9, <1>11 DEF HomesOK
<1> QED BY <1>8, <1>10, <1>12, <1>13

\* Rows of mailboxes that have e-mail keep their paths outside of that pass.
LEMMA HomesKeepPaths ==
    ASSUME Laid, Daemon, NEW e \in Email, emails[e] # NoRow, emails[e].box \in Those(rows)
    PROVE  LET b == emails[e].box IN rows'[b] # NoRow /\ rows'[b].path = rows[b].path
<1> USE DEF Laid, Steady
<1> DEFINE b == emails[e].box
<1>0. rows \in [Box -> BoxRow \cup {NoRow}] /\ b \in Box
  BY DEF Sound, TypeOK, Those
<1>1. CASE DropRow /\ rows' = [rows EXCEPT ![tick.box] = NoRow]
  <2>1. tick.box # b
    BY <1>1 DEF DropRow, Referenced
  <2> QED BY <1>0, <1>1, <2>1 DEF Those
<1>2. ASSUME NEW c \in Box, NEW new \in BoxRow, Written(c, new)
      PROVE  rows'[b] # NoRow /\ rows'[b].path = rows[b].path
  <2>1. c \in Those(tick.target) /\ new.path = tick.target[c].path /\ c \in tick.left
        /\ tick.pc = "placed" /\ rows' = [rows EXCEPT ![c] = new]
    BY <1>2 DEF Written, Sound, TickOK
  <2>2. CASE b = c
    <3>1. rows[b] = tick.known[b] /\ b \in Those(tick.known) \cap Those(tick.target)
      BY <1>0, <2>1, <2>2 DEF RowsOK, RowOK, Those
    <3>2. new.path = rows[b].path
      BY <2>1, <2>2, <3>1 DEF StillOK
    <3> QED BY <1>0, <2>1, <2>2, <3>2, NullsAssumption DEF Those
  <2>3. CASE b # c
    BY <1>0, <2>1, <2>3 DEF Those
  <2> QED BY <2>2, <2>3
<1> QED BY <1>0, <1>1, <1>2, RowsStep DEF Those

\* The daemon's other steps touch neither the tree nor an e-mail.
LEMMA DiffKeeps ==
    ASSUME Daemon, ~SyncEmails PROVE UNCHANGED <<tree, mail, emails>>
BY DEF Daemon, StartTick, FetchTree, DropRow, DropRowRefused, DeletesDone, NextRound, WriteRow,
       WriteRowRefused, RoundsDone, RemoveDir, Create, Skip, Update, RenameRefused, db, remote

\* What a step of the server's makes of the mailboxes.
LEMMA BoxesKept ==
    ASSUME Renames = FALSE, Unkeeps = FALSE, Steady, NEW b \in Box, ServerStep(b)
    PROVE  /\ \A c \in Those(rows) : c \in Present(tree') => c \in Present(tree)
           /\ ~DestroyBox(b) => mail' = mail /\ Present(tree) \subseteq Present(tree')
           /\ DestroyBox(b) => /\ Present(tree') = Present(tree) \ {b}
                               /\ mail' = [e \in Email |-> IF mail[e] = b THEN NoBox ELSE mail[e]]
<1>1. \A c \in Those(rows) : c \in Present(tree') => c \in Present(tree)
  BY ServerKeepsNodes
<1>2. ASSUME ~DestroyBox(b) PROVE mail' = mail /\ Present(tree) \subseteq Present(tree')
  BY <1>2, ServerKeepsNodes DEF ServerStep, CreateBox, RenameBox, KeepBox
<1>3. ASSUME DestroyBox(b)
      PROVE  /\ Present(tree') = Present(tree) \ {b}
             /\ mail' = [e \in Email |-> IF mail[e] = b THEN NoBox ELSE mail[e]]
  <2>1. Treed(tree) /\ IsPaths(tree, PathIn(tree))
    BY DEF Steady, Sound, TreeOK
  <2> QED BY <1>3, <2>1, DestroyPaths DEF DestroyBox
<1> QED BY <1>1, <1>2, <1>3

LEMMA MailOKStep ==
    ASSUME Renames = FALSE, Unkeeps = FALSE, Laid, MailOK, [Next]_vars
    PROVE  MailOK'
<1> USE DEF Laid, Steady
<1>0. /\ mail \in [Email -> Box \cup {NoBox}] /\ rows \in [Box -> BoxRow \cup {NoRow}]
      /\ file \in [Email -> Paths \cup {NoDir}] /\ emails \in [Email -> MailRow \cup {NoRow}]
  BY DEF Sound, TypeOK
<1>1. CASE Daemon /\ ~SyncEmails
  <2>1. UNCHANGED <<tree, mail, emails>>
    BY <1>1, DiffKeeps
  <2>2. ASSUME NEW e \in Email, emails[e] = NoRow PROVE file'[e] = NoDir
    <3>1. file[e] = NoDir
      BY <2>2 DEF MailOK
    <3> QED BY <1>0, <1>1, <3>1, DiskStep DEF disk, RemoveDir, RemoveTree, MakeMaildir
  <2>3. ASSUME NEW e \in Email, emails[e] # NoRow
        PROVE  LET b == emails[e].box IN
               /\ rows'[b] # NoRow /\ rows'[b].path = rows[b].path
               /\ file'[e] = file[e] \/ Wedged(b)'
               /\ Wedged(b) => Wedged(b)'
    <3>1. PICK b \in Those(rows) : b = emails[e].box
      BY <2>3 DEF MailOK
    <3>2. rows'[b] # NoRow /\ rows'[b].path = rows[b].path
      BY <1>1, <2>3, <3>1, HomesKeepPaths
    <3>3. Wedged(b) => Wedged(b)'
      BY <1>1, <2>3, <3>1, WedgeStays
    <3>4. file'[e] = file[e] \/ Wedged(b)'
      <4>1. emails'[e].box = b
        BY <2>1, <3>1
      <4>2. ASSUME NEW x \in Box, RemoveDir(x) PROVE file'[e] = file[e] \/ Wedged(b)'
        BY <2>3, <4>1, <4>2, RemoveWedges
      <4> QED BY <1>1, <4>2, DiskStep DEF disk, MakeMaildir
    <3> QED BY <2>1, <3>1, <3>2, <3>3, <3>4
  <2> QED BY <1>0, <2>1, <2>2, <2>3 DEF MailOK, Those
<1>2. CASE SyncEmails
  BY <1>2, PassSpares
<1>3. CASE Others
  <2>1. UNCHANGED <<rows, emails, file, tick>>
    BY <1>3, OthersType DEF db, disk
  <2>2. ASSUME NEW e \in Email, (\E b \in Box : PutMail(e, b)) \/ DestroyMail(e) PROVE MailOK'
    BY <1>0, <2>1, <2>2 DEF PutMail, DestroyMail, MailOK, Wedged
  <2>3. ASSUME NEW b \in Box, ServerStep(b) PROVE MailOK'
    <3>1. ASSUME NEW e \in Email, mail'[e] # NoBox PROVE mail'[e] \in Present(tree')
      <4>1. mail[e] # NoBox => mail[e] \in Present(tree)
        BY DEF MailOK
      <4>2. CASE DestroyBox(b)
        BY <1>0, <2>3, <3>1, <4>1, <4>2, BoxesKept
      <4>3. CASE ~DestroyBox(b)
        BY <2>3, <3>1, <4>1, <4>3, BoxesKept
      <4> QED BY <4>2, <4>3
    <3>2. \A c \in Those(rows) : Wedged(c) => Wedged(c)'
      BY <2>1, <2>3, BoxesKept DEF Wedged
    <3> QED BY <2>1, <3>1, <3>2 DEF MailOK, Those
  <2> QED BY <1>3, <2>2, <2>3 DEF Others, ServerStep
<1>4. CASE Failures
  <2>1. UNCHANGED <<tree, mail, rows, emails, file>> /\ tick'.pc = "idle"
    BY <1>4, FailuresType DEF remote, db, disk, Idle
  <2> QED BY <2>1 DEF MailOK, Wedged, Those
<1>5. CASE UNCHANGED vars
  BY <1>5 DEF vars, MailOK, Wedged, Those
<1> QED BY <1>1, <1>2, <1>3, <1>4, <1>5 DEF Next

LEMMA HomesOKStep ==
    ASSUME Renames = FALSE, Unkeeps = FALSE, Full = FALSE, Laid, MailOK, HomesOK, [Next]_vars
    PROVE  HomesOK'
<1> USE DEF Laid, Steady
<1>1. CASE Daemon
  BY <1>1, DiffKeeps, PassSpares DEF HomesOK
<1>2. CASE Others
  <2>1. emails' = emails
    BY <1>2, OthersType DEF db
  <2>2. ASSUME NEW e \in Email, (\E b \in Box : PutMail(e, b)) \/ DestroyMail(e) PROVE HomesOK'
    BY <2>1, <2>2 DEF PutMail, DestroyMail, HomesOK
  <2>3. ASSUME NEW b \in Box, ServerStep(b) PROVE HomesOK'
    <3>1. \A e \in Email : emails[e] # NoRow => ~DestroyBox(b) \/ emails[e].box # b
      BY DEF DestroyBox, Quiet
    <3> QED BY <2>1, <2>3, <3>1, BoxesKept DEF HomesOK
  <2> QED BY <1>2, <2>2, <2>3 DEF Others, ServerStep
<1>3. CASE Failures
  BY <1>3, FailuresType DEF remote, db, HomesOK
<1>4. CASE UNCHANGED vars
  BY <1>4 DEF vars, HomesOK
<1> QED BY <1>1, <1>2, <1>3, <1>4 DEF Next

LEMMA MailAlways ==
    ASSUME Renames = FALSE, Unkeeps = FALSE, Distinct PROVE Spec => [](Laid /\ MailOK)
<1>1. Init => MailOK
  BY MailOKInit
<1>2. Laid /\ MailOK /\ [Next]_vars => MailOK'
  BY MailOKStep
<1> QED BY <1>1, <1>2, LaidAlways, PTL DEF Spec

LEMMA HomesAlways ==
    ASSUME Renames = FALSE, Unkeeps = FALSE, Full = FALSE, Distinct PROVE Spec => []HomesOK
<1>1. Init => HomesOK
  BY MailOKInit
<1>2. Laid /\ MailOK /\ HomesOK /\ [Next]_vars => HomesOK'
  BY HomesOKStep
<1> QED BY <1>1, <1>2, MailAlways, PTL DEF Spec

\* The daemon destroys no e-mail on the server that nobody asked it to
\* destroy: what the diff does to the directories never makes the e-mail pass
\* that follows, or that of a later tick, take mail for deleted.  A mailbox may
\* even be destroyed with mail in it: what its directory took along is not
\* compared with the server, as no tick gets that far any more.
THEOREM MailSurvives ==
    ASSUME Renames = FALSE, Unkeeps = FALSE, Distinct PROVE Spec => MailStays
<1>1. ASSUME Laid, MailOK, [Next]_vars, spent'.server = spent.server,
             NEW e \in Email, mail[e] # NoBox
      PROVE  mail'[e] # NoBox
  <2>1. CASE Daemon
    <3>1. mail' = mail
      BY <1>1, <2>1, PassSpares DEF Daemon, StartTick, FetchTree, DropRow, DropRowRefused,
            DeletesDone, NextRound, WriteRow, WriteRowRefused, RoundsDone, RemoveDir, Create,
            Skip, Update, RenameRefused, remote
    <3> QED BY <1>1, <3>1
  <2>2. CASE Others
    <3>1. spent.server \in Nat /\ spent'.server = spent.server + 1
      <4>1. ServerEdit /\ spent \in [server : 0 .. MaxServer, fault : 0 .. MaxFault,
                                     crash : 0 .. MaxCrash]
        BY <1>1, <2>2 DEF Others, CreateBox, RenameBox, DestroyBox, KeepBox, PutMail, DestroyMail,
                          Laid, Steady, Sound, TypeOK
      <4> QED BY <4>1, BoundsAssumption DEF ServerEdit
    <3> QED BY <1>1, <3>1
  <2>3. CASE Failures \/ UNCHANGED vars
    BY <1>1, <2>3, FailuresType DEF vars, remote, Laid, Steady
  <2> QED BY <1>1, <2>1, <2>2, <2>3 DEF Next
<1>2. Laid /\ MailOK /\ [Next]_vars =>
        [spent'.server = spent.server => \A e \in Email : mail[e] # NoBox => mail'[e] # NoBox]_vars
  BY <1>1
<1> QED BY <1>2, MailAlways, PTL DEF Spec, MailStays

\* A file leaves the Maildir in the e-mail pass alone, and only when its
\* e-mail is in none of the mirrored mailboxes.
THEOREM FilesFollow ==
    ASSUME Renames = FALSE, Unkeeps = FALSE, Full = FALSE, Distinct PROVE Spec => FilesFollowServer
<1>1. ASSUME Laid, MailOK, HomesOK, [Next]_vars,
             NEW e \in Email, file[e] # NoDir, file'[e] = NoDir
      PROVE  mail[e] \notin Those(rows)
  <2>1. CASE Daemon
    BY <1>1, <2>1, FilesStay, PassSpares
  <2>2. CASE Others \/ Failures
    BY <1>1, <2>2, OthersType, FailuresType DEF disk, Laid, Steady
  <2>3. CASE UNCHANGED vars
    BY <1>1, <2>3 DEF vars
  <2> QED BY <1>1, <2>1, <2>2, <2>3 DEF Next
<1>2. Laid /\ MailOK /\ HomesOK /\ [Next]_vars =>
        [\A e \in Email : (file[e] # NoDir /\ file'[e] = NoDir)
            => \/ mail[e] \notin Those(rows)
               \/ tick.target[mail[e]] = NoRow]_vars
  BY <1>1
<1> QED BY <1>2, MailAlways, HomesAlways, PTL DEF Spec, FilesFollowServer

=============================================================================
