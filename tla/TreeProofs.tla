----------------------------- MODULE TreeProofs -----------------------------
(* What compress and append list of a tree of any shape and size, whatever   *)
(* goes away meanwhile, what becomes of the index over any number of         *)
(* appends, what runs of decompress leave of its entries in a directory,     *)
(* however they end, and what comes of all of it together.                   *)
EXTENDS RoundTrip, ListsProofs

LEMMA PathProperties ==
    ASSUME NEW p \in Path
    PROVE  /\ p \in Seq(Name) /\ Len(p) \in Nat
           /\ p # Top => /\ Len(p) > 0
                         /\ Parent(p) \in Path /\ Len(Parent(p)) = Len(p) - 1
                         /\ Last(p) \in Nat /\ p = Append(Parent(p), Last(p))
           /\ Len(p) = 0 => p = Top
<1>1. PICK n \in 0..MaxDepth : p \in [1..n -> Name]
  BY DEF Path
<1>2. n \in Nat /\ n <= MaxDepth
  BY DepthAssumption
<1>3. p \in Seq(Name)
  BY <1>1, <1>2
<1>4. Len(p) = n
  BY <1>1, <1>2
<1>5. Len(p) = 0 => p = Top
  BY <1>3, EmptySeq DEF Top
<1>6. ASSUME p # Top
      PROVE  /\ Len(p) > 0
             /\ Parent(p) \in Path /\ Len(Parent(p)) = Len(p) - 1
             /\ Last(p) \in Nat /\ p = Append(Parent(p), Last(p))
  <2>1. p # <<>>
    BY <1>6 DEF Top
  <2>2. /\ Front(p) \in Seq(Name) /\ Len(Front(p)) = Len(p) - 1
        /\ Last(p) \in Name /\ p = Append(Front(p), Last(p))
    BY <1>3, <2>1, FrontElements
  <2>3. n > 0
    BY <1>2, <1>4, <1>5, <1>6
  <2>4. Front(p) \in Path
    <3>1. n - 1 \in 0..MaxDepth
      BY <1>2, <2>3, DepthAssumption
    <3>2. Front(p) \in [1..(n - 1) -> Name]
      BY <1>4, <2>2, LenProperties
    <3> QED BY <3>1, <3>2 DEF Path
  <2>5. Last(p) \in Nat
    BY <2>2, NameAssumption
  <2> QED BY <1>4, <2>2, <2>3, <2>4, <2>5 DEF Parent
<1> QED BY <1>2, <1>3, <1>4, <1>5, <1>6

LEMMA TopIsPath == Top \in Path /\ Len(Top) = 0
<1>1. 0 \in 0..MaxDepth
  BY DepthAssumption
<1>2. <<>> \in [1..0 -> Name]
  OBVIOUS
<1> QED BY <1>1, <1>2 DEF Path, Top

(* What a directory has that can be archived.                                *)
Inside(d) == {p \in Children(input, d) : input[p].type # "special"}

(* The sorted names of a directory are its names, each once.                 *)
LEMMA ListedProperties ==
    ASSUME NEW d
    PROVE  /\ Listed(d) \in Seq(Path \ {Top})
           /\ Range(Listed(d)) = Inside(d)
           /\ IsInjective(Listed(d))
<1> DEFINE ps == Inside(d)
<1>1. \A p \in ps : p \in Path \ {Top} /\ Parent(p) = d
  BY DEF Inside, Children
<1> DEFINE rank == [p \in ps |-> Last(p)]
<1>2. rank \in [ps -> Nat] /\ \A p \in ps : rank[p] = Last(p)
  BY <1>1, PathProperties
<1>3. rank \in [ps -> Name]
  <2>1. ASSUME NEW p \in ps PROVE Last(p) \in Name
    <3>1. p \in Seq(Name) /\ p # <<>>
      BY <1>1, PathProperties DEF Top
    <3> QED BY <3>1, FrontElements
  <2> QED BY <2>1
<1>4. \A p, q \in ps : rank[p] = rank[q] => p = q
  <2>1. ASSUME NEW p \in ps PROVE p = Append(d, rank[p])
    BY <1>1, <1>2, PathProperties
  <2> HIDE DEF rank
  <2> QED BY <2>1
<1> HIDE DEF ps, rank
<1>5. IsFiniteSet(ps)
  <2>1. rank \in Injection(ps, Name)
    BY <1>3, <1>4 DEF Injection, IsInjective
  <2> QED BY <2>1, NameAssumption, FS_Injection
<1> DEFINE n == Cardinality(ps)
<1> DEFINE InTurn(s) == \A i, j \in DOMAIN s : i < j => Last(s[i]) < Last(s[j])
<1>6. n \in Nat
  BY <1>5, FS_CardinalityType
<1>7. \E s \in [1..n -> ps] : InTurn(s)
  <2>1. PICK s \in [1..n -> ps] : InOrder(s, n, rank)
    BY <1>2, <1>4, <1>5, Sortable
  <2>2. InTurn(s)
    <3>1. ASSUME NEW i \in 1..n, NEW j \in 1..n, i < j PROVE Last(s[i]) < Last(s[j])
      <4>1. rank[s[i]] < rank[s[j]] /\ s[i] \in ps /\ s[j] \in ps
        BY <2>1, <3>1 DEF InOrder
      <4> QED BY <1>2, <4>1
    <3>2. DOMAIN s = 1..n
      OBVIOUS
    <3> HIDE DEF n
    <3> QED BY <3>1, <3>2
  <2> QED BY <2>2
<1> DEFINE found == Listed(d)
<1>8. found = CHOOSE s \in [1..n -> ps] : InTurn(s)
  BY DEF Listed, Sorted, Inside, ps
<1>9. found \in [1..n -> ps] /\ InTurn(found)
  <2> HIDE DEF InTurn, n, found
  <2> QED BY <1>7, <1>8
<1> HIDE DEF found
<1>10. InOrder(found, n, rank)
  <2>1. ASSUME NEW i \in 1..n, NEW j \in 1..n, i < j PROVE rank[found[i]] < rank[found[j]]
    <3>1. DOMAIN found = 1..n /\ found[i] \in ps /\ found[j] \in ps
      BY <1>9
    <3>2. Last(found[i]) < Last(found[j])
      BY <1>9, <2>1, <3>1
    <3> QED BY <1>2, <3>1, <3>2
  <2> HIDE DEF n
  <2> QED BY <2>1 DEF InOrder
<1>11. /\ \A i, j \in 1..n : i # j => found[i] # found[j]
       /\ \A p \in ps : \E i \in 1..n : found[i] = p
  <2>1. found \in [1..Cardinality(ps) -> ps] /\ InOrder(found, Cardinality(ps), rank)
    BY <1>9, <1>10
  <2>2. rank \in [ps -> Nat]
    BY <1>2
  <2> HIDE DEF InTurn
  <2> QED BY <1>5, <2>1, <2>2, OrderedIsOnto, ZenonT(30)
<1>12. found \in Seq(ps) /\ Len(found) = n
  <2> HIDE DEF n
  <2> QED BY <1>6, <1>9
<1>13. Range(found) = ps /\ IsInjective(found)
  <2> HIDE DEF n
  <2>1. Range(found) \subseteq ps
    BY <1>12, Elements
  <2>2. ASSUME NEW p \in ps PROVE p \in Range(found)
    BY <1>11, <1>12, Elements
  <2> QED BY <1>11, <1>12, <2>1, <2>2, Elements
<1>14. ps \subseteq Path \ {Top}
  BY <1>1
<1> QED BY <1>12, <1>13, <1>14, SeqMonotonic DEF found, ps

-----------------------------------------------------------------------------
TreeTypeOK ==
    /\ recursive \in BOOLEAN /\ phase \in {"scan", "record", "ok", "failed"}
    /\ stack \in Seq(Path) /\ out \in Seq(Path \ {Top})
    /\ recorded \in 0..Len(out) /\ appends \in Nat
    /\ \E S : files \in Seq(S)

(* Nothing is listed twice, for a directory that is still on the stack has   *)
(* no children in the list, and what goes on the stack goes into the list.   *)
StackOnce ==
    /\ IsInjective(stack)
    /\ Range(stack) \subseteq Range(out) \cup {Top}
    /\ \A p \in Range(out) : Parent(p) \notin Range(stack)

(* A directory is listed before what it has, or has an entry already.        *)
OutOrder ==
    \A i \in 1..Len(out) : Len(out[i]) > 1 =>
        \/ \E j \in 1..(i-1) : out[j] = Parent(out[i])
        \/ phase # "scan" /\ Parent(out[i]) \in Paths(files)

(* What has been recorded has an entry, what has not been has none.          *)
RecordOrder ==
    /\ phase = "scan" => recorded = 0
    /\ \A i \in 1..recorded : out[i] \in Paths(files)
    /\ phase = "record" => \A i \in (recorded+1)..Len(out) : out[i] \notin Paths(files)
    /\ phase = "ok" => recorded = Len(out)

NothingYet == appends = 0 /\ phase = "scan" => files = <<>>

(* While nothing goes away: what a listed directory has is listed, or the    *)
(* directory is still on the stack.                                          *)
Untouched ==
    gone = {} =>
        /\ IsTree(input)
        /\ recursive /\ phase = "scan" =>
             /\ Range(out) \subseteq Wanted
             /\ \A p \in Wanted : Parent(p) \in Range(out) \cup {Top} =>
                  p \in Range(out) \/ Parent(p) \in Range(stack)
        /\ recursive /\ phase = "record" /\ appends = 0 => Range(out) = Wanted

TraversalInv ==
    /\ TreeTypeOK /\ IsInjective(out) /\ (phase = "scan" => StackOnce) /\ OutOrder
    /\ RecordOrder /\ NothingYet /\ Untouched /\ EntriesDistinct /\ ParentsFirst

(* A command begins.                                                         *)
LEMMA EntriesOfNone ==
    ASSUME files = <<>>
    PROVE  EntriesDistinct /\ ParentsFirst /\ \E S : files \in Seq(S)
<1>1. DOMAIN files = {} /\ files \in Seq({})
  OBVIOUS
<1> QED BY <1>1 DEF EntriesDistinct, ParentsFirst

LEMMA SingleFileIs ==
    ASSUME NEW t, NEW ends, NEW p \in SingleFiles(t, ends)
    PROVE  p \in Path \ {Top} /\ Len(p) = 1 /\ Parent(p) = Top
<1>1. p \in Path /\ Len(p) = 1
  BY DEF SingleFiles
<1>2. p # Top
  BY <1>1, TopIsPath
<1>3. Parent(p) \in Path /\ Len(Parent(p)) = 0
  BY <1>1, <1>2, PathProperties
<1> QED BY <1>1, <1>2, <1>3, PathProperties

LEMMA InitTraversal == Init => TraversalInv
<1> SUFFICES ASSUME Init PROVE TraversalInv
  OBVIOUS
<1>1. IsTree(input)
  BY TreesAssumption DEF Init
<1>2. CASE recursive = TRUE /\ stack = <<Top>> /\ out = <<>>
  <2>1. Range(out) = {} /\ Range(stack) = {Top} /\ IsInjective(out) /\ IsInjective(stack)
    BY <1>2, EmptyList
  <2>2. Len(out) = 0 /\ stack \in Seq(Path) /\ out \in Seq(Path \ {Top})
    BY <1>2, TopIsPath
  <2> QED
    BY <1>1, <1>2, <2>1, <2>2, EntriesOfNone
    DEF Init, TraversalInv, TreeTypeOK, StackOnce, OutOrder, RecordOrder, NothingYet, Untouched
<1>3. CASE recursive = FALSE /\ stack = <<>> /\ \E p \in SingleFiles(input, {}) : out = <<p>>
  <2>1. PICK p \in SingleFiles(input, {}) : out = <<p>>
    BY <1>3
  <2>2. p \in Path \ {Top} /\ Len(p) = 1 /\ Parent(p) = Top
    BY SingleFileIs
  <2>3. Range(out) = {p} /\ Range(stack) = {} /\ IsInjective(out) /\ IsInjective(stack)
    BY <1>3, <2>1, EmptyList
  <2>4. /\ Len(out) = 1 /\ out[1] = p
        /\ stack \in Seq(Path) /\ out \in Seq(Path \ {Top})
    BY <1>3, <2>1, <2>2
  <2>5. TreeTypeOK /\ RecordOrder /\ NothingYet
    <3>1. recorded = 0 /\ recorded \in 0..Len(out) /\ phase = "scan"
      BY <2>4 DEF Init
    <3>2. 1..recorded = {}
      BY <3>1
    <3>3. files = <<>> /\ appends = 0
      BY DEF Init
    <3> QED
      BY <1>3, <2>4, <3>1, <3>2, <3>3, EntriesOfNone DEF TreeTypeOK, RecordOrder, NothingYet
  <2>6. StackOnce /\ Untouched
    BY <1>1, <1>3, <2>2, <2>3 DEF Init, StackOnce, Untouched
  <2>7. OutOrder
    <3>1. ASSUME NEW i \in 1..Len(out) PROVE ~(Len(out[i]) > 1)
      <4>1. i = 1
        BY <2>4
      <4>2. out[i] = p
        BY <2>4, <4>1
      <4>3. Len(out[i]) = 1
        BY <2>2, <4>2
      <4> QED BY <4>3
    <3> QED BY <3>1 DEF OutOrder
  <2>8. EntriesDistinct /\ ParentsFirst
    BY EntriesOfNone DEF Init
  <2> QED BY <2>3, <2>5, <2>6, <2>7, <2>8 DEF TraversalInv
<1> QED BY <1>2, <1>3 DEF Init

LEMMA AppendMoreTraversal == ASSUME TraversalInv, AppendMore PROVE TraversalInv'
<1>1. IsTree(input') /\ phase' = "scan" /\ recorded' = 0 /\ gone' = {}
  BY TreesAssumption DEF AppendMore, Begin
<1>2. EntriesDistinct' /\ ParentsFirst' /\ (\E S : files \in Seq(S))'
  BY DEF AppendMore, TraversalInv, TreeTypeOK, EntriesDistinct, ParentsFirst
<1>3. appends' \in Nat /\ appends' # 0
  BY DEF AppendMore, TraversalInv, TreeTypeOK
<1>4. CASE recursive' = TRUE /\ stack' = <<Top>> /\ out' = <<>>
  <2>1. Range(out') = {} /\ Range(stack') = {Top} /\ IsInjective(out') /\ IsInjective(stack')
    BY <1>4, EmptyList
  <2>2. Len(out') = 0 /\ stack' \in Seq(Path) /\ out' \in Seq(Path \ {Top})
    BY <1>4, TopIsPath
  <2> QED
    BY <1>1, <1>2, <1>3, <1>4, <2>1, <2>2
    DEF TraversalInv, TreeTypeOK, StackOnce, OutOrder, RecordOrder, NothingYet, Untouched
<1>5. CASE /\ recursive' = FALSE /\ stack' = <<>>
           /\ \E p \in SingleFiles(input', {"absent"}) : out' = <<p>>
  <2>1. PICK p \in SingleFiles(input', {"absent"}) : out' = <<p>>
    BY <1>5
  <2>2. p \in Path \ {Top} /\ Len(p) = 1 /\ Parent(p) = Top
    BY SingleFileIs
  <2>3. Range(out') = {p} /\ Range(stack') = {} /\ IsInjective(out') /\ IsInjective(stack')
    BY <1>5, <2>1, EmptyList
  <2>4. /\ Len(out') = 1 /\ out'[1] = p
        /\ stack' \in Seq(Path) /\ out' \in Seq(Path \ {Top})
    BY <1>5, <2>1, <2>2
  <2>5. TreeTypeOK' /\ RecordOrder' /\ NothingYet'
    <3>1. recorded' \in 0..Len(out')
      BY <1>1, <2>4
    <3>2. 1..recorded' = {}
      BY <1>1
    <3> QED BY <1>1, <1>2, <1>3, <1>5, <2>4, <3>1, <3>2 DEF TreeTypeOK, RecordOrder, NothingYet
  <2>6. StackOnce' /\ Untouched'
    BY <1>1, <1>5, <2>2, <2>3 DEF StackOnce, Untouched
  <2>7. OutOrder'
    <3>1. ASSUME NEW i \in 1..Len(out') PROVE ~(Len(out'[i]) > 1)
      <4>1. i = 1
        BY <2>4
      <4>2. out'[i] = p
        BY <2>4, <4>1
      <4>3. Len(out'[i]) = 1
        BY <2>2, <4>2
      <4> QED BY <4>3
    <3> QED BY <3>1 DEF OutOrder
  <2> QED BY <1>2, <2>3, <2>5, <2>6, <2>7 DEF TraversalInv
<1> QED BY <1>4, <1>5 DEF AppendMore, Begin

-----------------------------------------------------------------------------
(* A directory is listed.                                                    *)
LEMMA ScanDirTraversal == ASSUME TraversalInv, ScanDir PROVE TraversalInv'
<1> DEFINE d == Last(stack)
<1> DEFINE found == Listed(d)
<1> DEFINE dirs == Sift(found, {p \in Path : input[p] = Dir})
<1>1. /\ phase = "scan" /\ stack # <<>> /\ input[d] = Dir
      /\ out' = out \o found /\ stack' = Front(stack) \o dirs
      /\ UNCHANGED <<input, recursive, phase, recorded, files, appends, gone>>
  BY DEF ScanDir
<1>2. /\ TreeTypeOK /\ StackOnce /\ IsInjective(out) /\ OutOrder /\ RecordOrder
      /\ NothingYet /\ Untouched /\ EntriesDistinct /\ ParentsFirst
  BY <1>1 DEF TraversalInv
<1>3. stack \in Seq(Path) /\ out \in Seq(Path \ {Top})
  BY <1>2 DEF TreeTypeOK
<1>4. found \in Seq(Path \ {Top}) /\ Range(found) = Inside(d) /\ IsInjective(found)
  BY ListedProperties
<1>5. \A p \in Inside(d) : p \in Path \ {Top} /\ Parent(p) = d
  BY DEF Inside, Children
<1> HIDE DEF found
<1>6. /\ dirs \in Seq(Path \ {Top}) /\ IsInjective(dirs)
      /\ Range(dirs) = {p \in Inside(d) : input[p] = Dir}
  <2>1. /\ dirs \in Seq(Path \ {Top}) /\ IsInjective(dirs)
        /\ Range(dirs) = Range(found) \cap {p \in Path : input[p] = Dir}
    BY <1>4, SiftElements
  <2> HIDE DEF dirs
  <2> QED BY <1>4, <1>5, <2>1
<1> HIDE DEF dirs
<1>7. /\ d \in Path /\ d \in Range(stack)
      /\ Front(stack) \in Seq(Path) /\ IsInjective(Front(stack))
      /\ Range(stack) = Range(Front(stack)) \cup {d} /\ d \notin Range(Front(stack))
  <2>1. IsInjective(stack)
    BY <1>2 DEF StackOnce
  <2>2. /\ Front(stack) \in Seq(Path) /\ Last(stack) \in Path
        /\ Range(stack) = Range(Front(stack)) \cup {Last(stack)}
        /\ IsInjective(stack) => /\ IsInjective(Front(stack))
                                 /\ Last(stack) \notin Range(Front(stack))
    BY <1>1, <1>3, FrontElements
  <2> QED BY <2>1, <2>2
<1> HIDE DEF d
(* Nothing of what is found has been listed or is on the stack. *)
<1>8. /\ \A p \in Inside(d) : p \notin Range(out) /\ p \notin Range(stack)
      /\ \A p \in Range(out) : Parent(p) \notin Range(stack)
      /\ Range(stack) \subseteq Range(out) \cup {Top}
  BY <1>2, <1>5, <1>7 DEF StackOnce
<1>9. /\ out' \in Seq(Path \ {Top}) /\ Len(out') = Len(out) + Len(found)
      /\ \A i \in 1..Len(out) : out'[i] = out[i]
      /\ \A i \in 1..Len(found) : out'[Len(out) + i] = found[i]
      /\ Range(out') = Range(out) \cup Inside(d) /\ IsInjective(out')
  <2>1. Range(out) \cap Range(found) = {}
    BY <1>4, <1>8
  <2> QED BY <1>1, <1>2, <1>3, <1>4, <2>1, ConcatElements
<1>10. /\ stack' \in Seq(Path) /\ IsInjective(stack')
       /\ Range(stack') = Range(Front(stack)) \cup {p \in Inside(d) : input[p] = Dir}
  <2>1. dirs \in Seq(Path)
    BY <1>6, SeqMonotonic
  <2>2. Range(Front(stack)) \cap Range(dirs) = {}
    BY <1>6, <1>7, <1>8
  <2> QED BY <1>1, <1>6, <1>7, <2>1, <2>2, ConcatElements
<1>11. d = Top \/ d \in Range(out)
  BY <1>7, <1>8
<1>12. TreeTypeOK' /\ RecordOrder' /\ NothingYet' /\ EntriesDistinct' /\ ParentsFirst'
  <2>1. recorded = 0 /\ recorded' = 0 /\ phase' = "scan"
    BY <1>1, <1>2 DEF RecordOrder
  <2>2. recorded' \in 0..Len(out') /\ 1..recorded' = {}
    BY <1>9, <2>1
  <2>3. TreeTypeOK'
    BY <1>1, <1>2, <1>9, <1>10, <2>2 DEF TreeTypeOK
  <2>4. RecordOrder'
    BY <2>1, <2>2 DEF RecordOrder
  <2> QED BY <1>1, <1>2, <2>3, <2>4 DEF NothingYet, EntriesDistinct, ParentsFirst
<1>13. StackOnce'
  <2>1. Range(stack') \subseteq Range(out') \cup {Top}
    BY <1>7, <1>8, <1>9, <1>10
  <2>2. ASSUME NEW p \in Inside(d) PROVE Parent(p) \notin Range(stack')
    <3>1. Parent(p) = d /\ d \notin Range(Front(stack))
      BY <1>5, <1>7
    <3>2. d \notin Inside(d)
      BY <1>7, <1>8
    <3> QED BY <1>10, <3>1, <3>2
  <2>3. ASSUME NEW p \in Range(out) PROVE Parent(p) \notin Range(stack')
    <3>1. Parent(p) \notin Range(Front(stack))
      BY <1>7, <1>8
    <3>2. Parent(p) \notin Inside(d)
      <4>1. Parent(p) = Top \/ Parent(p) \in Range(out)
        <5>1. PICK i \in 1..Len(out) : out[i] = p
          BY <1>3, Elements
        <5>2. CASE Len(p) > 1
          <6>1. PICK j \in 1..(i-1) : out[j] = Parent(p)
            BY <1>1, <1>2, <5>1, <5>2 DEF OutOrder
          <6>2. j \in 1..Len(out)
            BY <5>1, <6>1
          <6> QED BY <1>3, <6>1, <6>2, Elements
        <5>3. CASE ~(Len(p) > 1)
          <6>1. p \in Path \ {Top}
            BY <1>3, Elements
          <6>2. Parent(p) \in Path /\ Len(Parent(p)) = 0
            BY <5>3, <6>1, PathProperties
          <6> QED BY <6>2, PathProperties
        <5> QED BY <5>2, <5>3
      <4> QED BY <1>5, <1>8, <4>1
    <3> QED BY <1>10, <3>1, <3>2
  <2> QED BY <1>9, <1>10, <2>1, <2>2, <2>3 DEF StackOnce
<1>14. OutOrder'
  <2> SUFFICES ASSUME NEW i \in 1..Len(out'), Len(out'[i]) > 1
               PROVE  \E j \in 1..(i-1) : out'[j] = Parent(out'[i])
    BY DEF OutOrder
  <2>1. CASE i \in 1..Len(out)
    <3>1. out'[i] = out[i]
      BY <1>9, <2>1
    <3>2. PICK j \in 1..(i-1) : out[j] = Parent(out[i])
      BY <1>1, <1>2, <2>1, <3>1 DEF OutOrder
    <3>3. out'[j] = out[j]
      BY <1>9, <2>1, <3>2
    <3> QED BY <3>1, <3>2, <3>3
  <2>2. CASE i \notin 1..Len(out)
    <3>1. i - Len(out) \in 1..Len(found) /\ i = Len(out) + (i - Len(out)) /\ Len(out) < i
      BY <1>3, <1>4, <1>9, <2>2
    <3>2. out'[i] = found[i - Len(out)]
      BY <1>9, <3>1
    <3>3. out'[i] \in Inside(d)
      BY <1>4, <3>1, <3>2, Elements
    <3>4. Parent(out'[i]) = d /\ d # Top
      <4>1. out'[i] \in Path \ {Top} /\ Parent(out'[i]) = d
        BY <1>5, <3>3
      <4>2. PICK n \in Nat : Len(out'[i]) = n /\ Len(d) = n - 1
        BY <4>1, PathProperties
      <4>3. Len(d) # 0
        <5>1. n > 1
          BY <4>2
        <5> QED BY <4>2, <5>1
      <4> QED BY <4>1, <4>3, TopIsPath
    <3>5. PICK j \in 1..Len(out) : out[j] = d
      BY <1>3, <1>11, <3>4, Elements
    <3>6. j \in 1..(i-1) /\ out'[j] = d
      BY <1>3, <1>9, <3>1, <3>5
    <3> QED BY <3>4, <3>6
  <2> QED BY <2>1, <2>2
<1>15. Untouched'
  <2> SUFFICES ASSUME gone = {}, recursive
               PROVE  /\ Range(out') \subseteq Wanted
                      /\ \A p \in Wanted : Parent(p) \in Range(out') \cup {Top} =>
                           p \in Range(out') \/ Parent(p) \in Range(stack')
    BY <1>1, <1>2 DEF Untouched, Wanted
  <2>1. /\ IsTree(input) /\ Range(out) \subseteq Wanted
        /\ \A p \in Wanted : Parent(p) \in Range(out) \cup {Top} =>
             p \in Range(out) \/ Parent(p) \in Range(stack)
    BY <1>1, <1>2 DEF Untouched
  <2>2. Inside(d) = {p \in Wanted : Parent(p) = d}
    <3>1. ASSUME NEW p \in Path
          PROVE  (input[p] # Absent /\ input[p].type # "special")
                   <=> input[p].type \in {"dir", "file", "link"}
      BY <2>1 DEF IsTree, Node, Storable, Absent, Dir, Special
    <3> QED BY <3>1 DEF Inside, Children, Wanted
  <2>3. Range(out') \subseteq Wanted
    BY <1>9, <2>1, <2>2
  <2>4. ASSUME NEW p \in Wanted, Parent(p) \in Range(out') \cup {Top}
        PROVE  p \in Range(out') \/ Parent(p) \in Range(stack')
    <3>1. CASE Parent(p) = d
      BY <1>9, <2>2, <3>1
    <3>2. CASE Parent(p) \in Inside(d)
      <4>1. p \in Path \ {Top} /\ input[p] # Absent
        BY DEF Wanted, Absent
      <4>2. input[Parent(p)] = Dir
        BY <2>1, <4>1 DEF IsTree
      <4> QED BY <1>10, <3>2, <4>2
    <3>3. CASE Parent(p) # d /\ Parent(p) \in Range(out) \cup {Top}
      BY <1>7, <1>9, <1>10, <2>1, <3>3
    <3> QED BY <1>9, <2>4, <3>1, <3>2, <3>3
  <2> QED BY <2>3, <2>4
<1> QED BY <1>9, <1>12, <1>13, <1>14, <1>15 DEF TraversalInv

-----------------------------------------------------------------------------
(* The list is complete: everything is below a directory that was listed,    *)
(* by induction on the length of the path.                                   *)
LEMMA AllIsListed ==
    ASSUME TraversalInv, phase = "scan", stack = <<>>, gone = {}, recursive
    PROVE  Range(out) = Wanted
<1>1. /\ IsTree(input) /\ Range(out) \subseteq Wanted
      /\ \A p \in Wanted : Parent(p) \in Range(out) \cup {Top} => p \in Range(out)
  <2>1. Range(stack) = {}
    BY EmptyList
  <2> QED BY <2>1 DEF TraversalInv, Untouched
<1> DEFINE T == {n \in Nat : \A p \in Wanted : Len(p) <= n => p \in Range(out)}
<1>2. \A p \in Wanted : p \in Path /\ p # Top /\ Len(p) \in Nat /\ Len(p) > 0
  BY PathProperties DEF Wanted
<1>3. 0 \in T
  <2>1. \A p \in Wanted : ~(Len(p) <= 0)
    BY <1>2
  <2> QED BY <2>1
<1>4. ASSUME NEW n \in T PROVE n + 1 \in T
  <2> SUFFICES ASSUME NEW p \in Wanted, Len(p) <= n + 1 PROVE p \in Range(out)
    OBVIOUS
  <2>1. n \in Nat /\ \A q \in Wanted : Len(q) <= n => q \in Range(out)
    OBVIOUS
  <2> HIDE DEF T
  <2>2. PICK k \in Nat : Len(p) = k /\ Len(Parent(p)) = k - 1 /\ Parent(p) \in Path
    BY <1>2, PathProperties
  <2>3. CASE Parent(p) = Top
    BY <1>1, <2>3
  <2>4. CASE Parent(p) # Top
    <3>1. input[p] # Absent
      BY DEF Wanted, Absent
    <3>2. input[Parent(p)] = Dir
      BY <1>1, <1>2, <3>1 DEF IsTree
    <3>3. Parent(p) \in Wanted
      BY <2>2, <2>4, <3>2 DEF Wanted, Dir
    <3>4. k - 1 <= n
      BY <2>1, <2>2
    <3> QED BY <1>1, <2>1, <2>2, <3>3, <3>4
  <2> QED BY <2>3, <2>4
<1>5. T = Nat
  <2> HIDE DEF T
  <2>1. T \in SUBSET Nat
    BY DEF T
  <2> QED BY <1>3, <1>4, <2>1, Induction
<1>6. ASSUME NEW p \in Wanted PROVE p \in Range(out)
  <2>1. Len(p) \in T
    <3> HIDE DEF T
    <3> QED BY <1>2, <1>5
  <2>2. Len(p) <= Len(p)
    BY <1>2
  <2> QED BY <2>1, <2>2
<1> QED BY <1>1, <1>6

(* What the index has already is dropped from the list.                      *)
LEMMA ScanDoneTraversal == ASSUME TraversalInv, ScanDone PROVE TraversalInv'
<1> DEFINE keep == Path \ Paths(files)
<1>1. /\ phase = "scan" /\ phase' = "record" /\ stack = <<>> /\ out' = Sift(out, keep)
      /\ UNCHANGED <<input, recursive, stack, recorded, files, appends, gone>>
  BY DEF ScanDone
<1>2. /\ TreeTypeOK /\ IsInjective(out) /\ OutOrder /\ RecordOrder
      /\ NothingYet /\ Untouched /\ EntriesDistinct /\ ParentsFirst
  BY DEF TraversalInv
<1>3. out \in Seq(Path \ {Top}) /\ stack \in Seq(Path)
  BY <1>2 DEF TreeTypeOK
<1> HIDE DEF keep
<1>4. /\ out' \in Seq(Path \ {Top}) /\ Range(out') = Range(out) \cap keep
      /\ IsInjective(out')
  BY <1>1, <1>2, <1>3, SiftElements
<1>5. PICK at : Kept(out, keep, out', Len(out), at)
  BY <1>1, <1>3, SiftKeeps
<1>6. recorded' = 0 /\ recorded' \in 0..Len(out') /\ 1..recorded' = {} /\ recorded' + 1 = 1
  <2>1. recorded' = 0
    BY <1>1, <1>2 DEF RecordOrder
  <2> QED BY <1>4, <2>1
<1>7. TreeTypeOK' /\ NothingYet' /\ EntriesDistinct' /\ ParentsFirst'
  <2>1. TreeTypeOK'
    BY <1>1, <1>2, <1>4, <1>6 DEF TreeTypeOK
  <2> QED BY <1>1, <1>2, <2>1 DEF NothingYet, EntriesDistinct, ParentsFirst
<1>8. RecordOrder'
  <2>1. ASSUME NEW i \in 1..Len(out') PROVE out'[i] \notin Paths(files')
    <3>1. out'[i] \in keep
      BY <1>5 DEF Kept
    <3> QED BY <1>1, <3>1 DEF keep
  <2> QED BY <1>1, <1>6, <2>1 DEF RecordOrder
<1>9. OutOrder'
  <2> SUFFICES ASSUME NEW i \in 1..Len(out'), Len(out'[i]) > 1
               PROVE  \/ \E j \in 1..(i-1) : out'[j] = Parent(out'[i])
                      \/ Parent(out'[i]) \in Paths(files)
    BY <1>1 DEF OutOrder
  <2>1. at[i] \in 1..Len(out) /\ out'[i] = out[at[i]]
    BY <1>5 DEF Kept
  <2>2. PICK j \in 1..(at[i] - 1) : out[j] = Parent(out[at[i]])
    BY <1>1, <1>2, <2>1 DEF OutOrder
  <2>3. j \in 1..Len(out) /\ j < at[i]
    BY <2>1, <2>2
  <2>4. CASE out[j] \in keep
    <3>1. PICK k \in 1..Len(out') : at[k] = j
      BY <1>5, <2>3, <2>4 DEF Kept
    <3>2. out'[k] = out[j]
      BY <1>5, <3>1 DEF Kept
    <3>3. k < i
      <4>1. CASE i < k
        <5>1. at[i] < at[k]
          BY <1>5, <4>1 DEF Kept
        <5> QED BY <2>1, <2>3, <3>1, <5>1
      <4>2. CASE i = k
        BY <2>1, <2>3, <3>1, <4>2
      <4> QED BY <4>1, <4>2
    <3>4. k \in 1..(i-1)
      BY <3>3
    <3> QED BY <2>1, <2>2, <3>2, <3>4
  <2>5. CASE out[j] \notin keep
    <3>1. out[j] \in Path
      BY <1>3, <2>3
    <3> QED BY <2>1, <2>2, <2>5, <3>1 DEF keep
  <2> QED BY <2>4, <2>5
<1>10. Untouched'
  <2> SUFFICES ASSUME gone = {}
               PROVE  /\ IsTree(input)
                      /\ recursive /\ appends = 0 => Range(out') = Wanted
    BY <1>1 DEF Untouched, Wanted
  <2>1. IsTree(input)
    BY <1>2 DEF Untouched
  <2>2. ASSUME recursive, appends = 0 PROVE Range(out') = Wanted
    <3>1. Range(out) = Wanted
      BY <1>1, <2>2, AllIsListed
    <3>2. files = <<>>
      BY <1>1, <1>2, <2>2 DEF NothingYet
    <3>3. Paths(files) = {}
      BY <3>2 DEF Paths
    <3>4. Wanted \subseteq keep
      BY <3>3 DEF Wanted, keep
    <3> QED BY <1>4, <3>1, <3>4
  <2> QED BY <2>1, <2>2
<1>11. phase' # "scan"
  BY <1>1
<1> QED BY <1>4, <1>7, <1>8, <1>9, <1>10, <1>11 DEF TraversalInv

(* The next path of the list gets its entry.                                 *)
LEMMA RecordTraversal == ASSUME TraversalInv, Record PROVE TraversalInv'
<1> DEFINE p == out[recorded + 1]
<1> DEFINE e == Entry(p, input[p])
<1> DEFINE n == Len(files)
<1>1. /\ phase = "record" /\ recorded < Len(out)
      /\ files' = Append(files, e) /\ recorded' = recorded + 1
      /\ UNCHANGED <<input, recursive, phase, stack, out, appends, gone>>
  BY DEF Record
<1>2. /\ TreeTypeOK /\ IsInjective(out) /\ OutOrder /\ RecordOrder
      /\ NothingYet /\ Untouched /\ EntriesDistinct /\ ParentsFirst
  BY DEF TraversalInv
<1>3. /\ out \in Seq(Path \ {Top}) /\ recorded \in Nat /\ recorded + 1 \in 1..Len(out)
      /\ recorded + 1 \in (recorded + 1)..Len(out)
  BY <1>1, <1>2 DEF TreeTypeOK
<1>4. p \notin Paths(files)
  BY <1>1, <1>2, <1>3 DEF RecordOrder
<1> HIDE DEF p
<1>5. e.path = p
  BY DEF Entry
<1> HIDE DEF e
<1>6. PICK S : files \in Seq(S)
  BY <1>2 DEF TreeTypeOK
<1>7. /\ files' \in Seq(S \cup {e}) /\ n \in Nat
      /\ DOMAIN files = 1..n /\ DOMAIN files' = 1..(n + 1)
      /\ files'[n + 1] = e /\ \A i \in 1..n : files'[i] = files[i]
  <2>1. files \in Seq(S \cup {e}) /\ e \in S \cup {e}
    BY <1>6, SeqMonotonic
  <2> QED BY <1>1, <2>1
<1> HIDE DEF n
<1>8. Paths(files') = Paths(files) \cup {p}
  <2>1. ASSUME NEW q \in Paths(files') PROVE q \in Paths(files) \cup {p}
    <3>1. PICK i \in 1..(n + 1) : files'[i].path = q
      BY <1>7 DEF Paths
    <3>2. CASE i = n + 1
      BY <1>5, <1>7, <3>1, <3>2
    <3>3. CASE i \in 1..n
      BY <1>7, <3>1, <3>3 DEF Paths
    <3> QED BY <1>7, <3>2, <3>3
  <2>2. p \in Paths(files')
    <3>1. n + 1 \in DOMAIN files'
      BY <1>7
    <3> QED BY <1>5, <1>7, <3>1 DEF Paths
  <2>3. ASSUME NEW q \in Paths(files) PROVE q \in Paths(files')
    <3>1. PICK i \in 1..n : files[i].path = q
      BY <1>7 DEF Paths
    <3>2. i \in DOMAIN files' /\ files'[i].path = q
      BY <1>7, <3>1
    <3> QED BY <3>2 DEF Paths
  <2> QED BY <2>1, <2>2, <2>3
<1>9. EntriesDistinct'
  <2> SUFFICES ASSUME NEW i \in 1..(n + 1), NEW j \in 1..(n + 1), i # j
               PROVE  files'[i].path # files'[j].path
    BY <1>7 DEF EntriesDistinct
  <2>1. ASSUME NEW k \in 1..n PROVE files'[k].path \in Paths(files) /\ files'[k].path # p
    <3>1. files'[k].path \in Paths(files)
      BY <1>7 DEF Paths
    <3> QED BY <1>4, <3>1
  <2>2. files'[n + 1].path = p
    BY <1>5, <1>7
  <2>3. CASE i \in 1..n /\ j \in 1..n
    BY <1>2, <1>7, <2>3 DEF EntriesDistinct
  <2>4. (i \in 1..n \/ i = n + 1) /\ (j \in 1..n \/ j = n + 1)
    BY <1>7
  <2> QED BY <2>1, <2>2, <2>3, <2>4
<1>10. ParentsFirst'
  <2> SUFFICES ASSUME NEW i \in 1..(n + 1), Len(files'[i].path) > 1
               PROVE  \E j \in 1..(i-1) : files'[j].path = Parent(files'[i].path)
    BY <1>7 DEF ParentsFirst
  <2>1. CASE i \in 1..n
    <3>1. PICK j \in 1..(i-1) : files[j].path = Parent(files[i].path)
      BY <1>2, <1>7, <2>1 DEF ParentsFirst
    <3>2. j \in 1..n
      BY <1>7, <2>1, <3>1
    <3> QED BY <1>7, <2>1, <3>1, <3>2
  <2>2. CASE i = n + 1
    <3>1. files'[i].path = p
      BY <1>5, <1>7, <2>2
    <3>2. Parent(p) \in Paths(files)
      <4>1. CASE \E j \in 1..((recorded + 1) - 1) : out[j] = Parent(p)
        <5>1. PICK j \in 1..((recorded + 1) - 1) : out[j] = Parent(p)
          BY <4>1
        <5>2. j \in 1..recorded
          BY <1>3
        <5> QED BY <1>2, <5>1, <5>2 DEF RecordOrder
      <4>2. Len(out[recorded + 1]) > 1
        BY <3>1 DEF p
      <4>3. \/ \E j \in 1..((recorded + 1) - 1) : out[j] = Parent(p)
            \/ Parent(p) \in Paths(files)
        BY <1>2, <1>3, <4>2 DEF OutOrder, p
      <4> QED BY <4>1, <4>3
    <3>3. PICK j \in 1..n : files[j].path = Parent(p)
      BY <1>7, <3>2 DEF Paths
    <3>4. j \in 1..(i-1) /\ files'[j] = files[j]
      BY <1>7, <2>2
    <3> QED BY <3>1, <3>3, <3>4
  <2>3. i \in 1..n \/ i = n + 1
    BY <1>7
  <2> QED BY <2>1, <2>2, <2>3
<1>11. RecordOrder'
  <2>1. ASSUME NEW i \in 1..recorded' PROVE out[i] \in Paths(files')
    <3>1. CASE i \in 1..recorded
      BY <1>2, <1>8, <3>1 DEF RecordOrder
    <3>2. CASE i = recorded + 1
      BY <1>8, <3>2 DEF p
    <3> QED BY <1>1, <1>3, <3>1, <3>2
  <2>2. ASSUME NEW i \in (recorded' + 1)..Len(out) PROVE out[i] \notin Paths(files')
    <3>1. i \in (recorded + 1)..Len(out) /\ i # recorded + 1 /\ i \in 1..Len(out)
      BY <1>1, <1>3
    <3>2. out[i] # p
      BY <1>2, <1>3, <3>1, Elements DEF p
    <3> QED BY <1>1, <1>2, <1>8, <3>1, <3>2 DEF RecordOrder
  <2> QED BY <1>1, <2>1, <2>2 DEF RecordOrder
<1>12. OutOrder'
  <2>1. Paths(files) \subseteq Paths(files')
    BY <1>8
  <2> QED BY <1>1, <1>2, <2>1 DEF OutOrder
<1>13. TreeTypeOK'
  <2>1. recorded' \in 0..Len(out')
    BY <1>1, <1>3
  <2> QED BY <1>1, <1>2, <1>7, <2>1 DEF TreeTypeOK
<1>14. NothingYet' /\ Untouched'
  BY <1>1, <1>2 DEF NothingYet, Untouched, Wanted
<1> QED
  BY <1>1, <1>2, <1>9, <1>10, <1>11, <1>12, <1>13, <1>14 DEF TraversalInv

(* What leaves the lists and the index alone. *)
LEMMA FrameTraversal ==
    ASSUME TraversalInv, UNCHANGED <<recursive, stack, out, recorded, files, appends>>,
           \/ UNCHANGED phase /\ (gone' = {} => UNCHANGED <<input, gone>>)
           \/ phase' = "failed" /\ UNCHANGED <<input, gone>>
           \/ phase = "record" /\ recorded = Len(out) /\ phase' = "ok" /\ UNCHANGED <<input, gone>>
    PROVE  TraversalInv'
<1>1. TreeTypeOK' /\ IsInjective(out') /\ OutOrder' /\ EntriesDistinct' /\ ParentsFirst'
  BY DEF TraversalInv, TreeTypeOK, OutOrder, EntriesDistinct, ParentsFirst
<1>2. (phase' = "scan" => StackOnce') /\ RecordOrder' /\ NothingYet'
  BY DEF TraversalInv, StackOnce, RecordOrder, NothingYet
<1>3. Untouched'
  BY DEF TraversalInv, Untouched, Wanted
<1> QED BY <1>1, <1>2, <1>3 DEF TraversalInv

LEMMA NextTraversal == TraversalInv /\ [Next]_vars => TraversalInv'
<1> SUFFICES ASSUME TraversalInv, [Next]_vars PROVE TraversalInv'
  OBVIOUS
<1>1. CASE ScanDir
  BY <1>1, ScanDirTraversal
<1>2. CASE ScanFails
  BY <1>2, FrameTraversal DEF ScanFails
<1>3. CASE ScanDone
  BY <1>3, ScanDoneTraversal
<1>4. CASE Record
  BY <1>4, RecordTraversal
<1>5. CASE RecordFails
  BY <1>5, FrameTraversal DEF RecordFails
<1>6. CASE RecordDone
  BY <1>6, FrameTraversal DEF RecordDone
<1>7. CASE AppendMore
  BY <1>7, AppendMoreTraversal
<1>8. CASE Vanish
  <2>1. gone' # {} /\ UNCHANGED <<recursive, phase, stack, out, recorded, files, appends>>
    BY <1>8 DEF Vanish
  <2> QED BY <2>1, FrameTraversal
<1>9. CASE UNCHANGED vars
  BY <1>9, FrameTraversal DEF vars
<1> QED
  BY <1>1, <1>2, <1>3, <1>4, <1>5, <1>6, <1>7, <1>8, <1>9 DEF Next, Step, Stopped

(* What is on the list, on the stack and in the index at every moment of     *)
(* compress and of the appends after it, for trees of any shape              *)
(* (compress.rs retrieve_all_files, append.rs append_file).                  *)
THEOREM TraversalInvariant == Spec => []TraversalInv
<1> QED BY InitTraversal, NextTraversal, PTL DEF Spec

(* The index never has two entries for one path, over any number of appends  *)
(* of any trees (the set "seen" of append_file).                             *)
THEOREM PathsAreDistinct == Spec => []EntriesDistinct
<1>1. TraversalInv => EntriesDistinct
  BY DEF TraversalInv
<1> QED BY <1>1, TraversalInvariant, PTL

(* Extraction in the order of the index finds the directory of every entry:  *)
(* a directory gets its entry before anything it has, also when an append    *)
(* drops the directory because the index has it already.                     *)
THEOREM DirectoriesComeFirst == Spec => []ParentsFirst
<1>1. TraversalInv => ParentsFirst
  BY DEF TraversalInv
<1> QED BY <1>1, TraversalInvariant, PTL

(* A command that succeeds has an entry for everything it listed: what goes  *)
(* away between the listing and the reading is an error, not a gap.          *)
THEOREM NothingIsSkipped == Spec => []NothingListedIsLost
<1>1. TraversalInv => NothingListedIsLost
  <2> SUFFICES ASSUME TraversalInv, phase = "ok"
               PROVE  {out[i] : i \in DOMAIN out} \subseteq Paths(files)
    BY DEF NothingListedIsLost
  <2>1. recorded = Len(out) /\ \A i \in 1..recorded : out[i] \in Paths(files)
    BY DEF TraversalInv, RecordOrder
  <2>2. DOMAIN out = 1..Len(out)
    BY LenProperties DEF TraversalInv, TreeTypeOK
  <2> QED BY <2>1, <2>2
<1> QED BY <1>1, TraversalInvariant, PTL

(* compress lists everything in a tree that nobody touches, and each path    *)
(* once, for trees of every shape and depth: what is below a link is not     *)
(* visited, what is below a directory is.                                    *)
THEOREM TheWholeTreeIsListed == Spec => []ListsEachOnce
<1>1. TraversalInv => ListsEachOnce
  <2> SUFFICES ASSUME TraversalInv, phase = "record", gone = {}, appends = 0
               PROVE  /\ \A i, j \in DOMAIN out : i # j => out[i] # out[j]
                      /\ recursive => {out[i] : i \in DOMAIN out} = Wanted
    BY DEF ListsEachOnce
  <2>1. IsInjective(out) /\ (recursive => Range(out) = Wanted)
    BY DEF TraversalInv, Untouched
  <2> QED BY <2>1 DEF IsInjective, Range
<1> QED BY <1>1, TraversalInvariant, PTL

-----------------------------------------------------------------------------
(* Paths, and what is above them.                                            *)

LEMMA UnderIs ==
    ASSUME NEW q \in Path, NEW p \in Path
    PROVE  Under(q, p) <=> Len(q) <= Len(p) /\ \A i \in 1..Len(q) : q[i] = p[i]
<1>1. q \in Seq(Name) /\ p \in Seq(Name)
  BY PathProperties
<1> QED BY <1>1, PrefixIs DEF Under

LEMMA UnderOrder ==
    ASSUME NEW q \in Path, NEW p \in Path
    PROVE  /\ Under(Top, p) /\ Under(p, p)
           /\ Under(q, p) => Len(q) <= Len(p)
           /\ Under(q, p) /\ Len(q) = Len(p) => q = p
           /\ Under(q, Top) => q = Top
           /\ \A r \in Path : Under(q, p) /\ Under(p, r) => Under(q, r)
<1>1. p \in Seq(Name) /\ q \in Seq(Name) /\ Len(p) \in Nat /\ Len(q) \in Nat
  BY PathProperties
<1>2. Top \in Path /\ Len(Top) = 0 /\ 1..0 = {}
  BY TopIsPath
<1>3. Under(Top, p) /\ Under(p, p)
  BY <1>1, <1>2, UnderIs
<1>4. ASSUME Under(q, p), Len(q) = Len(p) PROVE q = p
  BY <1>1, <1>4, UnderIs, SeqEqual
<1>5. ASSUME Under(q, Top) PROVE q = Top
  <2>1. Len(q) = 0
    BY <1>1, <1>2, <1>5, UnderIs
  <2> QED BY <2>1, PathProperties
<1>6. ASSUME NEW r \in Path, Under(q, p), Under(p, r) PROVE Under(q, r)
  <2>1. Len(r) \in Nat
    BY PathProperties
  <2>2. /\ Len(q) <= Len(p) /\ Len(p) <= Len(r)
        /\ \A i \in 1..Len(q) : q[i] = p[i]
        /\ \A i \in 1..Len(p) : p[i] = r[i]
    BY <1>6, UnderIs
  <2>3. Len(q) <= Len(r) /\ \A i \in 1..Len(q) : i \in 1..Len(p)
    BY <1>1, <2>1, <2>2
  <2> QED BY <2>2, <2>3, UnderIs
<1> QED BY <1>3, <1>4, <1>5, <1>6, UnderIs

LEMMA UnderParent ==
    ASSUME NEW q \in Path, NEW p \in Path \ {Top}
    PROVE  /\ Under(q, p) <=> q = p \/ Under(q, Parent(p))
           /\ ~Under(p, Parent(p))
<1>1. /\ p \in Seq(Name) /\ p # <<>> /\ Len(p) \in Nat /\ Len(q) \in Nat
      /\ Parent(p) \in Path /\ Len(Parent(p)) = Len(p) - 1
  BY PathProperties DEF Top
<1>2. \A i \in 1..(Len(p) - 1) : Parent(p)[i] = p[i]
  BY <1>1, FrontElements DEF Parent
<1>3. PICK m \in Nat, n \in Nat : m = Len(q) /\ n = Len(p)
  BY <1>1
<1>4. Len(Parent(p)) = n - 1
  BY <1>1, <1>3
<1>5. ~Under(p, Parent(p))
  <2>1. ~(n <= n - 1)
    OBVIOUS
  <2> QED BY <1>1, <1>3, <1>4, <2>1, UnderIs
<1>6. ASSUME Under(q, Parent(p)) PROVE Under(q, p)
  <2>1. m <= n - 1 /\ \A i \in 1..m : q[i] = Parent(p)[i]
    BY <1>1, <1>3, <1>4, <1>6, UnderIs
  <2>2. m <= n /\ \A i \in 1..m : i \in 1..(n - 1)
    BY <2>1
  <2>3. \A i \in 1..m : q[i] = p[i]
    BY <1>2, <1>3, <2>1, <2>2
  <2> QED BY <1>3, <2>2, <2>3, UnderIs
<1>7. ASSUME Under(q, p), q # p PROVE Under(q, Parent(p))
  <2>1. m <= n /\ \A i \in 1..m : q[i] = p[i]
    BY <1>3, <1>7, UnderIs
  <2>2. m # n
    BY <1>3, <1>7, UnderOrder
  <2>3. m <= n - 1 /\ \A i \in 1..m : i \in 1..(n - 1)
    BY <2>1, <2>2
  <2>4. \A i \in 1..m : q[i] = Parent(p)[i]
    BY <1>2, <1>3, <2>1, <2>3
  <2> QED BY <1>1, <1>3, <1>4, <2>3, <2>4, UnderIs
<1>8. Under(p, p)
  BY UnderOrder
<1> QED BY <1>5, <1>6, <1>7, <1>8

(* The directories on the way to a path. *)
Way(p, i) == SubSeq(p, 1, i)

LEMMA WayIs ==
    ASSUME NEW p \in Path, NEW i \in 0..Len(p)
    PROVE  /\ Way(p, i) \in Path /\ Len(Way(p, i)) = i /\ Under(Way(p, i), p)
           /\ i = 0 => Way(p, i) = Top
           /\ i = Len(p) => Way(p, i) = p
           /\ i > 0 => /\ Way(p, i) = Append(Way(p, i-1), p[i])
                       /\ Way(p, i) # Top
           /\ \A q \in Path : Under(q, p) /\ Len(q) = i => q = Way(p, i)
<1>1. p \in Seq(Name) /\ Len(p) \in Nat /\ i \in Nat /\ i <= Len(p)
  BY PathProperties
<1>2. ASSUME NEW j \in 0..Len(p)
      PROVE  /\ Way(p, j) \in Seq(Name) /\ Len(Way(p, j)) = j
             /\ \A k \in 1..j : Way(p, j)[k] = p[k]
  <2>1. 0 \in 0..Len(p) /\ j \in 0..Len(p) /\ 0 + 1 = 1 /\ j - 0 = j
    BY <1>1
  <2>2. \A k \in Int : 0 + k = k
    OBVIOUS
  <2>3. /\ SubSeq(p, 0 + 1, j) \in Seq(Name) /\ Len(SubSeq(p, 0 + 1, j)) = j - 0
        /\ \A k \in 1..(j - 0) : SubSeq(p, 0 + 1, j)[k] = p[0 + k]
    BY <1>1, <2>1, SliceProperties
  <2> QED BY <2>1, <2>2, <2>3 DEF Way
<1>3. ASSUME NEW j \in 0..Len(p) PROVE Way(p, j) \in Path
  <2>1. PICK n \in 0..MaxDepth : p \in [1..n -> Name]
    BY DEF Path
  <2>2. j \in 0..MaxDepth
    BY <2>1, DepthAssumption
  <2>3. Way(p, j) \in [1..j -> Name]
    BY <1>2, LenProperties
  <2> QED BY <2>2, <2>3 DEF Path
<1>4. Under(Way(p, i), p)
  BY <1>1, <1>2, <1>3, UnderIs
<1>5. ASSUME i = 0 PROVE Way(p, i) = Top
  BY <1>2, <1>3, <1>5, PathProperties
<1>6. ASSUME NEW q \in Path, Under(q, p), Len(q) = i PROVE q = Way(p, i)
  <2>1. q \in Seq(Name) /\ \A k \in 1..i : q[k] = p[k]
    BY <1>6, PathProperties, UnderIs
  <2>2. Way(p, i) \in Seq(Name) /\ Len(Way(p, i)) = i /\ \A k \in 1..i : Way(p, i)[k] = p[k]
    BY <1>2
  <2> QED BY <1>6, <2>1, <2>2, SeqEqual
<1>7. ASSUME i = Len(p) PROVE Way(p, i) = p
  BY <1>6, <1>7, UnderOrder
<1>8. ASSUME i > 0 PROVE Way(p, i) = Append(Way(p, i-1), p[i]) /\ Way(p, i) # Top
  <2> DEFINE f == Way(p, i-1)
  <2> DEFINE r == Append(f, p[i])
  <2> DEFINE w == Way(p, i)
  <2>1. i - 1 \in 0..Len(p) /\ i \in 1..Len(p)
    BY <1>1, <1>8
  <2>2. p[i] \in Name
    BY <1>1, <2>1
  <2>3. f \in Seq(Name) /\ Len(f) = i - 1 /\ \A k \in 1..(i-1) : f[k] = p[k]
    BY <1>2, <2>1
  <2>4. w \in Seq(Name) /\ Len(w) = i /\ \A k \in 1..i : w[k] = p[k]
    BY <1>2
  <2> HIDE DEF f, w
  <2>5. /\ r \in Seq(Name) /\ Len(r) = (i - 1) + 1 /\ r[(i - 1) + 1] = p[i]
        /\ \A k \in 1..(i-1) : r[k] = f[k]
    BY <2>2, <2>3
  <2> HIDE DEF r
  <2>6. (i - 1) + 1 = i
    BY <1>1
  <2>7. \A k \in 1..i : k = i \/ k \in 1..(i-1)
    BY <1>1
  <2>8. \A k \in 1..i : r[k] = w[k]
    BY <2>3, <2>4, <2>5, <2>6, <2>7
  <2>9. r = w
    BY <2>4, <2>5, <2>6, <2>8, SeqEqual
  <2>10. w # Top
    BY <1>8, <2>4, TopIsPath
  <2> QED BY <2>9, <2>10 DEF f, r, w
<1> QED BY <1>2, <1>3, <1>4, <1>5, <1>6, <1>7, <1>8

-----------------------------------------------------------------------------
(* Following links and making directories.                                   *)

(* A path that is no link is its own end. *)
LEMMA FinalOfNoLink ==
    ASSUME NEW t, NEW p \in Path, t[p].type # "link"
    PROVE  FinalPath(t, p) = p
<1> DEFINE S == [Path -> Path \cup {Outside}]
<1> DEFINE goal(q) == LinkGoal(Parent(q), t[q])
<1> DEFINE base == [q \in Path |-> IF t[q].type # "link" THEN q ELSE Outside]
<1> DEFINE step == [x \in (1..MaxLinks) \X S |->
                      [q \in Path |-> IF t[q].type # "link" THEN q
                                      ELSE IF goal(q) \notin Path THEN Outside
                                      ELSE x[2][goal(q)]]]
<1> DEFINE IsFollow(g) ==
        g = [n \in 0..MaxLinks |->
                [q \in Path |-> IF t[q].type # "link" THEN q
                                ELSE IF n = 0 \/ goal(q) \notin Path THEN Outside
                                ELSE g[n-1][goal(q)]]]
<1> DEFINE follow == CHOOSE g : IsFollow(g)
<1>1. MaxLinks \in Nat
  BY DEF MaxLinks
<1>2. base \in S
  OBVIOUS
<1>3. step \in Steps(MaxLinks, S)
  <2> HIDE DEF goal
  <2> QED BY DEF Steps
<1>4. \E g : IsRecursion(g, MaxLinks, S, base, step)
  <2> HIDE DEF S, base, step
  <2> QED BY <1>1, <1>2, <1>3, Recursion, Zenon
<1>5. PICK g \in [0..MaxLinks -> S] :
          g[0] = base /\ \A k \in 1..MaxLinks : g[k] = step[<<k, g[k-1]>>]
  BY <1>4 DEF IsRecursion
<1>6. IsFollow(g)
  <2> HIDE DEF goal
  <2>1. ASSUME NEW k \in 1..MaxLinks
        PROVE  g[k] = [q \in Path |-> IF t[q].type # "link" THEN q
                                      ELSE IF goal(q) \notin Path THEN Outside
                                      ELSE g[k-1][goal(q)]]
    <3>1. k - 1 \in 0..MaxLinks
      BY <1>1
    <3>2. <<k, g[k-1]>> \in (1..MaxLinks) \X S
      <4> HIDE DEF S
      <4> QED BY <1>5, <3>1
    <3>3. step[<<k, g[k-1]>>] = [q \in Path |-> IF t[q].type # "link" THEN q
                                      ELSE IF goal(q) \notin Path THEN Outside
                                      ELSE g[k-1][goal(q)]]
      <4> HIDE DEF S
      <4> QED BY <3>2
    <3> HIDE DEF step
    <3> QED BY <1>5, <3>3
  <2>2. ASSUME NEW n \in 0..MaxLinks
        PROVE  g[n] = [q \in Path |-> IF t[q].type # "link" THEN q
                                      ELSE IF n = 0 \/ goal(q) \notin Path THEN Outside
                                      ELSE g[n-1][goal(q)]]
    <3>1. CASE n = 0
      BY <1>5, <3>1
    <3>2. CASE n # 0
      <4>1. n \in 1..MaxLinks
        BY <1>1, <3>2
      <4> QED BY <2>1, <3>2, <4>1
    <3> QED BY <3>1, <3>2
  <2>3. g = [n \in 0..MaxLinks |-> g[n]]
    <3> HIDE DEF S
    <3> QED BY <1>5
  <2> HIDE DEF step, base
  <2> QED BY <2>2, <2>3
<1>7. IsFollow(follow)
  <2> HIDE DEF IsFollow
  <2> QED BY <1>6
<1>8. FinalPath(t, p) = follow[MaxLinks][p]
  BY DEF FinalPath
<1>9. MaxLinks \in 0..MaxLinks
  BY <1>1
<1> HIDE DEF follow, goal
<1>10. follow[MaxLinks] = [q \in Path |-> IF t[q].type # "link" THEN q
                               ELSE IF MaxLinks = 0 \/ goal(q) \notin Path THEN Outside
                               ELSE follow[MaxLinks-1][goal(q)]]
  BY <1>7, <1>9
<1>11. follow[MaxLinks][p] = p
  BY <1>10
<1> QED BY <1>8, <1>11

-----------------------------------------------------------------------------
(* mkdir -p on a way where there is nothing or only directories makes the    *)
(* directories and touches nothing else.                                     *)
Clear(t, p) == \A q \in Path : Under(q, p) => t[q] = Dir \/ (q # Top /\ t[q] = Absent)
Paved(t, p) == [q \in Path |-> IF Under(q, p) THEN Dir ELSE t[q]]

LEMMA OutsideNoPath == Outside \notin Path
<1> SUFFICES ASSUME Outside \in Path PROVE FALSE
  OBVIOUS
<1>1. Outside \in Seq(Name) /\ Len(Outside) = 1
  BY PathProperties DEF Outside
<1>2. 0 \in Name
  BY <1>1 DEF Outside
<1> QED BY <1>2, NameAssumption

LEMMA MakeDirsPaves ==
    ASSUME NEW t, t \in [Path -> Node], NEW p \in Path, Clear(t, p)
    PROVE  MakeDirs(t, p) = [tree |-> Paved(t, p), at |-> p]
<1> DEFINE n == Len(p)
<1> DEFINE step(s, q, r) ==
            IF r = Outside THEN [tree |-> s.tree, at |-> Outside]
            ELSE IF s.tree[r] = Dir THEN [tree |-> s.tree, at |-> r]
            ELSE IF s.tree[r] = Absent /\ r = q THEN [tree |-> Put(s.tree, r, Dir), at |-> r]
            ELSE [tree |-> s.tree, at |-> Outside]
<1> DEFINE next(s, i) ==
            step(s, Append(s.at, p[i]),
                 IF s.at = Outside THEN Outside ELSE FinalPath(s.tree, Append(s.at, p[i])))
<1> DEFINE IsMade(g) == g = [i \in 0..n |-> IF i = 0 THEN [tree |-> t, at |-> Top]
                                            ELSE next(g[i-1], i)]
<1> DEFINE made == CHOOSE g : IsMade(g)
<1> DEFINE m == [i \in 0..n |-> [tree |-> Paved(t, Way(p, i)), at |-> Way(p, i)]]
<1>1. n \in Nat /\ p \in Seq(Name)
  BY PathProperties
<1>2. m[0] = [tree |-> t, at |-> Top]
  <2>1. 0 \in 0..n /\ Way(p, 0) = Top
    BY <1>1, WayIs
  <2>2. t[Top] = Dir
    BY UnderOrder, TopIsPath DEF Clear
  <2>3. Paved(t, Top) = t
    <3>1. \A q \in Path : Under(q, Top) => t[q] = Dir
      BY <2>2, TopIsPath, UnderOrder
    <3> QED BY <3>1 DEF Paved
  <2> QED BY <2>1, <2>3
<1>3. ASSUME NEW i \in 1..n PROVE m[i] = next(m[i-1], i)
  <2>1. i - 1 \in 0..n /\ i \in 0..n /\ i > 0 /\ i - 1 < i
    BY <1>1
  <2> DEFINE r == Way(p, i)
  <2> DEFINE f == Way(p, i-1)
  <2>2. /\ r \in Path /\ Len(r) = i /\ Under(r, p) /\ r # Top /\ r = Append(f, p[i])
        /\ f \in Path /\ Len(f) = i - 1 /\ Under(f, p)
    BY <2>1, WayIs
  <2>3. m[i] = [tree |-> Paved(t, r), at |-> r] /\ m[i-1] = [tree |-> Paved(t, f), at |-> f]
    BY <2>1
  <2> HIDE DEF r, f, m
  <2>4. \A q \in Path : Under(q, r) <=> q = r \/ Under(q, f)
    <3>1. Parent(r) = f
      <4>1. r \in Path \ {Top}
        BY <2>2
      <4>2. Under(Parent(r), p) /\ Len(Parent(r)) = i - 1 /\ Parent(r) \in Path
        <5>1. Parent(r) \in Path /\ Len(Parent(r)) = Len(r) - 1
          BY <4>1, PathProperties
        <5>2. Under(Parent(r), r)
          BY <4>1, <5>1, UnderParent, UnderOrder
        <5> QED BY <2>2, <5>1, <5>2, UnderOrder
      <4> QED BY <2>1, <4>2, WayIs, SMTT(30) DEF f
    <3> QED BY <2>2, <3>1, UnderParent
  <2>5. ~Under(r, f)
    <3>1. ~(i <= i - 1)
      OBVIOUS
    <3> QED BY <2>2, <3>1, UnderOrder
  <2> DEFINE u == Paved(t, f)
  <2>6. u[r] = t[r] /\ (t[r] = Dir \/ t[r] = Absent)
    BY <2>2, <2>5 DEF Paved, Clear
  <2>7. u \in [Path -> Node \cup {Dir}] /\ t[r].type # "link"
    BY <2>6 DEF Paved, Dir, Absent
  <2>8. FinalPath(u, r) = r
    BY <2>2, <2>6, <2>7, FinalOfNoLink
  <2>9. f # Outside /\ r # Outside
    BY <2>2, OutsideNoPath
  <2>10. next(m[i-1], i) = IF u[r] = Dir THEN [tree |-> u, at |-> r]
                           ELSE [tree |-> Put(u, r, Dir), at |-> r]
    <3> HIDE DEF u
    <3>1. m[i-1].tree = u /\ m[i-1].at = f
      BY <2>3 DEF u
    <3>2. next(m[i-1], i) = step(m[i-1], r, r)
      BY <2>2, <2>8, <2>9, <3>1
    <3>3. step(m[i-1], r, r) = IF u[r] = Dir THEN [tree |-> u, at |-> r]
                           ELSE [tree |-> Put(u, r, Dir), at |-> r]
      BY <2>6, <2>9, <3>1
    <3> QED BY <3>2, <3>3
  <2>11. CASE u[r] = Dir
    <3>1. Paved(t, r) = u
      BY <2>4, <2>6, <2>11 DEF Paved
    <3> QED BY <2>3, <2>10, <2>11, <3>1
  <2>12. CASE u[r] # Dir
    <3>1. Paved(t, r) = Put(u, r, Dir)
      BY <2>4, <2>2 DEF Paved, Put
    <3> QED BY <2>3, <2>10, <2>12, <3>1
  <2> QED BY <2>11, <2>12
<1> HIDE DEF next
<1>4. IsMade(m)
  <2>1. ASSUME NEW i \in 0..n
        PROVE  m[i] = IF i = 0 THEN [tree |-> t, at |-> Top] ELSE next(m[i-1], i)
    <3>1. CASE i = 0
      BY <1>2, <3>1
    <3>2. CASE i # 0
      <4>1. i \in 1..n
        BY <1>1, <3>2
      <4> QED BY <1>3, <3>2, <4>1
    <3> QED BY <3>1, <3>2
  <2>2. m = [i \in 0..n |-> m[i]]
    OBVIOUS
  <2> HIDE DEF m
  <2> QED BY <2>1, <2>2
<1>5. IsMade(made)
  <2> HIDE DEF IsMade
  <2> QED BY <1>4
<1>6. MakeDirs(t, p) = made[n]
  BY DEF MakeDirs, next
<1> HIDE DEF made
<1>7. \A i \in 0..n : made[i] = m[i]
  <2> HIDE DEF m
  <2> DEFINE T == {i \in Nat : i <= n => made[i] = m[i]}
  <2>1. 0 \in T
    BY <1>1, <1>2, <1>5
  <2>2. ASSUME NEW i \in T PROVE i + 1 \in T
    <3> SUFFICES ASSUME i + 1 <= n PROVE made[i+1] = m[i+1]
      OBVIOUS
    <3>1. i + 1 \in 1..n /\ i + 1 \in 0..n /\ i + 1 # 0 /\ (i + 1) - 1 = i /\ made[i] = m[i]
      BY <1>1
    <3>2. \A j \in 0..n : made[j] = IF j = 0 THEN [tree |-> t, at |-> Top]
                                    ELSE next(made[j-1], j)
      BY <1>5
    <3> QED BY <1>3, <3>1, <3>2
  <2>3. T = Nat
    <3> HIDE DEF T
    <3>1. T \in SUBSET Nat
      BY DEF T
    <3> QED BY <2>1, <2>2, <3>1, Induction
  <2> QED BY <2>3
<1>8. made[n] = m[n] /\ m[n] = [tree |-> Paved(t, p), at |-> p]
  <2>1. n \in 0..n /\ Way(p, n) = p
    BY <1>1, WayIs
  <2> QED BY <1>7, <2>1
<1> QED BY <1>6, <1>8

-----------------------------------------------------------------------------
(* Extraction: what is true of each run, and of all of them.                 *)

(* Entries of an index, and the files among what it stores.                  *)
EntryRecord == [path : Path \ {Top}, node : Storable]
FileNode == [type : {"file"}, data : Seq(Nat), mode : Attribute, mtime : Attribute]

(* A list of entries without two for one path and without a clash.           *)
Sound(d) ==
    /\ \A i, j \in 1..Len(d) : i # j => d[i].path # d[j].path
    /\ \A i, j \in 1..Len(d) : Under(d[j].path, Parent(d[i].path)) => d[j].node = Dir

LEMMA NodeKinds ==
    /\ \A x \in Storable : /\ x # Absent /\ x.type \in {"dir", "file", "link"}
                           /\ x.type = "dir" => x = Dir
                           /\ x.type = "file" => x \in FileNode
    /\ \A x \in FileNode : x \in Storable /\ x.type = "file" /\ x # Dir /\ x # Absent
    /\ Dir \in Storable /\ Dir # Absent /\ Dir.type = "dir" /\ Absent.type = "absent"
    /\ Storable \subseteq Node /\ Absent \in Node
BY DEF Storable, FileNode, Node, Dir, Absent

Result == {"none", "ok", "error", "refused", "panic", "killed"}

XTypeOK ==
    /\ fs \in [Path -> Node]
    /\ pc \in [Proc -> PC] /\ result \in [Proc -> Result]
    /\ todo \in [Proc -> Seq(EntryRecord)] /\ pos \in [Proc -> Nat]
    /\ open \in [Proc -> Path] /\ got \in [Proc -> Nat] /\ buffer \in [Proc -> Seq(Nat)]

(* The run is past the making of the output directory and has not ended.     *)
Working(r) == pc[r] \in {"path", "entry"} \/ Writing(r)

(* A run that is at an entry is at one of its own.                           *)
Within(r) ==
    /\ pos[r] \in 1..(Len(todo[r]) + 1)
    /\ pc[r] = "entry" \/ Writing(r) => pos[r] <= Len(todo[r])

(* What it has come past is there as the index says.                         *)
Behind(r) ==
    \A i \in 1..(pos[r] - 1) : fs[todo[r][i].path] = todo[r][i].node

(* The file that was opened last is that of the current entry or of one that *)
(* the run has come past.                                                    *)
Opened(r) ==
    \/ open[r] = Top
    \/ \E i \in 1..(pos[r] - 1) : open[r] = todo[r][i].path
    \/ /\ pos[r] <= Len(todo[r]) /\ open[r] = Cur(r).path
       /\ Writing(r) \/ pc[r] = "done"

(* The file that a run has died in has the beginning of its data.            *)
Half(r) ==
    pc[r] = "done" /\ pos[r] <= Len(todo[r]) /\ open[r] = Cur(r).path =>
        NodeOf(r) \in FileNode /\ fs[open[r]] \in FileNode
            /\ IsPrefix(fs[open[r]].data, NodeOf(r).data)

(* A run that has not begun to write has an empty directory before it.       *)
Fresh(r) == pos[r] = 1 /\ open[r] = Top
Begun(r) ==
    /\ pc[r] \in {"idle", "open", "root"} => Fresh(r)
    /\ pc[r] \in {"open", "root"} => Files(fs) = {}

(* What is above an entry is a directory or not there yet.                   *)
Roads(r) ==
    Working(r) =>
        /\ fs[Top] = Dir
        /\ \A i \in 1..Len(todo[r]) : \A q \in Path :
             Under(q, Parent(todo[r][i].path)) => fs[q] = Dir \/ fs[q] = Absent

(* The run has made the entries it has come past, what is above them, and    *)
(* what it needs for the current one.                                        *)
Made(r) == {todo[r][i].path : i \in 1..(pos[r] - 1)}
Making(r) ==
    Made(r) \cup {p \in Path : \/ pc[r] = "entry" /\ p = Parent(Cur(r).path)
                               \/ Writing(r) /\ p = Cur(r).path}
Contents(r) ==
    Working(r) =>
        \A q \in Path \ {Top} : fs[q] # Absent <=> \E p \in Making(r) : Under(q, p)

(* What is in the file and in the BufWriter is what has been read.           *)
Written(r) ==
    Writing(r) =>
        /\ open[r] = Cur(r).path /\ NodeOf(r) \in FileNode /\ fs[open[r]] \in FileNode
        /\ got[r] \in 0..Len(NodeOf(r).data)
        /\ fs[open[r]].data \o buffer[r] = SubSeq(NodeOf(r).data, 1, got[r])
        /\ pc[r] # "blocks" => got[r] = Len(NodeOf(r).data)
        /\ pc[r] \in {"flush", "times"} => fs[open[r]].mode = NodeOf(r).mode
        /\ pc[r] = "times" => buffer[r] = <<>>

Good(r) ==
    /\ Sound(todo[r]) /\ Within(r) /\ Behind(r) /\ Opened(r) /\ Half(r) /\ Begun(r)
    /\ Roads(r) /\ Contents(r) /\ Written(r)

(* While one run is under way, no other has written anything: whoever has    *)
(* written anything left something there, and the next one is refused.       *)
Alone ==
    \A r, s \in Proc : r # s /\ Started(s) => ~Started(r) /\ Fresh(r)

ExtractInv == XTypeOK /\ Alone /\ \A r \in Proc : Good(r)

-----------------------------------------------------------------------------
(* The current entry is one of the list.                                     *)
LEMMA CurrentEntry ==
    ASSUME XTypeOK, NEW r \in Proc, pos[r] \in 1..(Len(todo[r]) + 1)
    PROVE  /\ pos[r] \in Nat /\ Len(todo[r]) \in Nat
           /\ \A i \in 1..Len(todo[r]) : todo[r][i] \in EntryRecord
           /\ \A i \in 1..Len(todo[r]) : todo[r][i].path \in Path \ {Top}
           /\ \A i \in 1..(pos[r] - 1) : i \in 1..Len(todo[r]) /\ i # pos[r]
           /\ pos[r] <= Len(todo[r]) =>
                /\ pos[r] \in 1..Len(todo[r])
                /\ Cur(r) = todo[r][pos[r]]
                /\ Cur(r).path \in Path \ {Top} /\ NodeOf(r) \in Storable
                /\ Parent(Cur(r).path) \in Path
<1>1. todo[r] \in Seq(EntryRecord) /\ pos[r] \in Nat
  BY DEF XTypeOK
<1>2. Len(todo[r]) \in Nat /\ \A i \in 1..Len(todo[r]) : todo[r][i] \in EntryRecord
  BY <1>1
<1>3. \A i \in 1..Len(todo[r]) : todo[r][i].path \in Path \ {Top} /\ todo[r][i].node \in Storable
  BY <1>2 DEF EntryRecord
<1>4. \A i \in 1..(pos[r] - 1) : i \in 1..Len(todo[r]) /\ i # pos[r]
  BY <1>1, <1>2
<1>5. ASSUME pos[r] <= Len(todo[r])
      PROVE  /\ pos[r] \in 1..Len(todo[r])
             /\ Cur(r) = todo[r][pos[r]]
             /\ Cur(r).path \in Path \ {Top} /\ NodeOf(r) \in Storable
             /\ Parent(Cur(r).path) \in Path
  <2>1. pos[r] \in 1..Len(todo[r])
    BY <1>1, <1>2, <1>5
  <2>2. todo[r][pos[r]].path \in Path \ {Top} /\ todo[r][pos[r]].node \in Storable
    BY <1>3, <2>1
  <2>3. Parent(todo[r][pos[r]].path) \in Path
    BY <2>2, PathProperties
  <2> QED BY <2>1, <2>2, <2>3 DEF Cur, NodeOf
<1> QED BY <1>1, <1>2, <1>3, <1>4, <1>5

(* The way to the current entry is clear, and where it goes there is nothing *)
(* yet, or the directory that it is.                                         *)
LEMMA WayIsClear ==
    ASSUME XTypeOK, NEW r \in Proc, Good(r), Working(r), pos[r] <= Len(todo[r])
    PROVE  /\ Clear(fs, Parent(Cur(r).path))
           /\ MakeDirs(fs, Parent(Cur(r).path))
                = [tree |-> Paved(fs, Parent(Cur(r).path)), at |-> Parent(Cur(r).path)]
           /\ Place(r) = Cur(r).path
<1> DEFINE c == Cur(r).path
<1>1. c \in Path \ {Top} /\ Parent(c) \in Path /\ pos[r] \in 1..Len(todo[r])
      /\ c = todo[r][pos[r]].path
  BY CurrentEntry DEF Good, Within
<1>2. Clear(fs, Parent(c))
  <2>1. fs[Top] = Dir /\ \A q \in Path : Under(q, Parent(c)) => fs[q] = Dir \/ fs[q] = Absent
    BY <1>1 DEF Good, Roads
  <2> HIDE DEF c
  <2> QED BY <2>1, NodeKinds DEF Clear
<1> HIDE DEF c
<1>3. MakeDirs(fs, Parent(c)) = [tree |-> Paved(fs, Parent(c)), at |-> Parent(c)]
  BY <1>1, <1>2, MakeDirsPaves DEF XTypeOK
<1>4. Parent(c) \o <<Last(c)>> = c
  <2>1. Parent(c) \in Seq(Name) /\ c = Append(Parent(c), Last(c)) /\ Last(c) \in Name
    <3>1. c \in Seq(Name) /\ c # <<>>
      BY <1>1, PathProperties DEF Top
    <3> QED BY <3>1, FrontElements DEF Parent
  <2>2. Parent(c) \o <<Last(c)>> = Append(Parent(c), Last(c))
    BY <2>1
  <2> QED BY <2>1, <2>2
<1>5. Place(r) = c
  BY <1>3, <1>4 DEF Place, c
<1> QED BY <1>2, <1>3, <1>5 DEF c

LEMMA FreePlace ==
    ASSUME XTypeOK, NEW r \in Proc, Good(r), pc[r] = "entry"
    PROVE  /\ fs[Cur(r).path] = Absent \/ fs[Cur(r).path] = Dir
           /\ NodeOf(r) # Dir => fs[Cur(r).path] = Absent
<1> DEFINE c == Cur(r).path
<1>1. /\ c \in Path \ {Top} /\ Parent(c) \in Path /\ pos[r] \in 1..Len(todo[r])
      /\ c = todo[r][pos[r]].path /\ NodeOf(r) = todo[r][pos[r]].node
      /\ \A i \in 1..(pos[r] - 1) : i \in 1..Len(todo[r]) /\ i # pos[r]
      /\ \A i \in 1..Len(todo[r]) : todo[r][i].path \in Path \ {Top}
  BY CurrentEntry DEF Good, Within, NodeOf
<1>2. ASSUME fs[c] # Absent PROVE fs[c] = Dir /\ NodeOf(r) = Dir
  <2>1. Working(r)
    BY DEF Working
  <2>2. PICK p \in Making(r) : Under(c, p)
    BY <1>1, <1>2, <2>1 DEF Good, Contents
  <2>3. p # Parent(c)
    BY <1>1, <2>2, UnderParent
  <2>4. PICK i \in 1..(pos[r] - 1) : p = todo[r][i].path
    <3>1. ~Writing(r)
      BY DEF Writing
    <3> QED BY <2>2, <2>3, <3>1 DEF Making, Made, c
  <2>5. i \in 1..Len(todo[r]) /\ i # pos[r] /\ p \in Path \ {Top}
    BY <1>1, <2>4
  <2>6. p # c
    BY <1>1, <2>4, <2>5 DEF Good, Sound
  <2>7. Under(c, Parent(p))
    BY <1>1, <2>2, <2>5, <2>6, UnderParent
  <2>8. NodeOf(r) = Dir
    BY <1>1, <2>4, <2>5, <2>7 DEF Good, Sound
  <2>9. fs[c] = Dir
    BY <1>1, <1>2, <2>1, <2>4, <2>5, <2>7 DEF Good, Roads
  <2> QED BY <2>8, <2>9
<1> QED BY <1>2

(* The node of the current entry is put in place, or put there again.        *)
LEMMA Placing ==
    ASSUME XTypeOK, NEW r \in Proc, Good(r), pc[r] = "entry" \/ Writing(r),
           NodeOf(r) # Dir, NEW x \in Storable
    PROVE  LET t == Put(fs, Cur(r).path, x) IN
           /\ t \in [Path -> Node] /\ t[Cur(r).path] = x /\ t[Top] = Dir
           /\ \A i \in 1..(pos[r] - 1) : t[todo[r][i].path] = todo[r][i].node
           /\ \A i \in 1..Len(todo[r]) : \A q \in Path :
                Under(q, Parent(todo[r][i].path)) => t[q] = Dir \/ t[q] = Absent
           /\ \A q \in Path \ {Top} :
                t[q] # Absent <=> \E p \in Made(r) \cup {Cur(r).path} : Under(q, p)
<1> DEFINE c == Cur(r).path
<1> DEFINE t == Put(fs, c, x)
<1>1. /\ c \in Path \ {Top} /\ Parent(c) \in Path /\ pos[r] \in 1..Len(todo[r])
      /\ c = todo[r][pos[r]].path /\ NodeOf(r) = todo[r][pos[r]].node
      /\ \A i \in 1..(pos[r] - 1) : i \in 1..Len(todo[r]) /\ i # pos[r]
      /\ \A i \in 1..Len(todo[r]) : todo[r][i].path \in Path \ {Top}
  BY CurrentEntry DEF Good, Within, NodeOf
<1>2. Working(r)
  BY DEF Working
<1>3. x \in Node /\ x # Absent
  BY NodeKinds
<1>4. t \in [Path -> Node] /\ t[c] = x /\ \A q \in Path : q # c => t[q] = fs[q]
  BY <1>1, <1>3 DEF Put, XTypeOK
<1>5. Making(r) = Made(r) \cup {IF pc[r] = "entry" THEN Parent(c) ELSE c}
  BY <1>1 DEF Making, Writing
<1> HIDE DEF t, c
<1>6. t[Top] = Dir
  BY <1>1, <1>2, <1>4, TopIsPath DEF Good, Roads
<1>7. ASSUME NEW i \in 1..(pos[r] - 1) PROVE t[todo[r][i].path] = todo[r][i].node
  <2>1. todo[r][i].path # c /\ todo[r][i].path \in Path
    BY <1>1 DEF Good, Sound
  <2> QED BY <1>4, <2>1 DEF Good, Behind
<1>8. ASSUME NEW i \in 1..Len(todo[r]), NEW q \in Path, Under(q, Parent(todo[r][i].path))
      PROVE  t[q] = Dir \/ t[q] = Absent
  <2>1. q # c
    BY <1>1, <1>8 DEF Good, Sound
  <2>2. fs[q] = Dir \/ fs[q] = Absent
    BY <1>2, <1>8 DEF Good, Roads
  <2> QED BY <1>4, <2>1, <2>2
<1>9. ASSUME NEW q \in Path \ {Top}
      PROVE  t[q] # Absent <=> \E p \in Made(r) \cup {c} : Under(q, p)
  <2>1. fs[q] # Absent <=> \E p \in Making(r) : Under(q, p)
    BY <1>2 DEF Good, Contents
  <2>2. Under(q, c) <=> q = c \/ Under(q, Parent(c))
    BY <1>1, UnderParent
  <2>3. CASE q = c
    BY <1>3, <1>4, <2>2, <2>3
  <2>4. CASE q # c
    BY <1>4, <1>5, <2>1, <2>2, <2>4
  <2> QED BY <2>3, <2>4
<1> QED BY <1>4, <1>6, <1>7, <1>8, <1>9 DEF t, c

-----------------------------------------------------------------------------
LEMMA WritingFacts ==
    ASSUME XTypeOK, NEW r \in Proc, Good(r), Writing(r)
    PROVE  /\ pos[r] <= Len(todo[r]) /\ NodeOf(r) # Dir /\ Started(r) /\ Working(r)
           /\ IsPrefix(fs[open[r]].data, NodeOf(r).data)
           /\ IsPrefix(fs[open[r]].data \o buffer[r], NodeOf(r).data)
           /\ fs[open[r]].data \o buffer[r] \in Seq(Nat)
<1>1. pos[r] <= Len(todo[r])
  BY DEF Good, Within
<1>2. NodeOf(r) \in FileNode /\ fs[open[r]] \in FileNode
      /\ got[r] \in 0..Len(NodeOf(r).data)
      /\ fs[open[r]].data \o buffer[r] = SubSeq(NodeOf(r).data, 1, got[r])
  BY DEF Good, Written
<1>3. /\ NodeOf(r).data \in Seq(Nat) /\ fs[open[r]].data \in Seq(Nat) /\ buffer[r] \in Seq(Nat)
      /\ NodeOf(r) # Dir
  BY <1>2, NodeKinds DEF FileNode, XTypeOK
<1>4. /\ IsPrefix(fs[open[r]].data, NodeOf(r).data)
      /\ IsPrefix(fs[open[r]].data \o buffer[r], NodeOf(r).data)
  BY <1>2, <1>3, PrefixOfRead
<1>5. fs[open[r]].data \o buffer[r] \in Seq(Nat)
  BY <1>3, ConcatElements
<1>6. Started(r) /\ Working(r)
  BY DEF Started, Working, Writing
<1> QED BY <1>1, <1>3, <1>4, <1>5, <1>6

(* The file of the current entry is open only while it is written.           *)
LEMMA OpenedIsEarlier ==
    ASSUME XTypeOK, NEW r \in Proc, Good(r), ~Writing(r), pc[r] # "done"
    PROVE  /\ open[r] = Top \/ \E i \in 1..(pos[r] - 1) : open[r] = todo[r][i].path
           /\ ~(pos[r] <= Len(todo[r]) /\ open[r] = Cur(r).path)
<1>1. open[r] = Top \/ \E i \in 1..(pos[r] - 1) : open[r] = todo[r][i].path
  BY DEF Good, Opened
<1>2. ASSUME pos[r] <= Len(todo[r]), open[r] = Cur(r).path PROVE FALSE
  <2>1. /\ \A i \in 1..(pos[r] - 1) : i \in 1..Len(todo[r]) /\ i # pos[r]
        /\ pos[r] \in 1..Len(todo[r]) /\ Cur(r) = todo[r][pos[r]]
        /\ Cur(r).path # Top
    BY <1>2, CurrentEntry DEF Good, Within
  <2>2. \A i \in 1..(pos[r] - 1) : todo[r][i].path # Cur(r).path
    BY <2>1 DEF Good, Sound
  <2> QED BY <1>1, <1>2, <2>1, <2>2
<1> QED BY <1>1, <1>2

-----------------------------------------------------------------------------
(* A run ends. *)
LEMMA EndKeeps ==
    ASSUME XTypeOK, NEW r \in Proc, Good(r), Started(r), NEW how \in Result, End(r, how),
           UNCHANGED <<todo, pos, open, got, buffer>>, fs' \in [Path -> Node],
           \A i \in 1..(pos[r] - 1) : fs'[todo[r][i].path] = todo[r][i].node,
           Writing(r) => fs'[open[r]] \in FileNode
                          /\ IsPrefix(fs'[open[r]].data, NodeOf(r).data)
    PROVE  XTypeOK' /\ Good(r)'
<1>1. pc' = [pc EXCEPT ![r] = "done"] /\ result' = [result EXCEPT ![r] = how]
  BY DEF End, Goto
<1>2. pc'[r] = "done" /\ XTypeOK'
  BY <1>1 DEF XTypeOK, PC
<1>3. ~Writing(r)' /\ ~Working(r)' /\ Cur(r)' = Cur(r) /\ NodeOf(r)' = NodeOf(r)
  BY <1>2 DEF Writing, Working, Cur, NodeOf
<1>4. Sound(todo[r])' /\ Within(r)' /\ Begun(r)' /\ Behind(r)'
  BY <1>2, <1>3 DEF Good, Within, Begun, Behind
<1>5. Roads(r)' /\ Contents(r)' /\ Written(r)'
  BY <1>3 DEF Roads, Contents, Written
<1>6. Opened(r)'
  BY <1>2, <1>3 DEF Good, Opened
<1>7. Half(r)'
  <2>1. pc[r] # "done"
    BY DEF Started
  <2>2. CASE Writing(r)
    BY <1>3, <2>2 DEF Half, Good, Written
  <2>3. CASE ~Writing(r)
    BY <1>3, <2>1, <2>3, OpenedIsEarlier DEF Half
  <2> QED BY <2>2, <2>3
<1> QED BY <1>2, <1>4, <1>5, <1>6, <1>7 DEF Good

LEMMA EndsAsItIs ==
    ASSUME XTypeOK, NEW r \in Proc, Good(r), Started(r), NEW how \in Result, End(r, how),
           UNCHANGED <<fs, todo, pos, open, got, buffer>>
    PROVE  XTypeOK' /\ Good(r)'
<1>1. fs' \in [Path -> Node]
  BY DEF XTypeOK
<1>2. \A i \in 1..(pos[r] - 1) : fs'[todo[r][i].path] = todo[r][i].node
  BY DEF Good, Behind
<1>3. Writing(r) => fs'[open[r]] \in FileNode /\ IsPrefix(fs'[open[r]].data, NodeOf(r).data)
  BY WritingFacts DEF Good, Written
<1> QED BY <1>1, <1>2, <1>3, EndKeeps

(* The BufWriter writes what it holds. *)
LEMMA SlicesAre ==
    ASSUME XTypeOK, NEW r \in Proc, Good(r), Writing(r)
    PROVE  LET x == [fs[open[r]] EXCEPT !.data = @ \o buffer[r], !.mtime = "now"] IN
           /\ x \in FileNode /\ x.data = fs[open[r]].data \o buffer[r]
           /\ x.mode = fs[open[r]].mode
           /\ Slices(fs, open[r], buffer[r]) = Put(fs, Cur(r).path, x)
<1>1. fs[open[r]] \in FileNode /\ open[r] = Cur(r).path
  BY DEF Good, Written
<1>2. fs[open[r]].data \o buffer[r] \in Seq(Nat)
  BY WritingFacts
<1> DEFINE y == fs[open[r]]
<1> DEFINE more == y.data \o buffer[r]
<1> DEFINE x == [y EXCEPT !.data = @ \o buffer[r], !.mtime = "now"]
<1>3. Slices(fs, open[r], buffer[r]) = Put(fs, Cur(r).path, x)
  BY <1>1 DEF Slices
<1> HIDE DEF y
<1>4. y \in FileNode /\ more \in Seq(Nat) /\ "now" \in Attribute
  BY <1>1, <1>2, AttributeAssumption DEF y
<1>5. x = [y EXCEPT !.data = more, !.mtime = "now"]
  OBVIOUS
<1> HIDE DEF more
<1>6. x \in FileNode /\ x.data = more /\ x.mode = y.mode
  <2> HIDE DEF x
  <2> QED BY <1>4, <1>5 DEF FileNode
<1> QED BY <1>3, <1>6 DEF more, y

LEMMA FailKeeps ==
    ASSUME XTypeOK, NEW r \in Proc, Good(r), Started(r), Fail(r)
    PROVE  XTypeOK' /\ Good(r)'
<1>1. /\ "error" \in Result /\ End(r, "error") /\ fs' \in Dropped(r)
      /\ UNCHANGED <<todo, pos, open, got, buffer>>
  BY DEF Fail, Result
<1>2. CASE fs' = fs
  BY <1>1, <1>2, EndsAsItIs
<1>3. CASE Writing(r) /\ fs' = Slices(fs, open[r], buffer[r])
  <2> DEFINE x == [fs[open[r]] EXCEPT !.data = @ \o buffer[r], !.mtime = "now"]
  <2>1. /\ x \in FileNode /\ x.data = fs[open[r]].data \o buffer[r]
        /\ fs' = Put(fs, Cur(r).path, x)
    BY <1>3, SlicesAre
  <2> HIDE DEF x
  <2>2. x \in Storable /\ NodeOf(r) # Dir /\ open[r] = Cur(r).path
        /\ IsPrefix(x.data, NodeOf(r).data)
    BY <1>3, <2>1, NodeKinds, WritingFacts DEF Good, Written
  <2>3. /\ fs' \in [Path -> Node] /\ fs'[Cur(r).path] = x
        /\ \A i \in 1..(pos[r] - 1) : fs'[todo[r][i].path] = todo[r][i].node
    BY <1>3, <2>1, <2>2, Placing
  <2> QED BY <1>1, <2>1, <2>2, <2>3, EndKeeps
<1> QED BY <1>1, <1>2, <1>3 DEF Dropped

-----------------------------------------------------------------------------
LEMMA StartKeeps ==
    ASSUME XTypeOK, NEW r \in Proc, Good(r), Start(r)
    PROVE  XTypeOK' /\ Good(r)'
<1>1. /\ pc[r] = "idle" /\ UNCHANGED <<fs, todo, pos, open, got, buffer>>
      /\ \/ Files(fs) = {} /\ pc' = [pc EXCEPT ![r] = "open"] /\ result' = result
         \/ pc' = [pc EXCEPT ![r] = "done"] /\ result' = [result EXCEPT ![r] = "refused"]
  BY DEF Start, At, Goto, End
<1>2. XTypeOK' /\ (pc'[r] = "done" \/ (pc'[r] = "open" /\ Files(fs) = {}))
  BY <1>1 DEF XTypeOK, PC, Result
<1>3. ~Writing(r)' /\ ~Working(r)' /\ Cur(r)' = Cur(r) /\ ~Writing(r) /\ Files(fs)' = Files(fs)
  BY <1>1, <1>2 DEF Writing, Working, Cur, Files
<1>4. Fresh(r) /\ Fresh(r)'
  BY <1>1 DEF Good, Begun, Fresh
<1>5. Sound(todo[r])' /\ Within(r)' /\ Behind(r)' /\ Begun(r)' /\ Opened(r)'
  BY <1>1, <1>2, <1>3, <1>4 DEF Good, Within, Behind, Begun, Opened, Fresh
<1>6. Roads(r)' /\ Contents(r)' /\ Written(r)'
  BY <1>3 DEF Roads, Contents, Written
<1>7. Half(r)'
  BY <1>1, <1>3, OpenedIsEarlier DEF Half
<1> QED BY <1>2, <1>5, <1>6, <1>7 DEF Good

LEMMA OpenKeeps ==
    ASSUME XTypeOK, NEW r \in Proc, Good(r), Open(r)
    PROVE  XTypeOK' /\ Good(r)'
<1>1. /\ pc[r] = "open" /\ UNCHANGED <<fs, todo, pos, open, got, buffer, result>>
      /\ pc' = [pc EXCEPT ![r] = "root"]
  BY DEF Open, At, Goto
<1>2. XTypeOK' /\ pc'[r] = "root"
  BY <1>1 DEF XTypeOK, PC
<1>3. ~Writing(r)' /\ ~Working(r)' /\ Files(fs)' = Files(fs) /\ ~Writing(r)
  BY <1>1, <1>2 DEF Writing, Working, Files
<1>4. Sound(todo[r])' /\ Within(r)' /\ Behind(r)' /\ Begun(r)' /\ Opened(r)' /\ Half(r)'
  BY <1>1, <1>2, <1>3 DEF Good, Within, Behind, Begun, Opened, Fresh, Half
<1>5. Roads(r)' /\ Contents(r)' /\ Written(r)'
  BY <1>3 DEF Roads, Contents, Written
<1> QED BY <1>2, <1>4, <1>5 DEF Good

LEMMA MakeRootKeeps ==
    ASSUME XTypeOK, NEW r \in Proc, Good(r), MakeRoot(r)
    PROVE  XTypeOK' /\ Good(r)'
<1>1. /\ pc[r] = "root" /\ UNCHANGED <<todo, pos, open, got, buffer, result>>
      /\ fs' = [fs EXCEPT ![Top] = Dir] /\ pc' = [pc EXCEPT ![r] = "path"]
  BY DEF MakeRoot, At, Goto, Put
<1>2. XTypeOK' /\ pc'[r] = "path" /\ fs'[Top] = Dir
  BY <1>1, TopIsPath, NodeKinds DEF XTypeOK, PC
<1>3. \A q \in Path \ {Top} : fs'[q] = Absent
  BY <1>1 DEF Good, Begun, Files, XTypeOK
<1>4. ~Writing(r)' /\ ~Writing(r)
  BY <1>1, <1>2 DEF Writing
<1>5. pos'[r] = 1 /\ open'[r] = Top /\ 1..(pos'[r] - 1) = {}
  BY <1>1 DEF Good, Begun, Fresh
<1>6. Sound(todo[r])' /\ Within(r)' /\ Behind(r)' /\ Begun(r)' /\ Opened(r)' /\ Half(r)'
  BY <1>1, <1>2, <1>4, <1>5 DEF Good, Within, Behind, Begun, Opened, Half
<1>7. Roads(r)' /\ Written(r)'
  <2>1. \A q \in Path : fs'[q] = Dir \/ fs'[q] = Absent
    BY <1>2, <1>3
  <2> QED BY <1>2, <1>4, <2>1 DEF Roads, Written
<1>8. Contents(r)'
  <2>1. Making(r)' = {}
    BY <1>2, <1>4, <1>5 DEF Making, Made
  <2> QED BY <1>3, <2>1 DEF Contents
<1> QED BY <1>2, <1>6, <1>7, <1>8 DEF Good

-----------------------------------------------------------------------------
(* Directories are made on the way to the current entry, or for it.          *)
LEMMA Paving ==
    ASSUME XTypeOK, NEW r \in Proc, Good(r), pc[r] \in {"path", "entry"},
           pos[r] <= Len(todo[r]), NEW c \in Path,
           c = Parent(Cur(r).path) \/ c = Cur(r).path
    PROVE  LET t == Paved(fs, c) IN
           /\ t \in [Path -> Node] /\ t[Top] = Dir /\ t[c] = Dir
           /\ \A i \in 1..(pos[r] - 1) : t[todo[r][i].path] = todo[r][i].node
           /\ \A i \in 1..Len(todo[r]) : \A q \in Path :
                Under(q, Parent(todo[r][i].path)) => t[q] = Dir \/ t[q] = Absent
           /\ \A q \in Path \ {Top} :
                t[q] # Absent <=> \E p \in Made(r) \cup {c} : Under(q, p)
<1> DEFINE t == Paved(fs, c)
<1> DEFINE e == Cur(r).path
<1>1. /\ e \in Path \ {Top} /\ Parent(e) \in Path /\ pos[r] \in 1..Len(todo[r])
      /\ e = todo[r][pos[r]].path
      /\ \A i \in 1..(pos[r] - 1) : i \in 1..Len(todo[r]) /\ i # pos[r]
      /\ \A i \in 1..Len(todo[r]) : todo[r][i].path \in Path \ {Top}
  BY CurrentEntry DEF Good, Within
<1>2. Working(r) /\ ~Writing(r)
  BY DEF Working, Writing
<1>3. t \in [Path -> Node] /\ \A q \in Path : t[q] = IF Under(q, c) THEN Dir ELSE fs[q]
  BY NodeKinds DEF Paved, XTypeOK
<1> HIDE DEF t, e
<1>4. t[Top] = Dir /\ t[c] = Dir
  BY <1>3, UnderOrder, TopIsPath
<1>5. ASSUME NEW i \in 1..(pos[r] - 1) PROVE t[todo[r][i].path] = todo[r][i].node
  <2> DEFINE x == todo[r][i].path
  <2>1. i \in 1..Len(todo[r]) /\ x \in Path \ {Top} /\ x # e
    BY <1>1 DEF Good, Sound
  <2>2. fs[x] = todo[r][i].node
    BY DEF Good, Behind
  <2>3. CASE Under(x, c)
    <3>1. Under(x, Parent(e))
      BY <1>1, <2>1, <2>3, UnderParent DEF e
    <3>2. todo[r][i].node = Dir
      BY <1>1, <2>1, <3>1 DEF Good, Sound
    <3> QED BY <1>3, <2>1, <2>3, <3>2
  <2>4. CASE ~Under(x, c)
    BY <1>3, <2>1, <2>2, <2>4
  <2> QED BY <2>3, <2>4
<1>6. ASSUME NEW i \in 1..Len(todo[r]), NEW q \in Path, Under(q, Parent(todo[r][i].path))
      PROVE  t[q] = Dir \/ t[q] = Absent
  <2>1. fs[q] = Dir \/ fs[q] = Absent
    BY <1>2, <1>6 DEF Good, Roads
  <2> QED BY <1>3, <2>1
<1>7. ASSUME NEW q \in Path \ {Top}
      PROVE  t[q] # Absent <=> \E p \in Made(r) \cup {c} : Under(q, p)
  <2>1. fs[q] # Absent <=> \E p \in Making(r) : Under(q, p)
    BY <1>2 DEF Good, Contents
  <2>2. t[q] # Absent <=> Under(q, c) \/ fs[q] # Absent
    BY <1>3, NodeKinds
  <2>3. ASSUME NEW p \in Making(r), Under(q, p) PROVE p \in Made(r) \/ Under(q, c)
    <3>1. p \in Made(r) \/ p = Parent(e)
      BY <1>2 DEF Making, e
    <3>2. Under(q, Parent(e)) => Under(q, e)
      BY <1>1, UnderParent
    <3> QED BY <2>3, <3>1, <3>2 DEF e
  <2>4. Made(r) \subseteq Making(r)
    BY DEF Making
  <2> QED BY <2>1, <2>2, <2>3, <2>4
<1> QED BY <1>3, <1>4, <1>5, <1>6, <1>7 DEF t

LEMMA SafePathKeeps ==
    ASSUME XTypeOK, NEW r \in Proc, Good(r), SafePath(r)
    PROVE  XTypeOK' /\ Good(r)'
<1> DEFINE c == Parent(Cur(r).path)
<1>1. pc[r] = "path" /\ pos[r] <= Len(todo[r]) /\ Working(r) /\ ~Writing(r)
  BY DEF SafePath, At, Working, Writing
<1>2. MakeDirs(fs, c) = [tree |-> Paved(fs, c), at |-> c]
  BY <1>1, WayIsClear
<1>3. /\ c \in Path /\ pos[r] \in 1..Len(todo[r])
      /\ \A i \in 1..(pos[r] - 1) : i \in 1..Len(todo[r])
  BY <1>1, CurrentEntry DEF Good, Within
<1> HIDE DEF c
<1>4. c # Outside
  BY <1>3, OutsideNoPath
<1>5. /\ fs' = Paved(fs, c) /\ pc' = [pc EXCEPT ![r] = "entry"]
      /\ UNCHANGED <<todo, pos, open, got, buffer, result>>
  BY <1>2, <1>4 DEF SafePath, Goto, c
<1>6. /\ fs' \in [Path -> Node] /\ fs'[Top] = Dir
      /\ \A i \in 1..(pos[r] - 1) : fs'[todo[r][i].path] = todo[r][i].node
      /\ \A i \in 1..Len(todo[r]) : \A q \in Path :
           Under(q, Parent(todo[r][i].path)) => fs'[q] = Dir \/ fs'[q] = Absent
      /\ \A q \in Path \ {Top} :
           fs'[q] # Absent <=> \E p \in Made(r) \cup {c} : Under(q, p)
  BY <1>1, <1>3, <1>5, Paving DEF c
<1>7. XTypeOK' /\ pc'[r] = "entry" /\ ~Writing(r)'
  BY <1>5, <1>6 DEF XTypeOK, PC, Writing
<1>8. Sound(todo[r])' /\ Within(r)' /\ Behind(r)' /\ Begun(r)' /\ Half(r)' /\ Written(r)'
  BY <1>1, <1>5, <1>6, <1>7 DEF Good, Within, Behind, Begun, Half, Written
<1>9. Roads(r)' /\ Opened(r)'
  BY <1>1, <1>5, <1>6, <1>7, OpenedIsEarlier DEF Roads, Opened
<1>10. Contents(r)'
  <2>1. Making(r)' = Made(r) \cup {c}
    BY <1>3, <1>5, <1>7 DEF Making, Made, Cur, c
  <2> QED BY <1>6, <2>1 DEF Contents
<1> QED BY <1>7, <1>8, <1>9, <1>10 DEF Good

(* The run comes past the current entry, which is in place.                  *)
LEMMA NextKeeps ==
    ASSUME XTypeOK, NEW r \in Proc, Good(r), pc[r] = "entry" \/ Writing(r), NextEntry(r),
           UNCHANGED <<todo, open, got, buffer, result>>,
           fs' \in [Path -> Node], fs'[Top] = Dir, fs'[Cur(r).path] = NodeOf(r),
           \A i \in 1..(pos[r] - 1) : fs'[todo[r][i].path] = todo[r][i].node,
           \A i \in 1..Len(todo[r]) : \A q \in Path :
             Under(q, Parent(todo[r][i].path)) => fs'[q] = Dir \/ fs'[q] = Absent,
           \A q \in Path \ {Top} :
             fs'[q] # Absent <=> \E p \in Made(r) \cup {Cur(r).path} : Under(q, p)
    PROVE  XTypeOK' /\ Good(r)'
<1>1. pc' = [pc EXCEPT ![r] = "path"] /\ pos' = [pos EXCEPT ![r] = @ + 1]
  BY DEF NextEntry, Goto
<1>2. /\ pos[r] \in 1..Len(todo[r]) /\ Cur(r) = todo[r][pos[r]] /\ Len(todo[r]) \in Nat
      /\ pos[r] \in Nat /\ NodeOf(r) = todo[r][pos[r]].node
  BY CurrentEntry DEF Good, Within, NodeOf
<1>3. XTypeOK' /\ pc'[r] = "path" /\ pos'[r] = pos[r] + 1 /\ ~Writing(r)' /\ pc[r] # "done"
  BY <1>1, <1>2 DEF XTypeOK, PC, Writing
<1>4. pos'[r] \in 1..(Len(todo[r]) + 1) /\ 1..(pos'[r] - 1) = 1..(pos[r] - 1) \cup {pos[r]}
  BY <1>2, <1>3
<1>5. Sound(todo[r])' /\ Within(r)' /\ Begun(r)' /\ Half(r)' /\ Written(r)' /\ Roads(r)'
  BY <1>3, <1>4 DEF Good, Within, Begun, Half, Written, Roads
<1>6. Behind(r)'
  BY <1>2, <1>4 DEF Behind
<1>7. Opened(r)'
  BY <1>2, <1>4 DEF Good, Opened
<1>8. Contents(r)'
  <2>1. Making(r)' = Made(r) \cup {Cur(r).path}
    BY <1>2, <1>3, <1>4 DEF Making, Made
  <2> QED BY <2>1 DEF Contents
<1> QED BY <1>3, <1>5, <1>6, <1>7, <1>8 DEF Good

LEMMA MakeDirKeeps ==
    ASSUME XTypeOK, NEW r \in Proc, Good(r), MakeDir(r)
    PROVE  XTypeOK' /\ Good(r)'
<1> DEFINE c == Cur(r).path
<1>1. pc[r] = "entry" /\ NodeOf(r) = Dir /\ pos[r] <= Len(todo[r]) /\ Working(r)
  BY DEF MakeDir, At, Good, Within, Working
<1>2. c \in Path \ {Top}
  BY <1>1, CurrentEntry DEF Good, Within
<1>3. Clear(fs, c)
  <2>1. Clear(fs, Parent(c))
    BY <1>1, WayIsClear
  <2>2. fs[c] = Absent \/ fs[c] = Dir
    BY <1>1, FreePlace
  <2> HIDE DEF c
  <2> QED BY <1>2, <2>1, <2>2, UnderParent DEF Clear
<1> HIDE DEF c
<1>4. MakeDirs(fs, c) = [tree |-> Paved(fs, c), at |-> c]
  BY <1>2, <1>3, MakeDirsPaves DEF XTypeOK
<1>5. c # Outside
  BY <1>2, OutsideNoPath
<1>6. fs' = Paved(fs, c) /\ NextEntry(r) /\ UNCHANGED <<todo, open, got, buffer, result>>
  BY <1>4, <1>5 DEF MakeDir, c
<1>7. /\ fs' \in [Path -> Node] /\ fs'[Top] = Dir /\ fs'[c] = Dir
      /\ \A i \in 1..(pos[r] - 1) : fs'[todo[r][i].path] = todo[r][i].node
      /\ \A i \in 1..Len(todo[r]) : \A q \in Path :
           Under(q, Parent(todo[r][i].path)) => fs'[q] = Dir \/ fs'[q] = Absent
      /\ \A q \in Path \ {Top} :
           fs'[q] # Absent <=> \E p \in Made(r) \cup {c} : Under(q, p)
  BY <1>1, <1>2, <1>6, Paving DEF c
<1> QED BY <1>1, <1>6, <1>7, NextKeeps DEF c

LEMMA MakeLinkKeeps ==
    ASSUME XTypeOK, NEW r \in Proc, Good(r), MakeLink(r)
    PROVE  XTypeOK' /\ Good(r)'
<1>1. pc[r] = "entry" /\ NodeOf(r).type = "link" /\ Working(r) /\ pos[r] <= Len(todo[r])
  BY DEF MakeLink, At, Good, Within, Working
<1>2. NodeOf(r) \in Storable /\ NodeOf(r) # Dir
  BY <1>1, CurrentEntry, NodeKinds DEF Good, Within
<1>3. Place(r) = Cur(r).path
  BY <1>1, WayIsClear
<1>4. /\ fs' = Put(fs, Cur(r).path, NodeOf(r)) /\ NextEntry(r)
      /\ UNCHANGED <<todo, open, got, buffer, result>>
  BY <1>3 DEF MakeLink
<1>5. /\ fs' \in [Path -> Node] /\ fs'[Cur(r).path] = NodeOf(r) /\ fs'[Top] = Dir
      /\ \A i \in 1..(pos[r] - 1) : fs'[todo[r][i].path] = todo[r][i].node
      /\ \A i \in 1..Len(todo[r]) : \A q \in Path :
           Under(q, Parent(todo[r][i].path)) => fs'[q] = Dir \/ fs'[q] = Absent
      /\ \A q \in Path \ {Top} :
           fs'[q] # Absent <=> \E p \in Made(r) \cup {Cur(r).path} : Under(q, p)
  BY <1>1, <1>2, <1>4, Placing
<1> QED BY <1>1, <1>4, <1>5, NextKeeps

(* File::create makes a new file.                                            *)
LEMMA NewFile ==
    ASSUME XTypeOK, NEW r \in Proc, Good(r), pc[r] = "entry", NodeOf(r).type = "file"
    PROVE  /\ Target(r) = Cur(r).path /\ Target(r) \in Path \ {Top}
           /\ NodeOf(r) \in FileNode /\ NodeOf(r) # Dir
           /\ fs[Target(r)] = Absent /\ fs[Parent(Target(r))] = Dir
           /\ File(<<>>, "umask", "now") \in FileNode /\ File(<<>>, "umask", "now").data = <<>>
<1>1. pos[r] <= Len(todo[r]) /\ Working(r)
  BY DEF Good, Within, Working
<1>2. /\ Cur(r).path \in Path \ {Top} /\ NodeOf(r) \in Storable
      /\ Parent(Cur(r).path) \in Path
  BY <1>1, CurrentEntry DEF Good, Within
<1>3. NodeOf(r) \in FileNode /\ NodeOf(r) # Dir
  BY <1>2, NodeKinds
<1>4. Place(r) = Cur(r).path
  BY <1>1, WayIsClear
<1>5. fs[Cur(r).path] = Absent
  BY <1>3, FreePlace
<1>6. FinalPath(fs, Cur(r).path) = Cur(r).path
  BY <1>2, <1>5, NodeKinds, FinalOfNoLink
<1>7. fs[Parent(Cur(r).path)] = Dir
  <2> DEFINE p == Parent(Cur(r).path)
  <2>1. ~Writing(r) /\ p \in Making(r)
    BY <1>2 DEF Writing, Making
  <2>2. pos[r] \in 1..Len(todo[r]) /\ Cur(r).path = todo[r][pos[r]].path
    BY <1>1, CurrentEntry DEF Good, Within
  <2>3. Under(p, p)
    BY <1>2, UnderOrder
  <2>4. fs[p] = Dir \/ fs[p] = Absent
    BY <1>1, <1>2, <2>2, <2>3 DEF Good, Roads
  <2>5. CASE p = Top
    BY <1>1, <2>5 DEF Good, Roads
  <2>6. CASE p # Top
    <3>1. fs[p] # Absent
      BY <1>1, <1>2, <2>1, <2>3, <2>6 DEF Good, Contents
    <3> QED BY <2>4, <3>1
  <2> QED BY <2>5, <2>6
<1>8. File(<<>>, "umask", "now") \in FileNode /\ File(<<>>, "umask", "now").data = <<>>
  BY AttributeAssumption DEF File, FileNode
<1> QED BY <1>2, <1>3, <1>4, <1>5, <1>6, <1>7, <1>8 DEF Target

(* A file is written, or has just been made.                                 *)
LEMMA WriteKeeps ==
    ASSUME XTypeOK, NEW r \in Proc, Good(r), pc[r] = "entry" \/ Writing(r),
           NodeOf(r) \in FileNode, NEW x \in FileNode, fs' = Put(fs, Cur(r).path, x),
           UNCHANGED <<todo, pos, result>>,
           pc' \in [Proc -> PC], Writing(r)',
           open' \in [Proc -> Path], got' \in [Proc -> Nat], buffer' \in [Proc -> Seq(Nat)],
           open'[r] = Cur(r).path, got'[r] \in 0..Len(NodeOf(r).data),
           x.data \o buffer'[r] = SubSeq(NodeOf(r).data, 1, got'[r]),
           pc'[r] # "blocks" => got'[r] = Len(NodeOf(r).data),
           pc'[r] \in {"flush", "times"} => x.mode = NodeOf(r).mode,
           pc'[r] = "times" => buffer'[r] = <<>>
    PROVE  XTypeOK' /\ Good(r)'
<1>1. /\ pos[r] \in 1..Len(todo[r]) /\ pos[r] <= Len(todo[r]) /\ Cur(r) = todo[r][pos[r]]
      /\ Cur(r).path \in Path \ {Top}
  BY CurrentEntry DEF Good, Within
<1>2. NodeOf(r) # Dir /\ x \in Storable
  BY NodeKinds
<1> DEFINE t == Put(fs, Cur(r).path, x)
<1>3. /\ t \in [Path -> Node] /\ t[Cur(r).path] = x /\ t[Top] = Dir
      /\ \A i \in 1..(pos[r] - 1) : t[todo[r][i].path] = todo[r][i].node
      /\ \A i \in 1..Len(todo[r]) : \A q \in Path :
           Under(q, Parent(todo[r][i].path)) => t[q] = Dir \/ t[q] = Absent
      /\ \A q \in Path \ {Top} :
           t[q] # Absent <=> \E p \in Made(r) \cup {Cur(r).path} : Under(q, p)
  BY <1>2, Placing, Zenon
<1>4. fs' = t
  OBVIOUS
<1> HIDE DEF t
<1>5. /\ fs' \in [Path -> Node] /\ fs'[Cur(r).path] = x /\ fs'[Top] = Dir
      /\ \A i \in 1..(pos[r] - 1) : fs'[todo[r][i].path] = todo[r][i].node
      /\ \A i \in 1..Len(todo[r]) : \A q \in Path :
           Under(q, Parent(todo[r][i].path)) => fs'[q] = Dir \/ fs'[q] = Absent
      /\ \A q \in Path \ {Top} :
           fs'[q] # Absent <=> \E p \in Made(r) \cup {Cur(r).path} : Under(q, p)
  BY <1>3, <1>4
<1>6. XTypeOK'
  BY <1>5 DEF XTypeOK
<1>7. /\ Cur(r)' = Cur(r) /\ NodeOf(r)' = NodeOf(r)
      /\ pc'[r] \notin {"idle", "open", "root", "path", "entry", "done"}
  BY DEF Cur, NodeOf, Writing
<1>8. Sound(todo[r])' /\ Within(r)' /\ Behind(r)' /\ Begun(r)' /\ Half(r)' /\ Opened(r)'
  BY <1>1, <1>5, <1>7 DEF Good, Within, Behind, Begun, Half, Opened
<1>9. Roads(r)'
  BY <1>5 DEF Roads
<1>10. Contents(r)'
  <2>1. Making(r)' = Made(r) \cup {Cur(r).path}
    BY <1>1, <1>7 DEF Making, Made
  <2> QED BY <1>5, <2>1 DEF Contents
<1>11. Written(r)'
  BY <1>5, <1>7 DEF Written
<1> QED BY <1>6, <1>8, <1>9, <1>10, <1>11 DEF Good

-----------------------------------------------------------------------------
LEMMA PutSame ==
    ASSUME XTypeOK, NEW p \in Path
    PROVE  Put(fs, p, fs[p]) = fs
BY DEF Put, XTypeOK

(* What a run that writes has.                                               *)
LEMMA WritingHas ==
    ASSUME XTypeOK, NEW r \in Proc, Good(r), Writing(r)
    PROVE  /\ fs[Cur(r).path] \in FileNode /\ NodeOf(r) \in FileNode
           /\ NodeOf(r).data \in Seq(Nat) /\ fs[Cur(r).path].data \in Seq(Nat)
           /\ buffer[r] \in Seq(Nat) /\ got[r] \in Nat
           /\ open[r] = Cur(r).path /\ Cur(r).path \in Path
           /\ fs = Put(fs, Cur(r).path, fs[Cur(r).path])
<1>1. /\ fs[Cur(r).path] \in FileNode /\ NodeOf(r) \in FileNode /\ open[r] = Cur(r).path
  BY DEF Good, Written
<1>2. Cur(r).path \in Path
  BY CurrentEntry DEF Good, Within
<1> QED BY <1>1, <1>2, PutSame DEF FileNode, XTypeOK

LEMMA CreateFileKeeps ==
    ASSUME XTypeOK, NEW r \in Proc, Good(r), CreateFile(r)
    PROVE  XTypeOK' /\ Good(r)'
<1> DEFINE x == File(<<>>, "umask", "now")
<1>1. pc[r] = "entry" /\ NodeOf(r).type = "file"
  BY DEF CreateFile, At
<1>2. /\ Target(r) = Cur(r).path /\ Target(r) \in Path /\ NodeOf(r) \in FileNode
      /\ x \in FileNode /\ x.data = <<>>
  BY <1>1, NewFile
<1> HIDE DEF x
<1>3. /\ fs' = Put(fs, Cur(r).path, x) /\ pc' = [pc EXCEPT ![r] = "blocks"]
      /\ open' = [open EXCEPT ![r] = Cur(r).path] /\ got' = [got EXCEPT ![r] = 0]
      /\ buffer' = [buffer EXCEPT ![r] = <<>>] /\ UNCHANGED <<todo, pos, result>>
  BY <1>2 DEF CreateFile, Goto, x
<1>4. /\ pc' \in [Proc -> PC] /\ open' \in [Proc -> Path] /\ got' \in [Proc -> Nat]
      /\ buffer' \in [Proc -> Seq(Nat)]
      /\ pc'[r] = "blocks" /\ open'[r] = Cur(r).path /\ got'[r] = 0 /\ buffer'[r] = <<>>
  BY <1>2, <1>3 DEF XTypeOK, PC
<1>5. Writing(r)'
  BY <1>4 DEF Writing
<1>6. 0 \in 0..Len(NodeOf(r).data) /\ x.data \o <<>> = SubSeq(NodeOf(r).data, 1, 0)
  <2>1. NodeOf(r).data \in Seq(Nat)
    BY <1>2 DEF FileNode
  <2>2. SubSeq(NodeOf(r).data, 1, 0) = <<>> /\ <<>> \o <<>> = <<>>
    BY <2>1
  <2> QED BY <1>2, <2>1, <2>2
<1> QED BY <1>1, <1>2, <1>3, <1>4, <1>5, <1>6, WriteKeeps

LEMMA TimeOverflowsKeeps ==
    ASSUME XTypeOK, NEW r \in Proc, Good(r), TimeOverflows(r)
    PROVE  XTypeOK' /\ Good(r)'
<1> DEFINE x == File(<<>>, "umask", "now")
<1>1. pc[r] = "entry" /\ NodeOf(r).type = "file"
  BY DEF TimeOverflows, At
<1>2. Target(r) = Cur(r).path /\ x \in FileNode /\ NodeOf(r) # Dir
  BY <1>1, NewFile
<1> HIDE DEF x
<1>3. /\ fs' = Put(fs, Cur(r).path, x) /\ End(r, "panic")
      /\ UNCHANGED <<todo, pos, open, got, buffer>>
  BY <1>2 DEF TimeOverflows, x
<1>4. x \in Storable
  BY <1>2, NodeKinds
<1>5. /\ fs' \in [Path -> Node]
      /\ \A i \in 1..(pos[r] - 1) : fs'[todo[r][i].path] = todo[r][i].node
  BY <1>1, <1>2, <1>3, <1>4, Placing
<1>6. Started(r) /\ ~Writing(r) /\ "panic" \in Result
  BY <1>1 DEF Started, Writing, Result
<1> QED BY <1>3, <1>5, <1>6, EndKeeps

LEMMA ReadBlockKeeps ==
    ASSUME XTypeOK, NEW r \in Proc, Good(r), ReadBlock(r)
    PROVE  XTypeOK' /\ Good(r)'
<1> DEFINE x == fs[Cur(r).path]
<1> DEFINE data == NodeOf(r).data
<1>1. pc[r] = "blocks" /\ Writing(r) /\ got[r] < Len(data)
  BY DEF ReadBlock, At, Writing
<1>2. /\ x \in FileNode /\ NodeOf(r) \in FileNode /\ data \in Seq(Nat)
      /\ x.data \in Seq(Nat) /\ buffer[r] \in Seq(Nat) /\ got[r] \in Nat
      /\ open[r] = Cur(r).path /\ fs = Put(fs, Cur(r).path, x)
  BY <1>1, WritingHas
<1>3. x.data \o buffer[r] = SubSeq(data, 1, got[r]) /\ got[r] \in 0..Len(data)
  BY <1>1, <1>2 DEF Good, Written
<1>4. /\ x.data \o Append(buffer[r], data[got[r] + 1]) = SubSeq(data, 1, got[r] + 1)
      /\ data[got[r] + 1] \in Nat
  <2> HIDE DEF x, data
  <2>1. /\ Append(SubSeq(data, 1, got[r]), data[got[r] + 1]) = SubSeq(data, 1, got[r] + 1)
        /\ data[got[r] + 1] \in Nat
    BY <1>1, <1>2, <1>3, TakeOneMore
  <2>2. x.data \o Append(buffer[r], data[got[r] + 1])
          = Append(x.data \o buffer[r], data[got[r] + 1])
    <3>1. PICK a \in Seq(Nat), b \in Seq(Nat), d \in Nat :
              a = x.data /\ b = buffer[r] /\ d = data[got[r] + 1]
      BY <1>2, <2>1
    <3>2. a \o Append(b, d) = Append(a \o b, d)
      BY ConcatAppend
    <3> QED BY <3>1, <3>2
  <2> QED BY <1>3, <2>1, <2>2
<1>5. got' = [got EXCEPT ![r] = @ + 1] /\ UNCHANGED <<fs, todo, pos, result, pc, open>>
      /\ buffer' = [buffer EXCEPT ![r] = Append(@, data[got[r] + 1])]
  BY DEF ReadBlock
<1> HIDE DEF x, data
<1>6. /\ got'[r] = got[r] + 1 /\ buffer'[r] = Append(buffer[r], data[got[r] + 1])
      /\ got' \in [Proc -> Nat] /\ buffer' \in [Proc -> Seq(Nat)]
      /\ pc' \in [Proc -> PC] /\ open' \in [Proc -> Path]
      /\ pc'[r] = "blocks" /\ open'[r] = Cur(r).path /\ Writing(r)'
  BY <1>1, <1>2, <1>4, <1>5, SMTT(30) DEF XTypeOK, Writing
<1>7. got'[r] \in 0..Len(data) /\ x.data \o buffer'[r] = SubSeq(data, 1, got'[r])
  <2>1. got[r] + 1 \in 0..Len(data)
    BY <1>1, <1>2
  <2> QED BY <1>4, <1>6, <2>1
<1>8. fs' = Put(fs, Cur(r).path, x) /\ UNCHANGED <<todo, pos, result>>
  BY <1>2, <1>5
<1> QED BY <1>1, <1>2, <1>6, <1>7, <1>8, WriteKeeps DEF data

LEMMA MovesOnKeeps ==
    ASSUME XTypeOK, NEW r \in Proc, Good(r), BlocksDone(r) \/ Flushed(r)
    PROVE  XTypeOK' /\ Good(r)'
<1> DEFINE x == fs[Cur(r).path]
<1>1. Writing(r)
  BY DEF BlocksDone, Flushed, At, Writing
<1>2. /\ x \in FileNode /\ NodeOf(r) \in FileNode /\ open[r] = Cur(r).path
      /\ fs = Put(fs, Cur(r).path, x)
  BY <1>1, WritingHas
<1>3. /\ x.data \o buffer[r] = SubSeq(NodeOf(r).data, 1, got[r])
      /\ got[r] \in 0..Len(NodeOf(r).data)
      /\ pc[r] # "blocks" => got[r] = Len(NodeOf(r).data)
      /\ pc[r] \in {"flush", "times"} => x.mode = NodeOf(r).mode
  BY <1>1, <1>2 DEF Good, Written
<1>4. UNCHANGED <<fs, todo, pos, open, got, buffer, result>>
  BY DEF BlocksDone, Flushed
<1>5. \/ /\ pc' = [pc EXCEPT ![r] = "permissions"] /\ pc[r] = "blocks"
         /\ got[r] = Len(NodeOf(r).data)
      \/ pc' = [pc EXCEPT ![r] = "times"] /\ pc[r] = "flush" /\ buffer[r] = <<>>
  BY DEF BlocksDone, Flushed, At, Goto
<1>6. /\ pc' \in [Proc -> PC] /\ open' \in [Proc -> Path] /\ got' \in [Proc -> Nat]
      /\ buffer' \in [Proc -> Seq(Nat)]
      /\ \/ pc'[r] = "permissions" /\ pc[r] = "blocks" /\ got[r] = Len(NodeOf(r).data)
         \/ pc'[r] = "times" /\ pc[r] = "flush" /\ buffer[r] = <<>>
  BY <1>4, <1>5 DEF XTypeOK, PC
<1>7. Writing(r)'
  BY <1>6 DEF Writing
<1> HIDE DEF x
<1>8. fs' = Put(fs, Cur(r).path, x) /\ UNCHANGED <<todo, pos, result>>
      /\ open'[r] = Cur(r).path /\ got'[r] = got[r] /\ buffer'[r] = buffer[r]
  BY <1>2, <1>4
<1>9. /\ pc'[r] # "blocks" => got'[r] = Len(NodeOf(r).data)
      /\ pc'[r] \in {"flush", "times"} => x.mode = NodeOf(r).mode
      /\ pc'[r] = "times" => buffer'[r] = <<>>
  BY <1>3, <1>6, <1>8
<1>10. got'[r] \in 0..Len(NodeOf(r).data) /\ x.data \o buffer'[r] = SubSeq(NodeOf(r).data, 1, got'[r])
  BY <1>3, <1>8
<1> QED BY <1>1, <1>2, <1>6, <1>7, <1>8, <1>9, <1>10, WriteKeeps

LEMMA SpillKeeps ==
    ASSUME XTypeOK, NEW r \in Proc, Good(r), Spill(r)
    PROVE  XTypeOK' /\ Good(r)'
<1> DEFINE x == [fs[open[r]] EXCEPT !.data = @ \o buffer[r], !.mtime = "now"]
<1>1. pc[r] \in {"blocks", "flush"} /\ Writing(r)
  BY DEF Spill, Writing
<1>2. /\ x \in FileNode /\ x.data = fs[open[r]].data \o buffer[r]
      /\ x.mode = fs[open[r]].mode
      /\ fs' = Put(fs, Cur(r).path, x)
  BY <1>1, SlicesAre DEF Spill
<1> HIDE DEF x
<1>3. NodeOf(r) \in FileNode /\ open[r] = Cur(r).path
  BY <1>1, WritingHas
<1>4. /\ x.data = SubSeq(NodeOf(r).data, 1, got[r])
      /\ got[r] \in 0..Len(NodeOf(r).data)
      /\ pc[r] # "blocks" => got[r] = Len(NodeOf(r).data)
      /\ pc[r] \in {"flush", "times"} => x.mode = NodeOf(r).mode
  BY <1>1, <1>2 DEF Good, Written
<1>5. buffer' = [buffer EXCEPT ![r] = <<>>] /\ UNCHANGED <<pc, todo, pos, open, got, result>>
  BY DEF Spill
<1>6. /\ pc' \in [Proc -> PC] /\ open' \in [Proc -> Path] /\ got' \in [Proc -> Nat]
      /\ buffer' \in [Proc -> Seq(Nat)] /\ buffer'[r] = <<>> /\ Writing(r)'
      /\ pc'[r] = pc[r] /\ got'[r] = got[r] /\ open'[r] = Cur(r).path
  BY <1>1, <1>3, <1>5 DEF XTypeOK, Writing
<1>7. x.data \o <<>> = x.data
  BY <1>2 DEF FileNode
<1>8. /\ pc'[r] # "blocks" => got'[r] = Len(NodeOf(r).data)
      /\ pc'[r] \in {"flush", "times"} => x.mode = NodeOf(r).mode
      /\ pc'[r] = "times" => buffer'[r] = <<>>
      /\ got'[r] \in 0..Len(NodeOf(r).data)
      /\ x.data \o buffer'[r] = SubSeq(NodeOf(r).data, 1, got'[r])
  BY <1>4, <1>6, <1>7
<1> QED BY <1>1, <1>2, <1>3, <1>5, <1>6, <1>8, WriteKeeps

LEMMA SetPermissionsKeeps ==
    ASSUME XTypeOK, NEW r \in Proc, Good(r), SetPermissions(r)
    PROVE  XTypeOK' /\ Good(r)'
<1> DEFINE y == fs[Cur(r).path]
<1> DEFINE x == [y EXCEPT !.mode = NodeOf(r).mode]
<1>1. pc[r] = "permissions" /\ Writing(r)
  BY DEF SetPermissions, At, Writing
<1>2. /\ y \in FileNode /\ NodeOf(r) \in FileNode /\ open[r] = Cur(r).path
  BY <1>1, WritingHas
<1>3. /\ y.data \o buffer[r] = SubSeq(NodeOf(r).data, 1, got[r])
      /\ got[r] \in 0..Len(NodeOf(r).data) /\ got[r] = Len(NodeOf(r).data)
  BY <1>1, <1>2 DEF Good, Written
<1>4. /\ fs' = Put(fs, Cur(r).path, x) /\ pc' = [pc EXCEPT ![r] = "flush"]
      /\ UNCHANGED <<todo, pos, open, got, buffer, result>>
  BY <1>2 DEF SetPermissions, Goto
<1> HIDE DEF y
<1>5. x \in FileNode /\ x.data = y.data /\ x.mode = NodeOf(r).mode
  BY <1>2 DEF FileNode
<1> HIDE DEF x
<1>6. /\ pc' \in [Proc -> PC] /\ open' \in [Proc -> Path] /\ got' \in [Proc -> Nat]
      /\ buffer' \in [Proc -> Seq(Nat)]
      /\ pc'[r] = "flush" /\ got'[r] = got[r] /\ open'[r] = Cur(r).path /\ buffer'[r] = buffer[r]
  BY <1>2, <1>4 DEF XTypeOK, PC
<1>7. Writing(r)'
  BY <1>6 DEF Writing
<1>8. /\ pc'[r] # "blocks" => got'[r] = Len(NodeOf(r).data)
      /\ pc'[r] \in {"flush", "times"} => x.mode = NodeOf(r).mode
      /\ pc'[r] = "times" => buffer'[r] = <<>>
      /\ got'[r] \in 0..Len(NodeOf(r).data)
      /\ x.data \o buffer'[r] = SubSeq(NodeOf(r).data, 1, got'[r])
  BY <1>3, <1>5, <1>6
<1> QED BY <1>1, <1>2, <1>4, <1>5, <1>6, <1>7, <1>8, WriteKeeps

LEMMA SetModifiedKeeps ==
    ASSUME XTypeOK, NEW r \in Proc, Good(r), SetModified(r)
    PROVE  XTypeOK' /\ Good(r)'
<1> DEFINE y == fs[Cur(r).path]
<1> DEFINE x == [y EXCEPT !.mtime = NodeOf(r).mtime]
<1>1. pc[r] = "times" /\ Writing(r)
  BY DEF SetModified, At, Writing
<1>2. /\ y \in FileNode /\ NodeOf(r) \in FileNode /\ open[r] = Cur(r).path
      /\ NodeOf(r).data \in Seq(Nat)
  BY <1>1, WritingHas
<1>3. /\ y.data \o <<>> = SubSeq(NodeOf(r).data, 1, Len(NodeOf(r).data))
      /\ y.mode = NodeOf(r).mode
  BY <1>1, <1>2 DEF Good, Written
<1>4. /\ fs' = Put(fs, Cur(r).path, x) /\ NextEntry(r)
      /\ UNCHANGED <<todo, open, got, buffer, result>>
  BY <1>2 DEF SetModified
<1> HIDE DEF y
<1>5. y.data = NodeOf(r).data
  <2>1. y.data \in Seq(Nat)
    BY <1>2 DEF FileNode
  <2>2. y.data \o <<>> = y.data
    BY <2>1
  <2>3. SubSeq(NodeOf(r).data, 1, Len(NodeOf(r).data)) = NodeOf(r).data
    BY <1>2
  <2> QED BY <1>3, <2>2, <2>3
<1>6. x = NodeOf(r)
  BY <1>2, <1>3, <1>5 DEF FileNode
<1> HIDE DEF x
<1>7. NodeOf(r) # Dir /\ NodeOf(r) \in Storable
  BY <1>2, NodeKinds
<1>8. /\ fs' \in [Path -> Node] /\ fs'[Cur(r).path] = NodeOf(r) /\ fs'[Top] = Dir
      /\ \A i \in 1..(pos[r] - 1) : fs'[todo[r][i].path] = todo[r][i].node
      /\ \A i \in 1..Len(todo[r]) : \A q \in Path :
           Under(q, Parent(todo[r][i].path)) => fs'[q] = Dir \/ fs'[q] = Absent
      /\ \A q \in Path \ {Top} :
           fs'[q] # Absent <=> \E p \in Made(r) \cup {Cur(r).path} : Under(q, p)
  BY <1>1, <1>4, <1>6, <1>7, Placing
<1> QED BY <1>1, <1>4, <1>8, NextKeeps

-----------------------------------------------------------------------------
(* All the steps of a run, and all the runs.                                 *)

LEMMA StepKeeps ==
    ASSUME XTypeOK, NEW r \in Proc, Good(r), RunStep(r) \/ Crash(r)
    PROVE  XTypeOK' /\ Good(r)'
<1>1. ASSUME Fail(r), Started(r) PROVE XTypeOK' /\ Good(r)'
  BY <1>1, FailKeeps
<1>2. CASE OpenFails(r) \/ MakeRootFails(r) \/ SafePathFails(r)
  BY <1>1, <1>2 DEF OpenFails, MakeRootFails, SafePathFails, At, Started
<1>3. CASE TooLarge(r) \/ MakeLinkFails(r) \/ CreateFileFails(r)
  BY <1>1, <1>3 DEF TooLarge, MakeLinkFails, CreateFileFails, At, Started
<1>4. CASE ReadBlockFails(r) \/ SpillFails(r) \/ SetFails(r)
  BY <1>1, <1>4 DEF ReadBlockFails, SpillFails, SetFails, At, Started
<1>5. CASE Start(r)
  BY <1>5, StartKeeps
<1>6. CASE Open(r)
  BY <1>6, OpenKeeps
<1>7. CASE MakeRoot(r)
  BY <1>7, MakeRootKeeps
<1>8. CASE Succeed(r)
  <2>1. Started(r) /\ "ok" \in Result
    BY <1>8 DEF Succeed, At, Started, Result
  <2>2. End(r, "ok") /\ UNCHANGED <<fs, todo, pos, open, got, buffer>>
    BY <1>8 DEF Succeed
  <2> QED BY <2>1, <2>2, EndsAsItIs
<1>9. CASE SafePath(r)
  BY <1>9, SafePathKeeps
<1>10. CASE MakeDir(r)
  BY <1>10, MakeDirKeeps
<1>11. CASE MakeLink(r)
  BY <1>11, MakeLinkKeeps
<1>12. CASE CreateFile(r)
  BY <1>12, CreateFileKeeps
<1>13. CASE TimeOverflows(r)
  BY <1>13, TimeOverflowsKeeps
<1>14. CASE ReadBlock(r)
  BY <1>14, ReadBlockKeeps
<1>15. CASE BlocksDone(r) \/ Flushed(r)
  BY <1>15, MovesOnKeeps
<1>16. CASE Spill(r)
  BY <1>16, SpillKeeps
<1>17. CASE SetPermissions(r)
  BY <1>17, SetPermissionsKeeps
<1>18. CASE SetModified(r)
  BY <1>18, SetModifiedKeeps
<1>19. CASE Crash(r)
  <2>1. Started(r) /\ "killed" \in Result
    BY <1>19 DEF Crash, Result
  <2>2. End(r, "killed") /\ UNCHANGED <<fs, todo, pos, open, got, buffer>>
    BY <1>19 DEF Crash
  <2> QED BY <2>1, <2>2, EndsAsItIs
<1> QED
  BY <1>2, <1>3, <1>4, <1>5, <1>6, <1>7, <1>8, <1>9, <1>10, <1>11, <1>12, <1>13, <1>14,
     <1>15, <1>16, <1>17, <1>18, <1>19 DEF RunStep

(* What a step of a run leaves alone.                                        *)
OthersRest(r) ==
    /\ UNCHANGED todo
    /\ \A s \in Proc \ {r} : /\ pc'[s] = pc[s] /\ pos'[s] = pos[s] /\ open'[s] = open[s]
                             /\ got'[s] = got[s] /\ buffer'[s] = buffer[s]

LEMMA OneRunMoves ==
    ASSUME XTypeOK, NEW r \in Proc, RunStep(r) \/ Crash(r)
    PROVE  /\ OthersRest(r)
           /\ Started(r) \/ (Start(r) /\ UNCHANGED fs)
<1> USE DEF OthersRest, XTypeOK, Goto, End, At, Started
<1>1. ASSUME Fail(r), Started(r) PROVE OthersRest(r) /\ Started(r)
  BY <1>1 DEF Fail
<1>2. CASE OpenFails(r) \/ MakeRootFails(r) \/ SafePathFails(r)
  BY <1>1, <1>2 DEF OpenFails, MakeRootFails, SafePathFails
<1>3. CASE TooLarge(r) \/ MakeLinkFails(r) \/ CreateFileFails(r)
  BY <1>1, <1>3 DEF TooLarge, MakeLinkFails, CreateFileFails
<1>4. CASE ReadBlockFails(r) \/ SpillFails(r) \/ SetFails(r)
  BY <1>1, <1>4 DEF ReadBlockFails, SpillFails, SetFails
<1>5. CASE Start(r) \/ Open(r) \/ MakeRoot(r) \/ Succeed(r) \/ Crash(r)
  BY <1>5 DEF Start, Open, MakeRoot, Succeed, Crash
<1>6. CASE SafePath(r)
  BY <1>6 DEF SafePath
<1>7. CASE MakeDir(r) \/ MakeLink(r)
  BY <1>7 DEF MakeDir, MakeLink, NextEntry
<1>8. CASE CreateFile(r) \/ TimeOverflows(r)
  BY <1>8 DEF CreateFile, TimeOverflows
<1>9. CASE ReadBlock(r) \/ BlocksDone(r) \/ Spill(r)
  BY <1>9 DEF ReadBlock, BlocksDone, Spill
<1>10. CASE SetPermissions(r) \/ Flushed(r) \/ SetModified(r)
  BY <1>10 DEF SetPermissions, Flushed, SetModified, NextEntry
<1> QED
  BY <1>2, <1>3, <1>4, <1>5, <1>6, <1>7, <1>8, <1>9, <1>10 DEF RunStep

(* A run that has come anywhere has left something in the directory.         *)
LEMMA TraceOfRun ==
    ASSUME XTypeOK, NEW r \in Proc, Good(r), ~Fresh(r)
    PROVE  Files(fs) # {}
<1>1. /\ pos[r] \in 1..(Len(todo[r]) + 1) /\ pos[r] \in Nat /\ Len(todo[r]) \in Nat
      /\ \A i \in 1..Len(todo[r]) : todo[r][i] \in EntryRecord
  BY CurrentEntry DEF Good, Within
<1>2. CASE pos[r] # 1
  <2>1. 1 \in 1..(pos[r] - 1) /\ 1 \in 1..Len(todo[r])
    BY <1>1, <1>2
  <2>2. todo[r][1].path \in Path \ {Top} /\ todo[r][1].node # Absent
    BY <1>1, <2>1, NodeKinds DEF EntryRecord
  <2>3. fs[todo[r][1].path] # Absent
    BY <2>1, <2>2 DEF Good, Behind
  <2> QED BY <2>2, <2>3 DEF Files
<1>3. CASE pos[r] = 1
  <2>1. open[r] # Top /\ 1..(pos[r] - 1) = {}
    BY <1>3 DEF Fresh
  <2>2. /\ pos[r] <= Len(todo[r]) /\ open[r] = Cur(r).path
        /\ Writing(r) \/ pc[r] = "done"
    BY <2>1 DEF Good, Opened
  <2>3. Cur(r).path \in Path \ {Top}
    BY <1>1, <2>2, CurrentEntry
  <2>4. fs[open[r]] \in FileNode
    BY <2>2 DEF Good, Half, Written
  <2> QED BY <2>2, <2>3, <2>4, NodeKinds DEF Files
<1> QED BY <1>2, <1>3

LEMMA SameKeeps ==
    ASSUME NEW s \in Proc, Good(s), UNCHANGED fs,
           pc'[s] = pc[s], pos'[s] = pos[s], open'[s] = open[s],
           got'[s] = got[s], buffer'[s] = buffer[s], todo'[s] = todo[s]
    PROVE  Good(s)'
<1>1. Cur(s)' = Cur(s) /\ NodeOf(s)' = NodeOf(s) /\ Writing(s)' = Writing(s)
      /\ Working(s)' = Working(s)
  BY DEF Cur, NodeOf, Writing, Working
<1>2. Sound(todo[s])' /\ Within(s)' /\ Behind(s)' /\ Opened(s)' /\ Half(s)' /\ Begun(s)'
  BY <1>1 DEF Good, Within, Behind, Opened, Half, Begun, Fresh, Files
<1>3. Roads(s)' /\ Written(s)'
  BY <1>1 DEF Good, Roads, Written
<1>4. Contents(s)'
  <2>1. Making(s)' = Making(s)
    BY <1>1 DEF Making, Made
  <2> QED BY <1>1, <2>1 DEF Good, Contents
<1> QED BY <1>2, <1>3, <1>4 DEF Good

LEMMA OtherKeeps ==
    ASSUME XTypeOK, NEW r \in Proc, NEW s \in Proc, s # r, Good(s), OthersRest(r),
           (Fresh(s) /\ ~Started(s)) \/ UNCHANGED fs
    PROVE  Good(s)'
<1>1. /\ pc'[s] = pc[s] /\ pos'[s] = pos[s] /\ open'[s] = open[s]
      /\ got'[s] = got[s] /\ buffer'[s] = buffer[s] /\ todo'[s] = todo[s]
  BY DEF OthersRest
<1>2. CASE UNCHANGED fs
  BY <1>1, <1>2, SameKeeps
<1>3. CASE Fresh(s) /\ ~Started(s)
  <2>1. pos[s] = 1 /\ open[s] = Top /\ 1..(pos[s] - 1) = {}
    BY <1>3 DEF Fresh
  <2>2. pc[s] \in {"idle", "done"} /\ ~Writing(s) /\ ~Working(s)
    BY <1>3 DEF Started, Writing, Working
  <2>3. Cur(s)' = Cur(s) /\ NodeOf(s)' = NodeOf(s) /\ ~Writing(s)' /\ ~Working(s)'
    BY <1>1, <2>2 DEF Cur, NodeOf, Writing, Working
  <2>4. Sound(todo[s])' /\ Within(s)' /\ Behind(s)' /\ Opened(s)' /\ Begun(s)'
    BY <1>1, <2>1, <2>2, <2>3 DEF Good, Within, Behind, Opened, Begun, Fresh
  <2>5. Half(s)'
    <3>1. ASSUME pos[s] <= Len(todo[s]) PROVE Cur(s).path # Top
      BY <3>1, CurrentEntry DEF Good, Within
    <3> QED BY <1>1, <2>1, <2>3, <3>1 DEF Half
  <2>6. Roads(s)' /\ Written(s)' /\ Contents(s)'
    BY <2>3 DEF Roads, Written, Contents
  <2> QED BY <2>4, <2>5, <2>6 DEF Good
<1> QED BY <1>2, <1>3

LEMMA NextExtract == ExtractInv /\ [ExtractNext]_extractVars => ExtractInv'
<1> SUFFICES ASSUME ExtractInv, [ExtractNext]_extractVars PROVE ExtractInv'
  OBVIOUS
<1>1. XTypeOK /\ Alone /\ \A s \in Proc : Good(s)
  BY DEF ExtractInv
<1>2. CASE UNCHANGED extractVars
  <2>1. XTypeOK' /\ Alone'
    BY <1>1, <1>2 DEF extractVars, XTypeOK, Alone, Started, Fresh
  <2>2. ASSUME NEW s \in Proc PROVE Good(s)'
    BY <1>1, <1>2, SameKeeps DEF extractVars
  <2> QED BY <2>1, <2>2 DEF ExtractInv
<1>3. ASSUME NEW r \in Proc, RunStep(r) \/ Crash(r) PROVE ExtractInv'
  <2>1. XTypeOK' /\ Good(r)'
    BY <1>1, <1>3, StepKeeps
  <2>2. OthersRest(r) /\ (Started(r) \/ (Start(r) /\ UNCHANGED fs))
    BY <1>1, <1>3, OneRunMoves
  <2>3. ASSUME NEW s \in Proc, s # r PROVE Good(s)'
    <3>1. CASE Started(r)
      <4>1. Fresh(s) /\ ~Started(s)
        BY <1>1, <2>3, <3>1 DEF Alone
      <4> QED BY <1>1, <2>2, <2>3, <4>1, OtherKeeps
    <3>2. CASE UNCHANGED fs
      BY <1>1, <2>2, <2>3, <3>2, OtherKeeps
    <3> QED BY <2>2, <3>1, <3>2
  <2>4. ASSUME NEW s \in Proc, s # r
        PROVE  Started(s)' = Started(s) /\ Fresh(s)' = Fresh(s)
    BY <2>2, <2>4 DEF OthersRest, Started, Fresh
  <2>5. Alone'
    <3>1. CASE Started(r)
      <4>1. \A s \in Proc : s # r => ~Started(s) /\ Fresh(s)
        BY <1>1, <3>1 DEF Alone
      <4> QED BY <2>4, <4>1 DEF Alone
    <3>2. CASE Start(r)
      <4>1. \A s \in Proc : ~Started(s)
        BY <3>2 DEF Start
      <4>2. CASE Files(fs) = {}
        <5>1. \A s \in Proc : Fresh(s)
          BY <1>1, <4>2, TraceOfRun
        <5> QED BY <2>4, <4>1, <5>1 DEF Alone
      <4>3. CASE Files(fs) # {}
        <5>1. ~Started(r)'
          BY <1>1, <3>2, <4>3 DEF Start, End, Goto, Started, XTypeOK
        <5> QED BY <2>4, <4>1, <5>1 DEF Alone
      <4> QED BY <4>2, <4>3
    <3> QED BY <2>2, <3>1, <3>2
  <2>6. \A s \in Proc : Good(s)'
    BY <2>1, <2>3
  <2> QED BY <2>1, <2>5, <2>6 DEF ExtractInv
<1> QED BY <1>2, <1>3 DEF ExtractNext, AllEnded

-----------------------------------------------------------------------------
LEMMA SoundIs ==
    ASSUME NEW a \in Seq(EntryRecord)
    PROVE  Sound(a) <=> Consistent(a)
<1>1. DOMAIN a = 1..Len(a)
  OBVIOUS
<1> QED BY <1>1 DEF Sound, Consistent, Clash

(* What a filter leaves of a list, and where in the list it was. *)
LEMMA SelectionPlaces ==
    ASSUME NEW a \in Seq(EntryRecord), NEW d \in Selections(a)
    PROVE  /\ d \in Seq(EntryRecord)
           /\ \E at \in [1..Len(d) -> 1..Len(a)] :
                /\ \A k \in 1..Len(d) : d[k] = a[at[k]]
                /\ \A k, l \in 1..Len(d) : k # l => at[k] # at[l]
<1>1. PICK keep : d = Sift(a, keep)
  BY DEF Selections
<1>2. d \in Seq(EntryRecord)
  BY <1>1, SiftKeeps
<1>3. PICK at : Kept(a, keep, d, Len(a), at)
  BY <1>1, SiftKeeps
<1>4. at \in [1..Len(d) -> 1..Len(a)] /\ \A k \in 1..Len(d) : d[k] = a[at[k]]
  BY <1>3 DEF Kept
<1>5. ASSUME NEW k \in 1..Len(d), NEW l \in 1..Len(d), k # l PROVE at[k] # at[l]
  <2>1. k < l \/ l < k
    BY <1>2, <1>5
  <2>2. at[k] < at[l] \/ at[l] < at[k]
    BY <1>3, <2>1 DEF Kept
  <2>3. at[k] \in Int /\ at[l] \in Int
    BY <1>4
  <2> QED BY <2>2, <2>3
<1> QED BY <1>2, <1>4, <1>5

LEMMA SelectionIsSound ==
    ASSUME NEW a \in Seq(EntryRecord), Sound(a), NEW d \in Selections(a)
    PROVE  d \in Seq(EntryRecord) /\ Sound(d)
<1>1. PICK at \in [1..Len(d) -> 1..Len(a)] :
        /\ \A k \in 1..Len(d) : d[k] = a[at[k]]
        /\ \A k, l \in 1..Len(d) : k # l => at[k] # at[l]
  BY SelectionPlaces
<1>2. ASSUME NEW k \in 1..Len(d), NEW l \in 1..Len(d)
      PROVE  /\ k # l => d[k].path # d[l].path
             /\ Under(d[l].path, Parent(d[k].path)) => d[l].node = Dir
  <2>1. at[k] \in 1..Len(a) /\ at[l] \in 1..Len(a) /\ d[k] = a[at[k]] /\ d[l] = a[at[l]]
        /\ (k # l => at[k] # at[l])
    BY <1>1
  <2> QED BY <2>1 DEF Sound
<1>3. Sound(d)
  BY <1>2 DEF Sound
<1> QED BY <1>3, SelectionPlaces

LEMMA InitExtract == UsableArchives /\ ExtractInit => ExtractInv
<1> SUFFICES ASSUME UsableArchives, ExtractInit PROVE ExtractInv
  OBVIOUS
<1>1. ASSUME NEW r \in Proc PROVE todo[r] \in Seq(EntryRecord) /\ Sound(todo[r])
  <2>1. PICK a \in Archives : todo[r] \in Selections(a)
    BY DEF ExtractInit
  <2>2. a \in Seq(EntryRecord)
    BY ArchivesAssumption DEF EntryRecord
  <2>3. Sound(a)
    BY <2>2, SoundIs DEF UsableArchives
  <2> QED BY <2>1, <2>2, <2>3, SelectionIsSound
<1>2. todo \in [Proc -> Seq(EntryRecord)]
  <2>1. \E S : todo \in [Proc -> S]
    BY DEF ExtractInit
  <2> QED BY <1>1, <2>1
<1>3. fs \in [Path -> Node]
  <2> DEFINE f == File(<<>>, "own", "own")
  <2>1. f \in FileNode
    BY AttributeAssumption DEF File, FileNode
  <2>2. f \in Node /\ Dir \in Node /\ Absent \in Node
    BY <2>1, NodeKinds
  <2> HIDE DEF f
  <2>3. Missing \in [Path -> Node] /\ Empty \in [Path -> Node]
    BY <2>2 DEF Missing, Empty
  <2>4. NotADirectory \in [Path -> Node] /\ WithFile \in [Path -> Node]
    BY <2>2, <2>3 DEF NotADirectory, WithFile, f
  <2> QED BY <2>3, <2>4 DEF ExtractInit
<1>4. XTypeOK
  BY <1>2, <1>3, TopIsPath DEF ExtractInit, XTypeOK, PC, Result
<1>5. \A r \in Proc : pc[r] = "idle" /\ pos[r] = 1 /\ open[r] = Top
  BY DEF ExtractInit
<1>6. Alone
  BY <1>5 DEF Alone, Started
<1>7. ASSUME NEW r \in Proc PROVE Good(r)
  <2>1. Within(r) /\ Opened(r) /\ Half(r) /\ Begun(r) /\ Roads(r) /\ Contents(r) /\ Written(r)
    <3>1. Len(todo[r]) \in Nat /\ 1 \in 1..(Len(todo[r]) + 1)
      BY <1>1
    <3>2. ~Writing(r) /\ ~Working(r) /\ pc[r] \notin {"entry", "done", "open", "root"}
      BY <1>5 DEF Working, Writing
    <3>3. Within(r) /\ Opened(r) /\ Half(r) /\ Begun(r)
      BY <1>5, <3>1, <3>2 DEF Within, Opened, Half, Begun, Fresh
    <3> QED BY <3>2, <3>3 DEF Roads, Contents, Written
  <2>2. Behind(r)
    BY <1>5 DEF Behind
  <2> QED BY <1>1, <2>1, <2>2 DEF Good
<1> QED BY <1>4, <1>6, <1>7 DEF ExtractInv

(* What runs of decompress into one directory have done at every moment, in  *)
(* whatever order they come, fail and are killed: for any archive whose      *)
(* entries do not clash and any filter (reader.rs extract_archive).          *)
THEOREM ExtractInvariant == UsableArchives => (ExtractSpec => []ExtractInv)
<1> SUFFICES ASSUME UsableArchives PROVE ExtractSpec => []ExtractInv
  OBVIOUS
<1> QED BY InitExtract, NextExtract, PTL DEF ExtractSpec

(* Nothing that a run, or the user's next attempts, do later undoes an entry *)
(* that has been extracted: not a directory made twice, not a late write of  *)
(* the BufWriter, not a file of another entry.                               *)
THEOREM ExtractedEntriesStand == UsableArchives => (ExtractSpec => []EarlierEntriesStand)
<1> SUFFICES ASSUME UsableArchives PROVE ExtractSpec => []EarlierEntriesStand
  OBVIOUS
<1>1. ExtractInv => EarlierEntriesStand
  BY DEF ExtractInv, Good, Behind, EarlierEntriesStand
<1> QED BY <1>1, ExtractInvariant, PTL

(* A failure or a kill at any moment leaves a prefix of the file's data.     *)
THEOREM HalfAFileIsAPrefix == UsableArchives => (ExtractSpec => []PartialIsPrefix)
<1> SUFFICES ASSUME UsableArchives PROVE ExtractSpec => []PartialIsPrefix
  OBVIOUS
<1>1. ExtractInv => PartialIsPrefix
  <2> SUFFICES ASSUME ExtractInv, NEW r \in Proc, Len(todo[r]) >= pos[r], open[r] = Cur(r).path,
                      Writing(r) \/ result[r] \in {"error", "killed"}
               PROVE  IsPrefix(fs[open[r]].data, NodeOf(r).data)
    BY DEF PartialIsPrefix
  <2>1. XTypeOK /\ Good(r)
    BY DEF ExtractInv
  <2>2. pos[r] <= Len(todo[r])
    BY <2>1, CurrentEntry DEF Good, Within
  <2>3. CASE Writing(r)
    BY <2>1, <2>3, WritingFacts
  <2>4. CASE ~Writing(r)
    <3>1. pc[r] = "done"
      BY <2>1, <2>2, <2>4, OpenedIsEarlier
    <3> QED BY <2>1, <2>2, <3>1 DEF Good, Half
  <2> QED BY <2>3, <2>4
<1> QED BY <1>1, ExtractInvariant, PTL

-----------------------------------------------------------------------------
(* Only the run that takes the step Succeed gets the result "ok".            *)
LEMMA OnlySucceed ==
    ASSUME XTypeOK, NEW r \in Proc, NEW s \in Proc, RunStep(s) \/ Crash(s),
           result[r] # "ok", result'[r] = "ok"
    PROVE  r = s /\ Succeed(r)
<1>1. result' # result
  OBVIOUS
<1>2. ASSUME NEW how \in Result \ {"ok"}, End(s, how) PROVE FALSE
  BY <1>2 DEF End, XTypeOK
<1>3. ~Fail(s) /\ ~Crash(s)
  BY <1>2 DEF Fail, Crash, Result
<1>4. ~(OpenFails(s) \/ MakeRootFails(s) \/ SafePathFails(s) \/ TooLarge(s) \/ MakeLinkFails(s))
  BY <1>3 DEF OpenFails, MakeRootFails, SafePathFails, TooLarge, MakeLinkFails
<1>5. ~(CreateFileFails(s) \/ ReadBlockFails(s) \/ SpillFails(s) \/ SetFails(s))
  BY <1>3 DEF CreateFileFails, ReadBlockFails, SpillFails, SetFails
<1>6. ~(Start(s) \/ Open(s) \/ MakeRoot(s) \/ SafePath(s))
  BY <1>1, <1>2 DEF Start, Open, MakeRoot, SafePath, Result
<1>7. ~(MakeDir(s) \/ MakeLink(s) \/ CreateFile(s) \/ TimeOverflows(s))
  BY <1>1, <1>2 DEF MakeDir, MakeLink, CreateFile, TimeOverflows, Result
<1>8. /\ ~(ReadBlock(s) \/ BlocksDone(s) \/ Spill(s))
      /\ ~(SetPermissions(s) \/ Flushed(s) \/ SetModified(s))
  BY <1>1 DEF ReadBlock, BlocksDone, Spill, SetPermissions, Flushed, SetModified
<1>9. Succeed(s)
  BY <1>3, <1>4, <1>5, <1>6, <1>7, <1>8 DEF RunStep
<1>10. r = s
  BY <1>9 DEF Succeed, End, XTypeOK
<1> QED BY <1>9, <1>10

(* A run that has come past all its entries has made just them and what is   *)
(* above them.                                                               *)
LEMMA AllMade ==
    ASSUME XTypeOK, NEW r \in Proc, Good(r), pc[r] = "path", pos[r] > Len(todo[r])
    PROVE  Files(fs) = {q \in Path \ {Top} : \E p \in Paths(todo[r]) : Under(q, p)}
<1>1. Making(r) = Made(r)
  BY DEF Making, Writing
<1>2. Made(r) = Paths(todo[r])
  <2>1. todo[r] \in Seq(EntryRecord) /\ pos[r] \in 1..(Len(todo[r]) + 1)
    BY DEF XTypeOK, Good, Within
  <2>2. Len(todo[r]) \in Nat /\ DOMAIN todo[r] = 1..Len(todo[r])
    BY <2>1
  <2>3. pos[r] - 1 = Len(todo[r])
    BY <2>1, <2>2
  <2> QED BY <2>2, <2>3 DEF Made, Paths
<1>3. \A q \in Path \ {Top} : fs[q] # Absent <=> \E p \in Made(r) : Under(q, p)
  BY <1>1 DEF Good, Contents, Working
<1> QED BY <1>2, <1>3 DEF Files

(* A run that reports success, after whatever attempts before it, leaves the *)
(* selected entries and the directories above them, and nothing else.        *)
THEOREM SuccessLeavesTheSelection == UsableArchives => (ExtractSpec => SuccessIsExact)
<1> SUFFICES ASSUME UsableArchives PROVE ExtractSpec => SuccessIsExact
  OBVIOUS
<1>1. ExtractInv /\ [ExtractNext]_extractVars =>
        [\A r \in Proc : result[r] # "ok" /\ result'[r] = "ok" =>
           Files(fs) = {q \in Path \ {Top} : \E p \in Paths(todo[r]) : Under(q, p)}]_extractVars
  <2> SUFFICES ASSUME ExtractInv, ExtractNext, UNCHANGED extractVars => FALSE,
                      NEW r \in Proc, result[r] # "ok", result'[r] = "ok"
               PROVE  Files(fs) = {q \in Path \ {Top} : \E p \in Paths(todo[r]) : Under(q, p)}
    OBVIOUS
  <2>1. PICK s \in Proc : RunStep(s) \/ Crash(s)
    BY DEF ExtractNext, AllEnded
  <2>2. Succeed(r)
    BY <2>1, OnlySucceed DEF ExtractInv
  <2>3. pc[r] = "path" /\ pos[r] > Len(todo[r])
    BY <2>2 DEF Succeed, At
  <2> QED BY <2>3, AllMade DEF ExtractInv
<1> QED BY <1>1, ExtractInvariant, PTL DEF ExtractSpec, SuccessIsExact

-----------------------------------------------------------------------------
(* From a tree to a tree: what is true of the index while it is made.        *)

(* What is listed can be stored unless it goes away before its turn comes,   *)
(* and what is in the index has been stored.                                 *)
Stored ==
    /\ input \in [Path -> Node]
    /\ files \in Seq(EntryRecord)
    /\ \A p \in Range(out) : input[p] # Special

(* While nothing goes away, the index of the first command says what the     *)
(* tree has.                                                                 *)
Faithful ==
    appends = 0 /\ gone = {} =>
        /\ \A i \in 1..Len(files) : files[i].node = input[files[i].path]
        /\ phase # "failed" => Paths(files) = {out[i] : i \in 1..recorded}
        /\ recursive /\ phase = "ok" => Range(out) = Wanted

(* Any directory that is given is a tree.                                    *)
LEMMA TreeIs ==
    ASSUME NEW t \in Trees \cup MoreTrees
    PROVE  t \in [Path -> Node]
BY TreesAssumption DEF IsTree

(* What has just been listed is no special file.                             *)
LEMMA BeginStored ==
    ASSUME NEW t \in Trees \cup MoreTrees, NEW ends, ends \subseteq {"absent"}, NEW list,
           list = <<>> \/ \E p \in SingleFiles(t, ends) : list = <<p>>
    PROVE  \A p \in Range(list) : t[p] # Special
<1>1. CASE list = <<>>
  BY <1>1, EmptyList
<1>2. CASE \E p \in SingleFiles(t, ends) : list = <<p>>
  <2>1. PICK p \in SingleFiles(t, ends) : list = <<p>>
    BY <1>2
  <2>2. Range(list) = {p} /\ t[p].type \in {"file", "link"}
    BY <2>1, EmptyList DEF SingleFiles
  <2> QED BY <2>2 DEF Special
<1> QED BY <1>1, <1>2

(* When the first command begins there is no index.                          *)
LEMMA InitStored == Init => Stored /\ Faithful
<1> SUFFICES ASSUME Init PROVE Stored /\ Faithful
  OBVIOUS
<1>1. input \in Trees \cup MoreTrees /\ input \in [Path -> Node]
  BY TreeIs DEF Init
<1>2. out = <<>> \/ \E p \in SingleFiles(input, {}) : out = <<p>>
  BY DEF Init
<1>3. \A p \in Range(out) : input[p] # Special
  BY <1>1, <1>2, BeginStored
<1>4. files = <<>> /\ Len(files) = 0 /\ DOMAIN files = {} /\ files \in Seq(EntryRecord)
      /\ recorded = 0 /\ phase = "scan"
  BY DEF Init
<1>5. Paths(files) = {} /\ 1..recorded = {} /\ 1..Len(files) = {}
  BY <1>4 DEF Paths
<1> QED BY <1>1, <1>3, <1>4, <1>5 DEF Stored, Faithful

(* The entry that is recorded says what the path is at that moment.          *)
LEMMA RecordStored ==
    ASSUME TraversalInv, Stored, Faithful, Record
    PROVE  Stored' /\ Faithful'
<1> DEFINE p == out[recorded + 1]
<1> DEFINE e == Entry(p, input[p])
<1> DEFINE n == Len(files)
<1>1. /\ phase = "record" /\ recorded < Len(out) /\ input[p] # Absent
      /\ files' = Append(files, e) /\ recorded' = recorded + 1
      /\ UNCHANGED <<input, recursive, phase, stack, out, appends, gone>>
  BY DEF Record
<1>2. out \in Seq(Path \ {Top}) /\ recorded \in Nat /\ recorded + 1 \in 1..Len(out)
  BY <1>1 DEF TraversalInv, TreeTypeOK
<1>3. p \in Path \ {Top} /\ p \in Range(out)
  BY <1>2, Elements
<1> HIDE DEF p
<1>4. input[p] \in Storable
  BY <1>1, <1>3 DEF Stored, Node
<1>5. e \in EntryRecord /\ e.path = p /\ e.node = input[p]
  BY <1>3, <1>4 DEF Entry, EntryRecord
<1> HIDE DEF e
<1>6. files \in Seq(EntryRecord) /\ n \in Nat
  BY DEF Stored
<1>7. /\ files' \in Seq(EntryRecord) /\ Len(files') = n + 1
      /\ DOMAIN files = 1..n /\ DOMAIN files' = 1..(n + 1)
      /\ files'[n + 1] = e /\ \A i \in 1..n : files'[i] = files[i]
  BY <1>1, <1>5, <1>6
<1> HIDE DEF n
<1>8. Stored'
  BY <1>1, <1>7 DEF Stored
<1>9. ASSUME appends = 0, gone = {}
      PROVE  /\ \A i \in 1..(n + 1) : files'[i].node = input[files'[i].path]
             /\ Paths(files') = {out[i] : i \in 1..(recorded + 1)}
  <2>1. /\ \A i \in 1..n : files[i].node = input[files[i].path]
        /\ Paths(files) = {out[i] : i \in 1..recorded}
    BY <1>1, <1>9 DEF Faithful, n
  <2>2. ASSUME NEW i \in 1..(n + 1) PROVE files'[i].node = input[files'[i].path]
    <3>1. CASE i = n + 1
      BY <1>5, <1>7, <3>1
    <3>2. CASE i \in 1..n
      BY <1>7, <2>1, <3>2
    <3> QED BY <1>6, <3>1, <3>2
  <2>3. Paths(files') = Paths(files) \cup {p}
    <3>1. \A i \in 1..(n + 1) : i \in 1..n \/ i = n + 1
      BY <1>6
    <3>2. \A i \in 1..n : i \in 1..(n + 1)
      BY <1>6
    <3>3. n + 1 \in 1..(n + 1)
      BY <1>6
    <3> QED BY <1>5, <1>7, <3>1, <3>2, <3>3 DEF Paths
  <2>4. {out[i] : i \in 1..(recorded + 1)} = {out[i] : i \in 1..recorded} \cup {p}
    <3>1. 1..(recorded + 1) = (1..recorded) \cup {recorded + 1}
      BY <1>2
    <3> QED BY <3>1 DEF p
  <2> QED BY <2>1, <2>2, <2>3, <2>4
<1>10. Faithful'
  BY <1>1, <1>7, <1>9 DEF Faithful
<1> QED BY <1>8, <1>10

(* All the steps of compress and append, and what goes away meanwhile.       *)
LEMMA NextStored ==
    ASSUME TraversalInv, Stored, Faithful, Step \/ AppendMore \/ Vanish
    PROVE  Stored' /\ Faithful'
<1>1. CASE ScanDir
  <2> DEFINE found == Listed(Last(stack))
  <2>1. /\ phase = "scan" /\ out' = out \o found
        /\ UNCHANGED <<input, recursive, phase, recorded, files, appends, gone>>
    BY <1>1 DEF ScanDir
  <2>2. found \in Seq(Path \ {Top}) /\ Range(found) = Inside(Last(stack))
    BY ListedProperties
  <2>3. out \in Seq(Path \ {Top}) /\ recorded = 0
    BY <2>1 DEF TraversalInv, TreeTypeOK, RecordOrder
  <2> HIDE DEF found
  <2>4. Range(out') = Range(out) \cup Range(found)
    BY <2>1, <2>2, <2>3, ConcatElements
  <2>5. \A p \in Range(found) : input[p] # Special
    BY <2>2 DEF Inside, Special
  <2>6. 1..recorded = {}
    BY <2>3
  <2> QED BY <2>1, <2>4, <2>5, <2>6 DEF Stored, Faithful
<1>2. CASE ScanFails \/ RecordFails
  BY <1>2 DEF ScanFails, RecordFails, Stored, Faithful
<1>3. CASE ScanDone
  <2>1. /\ phase = "scan" /\ phase' = "record" /\ out' = Sift(out, Path \ Paths(files))
        /\ UNCHANGED <<input, recursive, recorded, files, appends, gone>>
    BY <1>3 DEF ScanDone
  <2>2. out \in Seq(Path \ {Top}) /\ recorded = 0
    BY <2>1 DEF TraversalInv, TreeTypeOK, RecordOrder
  <2>3. Range(out') \subseteq Range(out)
    BY <2>1, <2>2, SiftElements
  <2>4. 1..recorded = {}
    BY <2>2
  <2> QED BY <2>1, <2>3, <2>4 DEF Stored, Faithful
<1>4. CASE Record
  BY <1>4, RecordStored
<1>5. CASE RecordDone
  <2>1. /\ phase = "record" /\ phase' = "ok"
        /\ UNCHANGED <<input, recursive, out, recorded, files, appends, gone>>
    BY <1>5 DEF RecordDone
  <2>2. recursive /\ appends = 0 /\ gone = {} => Range(out) = Wanted
    BY <2>1 DEF TraversalInv, Untouched
  <2> QED BY <2>1, <2>2 DEF Stored, Faithful, Wanted
<1>6. CASE AppendMore
  <2>1. input' \in Trees \cup MoreTrees /\ UNCHANGED files /\ appends' # 0
    BY <1>6 DEF AppendMore, Begin, TraversalInv, TreeTypeOK
  <2>2. out' = <<>> \/ \E p \in SingleFiles(input', {"absent"}) : out' = <<p>>
    BY <1>6 DEF AppendMore, Begin
  <2>3. \A p \in Range(out') : input'[p] # Special
    BY <2>1, <2>2, BeginStored
  <2>4. input' \in [Path -> Node]
    BY <2>1, TreeIs
  <2> QED BY <2>1, <2>3, <2>4 DEF Stored, Faithful
<1>7. CASE Vanish
  <2>1. PICK p \in Path \ {Top} : input' = Without(input, p) /\ gone' = gone \cup {p}
    BY <1>7 DEF Vanish
  <2>2. UNCHANGED <<phase, out, files, appends>> /\ gone' # {}
    BY <1>7, <2>1 DEF Vanish
  <2>3. input' \in [Path -> Node]
        /\ \A q \in Path : input'[q] = input[q] \/ input'[q] = Absent
    BY <2>1, NodeKinds DEF Without, Stored
  <2>4. Absent # Special
    BY DEF Absent, Special
  <2>5. Range(out) \subseteq Path
    BY Elements DEF TraversalInv, TreeTypeOK
  <2> QED BY <2>2, <2>3, <2>4, <2>5 DEF Stored, Faithful
<1> QED BY <1>1, <1>2, <1>3, <1>4, <1>5, <1>6, <1>7 DEF Step

-----------------------------------------------------------------------------
(* The run of decompress.                                                    *)
LEMMA RunIs == Run \in Proc
BY ProcAssumption DEF Run

RunTypes ==
    /\ pc \in [Proc -> PC] /\ result \in [Proc -> Result] /\ pos \in [Proc -> Nat \ {0}]
    /\ todo \in [Proc -> Seq(EntryRecord)]
    /\ pc[Run] = "entry" => pos[Run] <= Len(todo[Run])
    /\ result[Run] # "none" <=> pc[Run] = "done"
    /\ result[Run] = "panic" => \E e \in Chosen : Ancient(e)

(* Until the run makes its directory, that is empty.                         *)
Untrodden == pc[Run] \in {"idle", "open", "root"} => fs = Empty

(* The run has come past no entry that it cannot extract.                    *)
Passed ==
    /\ \A i \in 1..(pos[Run] - 1) : ~Outward(todo[Run][i]) /\ ~Ancient(todo[Run][i])
    /\ Writing(Run) => ~Ancient(Cur(Run))

(* A run that has succeeded has come past all of them.                       *)
Success ==
    result[Run] = "ok" =>
        /\ pos[Run] > Len(todo[Run])
        /\ Files(fs) = {q \in Path \ {Top} : \E p \in Paths(todo[Run]) : Under(q, p)}

(* Whatever the entries of the archive are, a run panics for one of them.    *)
LEMMA RunTypesKeeps ==
    ASSUME RunTypes, Untrodden, RunStep(Run)
    PROVE  RunTypes' /\ Untrodden' /\ pc[Run] # "done"
<1> DEFINE r == Run
<1>1. r \in Proc
  BY RunIs
<1> HIDE DEF r
<1> DEFINE Goes(to) == /\ pc' = [pc EXCEPT ![r] = to] /\ to \in PC \ {"idle", "done"}
                       /\ UNCHANGED <<todo, result>> /\ pc[r] # "done"
                       /\ UNCHANGED pos \/ pos' = [pos EXCEPT ![r] = @ + 1]
                       /\ to = "entry" => pos[r] <= Len(todo[r]) /\ UNCHANGED pos
                       /\ to \in {"open", "root"} => UNCHANGED fs /\ pc[r] \in {"idle", "open"}
<1> DEFINE Stops(how) == /\ End(r, how) /\ UNCHANGED <<todo, pos>> /\ pc[r] # "done"
                         /\ how \in Result \ {"none", "panic"}
<1>2. ASSUME NEW to, Goes(to) PROVE RunTypes' /\ Untrodden' /\ pc[r] # "done"
  <2>1. pc'[r] = to /\ pc' \in [Proc -> PC] /\ result[r] = "none"
    BY <1>1, <1>2 DEF RunTypes, r
  <2>2. pos' \in [Proc -> Nat \ {0}]
    <3>1. pos \in [Proc -> Nat \ {0}]
      BY DEF RunTypes
    <3>2. \A n \in Nat \ {0} : n + 1 \in Nat \ {0}
      OBVIOUS
    <3> QED BY <1>2, <3>1, <3>2
  <2>3. Untrodden'
    BY <1>2, <2>1 DEF Untrodden, r
  <2> QED BY <1>2, <2>1, <2>2, <2>3 DEF RunTypes, r
<1>3. ASSUME NEW how, Stops(how) PROVE RunTypes' /\ Untrodden' /\ pc[r] # "done"
  <2>1. /\ pc' = [pc EXCEPT ![r] = "done"] /\ result' = [result EXCEPT ![r] = how]
        /\ pc'[r] = "done" /\ result'[r] = how
    BY <1>1, <1>3 DEF End, Goto, RunTypes
  <2>2. pc' \in [Proc -> PC] /\ result' \in [Proc -> Result]
    BY <1>3, <2>1 DEF RunTypes, PC
  <2> QED BY <1>3, <2>1, <2>2 DEF RunTypes, Untrodden, r
<1>4. ASSUME Fail(r), pc[r] # "done" PROVE Stops("error")
  BY <1>4 DEF Fail, Result
<1>5. CASE OpenFails(r) \/ MakeRootFails(r) \/ SafePathFails(r) \/ TooLarge(r)
  BY <1>3, <1>4, <1>5 DEF OpenFails, MakeRootFails, SafePathFails, TooLarge, At, r
<1>6. CASE MakeLinkFails(r) \/ CreateFileFails(r) \/ ReadBlockFails(r)
  BY <1>3, <1>4, <1>6 DEF MakeLinkFails, CreateFileFails, ReadBlockFails, At, r
<1>7. CASE SpillFails(r) \/ SetFails(r)
  BY <1>3, <1>4, <1>7 DEF SpillFails, SetFails, r
<1>8. CASE Start(r)
  <2>1. Goes("open") \/ Stops("refused")
    BY <1>8 DEF Start, At, Goto, PC, Result
  <2> QED BY <1>2, <1>3, <2>1 DEF r
<1>9. CASE Open(r)
  <2>1. Goes("root")
    BY <1>9 DEF Open, At, Goto, PC
  <2> QED BY <1>2, <2>1 DEF r
<1>10. CASE MakeRoot(r)
  <2>1. Goes("path")
    BY <1>10 DEF MakeRoot, At, Goto, PC
  <2> QED BY <1>2, <2>1 DEF r
<1>11. CASE Succeed(r)
  <2>1. Stops("ok")
    BY <1>11 DEF Succeed, At, Result
  <2> QED BY <1>3, <2>1 DEF r
<1>12. CASE SafePath(r)
  <2>1. Goes("entry") \/ Stops("error")
    BY <1>12 DEF SafePath, At, Goto, PC, Result
  <2> QED BY <1>2, <1>3, <2>1 DEF r
<1>13. CASE MakeDir(r)
  <2>1. Goes("path") \/ Stops("error")
    BY <1>13 DEF MakeDir, NextEntry, At, Goto, PC, Result
  <2> QED BY <1>2, <1>3, <2>1 DEF r
<1>14. CASE MakeLink(r) \/ SetModified(r)
  <2>1. Goes("path")
    BY <1>14 DEF MakeLink, SetModified, NextEntry, At, Goto, PC
  <2> QED BY <1>2, <2>1 DEF r
<1>15. CASE CreateFile(r)
  <2>1. Goes("blocks")
    BY <1>15 DEF CreateFile, At, Goto, PC
  <2> QED BY <1>2, <2>1 DEF r
<1>16. CASE TimeOverflows(r)
  <2>1. /\ pc' = [pc EXCEPT ![r] = "done"] /\ result' = [result EXCEPT ![r] = "panic"]
        /\ pc'[r] = "done" /\ result'[r] = "panic" /\ UNCHANGED <<todo, pos>> /\ pc[r] = "entry"
    BY <1>1, <1>16 DEF TimeOverflows, End, Goto, At, RunTypes
  <2>2. pc' \in [Proc -> PC] /\ result' \in [Proc -> Result]
    BY <2>1 DEF RunTypes, PC, Result
  <2>3. Ancient(Cur(r)) /\ Cur(r) \in Chosen
    <3>1. Ancient(Cur(r))
      BY <1>16 DEF TimeOverflows, Ancient, NodeOf
    <3>2. pos[r] \in Nat \ {0} /\ pos[r] <= Len(todo[r]) /\ todo[r] \in Seq(EntryRecord)
      BY <1>1, <2>1 DEF RunTypes, r
    <3>3. pos[r] \in DOMAIN todo[r]
      BY <3>2
    <3> QED BY <3>1, <3>3 DEF Chosen, Cur, r
  <2>4. (\E e \in Chosen : Ancient(e))'
    BY <2>1, <2>3 DEF Chosen, Ancient
  <2> QED BY <2>1, <2>2, <2>4 DEF RunTypes, Untrodden, r
<1>17. CASE ReadBlock(r) \/ Spill(r)
  <2>1. UNCHANGED <<pc, todo, pos, result>> /\ pc[r] \in {"blocks", "flush"}
    BY <1>17 DEF ReadBlock, Spill, At
  <2> QED BY <2>1 DEF RunTypes, Untrodden, Chosen, Ancient, r
<1>18. CASE BlocksDone(r)
  <2>1. Goes("permissions")
    BY <1>18 DEF BlocksDone, At, Goto, PC
  <2> QED BY <1>2, <2>1 DEF r
<1>19. CASE SetPermissions(r)
  <2>1. Goes("flush")
    BY <1>19 DEF SetPermissions, At, Goto, PC
  <2> QED BY <1>2, <2>1 DEF r
<1>20. CASE Flushed(r)
  <2>1. Goes("times")
    BY <1>20 DEF Flushed, At, Goto, PC
  <2> QED BY <1>2, <2>1 DEF r
<1> QED
  BY <1>5, <1>6, <1>7, <1>8, <1>9, <1>10, <1>11, <1>12, <1>13, <1>14, <1>15, <1>16,
     <1>17, <1>18, <1>19, <1>20 DEF RunStep, r

(* A run comes past a link only when it stays inside, and past a file only   *)
(* when its time can be set.                                                 *)
LEMMA PassedKeeps ==
    ASSUME RunTypes, XTypeOK, Good(Run), Passed, RunStep(Run)
    PROVE  Passed'
<1> DEFINE r == Run
<1>1. r \in Proc
  BY RunIs
<1>2. Good(r) /\ Passed /\ RunStep(r)
  OBVIOUS
<1> HIDE DEF r
<1>3. UNCHANGED todo
  BY <1>1, <1>2, OneRunMoves DEF OthersRest
<1>4. pos[r] \in 1..(Len(todo[r]) + 1) /\ Len(todo[r]) \in Nat /\ pos \in [Proc -> Nat]
      /\ pc \in [Proc -> PC]
  BY <1>1, <1>2 DEF Good, Within, XTypeOK
<1>5. Parent(Cur(r).path) = Parent(Cur(r).path) /\ Cur(r) = todo[r][pos[r]]
  BY DEF Cur
<1>6. ASSUME UNCHANGED pos, pc'[r] \notin {"blocks", "permissions", "flush", "times"} \/ Writing(r)
      PROVE  Passed'
  <2>1. (Writing(r)' => Writing(r)) /\ pos'[r] = pos[r] /\ Cur(r)' = Cur(r)
    BY <1>3, <1>6 DEF Writing, Cur
  <2> QED BY <1>2, <1>3, <2>1 DEF Passed, Outward, Ancient, r
<1>7. ASSUME NextEntry(r), ~Outward(Cur(r)), ~Ancient(Cur(r)) PROVE Passed'
  <2>1. pos'[r] = pos[r] + 1 /\ pc'[r] = "path"
    BY <1>1, <1>4, <1>7 DEF NextEntry, Goto
  <2>2. ~Writing(r)'
    BY <2>1 DEF Writing
  <2>3. ASSUME NEW i \in 1..(pos'[r] - 1)
        PROVE  ~Outward(todo'[r][i]) /\ ~Ancient(todo'[r][i])
    <3>1. i \in 1..(pos[r] - 1) \/ i = pos[r]
      BY <1>4, <2>1
    <3>2. CASE i = pos[r]
      BY <1>3, <1>5, <1>7, <3>2
    <3>3. CASE i \in 1..(pos[r] - 1)
      BY <1>2, <1>3, <3>3 DEF Passed, r
    <3> QED BY <3>1, <3>2, <3>3
  <2> QED BY <2>2, <2>3 DEF Passed, Outward, Ancient, r
<1>8. CASE MakeDir(r)
  <2>1. NodeOf(r) = Dir /\ (NextEntry(r) \/ (UNCHANGED pos /\ pc' = [pc EXCEPT ![r] = "done"]))
    BY <1>8 DEF MakeDir, End, Goto
  <2>2. ~Outward(Cur(r)) /\ ~Ancient(Cur(r))
    BY <2>1, NodeKinds DEF NodeOf, Outward, Ancient
  <2>3. pc' = [pc EXCEPT ![r] = "done"] => pc'[r] = "done"
    BY <1>1, <1>4
  <2> QED BY <1>6, <1>7, <2>1, <2>2, <2>3
<1>9. CASE MakeLink(r)
  <2>1. /\ pc[r] = "entry" /\ NodeOf(r).type = "link" /\ NextEntry(r)
        /\ LinkGoal(Parent(Place(r)), NodeOf(r)) # Outside
    BY <1>9 DEF MakeLink, At
  <2>2. pos[r] <= Len(todo[r]) /\ Working(r)
    BY <1>2, <2>1 DEF Good, Within, Working
  <2>3. Place(r) = Cur(r).path
    BY <1>1, <1>2, <2>2, WayIsClear
  <2>4. ~Outward(Cur(r)) /\ ~Ancient(Cur(r))
    BY <2>1, <2>3 DEF NodeOf, Outward, Ancient
  <2> QED BY <1>7, <2>1, <2>4
<1>10. CASE SetModified(r)
  <2>1. pc[r] = "times" /\ NextEntry(r)
    BY <1>10 DEF SetModified, At
  <2>2. Writing(r) /\ NodeOf(r) \in FileNode
    BY <1>2, <2>1 DEF Good, Written, Writing
  <2>3. ~Outward(Cur(r)) /\ ~Ancient(Cur(r))
    BY <1>2, <2>2 DEF Passed, FileNode, NodeOf, Outward, r
  <2> QED BY <1>7, <2>1, <2>3
<1>11. CASE CreateFile(r)
  <2>1. NodeOf(r).mtime # BeforeEpoch /\ UNCHANGED pos
    BY <1>11 DEF CreateFile
  <2>2. ~Ancient(Cur(r))' /\ pos'[r] = pos[r]
    BY <1>3, <2>1 DEF Ancient, NodeOf, Cur
  <2> QED BY <1>2, <1>3, <2>2 DEF Passed, Outward, Ancient, r
<1>12. ASSUME Fail(r) PROVE Passed'
  <2>1. pc'[r] = "done" /\ UNCHANGED pos
    BY <1>1, <1>4, <1>12 DEF Fail, End, Goto
  <2> QED BY <1>6, <2>1
<1>13. CASE OpenFails(r) \/ MakeRootFails(r) \/ SafePathFails(r) \/ TooLarge(r)
  BY <1>12, <1>13 DEF OpenFails, MakeRootFails, SafePathFails, TooLarge
<1>14. CASE MakeLinkFails(r) \/ CreateFileFails(r) \/ ReadBlockFails(r)
  BY <1>12, <1>14 DEF MakeLinkFails, CreateFileFails, ReadBlockFails
<1>15. CASE SpillFails(r) \/ SetFails(r)
  BY <1>12, <1>15 DEF SpillFails, SetFails
<1>16. CASE ReadBlock(r) \/ Spill(r) \/ BlocksDone(r) \/ SetPermissions(r) \/ Flushed(r)
  <2>1. UNCHANGED pos /\ Writing(r)
    BY <1>16 DEF ReadBlock, Spill, BlocksDone, SetPermissions, Flushed, At, Writing
  <2> QED BY <1>6, <2>1
<1>17. CASE Start(r) \/ Open(r) \/ MakeRoot(r) \/ Succeed(r) \/ SafePath(r) \/ TimeOverflows(r)
  <2>1. UNCHANGED pos /\ \E to \in {"open", "root", "path", "entry", "done"} :
                            pc' = [pc EXCEPT ![r] = to]
    BY <1>17 DEF Start, Open, MakeRoot, Succeed, SafePath, TimeOverflows, End, Goto
  <2>2. pc'[r] \in {"open", "root", "path", "entry", "done"}
    BY <1>1, <1>4, <2>1
  <2> QED BY <1>6, <2>1, <2>2
<1> QED
  BY <1>2, <1>8, <1>9, <1>10, <1>11, <1>13, <1>14, <1>15, <1>16, <1>17 DEF RunStep

(* A run that goes on has not ended.                                         *)
LEMMA NotYetDone ==
    ASSUME NEW r, RunStep(r)
    PROVE  UNCHANGED todo /\ pc[r] # "done"
BY DEF RunStep, Start, Open, OpenFails, MakeRoot, MakeRootFails, Succeed, SafePath,
       SafePathFails, TooLarge, MakeDir, MakeLink, MakeLinkFails, CreateFile,
       TimeOverflows, CreateFileFails, ReadBlock, ReadBlockFails, BlocksDone, Spill,
       SpillFails, SetPermissions, Flushed, SetModified, SetFails, Fail, At

(* A run succeeds when it has come past everything.                          *)
LEMMA SuccessKeeps ==
    ASSUME RunTypes, XTypeOK, Good(Run), Success, RunStep(Run)
    PROVE  Success'
<1> DEFINE r == Run
<1>1. r \in Proc
  BY RunIs
<1>2. Good(r) /\ RunStep(r) /\ pc[r] # "done"
  BY NotYetDone
<1>3. result[r] # "ok"
  BY <1>2 DEF RunTypes, r
<1> HIDE DEF r
<1>4. ASSUME result'[r] = "ok"
      PROVE  /\ pos'[r] > Len(todo'[r])
             /\ Files(fs') = {q \in Path \ {Top} : \E p \in Paths(todo'[r]) : Under(q, p)}
  <2>1. Succeed(r)
    BY <1>1, <1>2, <1>3, <1>4, OnlySucceed
  <2>2. pc[r] = "path" /\ pos[r] > Len(todo[r]) /\ UNCHANGED <<fs, todo, pos>>
    BY <2>1 DEF Succeed, At
  <2> QED BY <1>1, <1>2, <2>2, AllMade
<1> QED BY <1>4 DEF Success, Files, Paths, r

(* The files of the run's archive are within the limit.                      *)
Small(d) == \A i \in 1..Len(d) : d[i].node.type = "file" => Len(d[i].node.data) <= MaxFileSize

(* With nothing failing, every step but the refusal of a link is possible.   *)
LEMMA ErrorIsOutward ==
    ASSUME RunTypes, Untrodden, XTypeOK, Good(Run), Small(todo[Run]), Faults = {},
           RunStep(Run), result[Run] # "error", result'[Run] = "error"
    PROVE  pos[Run] <= Len(todo[Run]) /\ Outward(Cur(Run))
<1> DEFINE r == Run
<1>1. r \in Proc
  BY RunIs
<1>2. /\ Good(r) /\ RunStep(r) /\ result[r] # "error" /\ result'[r] = "error"
      /\ result \in [Proc -> Result] /\ \A f \in AnyFault : ~May(f)
  BY DEF XTypeOK, May
<1> HIDE DEF r
<1>3. ASSUME NEW how, End(r, how) PROVE how = "error"
  <2>1. result' = [result EXCEPT ![r] = how]
    BY <1>3 DEF End
  <2> QED BY <1>1, <1>2, <2>1
<1>4. ASSUME UNCHANGED result PROVE FALSE
  BY <1>2, <1>4
<1>5. CASE OpenFails(r) \/ SafePathFails(r) \/ ReadBlockFails(r) \/ SpillFails(r) \/ SetFails(r)
  BY <1>2, <1>5
     DEF OpenFails, SafePathFails, ReadBlockFails, SpillFails, SetFails, AnyFault
<1>6. CASE MakeRootFails(r)
  <2>1. pc[r] = "root" /\ fs[Top].type = "file"
    BY <1>2, <1>6 DEF MakeRootFails, At, AnyFault
  <2>2. fs = Empty
    BY <2>1 DEF Untrodden, r
  <2>3. fs[Top] = Dir
    BY <2>2, TopIsPath DEF Empty
  <2> QED BY <2>1, <2>3, NodeKinds
<1>7. ASSUME pc[r] = "entry" \/ (pc[r] = "path" /\ pos[r] <= Len(todo[r]))
      PROVE  /\ pos[r] <= Len(todo[r]) /\ Working(r) /\ Cur(r).path \in Path
             /\ pos[r] \in 1..Len(todo[r]) /\ Cur(r) = todo[r][pos[r]]
             /\ MakeDirs(fs, Parent(Cur(r).path)).at # Outside
             /\ Place(r) = Cur(r).path
  <2>1. pos[r] \in 1..(Len(todo[r]) + 1) /\ pos[r] <= Len(todo[r]) /\ Working(r)
    BY <1>2, <1>7 DEF Good, Within, Working
  <2>2. /\ Cur(r).path \in Path /\ Parent(Cur(r).path) \in Path /\ Cur(r) = todo[r][pos[r]]
        /\ pos[r] \in 1..Len(todo[r])
    BY <1>1, <2>1, CurrentEntry
  <2>3. /\ MakeDirs(fs, Parent(Cur(r).path)).at = Parent(Cur(r).path)
        /\ Place(r) = Cur(r).path
    <3>1. /\ MakeDirs(fs, Parent(Cur(r).path))
               = [tree |-> Paved(fs, Parent(Cur(r).path)), at |-> Parent(Cur(r).path)]
          /\ Place(r) = Cur(r).path
      BY <1>1, <1>2, <2>1, WayIsClear, ZenonT(30)
    <3> QED BY <3>1
  <2> QED BY <2>1, <2>2, <2>3, OutsideNoPath
<1>8. CASE TooLarge(r)
  <2>1. pc[r] = "entry" /\ Cur(r).node.type = "file" /\ Len(Cur(r).node.data) > MaxFileSize
    BY <1>8 DEF TooLarge, At, NodeOf
  <2>2. pos[r] \in 1..Len(todo[r]) /\ Cur(r) = todo[r][pos[r]]
    BY <1>7, <2>1
  <2>3. Len(Cur(r).node.data) <= MaxFileSize
    BY <2>1, <2>2 DEF Small, r
  <2>4. Len(Cur(r).node.data) \in Nat /\ MaxFileSize \in Nat
    <3>1. todo[r][pos[r]] \in EntryRecord
      BY <1>1, <2>2 DEF XTypeOK
    <3>2. Cur(r).node \in FileNode
      BY <2>1, <2>2, <3>1, NodeKinds DEF EntryRecord
    <3> QED BY <3>2, SizeAssumption DEF FileNode
  <2> QED BY <2>1, <2>3, <2>4
<1>9. CASE MakeLinkFails(r)
  <2>1. /\ pc[r] = "entry" /\ Cur(r).node.type = "link" /\ Cur(r).node = NodeOf(r)
        /\ LinkGoal(Parent(Place(r)), Cur(r).node) = Outside \/ fs[Place(r)] # Absent
    BY <1>2, <1>9 DEF MakeLinkFails, At, NodeOf, AnyFault
  <2>2. fs[Cur(r).path] = Absent
    BY <1>1, <1>2, <2>1, FreePlace, NodeKinds
  <2> QED BY <1>7, <2>1, <2>2 DEF Outward, r
<1>10. CASE CreateFileFails(r)
  <2>1. pc[r] = "entry" /\ NodeOf(r).type = "file" /\ ~CanCreate(r)
    BY <1>2, <1>10 DEF CreateFileFails, At, AnyFault
  <2>2. /\ Target(r) \in Path \ {Top} /\ fs[Target(r)] = Absent /\ fs[Parent(Target(r))] = Dir
    BY <1>1, <1>2, <2>1, NewFile
  <2>3. Target(r) # Outside /\ fs[Target(r)].type = "absent"
    BY <2>2, OutsideNoPath, NodeKinds
  <2> QED BY <2>1, <2>2, <2>3 DEF CanCreate
<1>11. CASE SafePath(r)
  <2>1. /\ pc[r] = "path" /\ pos[r] <= Len(todo[r])
        /\ UNCHANGED result \/ MakeDirs(fs, Parent(Cur(r).path)).at = Outside
    BY <1>11 DEF SafePath, At
  <2> QED BY <1>4, <1>7, <2>1
<1>12. CASE MakeDir(r)
  <2>1. /\ pc[r] = "entry" /\ NodeOf(r) = Dir
        /\ UNCHANGED result \/ MakeDirs(fs, Cur(r).path).at = Outside
    BY <1>12 DEF MakeDir, At
  <2>2. Cur(r).path \in Path /\ Working(r) /\ pos[r] <= Len(todo[r])
    BY <1>7, <2>1
  <2>3. Clear(fs, Cur(r).path)
    <3>1. Clear(fs, Parent(Cur(r).path)) /\ fs[Cur(r).path] \in {Absent, Dir}
      BY <1>1, <1>2, <2>1, <2>2, WayIsClear, FreePlace
    <3>2. Cur(r).path \in Path \ {Top}
      <4>1. pos[r] \in 1..(Len(todo[r]) + 1)
        BY <1>2 DEF Good, Within
      <4> QED BY <1>1, <2>2, <4>1, CurrentEntry
    <3>3. \A q \in Path : Under(q, Cur(r).path) => q = Cur(r).path \/ Under(q, Parent(Cur(r).path))
      BY <3>2, UnderParent
    <3> QED BY <3>1, <3>2, <3>3 DEF Clear
  <2>4. MakeDirs(fs, Cur(r).path).at = Cur(r).path
    <3>1. fs \in [Path -> Node] /\ Cur(r).path \in Path
      BY <2>2 DEF XTypeOK
    <3>2. MakeDirs(fs, Cur(r).path) = [tree |-> Paved(fs, Cur(r).path), at |-> Cur(r).path]
      BY <2>3, <3>1, MakeDirsPaves
    <3> QED BY <3>2
  <2> QED BY <1>4, <2>1, <2>2, <2>4, OutsideNoPath
<1>13. CASE Start(r) \/ TimeOverflows(r) \/ Succeed(r)
  <2>1. UNCHANGED result \/ \E how \in {"refused", "panic", "ok"} : End(r, how)
    BY <1>13 DEF Start, TimeOverflows, Succeed
  <2> QED BY <1>3, <1>4, <2>1
<1>14. CASE Open(r) \/ MakeRoot(r) \/ MakeLink(r) \/ CreateFile(r) \/ ReadBlock(r) \/ BlocksDone(r)
  BY <1>4, <1>14 DEF Open, MakeRoot, MakeLink, CreateFile, ReadBlock, BlocksDone
<1>15. CASE Spill(r) \/ SetPermissions(r) \/ Flushed(r) \/ SetModified(r)
  BY <1>4, <1>15 DEF Spill, SetPermissions, Flushed, SetModified
<1> QED
  BY <1>2, <1>5, <1>6, <1>8, <1>9, <1>10, <1>11, <1>12, <1>13, <1>14, <1>15 DEF RunStep

-----------------------------------------------------------------------------
(* What decompress is given of the index.                                    *)

(* A selection of an index without two entries for one path is sound unless  *)
(* it has a clash, and every entry of it is in the index.                    *)
LEMMA ChosenIs ==
    ASSUME Stored, EntriesDistinct, todo[Run] \in Selections(files)
    PROVE  /\ \A e \in Chosen : \E i \in 1..Len(files) : e = files[i]
           /\ \A i \in 1..Len(todo[Run]) : todo[Run][i] \in Chosen
           /\ \A e \in Chosen : \E i \in 1..Len(todo[Run]) : e = todo[Run][i]
           /\ ~Clash(Chosen) => Sound(todo[Run])
<1> DEFINE d == todo[Run]
<1>1. files \in Seq(EntryRecord) /\ DOMAIN files = 1..Len(files) /\ d \in Selections(files)
  BY DEF Stored
<1> HIDE DEF d
<1>2. d \in Seq(EntryRecord) /\ DOMAIN d = 1..Len(d)
  BY <1>1, SelectionPlaces
<1>3. PICK at \in [1..Len(d) -> 1..Len(files)] :
        /\ \A k \in 1..Len(d) : d[k] = files[at[k]]
        /\ \A k, l \in 1..Len(d) : k # l => at[k] # at[l]
  BY <1>1, SelectionPlaces
<1>4. Chosen = {d[i] : i \in 1..Len(d)}
  BY <1>2 DEF Chosen, d
<1>5. ASSUME NEW k \in 1..Len(d), NEW l \in 1..Len(d), k # l PROVE d[k].path # d[l].path
  <2>1. at[k] \in 1..Len(files) /\ at[l] \in 1..Len(files) /\ at[k] # at[l]
        /\ d[k] = files[at[k]] /\ d[l] = files[at[l]]
    BY <1>3, <1>5
  <2> QED BY <1>1, <2>1 DEF EntriesDistinct
<1>6. ASSUME ~Clash(Chosen) PROVE Sound(d)
  BY <1>4, <1>5, <1>6 DEF Clash, Sound
<1>7. \A e \in Chosen : \E i \in 1..Len(files) : e = files[i]
  BY <1>3, <1>4
<1>8. /\ \A i \in 1..Len(d) : d[i] \in Chosen
      /\ \A e \in Chosen : \E i \in 1..Len(d) : e = d[i]
  BY <1>4
<1> QED BY <1>6, <1>7, <1>8 DEF d

(* Nothing has happened yet to the run and to its directory.                 *)
Ready ==
    /\ fs = Empty
    /\ pc = [r \in Proc |-> "idle"] /\ result = [r \in Proc |-> "none"]
    /\ todo \in [Proc -> Seq(EntryRecord)] /\ pos = [r \in Proc |-> 1]
    /\ open = [r \in Proc |-> Top] /\ got = [r \in Proc |-> 0]
    /\ buffer = [r \in Proc |-> <<>>]

(* That is a good state to begin in.                                         *)
LEMMA ReadyTypes == Ready => RunTypes /\ Untrodden
<1> SUFFICES ASSUME Ready PROVE RunTypes /\ Untrodden
  OBVIOUS
<1> QED BY RunIs DEF Ready, RunTypes, Untrodden, PC, Result

LEMMA ReadyIsGood ==
    ASSUME Ready, Sound(todo[Run])
    PROVE  XTypeOK /\ Good(Run) /\ Passed /\ Success
<1> DEFINE r == Run
<1>1. r \in Proc /\ Sound(todo[r])
  BY RunIs
<1>2. pc[r] = "idle" /\ result[r] = "none" /\ pos[r] = 1 /\ open[r] = Top
  BY <1>1 DEF Ready
<1>3. todo[r] \in Seq(EntryRecord) /\ Len(todo[r]) \in Nat /\ 1 \in 1..(Len(todo[r]) + 1)
  <2>1. todo[r] \in Seq(EntryRecord)
    BY <1>1 DEF Ready
  <2> QED BY <2>1
<1> HIDE DEF r
<1>4. XTypeOK
  <2>1. Empty \in [Path -> Node]
    BY NodeKinds DEF Empty
  <2> QED BY <2>1, TopIsPath DEF Ready, XTypeOK, PC, Result
<1>5. ~Writing(r) /\ ~Working(r) /\ pc[r] \notin {"entry", "done", "open", "root"}
  BY <1>2 DEF Working, Writing
<1>6. Within(r) /\ Opened(r) /\ Half(r) /\ Begun(r)
  BY <1>2, <1>3, <1>5 DEF Within, Opened, Half, Begun, Fresh
<1>7. Behind(r) /\ Passed /\ Success
  BY <1>2, <1>5 DEF Behind, Passed, Success, r
<1>8. Good(r)
  BY <1>1, <1>5, <1>6, <1>7 DEF Good, Roads, Contents, Written
<1> QED BY <1>4, <1>7, <1>8 DEF r

-----------------------------------------------------------------------------
(* The whole way.                                                            *)

(* A run whose entries do not clash.                                         *)
Fine == XTypeOK /\ Good(Run) /\ Passed /\ Success

LEMMA ReadyThenFine == Ready /\ Sound(todo[Run]) => Fine
BY ReadyIsGood DEF Fine

(* While the archive is made the run has not begun, and once it has begun    *)
(* the index is complete and stays as it is.                                 *)
RoundInv ==
    /\ TraversalInv /\ Stored /\ Faithful
    /\ stage \in {"make", "extract"} /\ RunTypes /\ Untrodden
    /\ stage = "make" => Ready
    /\ stage = "extract" => /\ phase = "ok" /\ todo[Run] \in Selections(files)
                            /\ Sound(todo[Run]) => Fine

(* What the limits come to: the files in the trees and in the index keep     *)
(* them, and a run that failed stands at an entry that leads out.            *)
Limited ==
    /\ \A p \in Path : input[p].type = "file" => Len(input[p].data) <= MaxFileSize
    /\ Small(files)
    /\ result[Run] = "error" /\ Sound(todo[Run]) => \E e \in Chosen : Outward(e)

LEMMA InitRound == RInit => RoundInv
<1> SUFFICES ASSUME RInit PROVE RoundInv
  OBVIOUS
<1>1. Init /\ stage = "make"
  BY DEF RInit
<1>2. TraversalInv /\ Stored /\ Faithful
  BY <1>1, InitTraversal, InitStored
<1>3. Ready
  <2>1. <<>> \in Seq(EntryRecord)
    OBVIOUS
  <2> QED BY <2>1 DEF RInit, Ready
<1> QED BY <1>1, <1>2, <1>3, ReadyTypes DEF RoundInv

(* The archive is made. *)
LEMMA MakeRound == ASSUME RoundInv, Make \/ MakeMore PROVE RoundInv'
<1>1. /\ stage = "make" /\ UNCHANGED stage /\ (Step \/ AppendMore \/ Vanish)
      /\ UNCHANGED <<fs, foreign, pc, todo, pos, open, got, buffer, result>>
  BY DEF Make, MakeMore, extractVars
<1>2. TraversalInv' /\ Stored' /\ Faithful'
  BY <1>1, NextTraversal, NextStored DEF RoundInv, Next
<1>3. Ready'
  BY <1>1 DEF RoundInv, Ready
<1>4. RunTypes' /\ Untrodden'
  BY <1>3, ReadyTypes, PTL
<1> QED BY <1>1, <1>2, <1>3, <1>4 DEF RoundInv

(* The extraction does not touch the index. *)
LEMMA SameTraversal ==
    ASSUME TraversalInv, Stored, Faithful, UNCHANGED vars
    PROVE  TraversalInv' /\ Stored' /\ Faithful'
<1>1. TraversalInv'
  BY NextTraversal
<1>2. UNCHANGED <<input, recursive, phase, out, recorded, files, appends, gone>>
  BY DEF vars
<1>3. Stored'
  BY <1>2 DEF Stored
<1>4. Wanted' = Wanted /\ Paths(files') = Paths(files)
  BY <1>2 DEF Wanted
<1>5. Faithful'
  BY <1>2, <1>4 DEF Faithful
<1> QED BY <1>1, <1>3, <1>5

(* The filter leaves some of the index to the run. *)
LEMMA HandoverRound == ASSUME RoundInv, Handover PROVE RoundInv'
<1>1. /\ stage = "make" /\ phase = "ok" /\ stage' = "extract" /\ Ready
      /\ UNCHANGED <<vars, fs, foreign, pc, pos, open, got, buffer, result>>
  BY DEF Handover, RoundInv
<1>2. PICK chosen \in Selections(files) : todo' = [todo EXCEPT ![Run] = chosen]
  BY DEF Handover
<1>3. TraversalInv' /\ Stored' /\ Faithful'
  BY <1>1, SameTraversal DEF RoundInv
<1>4. chosen \in Seq(EntryRecord)
  BY <1>2, SelectionPlaces DEF RoundInv, Stored
<1>5. Ready' /\ todo'[Run] = chosen
  BY <1>1, <1>2, <1>4, RunIs DEF Ready
<1>6. RunTypes' /\ Untrodden'
  BY <1>5, ReadyTypes, PTL
<1>7. Sound(todo[Run])' => Fine'
  BY <1>5, ReadyThenFine, PTL
<1>8. phase' = "ok" /\ todo'[Run] \in Selections(files')
  BY <1>1, <1>2, <1>5 DEF vars
<1> QED BY <1>1, <1>3, <1>6, <1>7, <1>8 DEF RoundInv

(* The run takes a step. *)
LEMMA ExtractRound == ASSUME RoundInv, ExtractStep PROVE RoundInv'
<1>1. stage = "extract" /\ RunStep(Run) /\ UNCHANGED <<vars, stage>>
  BY DEF ExtractStep
<1>2. TraversalInv' /\ Stored' /\ Faithful'
  BY <1>1, SameTraversal DEF RoundInv
<1>3. RunTypes' /\ Untrodden'
  BY <1>1, RunTypesKeeps DEF RoundInv
<1>4. UNCHANGED todo
  BY <1>1, NotYetDone
<1>5. phase' = "ok" /\ todo'[Run] \in Selections(files')
  BY <1>1, <1>4 DEF RoundInv, vars
<1>6. ASSUME Sound(todo'[Run]) PROVE Fine'
  <2>1. Sound(todo[Run])
    BY <1>4, <1>6
  <2>2. XTypeOK /\ Good(Run) /\ Passed /\ Success /\ RunTypes
    BY <1>1, <2>1 DEF RoundInv, Fine
  <2>3. XTypeOK' /\ Good(Run)'
    BY <1>1, <2>2, RunIs, StepKeeps
  <2>4. Passed' /\ Success'
    BY <1>1, <2>2, PassedKeeps, SuccessKeeps
  <2> QED BY <2>3, <2>4 DEF Fine
<1> QED BY <1>1, <1>2, <1>3, <1>5, <1>6 DEF RoundInv

LEMMA SameRound == ASSUME RoundInv, UNCHANGED allVars PROVE RoundInv'
<1>1. /\ UNCHANGED vars /\ UNCHANGED stage
      /\ UNCHANGED <<fs, foreign, pc, todo, pos, open, got, buffer, result>>
  BY DEF allVars, extractVars
<1>2. TraversalInv' /\ Stored' /\ Faithful'
  BY <1>1, SameTraversal DEF RoundInv
<1>3. RunTypes' /\ Untrodden' /\ (stage' = "make" => Ready')
  BY <1>1 DEF RoundInv, RunTypes, Untrodden, Ready, Chosen, Ancient
<1>4. stage' = "extract" => phase' = "ok" /\ todo'[Run] \in Selections(files')
  BY <1>1 DEF RoundInv, vars
<1>5. Fine => Fine'
  <2>1. XTypeOK => XTypeOK'
    BY <1>1 DEF XTypeOK
  <2>2. Good(Run) => Good(Run)'
    BY <1>1, RunIs, SameKeeps
  <2>3. Passed => Passed'
    BY <1>1 DEF Passed, Outward, Ancient, Writing, Cur
  <2>4. Success => Success'
    BY <1>1 DEF Success, Files, Paths
  <2> QED BY <2>1, <2>2, <2>3, <2>4 DEF Fine
<1> QED BY <1>1, <1>2, <1>3, <1>4, <1>5 DEF RoundInv

LEMMA NextRound == RoundInv /\ [RNext]_allVars => RoundInv'
BY MakeRound, HandoverRound, ExtractRound, SameRound DEF RNext, Over

(* What compress, its appends and the extraction of their archive after them *)
(* have done at every moment, whatever the trees are, whatever goes away and *)
(* whatever the filter keeps (compress.rs, append.rs, reader.rs              *)
(* extract_archive).                                                         *)
THEOREM RoundInvariant == RSpec => []RoundInv
<1> QED BY InitRound, NextRound, PTL DEF RSpec

-----------------------------------------------------------------------------
(* What is above a path of the index is in the index.                        *)
LEMMA ClosedUpwards ==
    ASSUME Stored, ParentsFirst, NEW p \in Paths(files), NEW q \in Path \ {Top}, Under(q, p)
    PROVE  q \in Paths(files)
<1> DEFINE T == {n \in Nat : \A x \in Paths(files) :
                               Len(x) <= n /\ Under(q, x) => q \in Paths(files)}
<1>1. files \in Seq(EntryRecord) /\ DOMAIN files = 1..Len(files) /\ Len(files) \in Nat
  BY DEF Stored
<1>2. ASSUME NEW x \in Paths(files)
      PROVE  /\ x \in Path \ {Top} /\ Len(x) \in Nat /\ Len(x) > 0
             /\ Len(x) > 1 => Parent(x) \in Paths(files)
  <2>1. PICK i \in 1..Len(files) : x = files[i].path
    BY <1>1 DEF Paths
  <2>2. x \in Path \ {Top}
    <3>1. files[i] \in EntryRecord
      BY <1>1
    <3> QED BY <2>1, <3>1 DEF EntryRecord
  <2>3. ASSUME Len(x) > 1 PROVE Parent(x) \in Paths(files)
    <3>1. PICK j \in 1..(i-1) : files[j].path = Parent(x)
      BY <1>1, <2>1, <2>3 DEF ParentsFirst
    <3>2. j \in DOMAIN files
      BY <1>1
    <3> QED BY <3>1, <3>2 DEF Paths
  <2> QED BY <2>2, <2>3, PathProperties
<1>3. 0 \in T
  BY <1>2
<1>4. ASSUME NEW n \in T PROVE n + 1 \in T
  <2> SUFFICES ASSUME NEW x \in Paths(files), Len(x) <= n + 1, Under(q, x)
               PROVE  q \in Paths(files)
    OBVIOUS
  <2>1. CASE q = x
    BY <2>1
  <2>2. CASE q # x
    <3>1. x \in Path \ {Top} /\ Under(q, Parent(x))
      BY <1>2, <2>2, UnderParent
    <3>2. Parent(x) \in Path /\ Len(Parent(x)) = Len(x) - 1 /\ Len(x) \in Nat
      BY <3>1, PathProperties
    <3>3. Parent(x) # Top
      BY <3>1, TopIsPath, UnderOrder
    <3>4. Len(x) > 1
      <4>1. Len(Parent(x)) # 0
        BY <3>2, <3>3, PathProperties
      <4> QED BY <1>2, <3>2, <4>1
    <3>5. Parent(x) \in Paths(files) /\ Len(Parent(x)) <= n
      BY <1>2, <1>4, <3>2, <3>4
    <3> QED BY <1>4, <3>1, <3>5
  <2> QED BY <2>1, <2>2
<1>5. T = Nat
  BY <1>3, <1>4, Induction
<1>6. Len(p) \in T
  BY <1>2, <1>5
<1> QED BY <1>2, <1>6

(* A run that has come past the whole index has made what the index has.     *)
LEMMA RoundComesBack == RoundInv => ComesBack
<1> SUFFICES ASSUME RoundInv, result[Run] = "ok", Whole, ~Clash(Chosen) PROVE
        /\ \A e \in Chosen : fs[e.path] = e.node
        /\ Files(fs) = Paths(files)
        /\ recursive /\ appends = 0 /\ gone = {} =>
             \A p \in Path \ {Top} : fs[p] = IF input[p] = Special THEN Absent ELSE input[p]
  BY DEF ComesBack
<1>1. /\ TraversalInv /\ Stored /\ Faithful /\ RunTypes
      /\ phase = "ok" /\ todo[Run] \in Selections(files) /\ (Sound(todo[Run]) => Fine)
  <2>1. stage # "make"
    BY RunIs DEF RoundInv, Ready
  <2> QED BY <2>1 DEF RoundInv
<1>2. Sound(todo[Run]) /\ todo[Run] = files
      /\ \A e \in Chosen : \E i \in 1..Len(files) : e = files[i]
  BY <1>1, ChosenIs DEF TraversalInv, Whole
<1>3. XTypeOK /\ Good(Run) /\ Success
  BY <1>1, <1>2 DEF Fine
<1>4. /\ pos[Run] > Len(files)
      /\ Files(fs) = {q \in Path \ {Top} : \E p \in Paths(files) : Under(q, p)}
  BY <1>2, <1>3 DEF Success
<1>5. ASSUME NEW i \in 1..Len(files) PROVE fs[files[i].path] = files[i].node
  <2>1. pos[Run] \in Nat /\ Len(files) \in Nat
    BY <1>1, RunIs DEF RunTypes, Stored
  <2>2. i \in 1..(pos[Run] - 1)
    BY <1>4, <2>1
  <2> QED BY <1>2, <1>3, <2>2 DEF Good, Behind
<1>6. files \in Seq(EntryRecord) /\ DOMAIN files = 1..Len(files) /\ input \in [Path -> Node]
  BY <1>1 DEF Stored
<1>7. Files(fs) = Paths(files)
  <2>1. ASSUME NEW p \in Paths(files) PROVE p \in Path \ {Top} /\ Under(p, p)
    <3>1. PICK i \in 1..Len(files) : p = files[i].path
      BY <1>6 DEF Paths
    <3>2. files[i] \in EntryRecord
      BY <1>6
    <3> QED BY <3>1, <3>2, UnderOrder DEF EntryRecord
  <2>2. \A p \in Paths(files) : \A q \in Path \ {Top} : Under(q, p) => q \in Paths(files)
    BY <1>1, ClosedUpwards DEF TraversalInv
  <2> QED BY <1>4, <2>1, <2>2
<1>8. ASSUME recursive, appends = 0, gone = {}, NEW p \in Path \ {Top}
      PROVE  fs[p] = IF input[p] = Special THEN Absent ELSE input[p]
  <2>1. /\ \A i \in 1..Len(files) : files[i].node = input[files[i].path]
        /\ Paths(files) = {out[i] : i \in 1..recorded}
        /\ Range(out) = Wanted /\ recorded = Len(out)
    BY <1>1, <1>8 DEF Faithful, TraversalInv, RecordOrder
  <2>2. Paths(files) = Wanted
    <3>1. \E S : out \in Seq(S)
      BY <1>1 DEF TraversalInv, TreeTypeOK
    <3>2. DOMAIN out = 1..Len(out)
      BY <3>1
    <3> QED BY <2>1, <3>2 DEF Range
  <2>3. input[p] \in Node
    BY <1>6
  <2>4. CASE p \in Wanted
    <3>1. PICK i \in 1..Len(files) : p = files[i].path
      BY <1>6, <2>2, <2>4 DEF Paths
    <3>2. fs[p] = input[p]
      BY <1>5, <2>1, <3>1
    <3>3. input[p] # Special
      BY <2>4 DEF Wanted, Special
    <3> QED BY <3>2, <3>3
  <2>5. CASE p \notin Wanted
    <3>1. fs[p] = Absent
      BY <1>7, <2>2, <2>5 DEF Files
    <3>2. input[p] \notin Storable
      BY <2>5, NodeKinds DEF Wanted
    <3>3. input[p] = Absent \/ input[p] = Special
      BY <2>3, <3>2 DEF Node
    <3> QED BY <3>1, <3>3
  <2> QED BY <2>4, <2>5
<1>9. \A e \in Chosen : fs[e.path] = e.node
  BY <1>2, <1>5
<1> QED BY <1>7, <1>8, <1>9

(* What compress and append have put into the index comes out of the archive *)
(* as the index says, and with one command and a tree that nobody touches    *)
(* that is the tree itself, of any shape and depth: every directory, every   *)
(* file with its data, permissions and time, every link (compress.rs         *)
(* retrieve_all_files, reader.rs extract_archive).                           *)
THEOREM WhatWentInComesBack == RSpec => []ComesBack
<1> QED BY RoundInvariant, RoundComesBack, PTL
-----------------------------------------------------------------------------
(* How a run ends. *)
LEMMA RoundOutcomes ==
    ASSUME RoundInv, Limited
    PROVE  FailsOnlyFor
<1>1. RunTypes /\ (Sound(todo[Run]) => \A e \in Chosen : result[Run] = "ok" => ~Outward(e) /\ ~Ancient(e))
  <2>1. RunTypes /\ Untrodden
    BY DEF RoundInv
  <2>2. ASSUME Sound(todo[Run]), NEW e \in Chosen, result[Run] = "ok"
        PROVE  ~Outward(e) /\ ~Ancient(e)
    <3>1. stage = "extract"
      BY <2>2, RunIs DEF RoundInv, Ready
    <3>2. Passed /\ Success
      BY <2>2, <3>1 DEF RoundInv, Fine
    <3>3. PICK i \in 1..Len(todo[Run]) : e = todo[Run][i]
      BY <3>1, ChosenIs DEF RoundInv, TraversalInv
    <3>4. pos[Run] > Len(todo[Run]) /\ pos[Run] \in Nat /\ Len(todo[Run]) \in Nat
      <4>1. pos[Run] \in Nat /\ todo[Run] \in Seq(EntryRecord)
        BY <2>1, RunIs DEF RunTypes
      <4> QED BY <2>2, <3>2, <4>1 DEF Success
    <3>5. i \in 1..(pos[Run] - 1)
      BY <3>4
    <3> QED BY <3>2, <3>3, <3>5 DEF Passed
  <2> QED BY <2>1, <2>2
<1>2. result[Run] # "none" => (~Clash(Chosen) => Sound(todo[Run]))
  <2>1. result[Run] # "none" => stage = "extract"
    BY RunIs DEF RoundInv, Ready
  <2> QED BY <2>1, ChosenIs DEF RoundInv, TraversalInv
<1> QED BY <1>1, <1>2 DEF FailsOnlyFor, Limited, RunTypes

(* The limits hold for everything in the tree and in the index.              *)
Keeps(node) == node.type = "file" => Len(node.data) <= MaxFileSize

LEMMA MadeSmall ==
    ASSUME NothingFails, TraversalInv, Stored, Step \/ AppendMore \/ Vanish,
           \A p \in Path : Keeps(input[p]), Small(files)
    PROVE  (\A p \in Path : Keeps(input'[p])) /\ Small(files')
<1>1. CASE Record
  <2> DEFINE p == out[recorded + 1]
  <2> DEFINE e == Entry(p, input[p])
  <2>1. phase = "record" /\ recorded < Len(out) /\ files' = Append(files, e) /\ UNCHANGED input
    BY <1>1 DEF Record
  <2>2. out \in Seq(Path \ {Top}) /\ recorded \in Nat /\ recorded + 1 \in 1..Len(out)
    BY <2>1 DEF TraversalInv, TreeTypeOK
  <2>3. p \in Path
    BY <2>2, Elements
  <2>4. Keeps(e.node)
    BY <2>3 DEF Entry
  <2> HIDE DEF p, e
  <2>5. files \in Seq(EntryRecord) /\ \A i \in 1..Len(files) : Keeps(files[i].node)
    BY DEF Stored, Small, Keeps
  <2>6. \A i \in 1..Len(files') : Keeps(files'[i].node)
    BY <2>1, <2>4, <2>5
  <2> QED BY <2>1, <2>6 DEF Small, Keeps
<1>2. CASE ScanDir \/ ScanFails \/ ScanDone \/ RecordFails \/ RecordDone
  BY <1>2 DEF ScanDir, ScanFails, ScanDone, RecordFails, RecordDone
<1>3. CASE AppendMore
  <2>1. input' \in Trees \cup MoreTrees /\ UNCHANGED files
    BY <1>3 DEF AppendMore, Begin
  <2> QED BY <2>1 DEF NothingFails, Keeps
<1>4. CASE Vanish
  <2>1. UNCHANGED files /\ \E p \in Path : input' = Without(input, p)
    BY <1>4 DEF Vanish
  <2>2. \A p \in Path : input'[p] = Absent \/ input'[p] = input[p]
    BY <2>1 DEF Without
  <2>3. Keeps(Absent)
    BY DEF Keeps, Absent
  <2> QED BY <2>1, <2>2, <2>3
<1> QED BY <1>1, <1>2, <1>3, <1>4 DEF Step

(* The first tree keeps the limits, and so does all that is added. *)
LEMMA InitLimited == ASSUME NothingFails, RInit PROVE Limited
<1>1. input \in Trees \cup MoreTrees /\ files = <<>> /\ result[Run] = "none"
  BY RunIs DEF RInit, Init
<1> QED BY <1>1 DEF Limited, NothingFails, Small

LEMMA NextLimited ==
    ASSUME NothingFails, RoundInv, Limited, [RNext]_allVars
    PROVE  Limited'
<1>1. /\ TraversalInv /\ Stored /\ Small(files)
      /\ \A p \in Path : Keeps(input[p])
  BY DEF RoundInv, Limited, Keeps
<1>2. CASE Make \/ MakeMore
  <2>1. stage = "make" /\ (Step \/ AppendMore \/ Vanish) /\ UNCHANGED result
    BY <1>2 DEF Make, MakeMore, extractVars
  <2>2. result'[Run] = "none"
    BY <2>1, RunIs DEF RoundInv, Ready
  <2>3. (\A p \in Path : Keeps(input'[p])) /\ Small(files')
    BY <1>1, <2>1, MadeSmall
  <2> QED BY <2>2, <2>3 DEF Limited, Keeps
<1>3. CASE Handover
  <2>1. stage = "make" /\ UNCHANGED <<input, files, result>>
    BY <1>3 DEF Handover, vars
  <2>2. result'[Run] = "none"
    BY <2>1, RunIs DEF RoundInv, Ready
  <2> QED BY <1>1, <2>1, <2>2 DEF Limited, Keeps
<1>4. CASE ExtractStep
  <2>1. stage = "extract" /\ RunStep(Run) /\ UNCHANGED <<input, files>>
    BY <1>4 DEF ExtractStep, vars
  <2>2. RunTypes /\ Untrodden /\ todo[Run] \in Selections(files) /\ EntriesDistinct
    BY <2>1 DEF RoundInv, TraversalInv
  <2>3. UNCHANGED todo
    BY <2>1, NotYetDone
  <2>4. ASSUME result'[Run] = "error", Sound(todo[Run])
        PROVE  \E e \in Chosen : Outward(e)
    <3>1. result[Run] # "error"
      BY <2>1, <2>2, RunTypesKeeps DEF RunTypes
    <3>2. Small(todo[Run])
      <4>1. ASSUME NEW i \in 1..Len(todo[Run]) PROVE Keeps(todo[Run][i].node)
        <5>1. PICK j \in 1..Len(files) : todo[Run][i] = files[j]
          BY <1>1, <2>2, ChosenIs
        <5> QED BY <1>1, <5>1 DEF Small, Keeps
      <4> QED BY <4>1 DEF Small, Keeps
    <3>3. XTypeOK /\ Good(Run)
      BY <2>1, <2>4 DEF RoundInv, Fine
    <3>4. pos[Run] <= Len(todo[Run]) /\ Outward(Cur(Run))
      BY <2>1, <2>2, <2>4, <3>1, <3>2, <3>3, ErrorIsOutward DEF NothingFails
    <3>5. pos[Run] \in 1..Len(todo[Run])
      BY <3>3, <3>4 DEF Good, Within
    <3> QED BY <1>1, <2>2, <3>4, <3>5, ChosenIs DEF Cur
  <2>5. Chosen' = Chosen
    BY <2>3 DEF Chosen
  <2> QED BY <1>1, <2>1, <2>3, <2>4, <2>5 DEF Limited, Keeps, Outward
<1>5. CASE UNCHANGED allVars
  <2>1. UNCHANGED <<input, files, result, todo>>
    BY <1>5 DEF allVars, vars, extractVars
  <2> QED BY <1>1, <2>1 DEF Limited, Chosen, Outward, Keeps
<1> QED BY <1>2, <1>3, <1>4, <1>5 DEF RNext, Over

(* Of an archive of any trees that keep the limits, with any filter, nothing *)
(* but a clash, a link that leads out or a file from before 1970 stops the   *)
(* extraction, and the last two always do: no order of the entries, no name  *)
(* and no depth makes it fail (reader.rs safe_output_path, extract_file).    *)
THEOREM NothingElseFails == NothingFails => (RSpec => []FailsOnlyFor)
<1> SUFFICES ASSUME NothingFails PROVE RSpec => []FailsOnlyFor
  OBVIOUS
<1>1. RInit => Limited
  BY InitLimited
<1>2. RoundInv /\ Limited /\ [RNext]_allVars => Limited'
  BY NextLimited
<1>3. RoundInv /\ Limited => FailsOnlyFor
  BY RoundOutcomes
<1> QED BY <1>1, <1>2, <1>3, RoundInvariant, PTL DEF RSpec
=============================================================================
