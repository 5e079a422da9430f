---------------------------- MODULE FileFsFiles -----------------------------
(*****************************************************************************)
(* What of FileFs follows from what its steps do, for images of any size:    *)
(* every field keeps its type, names included; the inodes stay a tree; no    *)
(* write of -a loses a file that is there, wherever it is killed; and the    *)
(* file it adds is whole as soon as it can be seen.                          *)
(*****************************************************************************)
EXTENDS FileFsProofs, FiniteSetTheorems

Filled(ins, n) == {i \in Spots : Entry(ins[n], i) # 0}
Counted(ins, n) == ins[n].size = Cardinality(Filled(ins, n))

\* Free inodes have no name, and sizes count entries but for the directories in X.
Tidy(ins, X) ==
  \A n \in Nodes :
    /\ ins[n].type = TYPE_FREE => ins[n].name = NoName
    /\ ins[n].size \in 0..MAX_DIRECT + 1
    /\ n \notin X \/ ins[n].type = TYPE_FILE => Counted(ins, n)
    /\ Cardinality(Filled(ins, n)) <= ins[n].size

OnStack == {stack[k] : k \in 1..Len(stack)}

\* free_directory lets the sizes of the directories it works on be.
Neat ==
  /\ Tidy(image.inodes, {}) /\ Tidy(inodes, OnStack)
  /\ image.sb.size \in 0..data_start + MaxAdds /\ sb.size \in 0..data_start + MaxAdds
  /\ pc \in {"walk", "write"} /\ cmd.op = "add" => sb.size < data_start + MaxAdds
  /\ pc # "free" => stack = << >>
  /\ pc = "write" => Entry(inodes[at.node], file.slot) = 0
  /\ torn <= MaxTorn

LEMMA FilledCount ==
  ASSUME NEW ins, NEW n
  PROVE  /\ IsFiniteSet(Filled(ins, n)) /\ Cardinality(Filled(ins, n)) \in Nat
         /\ Cardinality(Filled(ins, n)) <= MAX_DIRECT + 1
<1>1. MAX_DIRECT \in Nat
  BY Sizes
<1>2. IsFiniteSet(Spots) /\ Cardinality(Spots) = MAX_DIRECT + 1
  <2>1. /\ IsFiniteSet(0..MAX_DIRECT)
        /\ Cardinality(0..MAX_DIRECT) = IF 0 > MAX_DIRECT THEN 0 ELSE MAX_DIRECT - 0 + 1
    BY <1>1, FS_Interval
  <2>2. QED BY <1>1, <2>1 DEF Spots
<1>3. Filled(ins, n) \subseteq Spots
  BY DEF Filled
<1>4. /\ IsFiniteSet(Filled(ins, n)) /\ Cardinality(Filled(ins, n)) <= Cardinality(Spots)
  BY <1>2, <1>3, FS_Subset
<1>5. QED BY <1>2, <1>4, FS_CardinalityType

LEMMA MoreFilled ==
  ASSUME NEW ins, NEW new, NEW n, NEW k \in Spots, Entry(ins[n], k) = 0, Entry(new[n], k) # 0,
         \A j \in Spots : j # k => Entry(new[n], j) = Entry(ins[n], j)
  PROVE  Cardinality(Filled(new, n)) = Cardinality(Filled(ins, n)) + 1
<1>1. Filled(new, n) = Filled(ins, n) \cup {k} /\ k \notin Filled(ins, n)
  BY DEF Filled
<1>2. IsFiniteSet(Filled(ins, n))
  BY FilledCount
<1>3. QED BY <1>1, <1>2, FS_AddElement

LEMMA SameFilled ==
  ASSUME NEW ins, NEW new, NEW n, \A j \in Spots : Entry(new[n], j) = Entry(ins[n], j)
  PROVE  Filled(new, n) = Filled(ins, n)
  BY DEF Filled

LEMMA NoneFilled ==
  ASSUME NEW ins, NEW n, \A j \in Spots : Entry(ins[n], j) = 0
  PROVE  Cardinality(Filled(ins, n)) = 0
<1>1. Filled(ins, n) = {}
  BY DEF Filled
<1>2. QED BY <1>1, FS_EmptySet

\* The inodes that a step leaves alone stay tidy.
LEMMA TidySame ==
  ASSUME NEW ins, NEW new, NEW X, NEW Y, Tidy(ins, X), NEW n \in Nodes, n \in X => n \in Y \/ ins[n].type = TYPE_FILE \/ Counted(ins, n),
         new[n].name = ins[n].name, new[n].type = ins[n].type, new[n].size = ins[n].size,
         \A j \in Spots : Entry(new[n], j) = Entry(ins[n], j)
  PROVE  /\ new[n].type = TYPE_FREE => new[n].name = NoName
         /\ new[n].size \in 0..MAX_DIRECT + 1
         /\ n \notin Y \/ new[n].type = TYPE_FILE => Counted(new, n)
         /\ Cardinality(Filled(new, n)) <= new[n].size
<1>1. Filled(new, n) = Filled(ins, n)
  BY SameFilled
<1>2. QED BY <1>1 DEF Tidy, Counted

\* A directory or file with one entry more, and counted.
LEMMA TidyMore ==
  ASSUME NEW ins, NEW new, NEW X, Tidy(ins, X), NEW n \in Nodes, n \notin X \/ ins[n].type = TYPE_FILE, NEW k \in Spots,
         Entry(ins[n], k) = 0, Entry(new[n], k) # 0, \A j \in Spots : j # k => Entry(new[n], j) = Entry(ins[n], j),
         new[n].type # TYPE_FREE, new[n].size = ins[n].size + 1
  PROVE  /\ new[n].size \in 0..MAX_DIRECT + 1 /\ Counted(new, n)
         /\ Cardinality(Filled(new, n)) <= new[n].size
<1>1. Counted(ins, n)
  BY DEF Tidy
<1>2. Cardinality(Filled(new, n)) = Cardinality(Filled(ins, n)) + 1
  BY MoreFilled
<1>3. Cardinality(Filled(new, n)) \in Nat /\ Cardinality(Filled(new, n)) <= MAX_DIRECT + 1 /\ MAX_DIRECT \in Nat
  BY FilledCount, Sizes
<1>4. new[n].size = Cardinality(Filled(new, n))
  BY <1>1, <1>2 DEF Counted
<1>5. QED BY <1>3, <1>4 DEF Counted

\* One entry less; the size follows, or not, if it is in Y.
LEMMA TidyLess ==
  ASSUME NEW ins, NEW new, NEW X, NEW Y, Tidy(ins, X), NEW n \in Nodes, NEW k \in Spots,
         Entry(ins[n], k) # 0, Entry(new[n], k) = 0, \A j \in Spots : j # k => Entry(new[n], j) = Entry(ins[n], j),
         new[n].type = ins[n].type, new[n].type # TYPE_FREE,
         \/ new[n].size = ins[n].size - 1 /\ (n \notin X \/ ins[n].type = TYPE_FILE)
         \/ new[n].size = ins[n].size /\ n \in Y /\ ins[n].type = TYPE_DIR
  PROVE  /\ new[n].size \in 0..MAX_DIRECT + 1
         /\ n \notin Y \/ new[n].type = TYPE_FILE => Counted(new, n)
         /\ Cardinality(Filled(new, n)) <= new[n].size
<1>1. Cardinality(Filled(ins, n)) = Cardinality(Filled(new, n)) + 1
  BY MoreFilled
<1>2. Cardinality(Filled(new, n)) \in Nat /\ Cardinality(Filled(new, n)) <= MAX_DIRECT + 1 /\ MAX_DIRECT \in Nat
  BY FilledCount, Sizes
<1>3. ins[n].size \in 0..MAX_DIRECT + 1 /\ Cardinality(Filled(ins, n)) <= ins[n].size
  BY DEF Tidy
<1>4. CASE new[n].size = ins[n].size - 1 /\ (n \notin X \/ ins[n].type = TYPE_FILE)
  <2>1. ins[n].size = Cardinality(Filled(ins, n))
    BY <1>4 DEF Tidy, Counted
  <2>2. new[n].size = Cardinality(Filled(new, n))
    BY <1>1, <1>2, <1>4, <2>1
  <2>3. QED BY <1>2, <2>2 DEF Counted
<1>5. CASE new[n].size = ins[n].size /\ n \in Y /\ ins[n].type = TYPE_DIR
  BY <1>1, <1>2, <1>3, <1>5, Distinct
<1>6. QED BY <1>4, <1>5

LEMMA ZeroTidy == Tidy(ZeroFs.inodes, {}) /\ ZeroFs.sb.size = 0
<1>1. \A n \in Nodes : ZeroFs.inodes[n] = ZeroInode
  BY DEF ZeroFs
<1>2. \A j \in Spots : Entry(ZeroInode, j) = 0
  BY Sizes DEF Entry, ZeroInode, Spots, Slots
<1>3. \A n \in Nodes : Cardinality(Filled(ZeroFs.inodes, n)) = 0
  BY <1>1, <1>2, NoneFilled
<1>4. MAX_DIRECT \in Nat
  BY Sizes
<1>5. ZeroInode.name = NoName /\ ZeroInode.size = 0
  BY DEF ZeroInode
<1>6. Tidy(ZeroFs.inodes, {})
  BY <1>1, <1>3, <1>4, <1>5 DEF Tidy, Counted
<1>7. QED BY <1>6 DEF ZeroFs

LEMMA NewTidy == Tidy(new_filesys.inodes, {}) /\ new_filesys.sb.size = data_start
<1> DEFINE root == [ZeroInode EXCEPT !.name = "root", !.type = TYPE_DIR]
<1>1. \A n \in Nodes : new_filesys.inodes[n] = IF n = 0 THEN root ELSE ZeroInode
  BY DEF new_filesys
<1>2. \A j \in Spots : Entry(ZeroInode, j) = 0 /\ Entry(root, j) = 0
  BY Sizes DEF Entry, ZeroInode, Spots, Slots
<1>3. ZeroInode.name = NoName /\ ZeroInode.size = 0 /\ root.size = 0 /\ root.type = TYPE_DIR
  BY DEF ZeroInode
<1> HIDE DEF root
<1>4. \A n \in Nodes : Cardinality(Filled(new_filesys.inodes, n)) = 0
  BY <1>1, <1>2, NoneFilled
<1>5. MAX_DIRECT \in Nat
  BY Sizes
<1>6. Tidy(new_filesys.inodes, {})
  BY <1>1, <1>3, <1>4, <1>5, Distinct DEF Tidy, Counted
<1>7. QED BY <1>6 DEF new_filesys

LEMMA NoStack == stack = << >> => OnStack = {}
  BY DEF OnStack

LEMMA NeatInit == Init => Neat
<1> SUFFICES ASSUME Init PROVE Neat
  OBVIOUS
<1>1. image = new_filesys /\ sb = ZeroFs.sb /\ inodes = ZeroFs.inodes /\ pc = "idle" /\ stack = << >> /\ torn = 0
  BY DEF Init, InitWith
<1>2. data_start \in Nat /\ MaxAdds \in Nat /\ MaxTorn \in Nat
  BY Sizes, SizesAssumption
<1>3. image.sb.size \in 0..data_start + MaxAdds /\ sb.size \in 0..data_start + MaxAdds /\ torn <= MaxTorn
  BY <1>1, <1>2, ZeroTidy, NewTidy
<1>4. Tidy(image.inodes, {}) /\ Tidy(inodes, OnStack)
  BY <1>1, ZeroTidy, NewTidy, NoStack
<1>5. QED BY <1>1, <1>3, <1>4 DEF Neat

\* The end of a command.
LEMMA NeatIdle ==
  ASSUME Idle, Tidy(image'.inodes, {}), image'.sb.size \in 0..data_start + MaxAdds, torn' <= MaxTorn
  PROVE  Neat'
<1>1. sb' = ZeroFs.sb /\ inodes' = ZeroFs.inodes /\ pc' = "idle" /\ stack' = << >>
  BY DEF Idle, load_filesys
<1>2. OnStack' = {}
  BY <1>1 DEF OnStack
<1>3. data_start \in Nat /\ MaxAdds \in Nat
  BY Sizes, SizesAssumption
<1>4. QED BY <1>1, <1>2, <1>3, ZeroTidy DEF Neat

\* A step that keeps image, memory and stack.
LEMMA NeatQuiet ==
  ASSUME Neat, UNCHANGED <<image, inodes, sb, stack, torn>>,
         pc' # "write", pc' = "walk" => pc = "walk" /\ cmd' = cmd, pc' # "free" => pc # "free"
  PROVE  Neat'
<1>1. OnStack' = OnStack
  BY DEF OnStack
<1>2. QED BY <1>1 DEF Neat

LEMMA NeatDropped ==
  ASSUME Inv, Neat, Dropped
  PROVE  Neat'
<1>1. torn \in Nat /\ MaxTorn \in Nat
  BY SizesAssumption DEF Inv, Typed
<1>2. torn' <= MaxTorn
  BY <1>1 DEF Neat, Dropped
<1>3. QED BY <1>2, NeatIdle DEF Neat, Dropped

LEMMA NeatOpened ==
  ASSUME Inv, Neat, NEW op, NEW path, Opened(op, path)
  PROVE  Neat'
<1>1. stack = << >> /\ stack' = << >>
  BY DEF Neat, Opened
<1>2. OnStack' = {}
  BY <1>1 DEF OnStack
<1>3. cmd'.op = op /\ pc' = "walk"
  BY DEF Opened
<1>4. QED BY <1>1, <1>2, <1>3 DEF Neat, Opened

LEMMA NeatDirMade ==
  ASSUME Inv, Neat, NEW n, NEW i, DirMade(n, i)
  PROVE  Neat'
<1> DEFINE p == at.node
<1>1. /\ inodes \in Tables /\ p \in Nodes /\ n \in Nodes /\ n # p /\ n # 0 /\ i \in Slots /\ i \in Spots
      /\ inodes[n].type = TYPE_FREE /\ inodes[p].type = TYPE_DIR /\ Entry(inodes[p], i) = 0
      /\ \A m \in Nodes : inodes'[m].type = IF m = n THEN TYPE_DIR ELSE inodes[m].type
      /\ \A m \in Nodes : m # p => inodes'[m].size = inodes[m].size
      /\ \A m \in Nodes, j \in Spots : Entry(inodes'[m], j) = IF m = p /\ j = i THEN n ELSE Entry(inodes[m], j)
      /\ \A m \in Nodes : m # n => inodes'[m].name = inodes[m].name
      /\ inodes'[p].size = inodes[p].size + 1
      /\ UNCHANGED <<image, sb, stack, torn, pc, cmd>> /\ pc = "walk"
  BY Sizes DEF DirMade, DirAdded, Renamed, Inv, Typed
<1>2. OnStack = {} /\ OnStack' = {}
  BY <1>1 DEF Neat, OnStack
<1>3. Tidy(inodes, {})
  BY <1>2 DEF Neat
<1> HIDE DEF p
<1>4. Tidy(inodes', {})
  <2> SUFFICES ASSUME NEW m \in Nodes
               PROVE  /\ inodes'[m].type = TYPE_FREE => inodes'[m].name = NoName
                      /\ inodes'[m].size \in 0..MAX_DIRECT + 1
                      /\ Counted(inodes', m)
                      /\ Cardinality(Filled(inodes', m)) <= inodes'[m].size
    BY DEF Tidy
  <2>1. CASE m = n
    <3>1. inodes'[m].type # TYPE_FREE /\ inodes'[m].size = inodes[m].size
      BY <1>1, <2>1, Distinct
    <3>2. Filled(inodes', m) = Filled(inodes, m)
      BY <1>1, <2>1, SameFilled
    <3>3. QED BY <1>3, <3>1, <3>2 DEF Tidy, Counted
  <2>2. CASE m = p
    <3>1. inodes'[m].type # TYPE_FREE
      BY <1>1, <2>2, Distinct
    <3>2. QED BY <1>1, <1>3, <2>2, <3>1, TidyMore
  <2>3. CASE m # n /\ m # p
    <3>1. Filled(inodes', m) = Filled(inodes, m)
      BY <1>1, <2>3, SameFilled
    <3>2. QED BY <1>1, <1>3, <2>3, <3>1 DEF Tidy, Counted
  <2>4. QED BY <2>1, <2>2, <2>3
<1>5. QED BY <1>1, <1>2, <1>4 DEF Neat

LEMMA NeatFileMade ==
  ASSUME Inv, Neat, NEW n, NEW i, FileMade(n, i)
  PROVE  Neat'
<1>1. /\ inodes \in Tables /\ n \in Nodes /\ i \in Spots /\ at.node \in Nodes /\ n # at.node
      /\ Entry(inodes[at.node], i) = 0
      /\ \A m \in Nodes : inodes'[m].type = IF m = n THEN TYPE_FILE ELSE inodes[m].type
      /\ \A m \in Nodes : inodes'[m].size = inodes[m].size
      /\ \A m \in Nodes, j \in Spots : Entry(inodes'[m], j) = Entry(inodes[m], j)
      /\ \A m \in Nodes : m # n => inodes'[m].name = inodes[m].name
      /\ UNCHANGED <<image, sb, stack, torn, at, cmd>> /\ pc = "walk" /\ pc' = "write" /\ cmd.op = "add" /\ file'.slot = i
  BY Sizes, Distinct DEF FileMade, FileAdded, Renamed, Inv, Typed
<1>2. OnStack = {} /\ OnStack' = {}
  BY <1>1 DEF Neat, OnStack
<1>3. Tidy(inodes, {})
  BY <1>2 DEF Neat
<1>4. Tidy(inodes', {})
  <2> SUFFICES ASSUME NEW m \in Nodes
               PROVE  /\ inodes'[m].type = TYPE_FREE => inodes'[m].name = NoName
                      /\ inodes'[m].size \in 0..MAX_DIRECT + 1
                      /\ Counted(inodes', m)
                      /\ Cardinality(Filled(inodes', m)) <= inodes'[m].size
    BY DEF Tidy
  <2>1. Filled(inodes', m) = Filled(inodes, m)
    BY <1>1, SameFilled
  <2>2. QED BY <1>1, <1>3, <2>1, Distinct DEF Tidy, Counted
<1>5. Entry(inodes'[at'.node], file'.slot) = 0
  BY <1>1
<1>6. QED BY <1>1, <1>2, <1>4, <1>5 DEF Neat

LEMMA NeatBlockWritten ==
  ASSUME Inv, Neat, NEW b, BlockWritten(b)
  PROVE  Neat'
<1> DEFINE f == file.node
           k == inodes[f].size
<1>1. /\ inodes \in Tables /\ f \in Nodes /\ k \in Spots /\ at.node \in Nodes /\ b # 0
      /\ \A m \in Nodes : inodes'[m].type = inodes[m].type
      /\ \A m \in Nodes : inodes'[m].size = IF m = f THEN k + 1 ELSE inodes[m].size
      /\ \A m \in Nodes, j \in Spots : Entry(inodes'[m], j) = IF m = f /\ j = k THEN b ELSE Entry(inodes[m], j)
      /\ \A m \in Nodes : inodes'[m].name = inodes[m].name
      /\ UNCHANGED <<image, sb, stack, torn, at, cmd, file, pc>> /\ pc = "write" /\ cmd.op = "add" /\ file.slot \in Spots
  BY Sizes DEF BlockWritten, EntrySet, Renamed, Inv, Typed
<1>2. inodes[f].type = TYPE_FILE /\ inodes[at.node].type = TYPE_DIR /\ Entry(inodes[f], k) = 0
  <2>1. k >= k
    BY <1>1, Sizes DEF Spots
  <2>2. QED BY <1>1, <2>1 DEF Inv, Writing, Adding
<1>3. OnStack = {} /\ OnStack' = {}
  BY <1>1 DEF Neat, OnStack
<1>4. Tidy(inodes, {})
  BY <1>3 DEF Neat
<1> HIDE DEF f, k
<1>5. Tidy(inodes', {})
  <2> SUFFICES ASSUME NEW m \in Nodes
               PROVE  /\ inodes'[m].type = TYPE_FREE => inodes'[m].name = NoName
                      /\ inodes'[m].size \in 0..MAX_DIRECT + 1
                      /\ Counted(inodes', m)
                      /\ Cardinality(Filled(inodes', m)) <= inodes'[m].size
    BY DEF Tidy
  <2>1. CASE m = f
    <3>1. inodes'[m].type # TYPE_FREE /\ inodes'[m].size = inodes[m].size + 1
      BY <1>1, <1>2, <2>1, Distinct DEF k
    <3>2. QED BY <1>1, <1>2, <1>4, <2>1, <3>1, TidyMore
  <2>2. CASE m # f
    <3>1. Filled(inodes', m) = Filled(inodes, m)
      BY <1>1, <2>2, SameFilled
    <3>2. QED BY <1>1, <1>4, <2>2, <3>1 DEF Tidy, Counted
  <2>3. QED BY <2>1, <2>2
<1>6. Entry(inodes'[at'.node], file'.slot) = 0
  <2>1. at.node # f
    BY <1>2, Distinct
  <2>2. QED BY <1>1, <2>1 DEF Neat
<1>7. QED BY <1>1, <1>3, <1>5, <1>6 DEF Neat

LEMMA NeatFileLinked ==
  ASSUME Inv, Neat, FileLinked
  PROVE  Neat'
<1> DEFINE f == file.node
           p == at.node
           k == file.slot
<1>1. /\ inodes \in Tables /\ f \in Nodes /\ k \in Spots /\ p \in Nodes
      /\ \A m \in Nodes : inodes'[m].type = inodes[m].type
      /\ \A m \in Nodes : inodes'[m].size = IF m = p THEN inodes[p].size + 1 ELSE inodes[m].size
      /\ \A m \in Nodes, j \in Spots : Entry(inodes'[m], j) = IF m = p /\ j = k THEN f ELSE Entry(inodes[m], j)
      /\ \A m \in Nodes : inodes'[m].name = inodes[m].name
      /\ UNCHANGED <<image, stack, torn, at, cmd, file>> /\ pc = "write" /\ cmd.op = "add" /\ pc' = "save"
      /\ sb'.size = sb.size + 1
  BY Sizes DEF FileLinked, EntrySet, Renamed, Inv, Typed
<1>2. inodes[f].type = TYPE_FILE /\ inodes[p].type = TYPE_DIR /\ Entry(inodes[p], k) = 0 /\ f # 0
  <2>1. inodes[0].type = TYPE_DIR
    BY <1>1 DEF Inv, MemoryGood, Good, Shaped
  <2>2. QED BY <1>1, <2>1, Distinct DEF Inv, Writing, Adding, Neat
<1>3. OnStack = {} /\ OnStack' = {}
  BY <1>1 DEF Neat, OnStack
<1>4. Tidy(inodes, {})
  BY <1>3 DEF Neat
<1> HIDE DEF f, k, p
<1>5. Tidy(inodes', {})
  <2> SUFFICES ASSUME NEW m \in Nodes
               PROVE  /\ inodes'[m].type = TYPE_FREE => inodes'[m].name = NoName
                      /\ inodes'[m].size \in 0..MAX_DIRECT + 1
                      /\ Counted(inodes', m)
                      /\ Cardinality(Filled(inodes', m)) <= inodes'[m].size
    BY DEF Tidy
  <2>1. CASE m = p
    <3>1. inodes'[m].type # TYPE_FREE /\ inodes'[m].size = inodes[m].size + 1
      BY <1>1, <1>2, <2>1, Distinct
    <3>2. QED BY <1>1, <1>2, <1>4, <2>1, <3>1, TidyMore
  <2>2. CASE m # p
    <3>1. Filled(inodes', m) = Filled(inodes, m)
      BY <1>1, <2>2, SameFilled
    <3>2. QED BY <1>1, <1>4, <2>2, <3>1 DEF Tidy, Counted
  <2>3. QED BY <2>1, <2>2
<1>6. sb'.size \in 0..data_start + MaxAdds
  <2>1. data_start \in Nat /\ MaxAdds \in Nat
    BY Sizes, SizesAssumption
  <2>2. sb.size \in 0..data_start + MaxAdds /\ sb.size < data_start + MaxAdds
    BY <1>1 DEF Neat
  <2>3. QED BY <1>1, <2>1, <2>2
<1>7. QED BY <1>1, <1>3, <1>5, <1>6 DEF Neat

\* The sizes of all but the directories in X are counted: more are let be.
LEMMA TidyMoreOut ==
  ASSUME NEW ins, NEW X, NEW Y, Tidy(ins, X), X \subseteq Y
  PROVE  Tidy(ins, Y)
  BY DEF Tidy

LEMMA NeatFreeingBegun ==
  ASSUME Inv, Neat, FreeingBegun
  PROVE  Neat'
<1>1. pc = "walk" /\ pc' = "free" /\ UNCHANGED <<image, sb, inodes, torn>>
  BY DEF FreeingBegun
<1>2. OnStack = {}
  BY <1>1 DEF Neat, OnStack
<1>3. Tidy(inodes, OnStack')
  BY <1>2, TidyMoreOut DEF Neat
<1>4. QED BY <1>1, <1>3 DEF Neat

LEMMA NeatChildEntered ==
  ASSUME Inv, Neat, NEW i, ChildEntered(i)
  PROVE  Neat'
<1> DEFINE c == Entry(inodes[Last(stack)], i)
<1>1. pc = "free" /\ pc' = "free" /\ UNCHANGED <<image, sb, inodes, torn>> /\ stack' = Append(stack, c)
  BY DEF ChildEntered
<1>2. stack \in Seq(Nodes)
  BY DEF Inv, Typed
<1> HIDE DEF c
<1>3. OnStack \subseteq OnStack'
  <2>1. Len(stack) \in Nat /\ Len(stack') = Len(stack) + 1 /\ \A k \in 1..Len(stack) : stack'[k] = stack[k]
    BY <1>1, <1>2
  <2>2. 1..Len(stack) \subseteq 1..Len(stack')
    BY <2>1
  <2>3. QED BY <2>1, <2>2 DEF OnStack
<1>4. Tidy(inodes, OnStack')
  BY <1>3, TidyMoreOut DEF Neat
<1>5. QED BY <1>1, <1>4 DEF Neat

LEMMA NeatBlockFreed ==
  ASSUME Inv, Neat, NEW i, BlockFreed(i)
  PROVE  Neat'
<1> DEFINE n == Last(stack)
<1>1. /\ pc = "free" /\ pc' = "free" /\ UNCHANGED <<image, sb, stack, torn>>
      /\ inodes[n].type = TYPE_FILE /\ i \in Spots /\ Entry(inodes[n], i) # 0
      /\ \A m \in Nodes : inodes'[m].type = inodes[m].type
      /\ \A m \in Nodes : inodes'[m].size = IF m = n THEN inodes[n].size - 1 ELSE inodes[m].size
      /\ \A m \in Nodes, j \in Spots : Entry(inodes'[m], j) = IF m = n /\ j = i THEN 0 ELSE Entry(inodes[m], j)
      /\ \A m \in Nodes : inodes'[m].name = inodes[m].name
  BY Sizes DEF BlockFreed, EntrySet, Renamed
<1>2. OnStack' = OnStack /\ Tidy(inodes, OnStack)
  BY <1>1 DEF Neat, OnStack
<1> HIDE DEF n
<1>3. Tidy(inodes', OnStack)
  <2> SUFFICES ASSUME NEW m \in Nodes
               PROVE  /\ inodes'[m].type = TYPE_FREE => inodes'[m].name = NoName
                      /\ inodes'[m].size \in 0..MAX_DIRECT + 1
                      /\ m \notin OnStack \/ inodes'[m].type = TYPE_FILE => Counted(inodes', m)
                      /\ Cardinality(Filled(inodes', m)) <= inodes'[m].size
    BY DEF Tidy
  <2>1. CASE m = n
    <3>1. inodes'[m].type # TYPE_FREE
      BY <1>1, <2>1, Distinct
    <3>2. QED BY <1>1, <1>2, <2>1, <3>1, TidyLess
  <2>2. CASE m # n
    <3>1. Filled(inodes', m) = Filled(inodes, m)
      BY <1>1, <2>2, SameFilled
    <3>2. QED BY <1>1, <1>2, <2>2, <3>1 DEF Tidy, Counted
  <2>3. QED BY <2>1, <2>2
<1>4. QED BY <1>1, <1>2, <1>3 DEF Neat

\* Inode n is freed, and the size of p, which led to it, follows or p is in Y.
LEMMA TidyFreed ==
  ASSUME Inv, NEW n, NEW p, NEW i, InodeFreed(n, p, i), NEW X, NEW Y, Tidy(inodes, X), X \subseteq Y \cup {n},
         \/ inodes'[p].size = inodes[p].size - 1 /\ p \notin X
         \/ inodes'[p].size = inodes[p].size /\ p \in Y
  PROVE  Tidy(inodes', Y)
<1>1. /\ n \in Nodes /\ p \in Nodes /\ n # p /\ i \in Spots /\ inodes[p].type = TYPE_DIR /\ Entry(inodes[p], i) = n /\ n # 0
      /\ \A j \in Spots : Entry(inodes[n], j) = 0
      /\ \A m \in Nodes : inodes'[m].type = IF m = n THEN TYPE_FREE ELSE inodes[m].type
      /\ \A m \in Nodes : m # p => inodes'[m].size = IF m = n THEN 0 ELSE inodes[m].size
      /\ \A m \in Nodes, j \in Spots : Entry(inodes'[m], j) = IF m = p /\ j = i THEN 0 ELSE Entry(inodes[m], j)
      /\ \A m \in Nodes : inodes'[m].name = IF m = n THEN NoName ELSE inodes[m].name
  BY Sizes DEF InodeFreed, Released, Renamed
<1> SUFFICES ASSUME NEW m \in Nodes
             PROVE  /\ inodes'[m].type = TYPE_FREE => inodes'[m].name = NoName
                    /\ inodes'[m].size \in 0..MAX_DIRECT + 1
                    /\ m \notin Y \/ inodes'[m].type = TYPE_FILE => Counted(inodes', m)
                    /\ Cardinality(Filled(inodes', m)) <= inodes'[m].size
  BY DEF Tidy
<1>2. CASE m = n
  <2>1. \A j \in Spots : Entry(inodes'[m], j) = 0
    BY <1>1, <1>2
  <2>2. Cardinality(Filled(inodes', m)) = 0
    BY <2>1, NoneFilled
  <2>3. inodes'[m].size = 0 /\ inodes'[m].name = NoName
    BY <1>1, <1>2
  <2>4. MAX_DIRECT \in Nat
    BY Sizes
  <2>5. QED BY <2>2, <2>3, <2>4 DEF Counted
<1>3. CASE m = p
  <2>1. /\ inodes'[m].type = inodes[m].type /\ inodes'[m].type # TYPE_FREE /\ inodes[m].type = TYPE_DIR
        /\ Entry(inodes[m], i) # 0 /\ Entry(inodes'[m], i) = 0
        /\ \A j \in Spots : j # i => Entry(inodes'[m], j) = Entry(inodes[m], j)
    BY <1>1, <1>3, Distinct
  <2>2. \/ inodes'[m].size = inodes[m].size - 1 /\ (m \notin X \/ inodes[m].type = TYPE_FILE)
        \/ inodes'[m].size = inodes[m].size /\ m \in Y /\ inodes[m].type = TYPE_DIR
    BY <1>3, <2>1
  <2>3. i \in Spots
    BY <1>1
  <2>4. /\ inodes'[m].size \in 0..MAX_DIRECT + 1
        /\ m \notin Y \/ inodes'[m].type = TYPE_FILE => Counted(inodes', m)
        /\ Cardinality(Filled(inodes', m)) <= inodes'[m].size
    BY ONLY <2>1, <2>2, <2>3, m \in Nodes, Tidy(inodes, X), TidyLess
  <2>5. QED BY <2>1, <2>4
<1>4. CASE m # n /\ m # p
  <2>1. Filled(inodes', m) = Filled(inodes, m)
    BY <1>1, <1>4, SameFilled
  <2>2. m \notin Y => m \notin X
    BY <1>4
  <2>3. QED BY <1>1, <1>4, <2>1, <2>2 DEF Tidy, Counted
<1>5. QED BY <1>2, <1>3, <1>4

LEMMA NeatChildFreed ==
  ASSUME Inv, Neat, NEW i, ChildFreed(i)
  PROVE  Neat'
<1> DEFINE l == Len(stack)
           n == Last(stack)
           p == stack[l - 1]
<1>1. /\ pc = "free" /\ pc' = "free" /\ UNCHANGED <<image, sb, torn>>
      /\ l > 1 /\ stack' = Front(stack) /\ InodeFreed(n, p, i) /\ inodes'[p].size = inodes[p].size
  BY DEF ChildFreed, InodeFreed
<1>2. stack \in Seq(Nodes) /\ stack # << >>
  BY <1>1, FreeingFacts
<1>3. l \in Nat /\ n = stack[l] /\ Len(Front(stack)) = l - 1 /\ \A k \in 1..l-1 : Front(stack)[k] = stack[k]
  BY <1>2, FrontParts
<1>4. OnStack \subseteq OnStack' \cup {n} /\ p \in OnStack'
  <2>1. \A k \in 1..l : k = l \/ k \in 1..l-1
    BY <1>3
  <2>2. l - 1 \in 1..l-1
    BY <1>1, <1>3
  <2>3. OnStack' = {stack[k] : k \in 1..l-1}
    BY <1>1, <1>3 DEF OnStack
  <2>4. OnStack = {stack[k] : k \in 1..l}
    BY DEF OnStack
  <2>5. QED BY <1>3, <2>1, <2>2, <2>3, <2>4
<1> HIDE DEF l, n, p
<1>5. Tidy(inodes', OnStack')
  <2>1. Tidy(inodes, OnStack)
    BY DEF Neat
  <2>2. QED BY <1>1, <1>4, <2>1, TidyFreed
<1>6. QED BY <1>1, <1>5 DEF Neat

LEMMA NeatTargetFreed ==
  ASSUME Inv, Neat, NEW i, TargetFreed(i)
  PROVE  Neat'
<1> DEFINE n == stack[1]
           p == Last(at.nodes)
<1>1. /\ pc = "free" /\ pc' = "up" /\ UNCHANGED <<image, sb, torn>>
      /\ Len(stack) = 1 /\ stack' = << >> /\ InodeFreed(n, p, i) /\ inodes'[p].size = inodes[p].size - 1 /\ n # p
  BY DEF TargetFreed, InodeFreed
<1>2. OnStack = {n} /\ OnStack' = {}
  BY <1>1 DEF OnStack
<1> HIDE DEF n, p
<1>3. Tidy(inodes', {})
  <2>1. Tidy(inodes, {n}) /\ p \notin {n} /\ {n} \subseteq {} \cup {n}
    BY <1>1, <1>2 DEF Neat
  <2>2. QED BY <1>1, <2>1, TidyFreed
<1>4. QED BY <1>1, <1>2, <1>3 DEF Neat

LEMMA NeatDirFreed ==
  ASSUME Inv, Neat, NEW p, NEW i, DirFreed(p, i)
  PROVE  Neat'
<1> DEFINE n == Last(at.nodes)
<1>1. /\ pc = "up" /\ pc' = "up" /\ UNCHANGED <<image, sb, torn>>
      /\ stack' = stack /\ InodeFreed(n, p, i) /\ inodes'[p].size = inodes[p].size - 1
  BY DEF DirFreed, InodeFreed
<1>2. stack = << >> /\ OnStack = {} /\ OnStack' = {}
  BY <1>1 DEF OnStack, Neat
<1> HIDE DEF n
<1>3. Tidy(inodes', {})
  <2>1. Tidy(inodes, {}) /\ p \notin {} /\ {} \subseteq {} \cup {n}
    BY <1>2 DEF Neat
  <2>2. QED BY <1>1, <2>1, TidyFreed
<1>4. QED BY <1>1, <1>2, <1>3 DEF Neat

\* The image while it is saved.
LEMMA SavedTidy ==
  ASSUME Inv, Neat, Save
  PROVE  Tidy(image'.inodes, {}) /\ image'.sb.size \in 0..data_start + MaxAdds
<1>1. pc = "save" /\ image \in Images /\ image' = AfterWrite(saved) /\ saved \in Nat /\ sb \in Superblocks
  BY DEF Save, Inv, Typed
<1>2. OnStack = {}
  BY <1>1 DEF Neat, OnStack
<1>3. Tidy(image.inodes, {}) /\ Tidy(inodes, {})
  BY <1>2 DEF Neat
<1>4. \A n \in Nodes : image'.inodes[n] = image.inodes[n] \/ image'.inodes[n] = inodes[n]
  <2>1. saved < 2 \/ saved >= 2
    BY <1>1
  <2>2. QED BY <2>1, SaveImage
<1>5. Tidy(image'.inodes, {})
  BY <1>3, <1>4 DEF Tidy, Counted, Filled
<1>6. image'.sb = sb \/ image'.sb = image.sb
  BY <1>1 DEF AfterWrite, Images
<1>7. QED BY <1>5, <1>6 DEF Neat

LEMMA NeatWritten ==
  ASSUME Inv, Neat, Written
  PROVE  Neat'
<1>1. pc = "save" /\ UNCHANGED <<sb, inodes, pc, cmd, stack, torn>> /\ Save
  BY DEF Written
<1>2. OnStack' = OnStack
  BY <1>1 DEF OnStack
<1>3. QED BY <1>1, <1>2, SavedTidy DEF Neat

LEMMA NeatLastWritten ==
  ASSUME Inv, Neat, LastWritten
  PROVE  Neat'
  BY SavedTidy, NeatIdle DEF LastWritten, Neat

LEMMA NeatStep ==
  ASSUME Inv, Neat, [Next]_vars
  PROVE  Neat'
<1>1. CASE UNCHANGED vars
  BY <1>1 DEF vars, Neat, OnStack, Tidy, Counted, Filled
<1>2. CASE Entered \/ Settled \/ Stopped
  BY <1>2, NeatQuiet DEF Entered, Settled, Stopped
<1>3. QED BY <1>1, <1>2, StepEffect, NeatDropped, NeatOpened, NeatDirMade, NeatFileMade, NeatBlockWritten,
         NeatFileLinked, NeatFreeingBegun, NeatChildEntered, NeatBlockFreed, NeatChildFreed, NeatTargetFreed,
         NeatDirFreed, NeatWritten, NeatLastWritten DEF Effect

LEMMA NeatAlways == Spec => [](Inv /\ Neat)
<1>1. Init => Inv /\ Neat
  BY InvInit, NeatInit
<1>2. Inv /\ Neat /\ [Next]_vars => (Inv /\ Neat)'
  BY InvNext, NeatStep
<1>3. QED BY <1>1, <1>2, PTL DEF Spec

\* The image and the memory hold what they are there for, no size is negative or
\* larger than the entries there are, and the walk and the recursion stay within the
\* inodes, for images of any size.
THEOREM TypesKept == Spec => []TypeOK
<1>1. Inv /\ Neat => TypeOK
  <2> SUFFICES ASSUME Inv, Neat PROVE TypeOK
    OBVIOUS
  <2>1. FsOK(image.bitmap, image.inodes)
    <3>1. image.bitmap \in Bitmaps /\ image.inodes \in Tables /\ Tidy(image.inodes, {})
      BY DEF Inv, Typed, Images, Neat
    <3>2. \A n \in Nodes : image.inodes[n] \in Inodes
      BY <3>1 DEF Tables, Node, Tidy, Inodes, FileNames
    <3>3. QED BY <3>1, <3>2 DEF FsOK, Bitmaps
  <2>2. FsOK(bitmap, inodes)
    <3>1. bitmap \in Bitmaps /\ inodes \in Tables /\ Tidy(inodes, OnStack)
      BY DEF Inv, Typed, Neat
    <3>2. \A n \in Nodes : inodes[n] \in Inodes
      BY <3>1 DEF Tables, Node, Tidy, Inodes, FileNames
    <3>3. QED BY <3>1, <3>2 DEF FsOK, Bitmaps
  <2>3. saved \in 0..MAX_INODES + 1 /\ torn \in 0..MaxTorn
    BY Sizes, SizesAssumption DEF Inv, Typed, Phased, Neat
  <2>4. QED BY <2>1, <2>2, <2>3 DEF TypeOK, Inv, Typed, Neat
<1>2. QED BY <1>1, NeatAlways, PTL

-----------------------------------------------------------------------------
\* Every inode in use but the root and those of X has a link; every directory but
\* the root and those of X has an entry.
Parented(ins, X) ==
  \A n \in Nodes : n # 0 /\ n \notin X /\ ins[n].type # TYPE_FREE =>
    \E p \in Nodes, i \in Spots : ins[p].type = TYPE_DIR /\ Entry(ins[p], i) = n
NoEmpty(ins, X) ==
  \A n \in Nodes : n # 0 /\ n \notin X /\ ins[n].type = TYPE_DIR => \E i \in Spots : Entry(ins[n], i) # 0

\* The directories that may be empty while a command works.
Bare(n) ==
  \/ pc \in {"walk", "write"} /\ cmd.op = "add" /\ n = at.node
  \/ pc = "free" /\ n \in OnStack
  \/ pc = "up" /\ n = Last(at.nodes)
Unlinked(n) == pc = "write" /\ n = file.node

Rooted ==
  /\ pc = "walk" /\ cmd.op = "add" => Len(at.nodes) < Len(cmd.path) \/ at.node = 0
  /\ torn = 0 /\ (saved = 0 \/ cmd.op \in {"extract", "list"}) =>
       Parented(image.inodes, {}) /\ NoEmpty(image.inodes, {})
  /\ torn = 0 /\ pc # "idle" =>
       Parented(inodes, {n \in Nodes : Unlinked(n)}) /\ NoEmpty(inodes, {n \in Nodes : Bare(n)})

LEMMA NewRooted == Parented(new_filesys.inodes, {}) /\ NoEmpty(new_filesys.inodes, {})
<1>1. \A n \in Nodes : n # 0 => new_filesys.inodes[n] = ZeroInode
  BY DEF new_filesys
<1>2. ZeroInode.type = TYPE_FREE
  BY DEF ZeroInode
<1>3. QED BY <1>1, <1>2, Distinct DEF Parented, NoEmpty

LEMMA RootedInit == Init => Rooted
  BY NewRooted DEF Init, InitWith, Rooted

LEMMA RootedIdle ==
  ASSUME Idle, torn' = 0 => Parented(image'.inodes, {}) /\ NoEmpty(image'.inodes, {})
  PROVE  Rooted'
<1>1. pc' = "idle"
  BY DEF Idle
<1>2. QED BY <1>1 DEF Rooted

LEMMA RootedDropped ==
  ASSUME Inv, Rooted, Dropped
  PROVE  Rooted'
<1>1. torn' = 0 => Parented(image.inodes, {}) /\ NoEmpty(image.inodes, {})
  BY DEF Dropped, Rooted
<1>2. QED BY <1>1, RootedIdle DEF Dropped

LEMMA RootedOpened ==
  ASSUME Inv, Rooted, NEW op, NEW path, Opened(op, path)
  PROVE  Rooted'
<1>1. at' = AtRoot /\ pc' = "walk" /\ inodes' = image.inodes /\ image' = image /\ saved = 0 /\ saved' = 0 /\ torn' = torn
  BY DEF Opened
<1>2. at'.node = 0
  BY <1>1 DEF AtRoot
<1>3. QED BY <1>1, <1>2 DEF Rooted, Parented, NoEmpty

\* A step that leaves image and memory alone.
LEMMA RootedQuiet ==
  ASSUME Inv, Rooted, UNCHANGED <<image, inodes, saved, torn, cmd>>, pc \notin {"idle", "write"},
         pc' = "walk" /\ cmd.op = "add" => Len(at'.nodes) < Len(cmd.path) \/ at'.node = 0,
         \A n \in Nodes : n # 0 /\ Bare(n) /\ inodes[n].type = TYPE_DIR => Bare(n)' \/ \E i \in Spots : Entry(inodes[n], i) # 0
  PROVE  Rooted'
<1>1. torn = 0 => Parented(inodes, {})
  BY DEF Rooted, Parented, Unlinked
<1>2. torn = 0 => NoEmpty(inodes, {n \in Nodes : Bare(n)'})
  BY DEF Rooted, NoEmpty
<1>3. QED BY <1>1, <1>2 DEF Rooted, Parented

LEMMA RootedEntered ==
  ASSUME Inv, Rooted, Entered
  PROVE  Rooted'
<1>1. /\ UNCHANGED <<image, inodes, saved, torn, cmd, pc>> /\ pc = "walk" /\ Len(at.nodes) < Len(cmd.path)
      /\ at.nodes \in Seq(Nodes) /\ cmd.path \in Seq(Names) /\ inodes \in Tables /\ at.node \in Nodes
      /\ at'.nodes = Append(at.nodes, at.node)
      /\ Hop(inodes, cmd.path[Len(at.nodes) + 1], at.node, at'.node)
      /\ cmd.op = "add" => Len(at.nodes) + 1 # Len(cmd.path)
  BY DEF Entered, Inv, Typed
<1>2. \E i \in Slots : Entry(inodes[at.node], i) = at'.node /\ at'.node # 0
  BY <1>1, HopIsLink
<1>3. cmd.op = "add" => Len(at'.nodes) < Len(cmd.path)
  BY <1>1
<1>4. \A n : Bare(n) => n = at.node
  BY <1>1 DEF Bare
<1>5. QED BY <1>1, <1>2, <1>3, <1>4, Sizes, RootedQuiet

LEMMA RootedDirMade ==
  ASSUME Inv, Rooted, NEW n, NEW i, DirMade(n, i)
  PROVE  Rooted'
<1> DEFINE p == at.node
<1>1. /\ UNCHANGED <<image, saved, torn, cmd, pc>> /\ pc = "walk" /\ cmd.op = "add" /\ Len(at.nodes) + 1 < Len(cmd.path)
      /\ at'.nodes = Append(at.nodes, at.node) /\ at'.node = n
      /\ at.nodes \in Seq(Nodes) /\ cmd.path \in Seq(Names)
      /\ n \in Nodes /\ p \in Nodes /\ n # 0 /\ i \in Spots /\ inodes[p].type = TYPE_DIR /\ Entry(inodes[p], i) = 0
      /\ \A m \in Nodes : inodes'[m].type = IF m = n THEN TYPE_DIR ELSE inodes[m].type
      /\ \A m \in Nodes, j \in Spots : Entry(inodes'[m], j) = IF m = p /\ j = i THEN n ELSE Entry(inodes[m], j)
  BY Sizes DEF DirMade, DirAdded, Inv, Typed
<1>2. Len(at'.nodes) < Len(cmd'.path)
  BY <1>1
<1>3. (\A m : ~Unlinked(m)) /\ (\A m : ~Unlinked(m)') /\ (\A m : Bare(m) <=> m = p) /\ (\A m : Bare(m)' <=> m = n)
  BY <1>1 DEF Unlinked, Bare
<1> HIDE DEF p
<1>4. ASSUME torn = 0
      PROVE  Parented(inodes', {m \in Nodes : Unlinked(m)'}) /\ NoEmpty(inodes', {m \in Nodes : Bare(m)'})
  <2>1. Parented(inodes, {m \in Nodes : Unlinked(m)}) /\ NoEmpty(inodes, {m \in Nodes : Bare(m)})
    BY <1>1, <1>4 DEF Rooted
  <2>2. Parented(inodes', {m \in Nodes : Unlinked(m)'})
    <3> SUFFICES ASSUME NEW m \in Nodes, m # 0, inodes'[m].type # TYPE_FREE
                 PROVE  \E q \in Nodes, j \in Spots : inodes'[q].type = TYPE_DIR /\ Entry(inodes'[q], j) = m
      BY DEF Parented
    <3>1. CASE m = n
      BY <1>1, <3>1
    <3>2. CASE m # n
      <4>1. PICK q \in Nodes, j \in Spots : inodes[q].type = TYPE_DIR /\ Entry(inodes[q], j) = m
        BY <1>1, <1>3, <2>1, <3>2 DEF Parented
      <4>2. inodes'[q].type = TYPE_DIR /\ Entry(inodes'[q], j) = m
        BY <1>1, <4>1
      <4>3. QED BY <4>2
    <3>3. QED BY <3>1, <3>2
  <2>3. NoEmpty(inodes', {m \in Nodes : Bare(m)'})
    <3> SUFFICES ASSUME NEW m \in Nodes, m # 0, m # n, inodes'[m].type = TYPE_DIR
                 PROVE  \E j \in Spots : Entry(inodes'[m], j) # 0
      BY <1>3 DEF NoEmpty
    <3>1. CASE m = p
      BY <1>1, <3>1
    <3>2. CASE m # p
      BY <1>1, <1>3, <2>1, <3>2 DEF NoEmpty
    <3>3. QED BY <3>1, <3>2
  <2>4. QED BY <2>2, <2>3
<1>5. QED BY <1>1, <1>2, <1>4 DEF Rooted

LEMMA RootedFileMade ==
  ASSUME Inv, Rooted, NEW n, NEW i, FileMade(n, i)
  PROVE  Rooted'
<1>1. /\ UNCHANGED <<image, saved, torn, cmd, at>> /\ pc = "walk" /\ pc' = "write" /\ cmd.op = "add" /\ file'.node = n
      /\ n \in Nodes /\ inodes[n].type = TYPE_FREE
      /\ \A m \in Nodes : inodes'[m].type = IF m = n THEN TYPE_FILE ELSE inodes[m].type
      /\ \A m \in Nodes, j \in Spots : Entry(inodes'[m], j) = Entry(inodes[m], j)
  BY DEF FileMade, FileAdded
<1>2. (\A m : ~Unlinked(m)) /\ (\A m : Unlinked(m)' <=> m = n) /\ (\A m : Bare(m)' <=> Bare(m))
  BY <1>1 DEF Unlinked, Bare
<1>3. ASSUME torn = 0
      PROVE  Parented(inodes', {m \in Nodes : Unlinked(m)'}) /\ NoEmpty(inodes', {m \in Nodes : Bare(m)'})
  <2>1. Parented(inodes, {m \in Nodes : Unlinked(m)}) /\ NoEmpty(inodes, {m \in Nodes : Bare(m)})
    BY <1>1, <1>3 DEF Rooted
  <2>2. \A m \in Nodes : /\ m # n => inodes'[m].type = inodes[m].type
                         /\ inodes'[m].type = TYPE_DIR <=> inodes[m].type = TYPE_DIR
    BY <1>1, Distinct
  <2>3. QED BY <1>1, <1>2, <2>1, <2>2 DEF Parented, NoEmpty
<1>4. QED BY <1>1, <1>3 DEF Rooted

LEMMA RootedBlockWritten ==
  ASSUME Inv, Rooted, NEW b, BlockWritten(b)
  PROVE  Rooted'
<1>1. /\ UNCHANGED <<image, saved, torn, cmd, at, pc, file>> /\ pc = "write" /\ file.node \in Nodes
      /\ \A m \in Nodes : inodes'[m].type = inodes[m].type
      /\ \A m \in Nodes, j \in Spots : m # file.node => Entry(inodes'[m], j) = Entry(inodes[m], j)
  BY DEF BlockWritten, EntrySet, Inv, Typed
<1>2. \A m \in Nodes : inodes[m].type = TYPE_DIR => m # file.node
  BY <1>1, Distinct DEF Inv, Writing
<1>3. (\A m : Unlinked(m)' <=> Unlinked(m)) /\ (\A m : Bare(m)' <=> Bare(m))
  BY <1>1 DEF Unlinked, Bare
<1>4. ASSUME torn = 0
      PROVE  Parented(inodes', {m \in Nodes : Unlinked(m)'}) /\ NoEmpty(inodes', {m \in Nodes : Bare(m)'})
  <2>1. Parented(inodes, {m \in Nodes : Unlinked(m)}) /\ NoEmpty(inodes, {m \in Nodes : Bare(m)})
    BY <1>1, <1>4 DEF Rooted
  <2>2. \A m \in Nodes, j \in Spots : inodes[m].type = TYPE_DIR => Entry(inodes'[m], j) = Entry(inodes[m], j)
    BY <1>1, <1>2
  <2>3. QED BY <1>1, <1>3, <2>1, <2>2 DEF Parented, NoEmpty
<1>5. QED BY <1>1, <1>4 DEF Rooted

LEMMA RootedFileLinked ==
  ASSUME Inv, Neat, Rooted, FileLinked
  PROVE  Rooted'
<1> DEFINE f == file.node
           p == at.node
           k == file.slot
<1>1. /\ UNCHANGED <<image, saved, torn, cmd>> /\ pc = "write" /\ pc' = "save" /\ cmd.op = "add"
      /\ inodes \in Tables /\ f \in Nodes /\ k \in Spots /\ p \in Nodes
      /\ \A m \in Nodes : inodes'[m].type = inodes[m].type
      /\ \A m \in Nodes, j \in Spots : Entry(inodes'[m], j) = IF m = p /\ j = k THEN f ELSE Entry(inodes[m], j)
  BY Sizes DEF FileLinked, EntrySet, Inv, Typed
<1>2. inodes[f].type = TYPE_FILE /\ inodes[p].type = TYPE_DIR /\ Entry(inodes[p], k) = 0 /\ f # 0
  <2>1. inodes[0].type = TYPE_DIR
    BY <1>1 DEF Inv, MemoryGood, Good, Shaped
  <2>2. QED BY <1>1, <2>1, Distinct DEF Inv, Writing, Adding, Neat
<1>3. (\A m : Unlinked(m) <=> m = f) /\ (\A m : ~Unlinked(m)') /\ (\A m : Bare(m) <=> m = p) /\ (\A m : ~Bare(m)')
  BY <1>1 DEF Unlinked, Bare
<1> HIDE DEF f, p, k
<1>4. ASSUME torn = 0
      PROVE  Parented(inodes', {m \in Nodes : Unlinked(m)'}) /\ NoEmpty(inodes', {m \in Nodes : Bare(m)'})
  <2>1. Parented(inodes, {m \in Nodes : Unlinked(m)}) /\ NoEmpty(inodes, {m \in Nodes : Bare(m)})
    BY <1>1, <1>4 DEF Rooted
  <2>2. Parented(inodes', {m \in Nodes : Unlinked(m)'})
    <3> SUFFICES ASSUME NEW m \in Nodes, m # 0, inodes'[m].type # TYPE_FREE
                 PROVE  \E q \in Nodes, j \in Spots : inodes'[q].type = TYPE_DIR /\ Entry(inodes'[q], j) = m
      BY DEF Parented
    <3>1. CASE m = f
      BY <1>1, <1>2, <3>1
    <3>2. CASE m # f
      <4>1. PICK q \in Nodes, j \in Spots : inodes[q].type = TYPE_DIR /\ Entry(inodes[q], j) = m
        BY <1>1, <1>3, <2>1, <3>2 DEF Parented
      <4>2. inodes'[q].type = TYPE_DIR /\ Entry(inodes'[q], j) = m
        BY <1>1, <1>2, <4>1
      <4>3. QED BY <4>2
    <3>3. QED BY <3>1, <3>2
  <2>3. NoEmpty(inodes', {m \in Nodes : Bare(m)'})
    <3> SUFFICES ASSUME NEW m \in Nodes, m # 0, inodes'[m].type = TYPE_DIR
                 PROVE  \E j \in Spots : Entry(inodes'[m], j) # 0
      BY <1>3 DEF NoEmpty
    <3>1. CASE m = p
      BY <1>1, <1>2, <3>1
    <3>2. CASE m # p
      BY <1>1, <1>3, <2>1, <3>2 DEF NoEmpty
    <3>3. QED BY <3>1, <3>2
  <2>4. QED BY <2>2, <2>3
<1>5. QED BY <1>1, <1>4 DEF Rooted

LEMMA RootedSettled ==
  ASSUME Inv, Rooted, Settled \/ Stopped
  PROVE  Rooted'
<1>1. /\ UNCHANGED <<image, inodes, saved, torn, cmd>> /\ pc \in {"walk", "up"} /\ pc' = "save"
      /\ at.nodes \in Seq(Nodes) /\ cmd.path \in Seq(Names)
  BY DEF Settled, Stopped, Inv, Typed
<1>2. ASSUME NEW n \in Nodes, n # 0, Bare(n) PROVE \E i \in Spots : Entry(inodes[n], i) # 0
  <2>1. CASE Settled
    <3>1. pc = "walk" /\ cmd.op = "add" /\ n = at.node /\ Len(at.nodes) = Len(cmd.path)
      BY <1>2, <2>1 DEF Settled, Bare
    <3>2. at.node = 0
      BY <1>1, <3>1 DEF Rooted
    <3>3. QED BY <1>2, <3>1, <3>2
  <2>2. CASE Stopped
    BY <1>2, <2>2 DEF Stopped, Bare
  <2>3. QED BY <2>1, <2>2
<1>3. QED BY <1>1, <1>2, RootedQuiet

LEMMA RootedFreeingBegun ==
  ASSUME Inv, Rooted, FreeingBegun
  PROVE  Rooted'
<1>1. /\ UNCHANGED <<image, inodes, saved, torn, cmd>> /\ pc = "walk" /\ pc' = "free" /\ cmd.op = "remove"
  BY DEF FreeingBegun
<1>2. \A n : ~Bare(n)
  BY <1>1 DEF Bare
<1>3. QED BY <1>1, <1>2, RootedQuiet

LEMMA RootedChildEntered ==
  ASSUME Inv, Rooted, NEW i, ChildEntered(i)
  PROVE  Rooted'
<1> DEFINE c == Entry(inodes[Last(stack)], i)
<1>1. /\ UNCHANGED <<image, inodes, saved, torn, cmd, pc>> /\ pc = "free" /\ stack' = Append(stack, c) /\ stack \in Seq(Nodes)
  BY DEF ChildEntered, Inv, Typed
<1> HIDE DEF c
<1>2. OnStack \subseteq OnStack'
  <2>1. Len(stack) \in Nat /\ Len(stack') = Len(stack) + 1 /\ \A k \in 1..Len(stack) : stack'[k] = stack[k]
    BY <1>1
  <2>2. 1..Len(stack) \subseteq 1..Len(stack')
    BY <2>1
  <2>3. QED BY <2>1, <2>2 DEF OnStack
<1>3. \A n : Bare(n) => Bare(n)'
  BY <1>1, <1>2 DEF Bare
<1>4. QED BY <1>1, <1>3, RootedQuiet

LEMMA RootedBlockFreed ==
  ASSUME Inv, Rooted, NEW i, BlockFreed(i)
  PROVE  Rooted'
<1> DEFINE n == Last(stack)
<1>1. /\ UNCHANGED <<image, saved, torn, cmd, at, pc, stack>> /\ pc = "free" /\ inodes[n].type = TYPE_FILE
      /\ \A m \in Nodes : inodes'[m].type = inodes[m].type
      /\ \A m \in Nodes, j \in Spots : m # n => Entry(inodes'[m], j) = Entry(inodes[m], j)
  BY DEF BlockFreed, EntrySet
<1>2. (\A m : Unlinked(m)' <=> Unlinked(m)) /\ (\A m : Bare(m)' <=> Bare(m))
  BY <1>1 DEF Unlinked, Bare, OnStack
<1> HIDE DEF n
<1>3. ASSUME torn = 0
      PROVE  Parented(inodes', {m \in Nodes : Unlinked(m)'}) /\ NoEmpty(inodes', {m \in Nodes : Bare(m)'})
  <2>1. Parented(inodes, {m \in Nodes : Unlinked(m)}) /\ NoEmpty(inodes, {m \in Nodes : Bare(m)})
    BY <1>1, <1>3 DEF Rooted
  <2>2. \A m \in Nodes, j \in Spots : inodes[m].type = TYPE_DIR => Entry(inodes'[m], j) = Entry(inodes[m], j)
    BY <1>1, Distinct
  <2>3. QED BY <1>1, <1>2, <2>1, <2>2 DEF Parented, NoEmpty
<1>4. QED BY <1>1, <1>3 DEF Rooted

\* A freed inode leaves every other inode its link.
LEMMA RootedFreed ==
  ASSUME Inv, Rooted, NEW n, NEW p, NEW i, InodeFreed(n, p, i), pc \in {"free", "up"}, pc' \in {"free", "up"},
         Bare(p)', \A m : Bare(m) => m = n \/ Bare(m)'
  PROVE  Rooted'
<1>1. /\ UNCHANGED <<image, saved, torn, cmd>> /\ n \in Nodes /\ p \in Nodes /\ n # p
      /\ Entry(inodes[p], i) = n /\ \A j \in Spots : Entry(inodes[n], j) = 0
      /\ \A m \in Nodes : inodes'[m].type = IF m = n THEN TYPE_FREE ELSE inodes[m].type
      /\ \A m \in Nodes, j \in Spots : Entry(inodes'[m], j) = IF m = p /\ j = i THEN 0 ELSE Entry(inodes[m], j)
  BY DEF InodeFreed, Released
<1>2. (\A m : ~Unlinked(m)) /\ (\A m : ~Unlinked(m)')
  BY DEF Unlinked
<1>3. ASSUME torn = 0
      PROVE  Parented(inodes', {m \in Nodes : Unlinked(m)'}) /\ NoEmpty(inodes', {m \in Nodes : Bare(m)'})
  <2>1. Parented(inodes, {m \in Nodes : Unlinked(m)}) /\ NoEmpty(inodes, {m \in Nodes : Bare(m)})
    BY <1>3 DEF Rooted
  <2>2. Parented(inodes', {m \in Nodes : Unlinked(m)'})
    <3> SUFFICES ASSUME NEW m \in Nodes, m # 0, inodes'[m].type # TYPE_FREE
                 PROVE  \E q \in Nodes, j \in Spots : inodes'[q].type = TYPE_DIR /\ Entry(inodes'[q], j) = m
      BY DEF Parented
    <3>1. m # n /\ inodes[m].type # TYPE_FREE
      BY <1>1
    <3>2. PICK q \in Nodes, j \in Spots : inodes[q].type = TYPE_DIR /\ Entry(inodes[q], j) = m
      BY <1>2, <2>1, <3>1 DEF Parented
    <3>3. q # n
      BY <1>1, <3>2
    <3>4. inodes'[q].type = TYPE_DIR /\ Entry(inodes'[q], j) = m
      BY <1>1, <3>1, <3>2, <3>3
    <3>5. QED BY <3>4
  <2>3. NoEmpty(inodes', {m \in Nodes : Bare(m)'})
    <3> SUFFICES ASSUME NEW m \in Nodes, m # 0, ~Bare(m)', inodes'[m].type = TYPE_DIR
                 PROVE  \E j \in Spots : Entry(inodes'[m], j) # 0
      BY DEF NoEmpty
    <3>1. m # n /\ m # p /\ ~Bare(m) /\ inodes[m].type = TYPE_DIR
      BY <1>1, Distinct
    <3>2. QED BY <1>1, <2>1, <3>1 DEF NoEmpty
  <2>4. QED BY <2>2, <2>3
<1>4. QED BY <1>1, <1>3 DEF Rooted

LEMMA RootedChildFreed ==
  ASSUME Inv, Rooted, NEW i, ChildFreed(i)
  PROVE  Rooted'
<1> DEFINE l == Len(stack)
<1>0. PICK n, p : n = Last(stack) /\ p = stack[l - 1]
  OBVIOUS
<1>1. pc = "free" /\ pc' = "free" /\ l > 1 /\ stack' = Front(stack) /\ InodeFreed(n, p, i)
  BY <1>0 DEF ChildFreed
<1>2. stack \in Seq(Nodes) /\ stack # << >>
  BY <1>1, FreeingFacts
<1>3. l \in Nat /\ n = stack[l] /\ Len(Front(stack)) = l - 1 /\ \A k \in 1..l-1 : Front(stack)[k] = stack[k]
  BY <1>0, <1>2, FrontParts
<1>4. OnStack \subseteq OnStack' \cup {n} /\ p \in OnStack'
  <2>1. \A k \in 1..l : k = l \/ k \in 1..l-1
    BY <1>3
  <2>2. l - 1 \in 1..l-1
    BY <1>1, <1>3
  <2>3. OnStack' = {stack[k] : k \in 1..l-1}
    BY <1>1, <1>3 DEF OnStack
  <2>4. OnStack = {stack[k] : k \in 1..l}
    BY DEF OnStack
  <2>5. QED BY <1>0, <1>3, <2>1, <2>2, <2>3, <2>4
<1> HIDE DEF l
<1>5. Bare(p)' /\ \A m : Bare(m) => m = n \/ Bare(m)'
  BY <1>1, <1>4 DEF Bare
<1>6. QED BY <1>1, <1>5, RootedFreed

LEMMA RootedTargetFreed ==
  ASSUME Inv, Rooted, NEW i, TargetFreed(i)
  PROVE  Rooted'
<1>0. PICK n, p : n = stack[1] /\ p = Last(at.nodes)
  OBVIOUS
<1>1. pc = "free" /\ pc' = "up" /\ Len(stack) = 1 /\ at' = at /\ InodeFreed(n, p, i)
  BY <1>0 DEF TargetFreed
<1>2. OnStack = {n}
  BY <1>0, <1>1 DEF OnStack
<1>3. Bare(p)'
  BY <1>0, <1>1 DEF Bare
<1>4. \A m : Bare(m) => m = n
  BY <1>1, <1>2 DEF Bare
<1>5. QED BY <1>1, <1>3, <1>4, RootedFreed

LEMMA RootedDirFreed ==
  ASSUME Inv, Rooted, NEW p, NEW i, DirFreed(p, i)
  PROVE  Rooted'
<1> DEFINE n == Last(at.nodes)
<1>1. pc = "up" /\ pc' = "up" /\ InodeFreed(n, p, i) /\ Last(at'.nodes) = p
  BY DEF DirFreed
<1>2. Bare(p)' /\ \A m : Bare(m) => m = n
  BY <1>1 DEF Bare
<1> HIDE DEF n
<1>3. QED BY <1>1, <1>2, RootedFreed

LEMMA RootedWritten ==
  ASSUME Inv, Rooted, Written
  PROVE  Rooted'
<1>1. pc = "save" /\ UNCHANGED <<inodes, pc, cmd, at, file, torn>> /\ Save /\ saved' = saved + 1 /\ saved \in Nat
  BY DEF Written, Inv, Typed
<1>2. cmd.op \in {"extract", "list"} => image'.inodes = image.inodes
  BY <1>1, SaveReadKeeps
<1>3. (\A m : Unlinked(m)' <=> Unlinked(m)) /\ (\A m : Bare(m)' <=> Bare(m))
  BY <1>1 DEF Unlinked, Bare
<1>4. saved' # 0
  BY <1>1
<1>5. QED BY <1>1, <1>2, <1>3, <1>4 DEF Rooted, Parented, NoEmpty

LEMMA RootedLastWritten ==
  ASSUME Inv, Rooted, LastWritten
  PROVE  Rooted'
<1>1. pc = "save" /\ Idle /\ torn' = torn /\ image'.inodes = inodes
  BY DEF LastWritten
<1>2. (\A m : ~Unlinked(m)) /\ (\A m : ~Bare(m))
  BY <1>1 DEF Unlinked, Bare
<1>3. torn = 0 => Parented(inodes, {}) /\ NoEmpty(inodes, {})
  BY <1>1, <1>2 DEF Rooted, Parented, NoEmpty
<1>4. QED BY <1>1, <1>3, RootedIdle

LEMMA RootedStep ==
  ASSUME Inv, Neat, Rooted, [Next]_vars
  PROVE  Rooted'
<1>1. CASE UNCHANGED vars
  BY <1>1 DEF vars, Rooted, Parented, NoEmpty, Unlinked, Bare, OnStack
<1>2. QED BY <1>1, StepEffect, RootedDropped, RootedOpened, RootedEntered, RootedDirMade, RootedFileMade, RootedBlockWritten,
         RootedFileLinked, RootedSettled, RootedFreeingBegun, RootedChildEntered, RootedBlockFreed, RootedChildFreed,
         RootedTargetFreed, RootedDirFreed, RootedWritten, RootedLastWritten DEF Effect

LEMMA RootedAlways == Spec => [](Inv /\ Neat /\ Rooted)
<1>1. Init => Inv /\ Neat /\ Rooted
  BY InvInit, NeatInit, RootedInit
<1>2. Inv /\ Neat /\ Rooted /\ [Next]_vars => (Inv /\ Neat /\ Rooted)'
  BY InvNext, NeatStep, RootedStep
<1>3. QED BY <1>1, <1>2, PTL DEF Spec

\* Between commands, until a save of -a is cut short, the inodes are a tree, for
\* images of any size: every inode in use but the root has one link, every link leads
\* to an inode in use, sizes count entries, only the root may be an empty directory,
\* and a free inode is zero.
THEOREM InodesAreTree == Spec => []TreeOK
<1>1. Inv /\ Neat /\ Rooted => TreeOK
  <2> SUFFICES ASSUME Inv, Neat, Rooted, pc = "idle", torn = 0 PROVE TreeOK
    BY DEF TreeOK
  <2> DEFINE ins == image.inodes
  <2>1. /\ ins \in Tables /\ Good(image.bitmap, ins) /\ Shaped(ins) /\ Linked(ins) /\ Tidy(ins, {})
        /\ Parented(ins, {}) /\ NoEmpty(ins, {})
    BY DEF Inv, Typed, Images, Phased, ImageGood, TreeKept, Kept, Good, Neat, Rooted
  <2>2. \A n \in Nodes, i \in Slots : Entry(ins[n], i) = ins[n].direct[i] /\ i \in Spots
    BY SizesAssumption, Sizes DEF Entry, Slots
  <2> HIDE DEF ins
  <2>3. \A e \in Links(image) : e[1] \in Nodes /\ e[2] \in Slots /\ e = <<e[1], e[2]>> /\ ins[e[1]].type = TYPE_DIR
                                /\ Entry(ins[e[1]], e[2]) # 0 /\ ins[e[1]].direct[e[2]] = Entry(ins[e[1]], e[2])
    BY <2>2 DEF Links, ins
  <2>4. ASSUME NEW n \in Nodes, n # 0, ins[n].type # TYPE_FREE
        PROVE  Cardinality({e \in Links(image) : ins[e[1]].direct[e[2]] = n}) = 1
    <3>1. PICK p \in Nodes, i \in Spots : ins[p].type = TYPE_DIR /\ Entry(ins[p], i) = n
      BY <2>1, <2>4 DEF Parented
    <3>2. i \in Slots
      BY <2>1, <2>4, <3>1, SizesAssumption DEF Shaped, Spots, Slots
    <3>3. <<p, i>> \in Links(image)
      BY <2>2, <2>4, <3>1, <3>2 DEF Links, ins
    <3>4. {e \in Links(image) : ins[e[1]].direct[e[2]] = n} = {<<p, i>>}
      <4>1. ASSUME NEW e \in Links(image), ins[e[1]].direct[e[2]] = n PROVE e = <<p, i>>
        <5>1. Entry(ins[e[1]], e[2]) = n /\ e[1] \in Nodes /\ e[2] \in Spots /\ ins[e[1]].type = TYPE_DIR /\ e = <<e[1], e[2]>>
          BY <2>2, <2>3, <4>1
        <5>2. e[1] = p /\ e[2] = i
          BY <2>1, <2>4, <3>1, <5>1 DEF Linked
        <5>3. QED BY <5>1, <5>2
      <4>2. ins[p].direct[i] = n
        BY <2>2, <3>1, <3>2
      <4>3. QED BY <3>3, <4>1, <4>2
    <3>5. QED BY <3>4, FS_Singleton
  <2>5. ASSUME NEW e \in Links(image) PROVE IsChild(ins, ins[e[1]].direct[e[2]])
    <3> DEFINE c == Entry(ins[e[1]], e[2])
    <3>1. ins[e[1]].direct[e[2]] = c /\ c # 0 /\ e[1] \in Nodes /\ e[2] \in Spots /\ ins[e[1]].type = TYPE_DIR
      BY <2>2, <2>3
    <3>2. c \in Nodes /\ ins[c].type # TYPE_FREE
      BY <2>1, <3>1, NodeEntry DEF Linked
    <3> HIDE DEF c
    <3>3. c > 0 /\ c < MAX_INODES
      BY <3>1, <3>2, Sizes DEF Nodes
    <3>4. QED BY <3>1, <3>2, <3>3 DEF IsChild
  <2>6. \A n \in Nodes : {i \in 0..MAX_DIRECT : Entry(ins[n], i) # 0} = Filled(ins, n)
    BY DEF Filled, Spots
  <2>7. \A n \in Nodes : ins[n].size = Cardinality(Filled(ins, n))
    BY <2>1 DEF Tidy, Counted
  <2>8. ASSUME NEW n \in Nodes, n # 0, ins[n].type = TYPE_DIR PROVE Filled(ins, n) # {}
    BY <2>1, <2>8 DEF NoEmpty, Filled
  <2>9. ASSUME NEW n \in Nodes, ins[n].type = TYPE_FREE PROVE ins[n] = ZeroInode
    <3>1. ins[n] \in Node /\ ins[n].name = NoName /\ ins[n].size = 0 /\ \A i \in Spots : Entry(ins[n], i) = 0
      BY <2>1, <2>9 DEF Tables, Shaped, Tidy
    <3>2. \A i \in Slots : ins[n].direct[i] = 0
      BY <2>2, <3>1
    <3>3. ins[n].indirect = 0
      BY <3>1, SizesAssumption DEF Entry, Spots
    <3>4. ins[n].direct = [i \in Slots |-> 0]
      BY <3>1, <3>2 DEF Node
    <3>5. QED BY <2>9, <3>1, <3>3, <3>4 DEF Node, ZeroInode
  <2>10. QED BY <2>4, <2>5, <2>6, <2>7, <2>8, <2>9 DEF TreeOK, ins
<1>2. QED BY <1>1, RootedAlways, PTL

-----------------------------------------------------------------------------
\* No entry of directory d leads to an inode in use called a.
NoNameIn(ins, d, a) ==
  \A i \in Spots : InUse(ins, Entry(ins[d], i)) => ins[Entry(ins[d], i)].name # a

\* Until a save is cut short no directory has two entries of one name, nor has the one
\* that is about to get the new file one of that name.
Named ==
  torn = 0 =>
    /\ saved = 0 \/ cmd.op \in {"extract", "list"} => NamesApart(image.inodes)
    /\ pc # "idle" => NamesApart(inodes)
    /\ pc = "write" => inodes[file.node].name = Last(cmd.path) /\ NoNameIn(inodes, at.node, Last(cmd.path))

\* Entry i of directory n of new is in ins too, and leads to an inode of the same name.
SameChild(ins, new, n, i) ==
  /\ ins[n].type = TYPE_DIR /\ Entry(ins[n], i) = Entry(new[n], i)
  /\ InUse(ins, Entry(new[n], i)) /\ ins[Entry(new[n], i)].name = new[Entry(new[n], i)].name

\* No name comes twice where none is new.
LEMMA FewerNames ==
  ASSUME NEW ins, NEW new, NamesApart(ins),
         \A n \in Nodes, i \in Spots : new[n].type = TYPE_DIR /\ InUse(new, Entry(new[n], i)) => SameChild(ins, new, n, i)
  PROVE  NamesApart(new)
<1> SUFFICES ASSUME NEW n \in Nodes, NEW i \in Spots, NEW j \in Spots, new[n].type = TYPE_DIR,
                    InUse(new, Entry(new[n], i)), InUse(new, Entry(new[n], j)),
                    new[Entry(new[n], i)].name = new[Entry(new[n], j)].name
             PROVE  i = j
  BY DEF NamesApart
<1>1. SameChild(ins, new, n, i) /\ SameChild(ins, new, n, j)
  OBVIOUS
<1>2. QED BY <1>1 DEF SameChild, NamesApart

\* ... or where one is that was not there.
LEMMA MoreNames ==
  ASSUME NEW ins, NEW new, NamesApart(ins), NEW d, NEW k,
         NoNameIn(ins, d, new[Entry(new[d], k)].name),
         \A n \in Nodes, i \in Spots : new[n].type = TYPE_DIR /\ InUse(new, Entry(new[n], i)) =>
            (n = d /\ i = k) \/ SameChild(ins, new, n, i)
  PROVE  NamesApart(new)
<1> SUFFICES ASSUME NEW n \in Nodes, NEW i \in Spots, NEW j \in Spots, new[n].type = TYPE_DIR,
                    InUse(new, Entry(new[n], i)), InUse(new, Entry(new[n], j)),
                    new[Entry(new[n], i)].name = new[Entry(new[n], j)].name
             PROVE  i = j
  BY DEF NamesApart
<1>1. CASE SameChild(ins, new, n, i) /\ SameChild(ins, new, n, j)
  BY <1>1 DEF SameChild, NamesApart
<1>2. CASE n = d /\ i = k /\ SameChild(ins, new, n, j)
  <2>1. ins[Entry(ins[d], j)].name # new[Entry(new[d], k)].name
    BY <1>2 DEF SameChild, NoNameIn
  <2>2. ins[Entry(ins[d], j)].name = new[Entry(new[d], j)].name
    BY <1>2 DEF SameChild
  <2>3. QED BY <1>2, <2>1, <2>2
<1>3. CASE n = d /\ j = k /\ SameChild(ins, new, n, i)
  <2>1. ins[Entry(ins[d], i)].name # new[Entry(new[d], k)].name
    BY <1>3 DEF SameChild, NoNameIn
  <2>2. ins[Entry(ins[d], i)].name = new[Entry(new[d], i)].name
    BY <1>3 DEF SameChild
  <2>3. QED BY <1>3, <2>1, <2>2
<1>4. QED BY <1>1, <1>2, <1>3

\* search_dir finds nothing: the name is not there.
LEMMA NotFound ==
  ASSUME NEW ins \in Tables, Shaped(ins), NEW d \in Nodes, ins[d].type = TYPE_DIR, NEW a, search_dir(ins, a, d) = {}
  PROVE  NoNameIn(ins, d, a)
<1> SUFFICES ASSUME NEW i \in Spots, InUse(ins, Entry(ins[d], i)), ins[Entry(ins[d], i)].name = a PROVE FALSE
  BY DEF NoNameIn
<1> DEFINE S == {j \in Children(ins, d) : ins[ins[d].direct[j]].name = a}
<1>1. i \in Slots /\ ins[d].direct[i] = Entry(ins[d], i)
  <2>1. Entry(ins[d], MAX_DIRECT) = 0
    BY DEF Shaped
  <2>2. i # MAX_DIRECT
    BY <2>1 DEF InUse
  <2>3. QED BY <2>2, SizesAssumption DEF Spots, Slots, Entry
<1>2. IsChild(ins, ins[d].direct[i])
  BY <1>1, SizesAssumption DEF InUse, IsChild, Nodes
<1>3. i \in S
  BY <1>1, <1>2 DEF Children
<1>4. S \subseteq Nat
  BY SlotsAreNat DEF Children
<1> HIDE DEF S
<1>5. Least(S) # {}
  BY <1>3, <1>4, LeastExists
<1>6. QED BY <1>5 DEF search_dir, S

LEMMA NewNamed == NamesApart(new_filesys.inodes)
<1>1. \A n \in Nodes : n # 0 => new_filesys.inodes[n] = ZeroInode
  BY DEF new_filesys
<1>2. ZeroInode.type = TYPE_FREE
  BY DEF ZeroInode
<1>3. QED BY <1>1, <1>2, Distinct DEF NamesApart, InUse

LEMMA NamedInit == Init => Named
  BY NewNamed DEF Init, InitWith, Named

LEMMA NamedIdle ==
  ASSUME Idle, torn' = 0 => NamesApart(image'.inodes)
  PROVE  Named'
<1>1. pc' = "idle"
  BY DEF Idle
<1>2. QED BY <1>1 DEF Named

LEMMA NamedDropped ==
  ASSUME Inv, Named, Dropped
  PROVE  Named'
<1>1. torn' = 0 => NamesApart(image.inodes)
  BY DEF Dropped, Named
<1>2. QED BY <1>1, NamedIdle DEF Dropped

LEMMA NamedOpened ==
  ASSUME Inv, Named, NEW op, NEW path, Opened(op, path)
  PROVE  Named'
<1>1. pc' = "walk" /\ inodes' = image.inodes /\ image' = image /\ saved = 0 /\ saved' = 0 /\ torn' = torn
  BY DEF Opened
<1>2. QED BY <1>1 DEF Named, NamesApart, InUse

\* A step that leaves image and memory alone.
LEMMA NamedQuiet ==
  ASSUME Inv, Named, Entered \/ Settled \/ FreeingBegun \/ Stopped \/ \E i : ChildEntered(i)
  PROVE  Named'
<1>1. UNCHANGED <<image, inodes, saved, torn, cmd>> /\ pc' # "write" /\ pc # "idle"
  BY DEF Entered, Settled, FreeingBegun, ChildEntered, Stopped
<1>2. QED BY <1>1 DEF Named, NamesApart, InUse

\* Entries of a file changed, or of a directory some cleared and its inode freed: no
\* name is new.
LEMMA NamedFewer ==
  ASSUME Inv, Named, UNCHANGED <<image, saved, torn, cmd>>, pc # "idle", pc' # "write" \/ pc = "write",
         torn = 0 => \A n \in Nodes, i \in Spots :
            inodes'[n].type = TYPE_DIR /\ InUse(inodes', Entry(inodes'[n], i)) => SameChild(inodes, inodes', n, i),
         pc = "write" /\ torn = 0 => UNCHANGED <<at, file>> /\ inodes'[file.node].name = inodes[file.node].name /\ inodes'[at.node].type = TYPE_DIR /\ at.node \in Nodes
  PROVE  Named'
<1>1. CASE torn = 0
  <2>1. NamesApart(inodes) /\ (saved = 0 \/ cmd.op \in {"extract", "list"} => NamesApart(image.inodes))
    BY <1>1 DEF Named
  <2>2. NamesApart(inodes')
    BY <1>1, <2>1, FewerNames
  <2>3. ASSUME pc' = "write"
        PROVE  inodes'[file.node].name = Last(cmd.path) /\ NoNameIn(inodes', at.node, Last(cmd.path))
               /\ UNCHANGED <<at, file, cmd>>
    <3>1. inodes[file.node].name = Last(cmd.path) /\ NoNameIn(inodes, at.node, Last(cmd.path))
      BY <1>1, <2>3 DEF Named
    <3>2. ASSUME NEW i \in Spots, InUse(inodes', Entry(inodes'[at.node], i))
          PROVE  inodes'[Entry(inodes'[at.node], i)].name # Last(cmd.path)
      <4>1. SameChild(inodes, inodes', at.node, i)
        BY <1>1, <2>3, <3>2
      <4>2. QED BY <3>1, <4>1 DEF SameChild, NoNameIn
    <3>3. QED BY <1>1, <2>3, <3>1, <3>2 DEF NoNameIn
  <2>4. pc' = "write" => inodes'[file'.node].name = Last(cmd'.path) /\ NoNameIn(inodes', at'.node, Last(cmd'.path))
    BY <2>3
  <2>5. saved' = 0 \/ cmd'.op \in {"extract", "list"} => NamesApart(image'.inodes)
    BY <2>1
  <2>6. QED BY <2>2, <2>4, <2>5 DEF Named
<1>2. CASE torn # 0
  BY <1>2 DEF Named
<1>3. QED BY <1>1, <1>2

\* What the memory is before a step that has to do with the tree.
LEMMA MemoryFacts ==
  ASSUME Inv, pc # "idle"
  PROVE  /\ inodes \in Tables /\ Good(bitmap, inodes) /\ Shaped(inodes)
         /\ torn = 0 => Linked(inodes)
         /\ torn = 0 => \A n \in Nodes, i \in Spots : inodes[n].type = TYPE_DIR /\ Entry(inodes[n], i) # 0 =>
              InUse(inodes, Entry(inodes[n], i))
<1>1. inodes \in Tables /\ Good(bitmap, inodes) /\ Shaped(inodes) /\ (torn = 0 => Linked(inodes))
  BY DEF Inv, Typed, MemoryGood, Good, TreeKept, Kept
<1>2. ASSUME torn = 0, NEW n \in Nodes, NEW i \in Spots, inodes[n].type = TYPE_DIR, Entry(inodes[n], i) # 0
      PROVE  InUse(inodes, Entry(inodes[n], i))
  BY <1>1, <1>2, NodeEntry DEF Linked, InUse
<1>3. QED BY <1>1, <1>2

LEMMA NamedDirMade ==
  ASSUME Inv, Named, NEW n, NEW i, DirMade(n, i)
  PROVE  Named'
<1> DEFINE p == at.node
           a == cmd.path[Len(at.nodes) + 1]
<1>1. /\ UNCHANGED <<image, saved, torn, cmd, pc>> /\ pc = "walk"
      /\ n \in Nodes /\ p \in Nodes /\ n # 0 /\ n # p /\ i \in Spots /\ inodes[p].type = TYPE_DIR /\ Entry(inodes[p], i) = 0
      /\ inodes[n].type = TYPE_FREE /\ search_dir(inodes, a, p) = {}
      /\ \A m \in Nodes : inodes'[m].type = IF m = n THEN TYPE_DIR ELSE inodes[m].type
      /\ \A m \in Nodes : inodes'[m].name = IF m = n THEN a ELSE inodes[m].name
      /\ \A m \in Nodes, j \in Spots : Entry(inodes'[m], j) = IF m = p /\ j = i THEN n ELSE Entry(inodes[m], j)
  BY Sizes DEF DirMade, DirAdded, Renamed, Inv, Typed
<1> HIDE DEF p, a
<1>2. CASE torn = 0
  <2>1. /\ inodes \in Tables /\ Shaped(inodes) /\ NamesApart(inodes) /\ (saved = 0 \/ cmd.op \in {"extract", "list"} => NamesApart(image.inodes))
        /\ \A m \in Nodes, j \in Spots : inodes[m].type = TYPE_DIR /\ Entry(inodes[m], j) # 0 => InUse(inodes, Entry(inodes[m], j))
    BY <1>1, <1>2, MemoryFacts DEF Named
  <2>2. NoNameIn(inodes, p, a)
    BY <1>1, <2>1, NotFound
  <2>3. inodes'[Entry(inodes'[p], i)].name = a
    BY <1>1
  <2>4. ASSUME NEW m \in Nodes, NEW j \in Spots, inodes'[m].type = TYPE_DIR, InUse(inodes', Entry(inodes'[m], j)), ~(m = p /\ j = i)
        PROVE  SameChild(inodes, inodes', m, j)
    <3>1. Entry(inodes'[m], j) = Entry(inodes[m], j) /\ Entry(inodes[m], j) # 0
      BY <1>1, <2>4 DEF InUse
    <3>2. inodes[m].type = TYPE_DIR
      BY <1>1, <2>1, <2>4, <3>1 DEF Shaped
    <3>3. InUse(inodes, Entry(inodes[m], j))
      BY <2>1, <3>1, <3>2
    <3>4. Entry(inodes[m], j) # n /\ Entry(inodes[m], j) \in Nodes
      BY <1>1, <3>3 DEF InUse
    <3>5. QED BY <1>1, <3>1, <3>2, <3>3, <3>4 DEF SameChild
  <2>5. NamesApart(inodes')
    <3> HIDE DEF InUse
    <3>1. QED BY <2>1, <2>2, <2>3, <2>4, MoreNames
  <2>6. QED BY <1>1, <2>1, <2>5 DEF Named
<1>3. CASE torn # 0
  BY <1>1, <1>3 DEF Named
<1>4. QED BY <1>2, <1>3

LEMMA NamedFileMade ==
  ASSUME Inv, Named, NEW n, NEW i, FileMade(n, i)
  PROVE  Named'
<1> DEFINE p == at.node
           a == Last(cmd.path)
<1>1. /\ UNCHANGED <<image, saved, torn, cmd, at>> /\ pc = "walk" /\ file'.node = n
      /\ n \in Nodes /\ p \in Nodes /\ inodes[p].type = TYPE_DIR
      /\ inodes[n].type = TYPE_FREE /\ search_dir(inodes, a, p) = {}
      /\ \A m \in Nodes : inodes'[m].type = IF m = n THEN TYPE_FILE ELSE inodes[m].type
      /\ \A m \in Nodes : inodes'[m].name = IF m = n THEN a ELSE inodes[m].name
      /\ \A m \in Nodes, j \in Spots : Entry(inodes'[m], j) = Entry(inodes[m], j)
  BY Sizes DEF FileMade, FileAdded, Renamed, Inv, Typed
<1>0. a = Last(cmd'.path) /\ p = at'.node
  BY <1>1
<1> HIDE DEF p, a
<1>2. CASE torn = 0
  <2>1. /\ inodes \in Tables /\ Shaped(inodes) /\ NamesApart(inodes) /\ (saved = 0 \/ cmd.op \in {"extract", "list"} => NamesApart(image.inodes))
        /\ \A m \in Nodes, j \in Spots : inodes[m].type = TYPE_DIR /\ Entry(inodes[m], j) # 0 => InUse(inodes, Entry(inodes[m], j))
    BY <1>1, <1>2, MemoryFacts DEF Named
  <2>2. NoNameIn(inodes, p, a)
    BY <1>1, <2>1, NotFound
  <2>4. ASSUME NEW m \in Nodes, NEW j \in Spots, inodes'[m].type = TYPE_DIR, InUse(inodes', Entry(inodes'[m], j))
        PROVE  SameChild(inodes, inodes', m, j)
    <3>1. Entry(inodes'[m], j) = Entry(inodes[m], j) /\ Entry(inodes[m], j) # 0
      BY <1>1, <2>4 DEF InUse
    <3>2. inodes[m].type = TYPE_DIR
      BY <1>1, <2>4, Distinct
    <3>3. InUse(inodes, Entry(inodes[m], j))
      BY <2>1, <3>1, <3>2
    <3>4. Entry(inodes[m], j) # n /\ Entry(inodes[m], j) \in Nodes
      BY <1>1, <3>3 DEF InUse
    <3>5. QED BY <1>1, <3>1, <3>2, <3>3, <3>4 DEF SameChild
  <2>5. NamesApart(inodes')
    BY <2>1, <2>4, FewerNames
  <2>6. NoNameIn(inodes', p, a)
    <3> SUFFICES ASSUME NEW j \in Spots, InUse(inodes', Entry(inodes'[p], j))
                 PROVE  inodes'[Entry(inodes'[p], j)].name # a
      BY DEF NoNameIn
    <3>1. inodes'[p].type = TYPE_DIR
      BY <1>1, Distinct
    <3>2. SameChild(inodes, inodes', p, j)
      BY <1>1, <2>4, <3>1
    <3>3. QED BY <2>2, <3>2 DEF SameChild, NoNameIn
  <2>7. inodes'[file'.node].name = a
    BY <1>1
  <2>8. QED BY <1>0, <1>1, <2>1, <2>5, <2>6, <2>7 DEF Named
<1>3. CASE torn # 0
  BY <1>1, <1>3 DEF Named
<1>4. QED BY <1>2, <1>3

LEMMA NamedBlockWritten ==
  ASSUME Inv, Named, NEW b, BlockWritten(b)
  PROVE  Named'
<1>1. /\ UNCHANGED <<image, saved, torn, cmd, at, pc, file>> /\ pc = "write" /\ file.node \in Nodes /\ at.node \in Nodes
      /\ inodes[file.node].type = TYPE_FILE /\ inodes[at.node].type = TYPE_DIR
      /\ \A m \in Nodes : inodes'[m].type = inodes[m].type
      /\ \A m \in Nodes : inodes'[m].name = inodes[m].name
      /\ \A m \in Nodes, j \in Spots : m # file.node => Entry(inodes'[m], j) = Entry(inodes[m], j)
  BY DEF BlockWritten, EntrySet, Renamed, Inv, Typed, Writing, Adding
<1>2. ASSUME NEW n \in Nodes, NEW i \in Spots, inodes'[n].type = TYPE_DIR, InUse(inodes', Entry(inodes'[n], i))
      PROVE  SameChild(inodes, inodes', n, i)
  BY <1>1, <1>2, Distinct DEF SameChild, InUse
<1>3. QED BY <1>1, <1>2, NamedFewer

LEMMA NamedBlockFreed ==
  ASSUME Inv, Named, NEW i, BlockFreed(i)
  PROVE  Named'
<1> DEFINE n == Last(stack)
<1>1. /\ UNCHANGED <<image, saved, torn, cmd, at, pc, stack>> /\ pc = "free" /\ inodes[n].type = TYPE_FILE
      /\ \A m \in Nodes : inodes'[m].type = inodes[m].type
      /\ \A m \in Nodes : inodes'[m].name = inodes[m].name
      /\ \A m \in Nodes, j \in Spots : m # n => Entry(inodes'[m], j) = Entry(inodes[m], j)
  BY DEF BlockFreed, EntrySet, Renamed
<1> HIDE DEF n
<1>2. ASSUME NEW m \in Nodes, NEW j \in Spots, inodes'[m].type = TYPE_DIR, InUse(inodes', Entry(inodes'[m], j))
      PROVE  SameChild(inodes, inodes', m, j)
  BY <1>1, <1>2, Distinct DEF SameChild, InUse
<1>3. QED BY <1>1, <1>2, NamedFewer

LEMMA NamedFreed ==
  ASSUME Inv, Named, NEW n, NEW p, NEW k, InodeFreed(n, p, k), pc \in {"free", "up"}, pc' \in {"free", "up"}
  PROVE  Named'
<1>1. /\ UNCHANGED <<image, saved, torn, cmd>> /\ n \in Nodes /\ p \in Nodes /\ n # p /\ inodes[p].type = TYPE_DIR
      /\ \A m \in Nodes : inodes'[m].type = IF m = n THEN TYPE_FREE ELSE inodes[m].type
      /\ \A m \in Nodes : inodes'[m].name = IF m = n THEN NoName ELSE inodes[m].name
      /\ \A m \in Nodes, j \in Spots : Entry(inodes'[m], j) = IF m = p /\ j = k THEN 0 ELSE Entry(inodes[m], j)
  BY DEF InodeFreed, Released, Renamed
<1>2. ASSUME NEW m \in Nodes, NEW j \in Spots, inodes'[m].type = TYPE_DIR, InUse(inodes', Entry(inodes'[m], j))
      PROVE  SameChild(inodes, inodes', m, j)
  <2>1. m # n /\ inodes[m].type = TYPE_DIR /\ Entry(inodes'[m], j) # 0 /\ Entry(inodes'[m], j) \in Nodes
    BY <1>1, <1>2, Distinct DEF InUse
  <2>2. Entry(inodes'[m], j) = Entry(inodes[m], j)
    BY <1>1, <2>1
  <2>3. Entry(inodes'[m], j) # n
    BY <1>1, <1>2 DEF InUse
  <2>4. QED BY <1>1, <1>2, <2>1, <2>2, <2>3 DEF SameChild, InUse
<1>3. QED BY <1>1, <1>2, NamedFewer

LEMMA NamedFileLinked ==
  ASSUME Inv, Neat, Named, FileLinked
  PROVE  Named'
<1> DEFINE f == file.node
           p == at.node
           k == file.slot
<1>1. /\ UNCHANGED <<image, saved, torn, cmd>> /\ pc = "write" /\ pc' = "save"
      /\ inodes \in Tables /\ f \in Nodes /\ k \in Spots /\ p \in Nodes
      /\ \A m \in Nodes : inodes'[m].type = inodes[m].type
      /\ \A m \in Nodes : inodes'[m].name = inodes[m].name
      /\ \A m \in Nodes, j \in Spots : Entry(inodes'[m], j) = IF m = p /\ j = k THEN f ELSE Entry(inodes[m], j)
  BY Sizes DEF FileLinked, EntrySet, Renamed, Inv, Typed
<1>2. CASE torn = 0
  <2>1. /\ NamesApart(inodes) /\ (saved = 0 \/ cmd.op \in {"extract", "list"} => NamesApart(image.inodes))
        /\ inodes[f].name = Last(cmd.path) /\ NoNameIn(inodes, p, Last(cmd.path))
    BY <1>1, <1>2 DEF Named
  <2>2. inodes'[Entry(inodes'[p], k)].name = Last(cmd.path)
    BY <1>1, <2>1
  <2>3. ASSUME NEW m \in Nodes, NEW j \in Spots, inodes'[m].type = TYPE_DIR, InUse(inodes', Entry(inodes'[m], j)), ~(m = p /\ j = k)
        PROVE  SameChild(inodes, inodes', m, j)
    BY <1>1, <2>3 DEF SameChild, InUse
  <2> HIDE DEF f, p, k
  <2>4. NoNameIn(inodes, p, inodes'[Entry(inodes'[p], k)].name)
    BY <2>1, <2>2
  <2>5. NamesApart(inodes')
    BY <2>1, <2>3, <2>4, MoreNames
  <2>6. QED BY <1>1, <2>1, <2>5 DEF Named
<1>3. CASE torn # 0
  BY <1>1, <1>3 DEF Named
<1>4. QED BY <1>2, <1>3

LEMMA NamedWritten ==
  ASSUME Inv, Named, Written
  PROVE  Named'
<1>1. pc = "save" /\ UNCHANGED <<inodes, pc, cmd, torn>> /\ Save /\ saved' = saved + 1 /\ saved \in Nat
  BY DEF Written, Inv, Typed
<1>2. cmd.op \in {"extract", "list"} => image'.inodes = image.inodes
  BY <1>1, SaveReadKeeps
<1>3. saved' # 0
  BY <1>1
<1>4. QED BY <1>1, <1>2, <1>3 DEF Named, NamesApart, InUse

LEMMA NamedLastWritten ==
  ASSUME Inv, Named, LastWritten
  PROVE  Named'
<1>1. pc = "save" /\ Idle /\ torn' = torn /\ image'.inodes = inodes
  BY DEF LastWritten
<1>2. torn = 0 => NamesApart(inodes)
  BY <1>1 DEF Named
<1>3. QED BY <1>1, <1>2, NamedIdle

LEMMA NamedStep ==
  ASSUME Inv, Neat, Named, [Next]_vars
  PROVE  Named'
<1>1. CASE UNCHANGED vars
  BY <1>1 DEF vars, Named, NamesApart, InUse, NoNameIn
<1>2. CASE (\E i : ChildFreed(i)) \/ (\E i : TargetFreed(i)) \/ (\E p, i : DirFreed(p, i))
  <2>1. PICK n, p, i : InodeFreed(n, p, i) /\ pc \in {"free", "up"} /\ pc' \in {"free", "up"}
    BY <1>2 DEF ChildFreed, TargetFreed, DirFreed
  <2>2. QED BY <2>1, NamedFreed
<1>3. QED BY <1>1, <1>2, StepEffect, NamedDropped, NamedOpened, NamedQuiet, NamedDirMade, NamedFileMade, NamedBlockWritten,
         NamedFileLinked, NamedBlockFreed, NamedWritten, NamedLastWritten DEF Effect

-----------------------------------------------------------------------------
\* The table ins of the image and the table new of a -a that has made the inodes of
\* New: the others are as they were, but that directories have entries for new ones.
Grown(ins, new, New) ==
  /\ \A n \in Nodes : n \notin New =>
       /\ new[n].type = ins[n].type /\ new[n].name = ins[n].name
       /\ ins[n].type = TYPE_FILE => new[n] = ins[n]
  /\ \A n \in Nodes : n \in New => n # 0 /\ new[n].type # TYPE_FREE /\ (ins[n].type = TYPE_FREE \/ ins[n] = new[n])
  /\ \A n \in Nodes, i \in Spots : Entry(ins[n], i) # 0 => Entry(new[n], i) = Entry(ins[n], i)
  /\ \A n \in Nodes, i \in Spots : new[n].type = TYPE_DIR /\ Entry(new[n], i) # 0 /\ (n \in New \/ Entry(ins[n], i) = 0) =>
       Entry(new[n], i) \in New

\* Before the save the image has none of them, and the one file among them is the one
\* that -a writes.
Fresh(New) ==
  \A n \in Nodes : n \in New =>
    /\ saved = 0 => image.inodes[n].type = TYPE_FREE
    /\ inodes[n].type = TYPE_FILE => pc # "walk" /\ n = file.node /\ cmd.path # << >>

Growing ==
  /\ DOMAIN data = BlockIds
  /\ cmd.op = "add" => \E New : Grown(image.inodes, inodes, New) /\ Fresh(New)

LEMMA GrowingInit == Init => Growing
  BY DEF Init, InitWith, Growing, NoCommand

\* add_dir and add_file make inode n; add_dir puts it in entry i of p, for add_file
\* p is n.
Made(old, new, n, p, i) ==
  /\ old \in Tables /\ new \in Tables /\ Shaped(old)
  /\ n \in Nodes /\ p \in Nodes /\ i \in Spots /\ n # 0
  /\ old[n].type = TYPE_FREE /\ new[n].type # TYPE_FREE
  /\ \A m \in Nodes : m # n => new[m].type = old[m].type /\ new[m].name = old[m].name
  /\ \A m \in Nodes : m # n /\ m # p => new[m] = old[m]
  /\ p = n \/ (old[p].type = TYPE_DIR /\ Entry(old[p], i) = 0)
  /\ \A m \in Nodes, j \in Spots : Entry(new[m], j) = IF m = p /\ j = i /\ p # n THEN n ELSE Entry(old[m], j)

LEMMA GrownMade ==
  ASSUME NEW ins \in Tables, NEW old, NEW new, NEW New, Grown(ins, old, New), Shaped(ins),
         NEW n, NEW p, NEW i, Made(old, new, n, p, i), p # n => ins[p].type = TYPE_FREE \/ p \notin New
  PROVE  Grown(ins, new, New \cup {n}) /\ ins[n].type = TYPE_FREE
<1> USE DEF Made
<1> DEFINE New2 == New \cup {n}
<1>3. n \notin New /\ ins[n].type = TYPE_FREE
  BY DEF Grown
<1>4. ASSUME NEW m \in Nodes, m \notin New2
      PROVE  new[m].type = ins[m].type /\ new[m].name = ins[m].name /\ (ins[m].type = TYPE_FILE => new[m] = ins[m])
  <2>1. m # n /\ old[m].type = ins[m].type /\ old[m].name = ins[m].name /\ (ins[m].type = TYPE_FILE => old[m] = ins[m])
    BY <1>4 DEF Grown
  <2>2. ins[m].type = TYPE_FILE => m # p
    BY <2>1, Distinct
  <2>3. QED BY <2>1, <2>2
<1>5. ASSUME NEW m \in Nodes, m \in New2
      PROVE  m # 0 /\ new[m].type # TYPE_FREE /\ (ins[m].type = TYPE_FREE \/ ins[m] = new[m])
  <2>1. CASE m = n
    BY <1>3, <2>1
  <2>2. CASE m # n
    <3>1. m \in New /\ m # 0 /\ old[m].type # TYPE_FREE /\ (ins[m].type = TYPE_FREE \/ ins[m] = old[m])
      BY <1>5, <2>2 DEF Grown
    <3>2. QED BY <2>2, <3>1
  <2>3. QED BY <2>1, <2>2
<1>6. ASSUME NEW m \in Nodes, NEW j \in Spots, Entry(ins[m], j) # 0
      PROVE  Entry(new[m], j) = Entry(ins[m], j)
  <2>1. Entry(old[m], j) = Entry(ins[m], j)
    BY <1>6 DEF Grown
  <2>2. QED BY <1>6, <2>1
<1>7. ASSUME NEW m \in Nodes, NEW j \in Spots, new[m].type = TYPE_DIR, Entry(new[m], j) # 0,
             m \in New2 \/ Entry(ins[m], j) = 0
      PROVE  Entry(new[m], j) \in New2
  <2>1. CASE m = p /\ j = i /\ p # n
    BY <2>1
  <2>2. CASE ~(m = p /\ j = i /\ p # n)
    <3>1. Entry(new[m], j) = Entry(old[m], j)
      BY <2>2
    <3>2. m # n /\ old[m].type = TYPE_DIR
      BY <1>7, <3>1, Distinct DEF Shaped
    <3>3. Entry(old[m], j) \in New
      BY <1>7, <3>1, <3>2 DEF Grown
    <3>4. QED BY <3>1, <3>3
  <2>3. QED BY <2>1, <2>2
<1>8. Grown(ins, new, New2)
  <2> HIDE DEF New2
  <2>1. QED BY <1>4, <1>5, <1>6, <1>7 DEF Grown
<1>9. QED BY <1>3, <1>8

\* The tables of a command that runs, and that of the image while -a does.
LEMMA ImageFacts ==
  ASSUME Inv, cmd.op = "add"
  PROVE  image.inodes \in Tables /\ Shaped(image.inodes)
  BY DEF Inv, Typed, Images, ImageGood, Good

LEMMA GrowingDirMade ==
  ASSUME Inv, Growing, NEW n, NEW i, DirMade(n, i)
  PROVE  Growing'
<1>1. /\ UNCHANGED <<image, data, cmd, pc, file, saved>> /\ cmd.op = "add" /\ pc = "walk" /\ saved = 0
      /\ i \in Spots /\ n \in Nodes /\ n # 0
      /\ n # at.node /\ at.node \in Nodes /\ inodes[n].type = TYPE_FREE /\ inodes[at.node].type = TYPE_DIR
      /\ Entry(inodes[at.node], i) = 0
      /\ inodes \in Tables /\ Shaped(inodes) /\ inodes' \in Tables
      /\ \A m \in Nodes : inodes'[m].type = IF m = n THEN TYPE_DIR ELSE inodes[m].type
      /\ \A m \in Nodes : m # n => inodes'[m].name = inodes[m].name
      /\ \A m \in Nodes : m # n /\ m # at.node => inodes'[m] = inodes[m]
      /\ \A m \in Nodes, j \in Spots : Entry(inodes'[m], j) = IF m = at.node /\ j = i THEN n ELSE Entry(inodes[m], j)
  BY Sizes, MemoryFacts DEF DirMade, DirAdded, Renamed, Inv, Typed
<1>2. PICK New : Grown(image.inodes, inodes, New) /\ Fresh(New)
  BY <1>1 DEF Growing
<1>3. at.node \in New => image.inodes[at.node].type = TYPE_FREE
  BY <1>1, <1>2 DEF Fresh
<1>4. Grown(image.inodes, inodes', New \cup {n}) /\ image.inodes[n].type = TYPE_FREE
  <2>1. Made(inodes, inodes', n, at.node, i)
    BY <1>1, Distinct DEF Made
  <2>2. image.inodes \in Tables /\ Shaped(image.inodes) /\ Grown(image.inodes, inodes, New)
    BY <1>1, <1>2, ImageFacts
  <2>3. at.node # n => image.inodes[at.node].type = TYPE_FREE \/ at.node \notin New
    BY <1>1, <1>3
  <2>4. QED BY ONLY <2>1, <2>2, <2>3, GrownMade
<1>5. \A m \in Nodes : m \in New \cup {n} => inodes'[m].type # TYPE_FILE
  BY <1>1, <1>2, Distinct DEF Fresh
<1>6. \A m \in Nodes : m \in New \cup {n} => image.inodes[m].type = TYPE_FREE
  BY <1>1, <1>2, <1>4 DEF Fresh
<1>7. Grown(image.inodes, inodes, New \cup {n})' /\ Fresh(New \cup {n})'
  BY <1>1, <1>4, <1>5, <1>6 DEF Fresh
<1>8. \E N : Grown(image'.inodes, inodes', N) /\ Fresh(N)'
  BY <1>1, <1>7
<1>9. QED BY <1>1, <1>8 DEF Growing

LEMMA GrowingFileMade ==
  ASSUME Inv, Growing, NEW n, NEW i, FileMade(n, i)
  PROVE  Growing'
<1>1. /\ UNCHANGED <<image, data, cmd, saved>> /\ cmd.op = "add" /\ pc = "walk" /\ pc' = "write" /\ saved = 0
      /\ n \in Nodes /\ n # 0 /\ inodes[n].type = TYPE_FREE /\ file'.node = n /\ 0 \in Spots
      /\ inodes \in Tables /\ Shaped(inodes) /\ inodes' \in Tables
      /\ \A m \in Nodes : inodes'[m].type = IF m = n THEN TYPE_FILE ELSE inodes[m].type
      /\ \A m \in Nodes : m # n => inodes'[m].name = inodes[m].name
      /\ \A m \in Nodes : m # n => inodes'[m] = inodes[m]
      /\ \A m \in Nodes, j \in Spots : Entry(inodes'[m], j) = Entry(inodes[m], j)
      /\ cmd.path # << >>
  <2>1. cmd.path # << >>
    <3>1. at.nodes \in Seq(Nodes) /\ Len(at.nodes) + 1 = Len(cmd.path)
      BY DEF FileMade, Inv, Typed
    <3>2. Len(cmd.path) # 0
      BY <3>1
    <3>3. QED BY <3>2
  <2>2. QED BY <2>1, Sizes, SizesAssumption, MemoryFacts DEF FileMade, FileAdded, Renamed, Inv, Typed, Spots
<1>2. PICK New : Grown(image.inodes, inodes, New) /\ Fresh(New)
  BY <1>1 DEF Growing
<1>4. Grown(image.inodes, inodes', New \cup {n}) /\ image.inodes[n].type = TYPE_FREE
  <2>1. Made(inodes, inodes', n, n, 0)
    BY <1>1, Distinct DEF Made
  <2>2. image.inodes \in Tables /\ Shaped(image.inodes) /\ Grown(image.inodes, inodes, New)
    BY <1>1, <1>2, ImageFacts
  <2>3. n # n => image.inodes[n].type = TYPE_FREE \/ n \notin New
    BY <1>1
  <2>4. QED BY ONLY <2>1, <2>2, <2>3, GrownMade
<1>5. \A m \in Nodes : m \in New \cup {n} /\ inodes'[m].type = TYPE_FILE => m = n
  BY <1>1, <1>2 DEF Fresh
<1>6. \A m \in Nodes : m \in New \cup {n} => image.inodes[m].type = TYPE_FREE
  BY <1>1, <1>2, <1>4 DEF Fresh
<1>7. Grown(image.inodes, inodes, New \cup {n})' /\ Fresh(New \cup {n})'
  BY <1>1, <1>4, <1>5, <1>6 DEF Fresh
<1>8. \E N : Grown(image'.inodes, inodes', N) /\ Fresh(N)'
  BY <1>1, <1>7
<1>9. QED BY <1>1, <1>8 DEF Growing

\* An entry set in the new file, or in the directory that gets it.
LEMMA GrowingSet ==
  ASSUME Inv, Growing, cmd.op = "add", UNCHANGED <<image, cmd, file, saved>>, saved = 0, DOMAIN data' = DOMAIN data, pc = "write", pc' # "walk",
         NEW n \in Nodes, NEW k \in Spots, NEW b, Entry(inodes[n], k) = 0, inodes[n].type = TYPE_FILE \/ b = file.node,
         inodes[n].type = TYPE_FILE => n = file.node,
         \A m \in Nodes : inodes'[m].type = inodes[m].type /\ inodes'[m].name = inodes[m].name,
         \A m \in Nodes : m # n => inodes'[m] = inodes[m],
         \A m \in Nodes, j \in Spots : Entry(inodes'[m], j) = IF m = n /\ j = k THEN b ELSE Entry(inodes[m], j)
  PROVE  Growing'
<1>1. PICK New : Grown(image.inodes, inodes, New) /\ Fresh(New)
  BY DEF Growing
<1> DEFINE ins == image.inodes
<1>2. file.node \in Nodes /\ inodes[file.node].type = TYPE_FILE /\ ins[file.node].type # TYPE_FILE
  BY DEF Inv, Typed, Writing
<1>3. file.node \in New
  BY <1>1, <1>2, Distinct DEF Grown
<1>4. ASSUME NEW m \in Nodes, m \notin New
      PROVE  inodes'[m].type = ins[m].type /\ inodes'[m].name = ins[m].name /\ (ins[m].type = TYPE_FILE => inodes'[m] = ins[m])
  <2>1. inodes[m].type = ins[m].type /\ inodes[m].name = ins[m].name /\ (ins[m].type = TYPE_FILE => inodes[m] = ins[m])
    BY <1>1, <1>4 DEF Grown
  <2>2. ins[m].type = TYPE_FILE => m # n
    BY <1>3, <1>4, <2>1
  <2>3. QED BY <2>1, <2>2
<1>5. ASSUME NEW m \in Nodes, m \in New
      PROVE  m # 0 /\ inodes'[m].type # TYPE_FREE /\ ins[m].type = TYPE_FREE
  BY <1>1, <1>5 DEF Grown, Fresh
<1>6. ASSUME NEW m \in Nodes, NEW j \in Spots, Entry(ins[m], j) # 0
      PROVE  Entry(inodes'[m], j) = Entry(ins[m], j)
  BY <1>1, <1>6 DEF Grown
<1>7. ASSUME NEW m \in Nodes, NEW j \in Spots, inodes'[m].type = TYPE_DIR, Entry(inodes'[m], j) # 0,
             m \in New \/ Entry(ins[m], j) = 0
      PROVE  Entry(inodes'[m], j) \in New
  <2>1. CASE m = n /\ j = k
    BY <1>3, <1>7, <2>1, Distinct
  <2>2. CASE ~(m = n /\ j = k)
    BY <1>1, <1>7, <2>2 DEF Grown
  <2>3. QED BY <2>1, <2>2
<1>8. Grown(ins, inodes', New)
  <2> HIDE DEF ins
  <2>1. QED BY <1>4, <1>5, <1>6, <1>7 DEF Grown
<1>9. Fresh(New)'
  BY <1>1 DEF Fresh
<1>10. \E N : Grown(image'.inodes, inodes', N) /\ Fresh(N)'
  BY <1>8, <1>9
<1>11. QED BY <1>10 DEF Growing

LEMMA GrowingBlockWritten ==
  ASSUME Inv, Growing, NEW b, BlockWritten(b)
  PROVE  Growing'
<1> DEFINE f == file.node
           k == inodes[f].size
<1>1. /\ UNCHANGED <<image, cmd, file, saved, pc>> /\ cmd.op = "add" /\ pc = "write" /\ saved = 0 /\ f \in Nodes /\ k \in Spots
      /\ \A m \in Nodes : inodes'[m].type = inodes[m].type
      /\ \A m \in Nodes : inodes'[m].name = inodes[m].name
      /\ \A m \in Nodes : m # f => inodes'[m] = inodes[m]
      /\ \A m \in Nodes, j \in Spots : Entry(inodes'[m], j) = IF m = f /\ j = k THEN b ELSE Entry(inodes[m], j)
      /\ DOMAIN data' = DOMAIN data
  BY DEF BlockWritten, EntrySet, Renamed, Inv, Typed
<1>2. inodes[f].type = TYPE_FILE /\ Entry(inodes[f], k) = 0
  BY <1>1, SizesAssumption DEF Inv, Writing, Spots
<1> HIDE DEF f, k
<1>3. QED BY <1>1, <1>2, GrowingSet DEF f

LEMMA GrowingFileLinked ==
  ASSUME Inv, Neat, Growing, FileLinked
  PROVE  Growing'
<1> DEFINE f == file.node
           k == file.slot
           p == at.node
<1>1. /\ UNCHANGED <<image, data, cmd, file, saved>> /\ cmd.op = "add" /\ pc = "write" /\ pc' = "save" /\ saved = 0
      /\ p \in Nodes /\ k \in Spots
      /\ \A m \in Nodes : inodes'[m].type = inodes[m].type
      /\ \A m \in Nodes : inodes'[m].name = inodes[m].name
      /\ \A m \in Nodes : m # p => inodes'[m] = inodes[m]
      /\ \A m \in Nodes, j \in Spots : Entry(inodes'[m], j) = IF m = p /\ j = k THEN f ELSE Entry(inodes[m], j)
  BY Sizes DEF FileLinked, EntrySet, Renamed, Inv, Typed
<1>2. inodes[p].type = TYPE_DIR /\ Entry(inodes[p], k) = 0 /\ inodes[p].type # TYPE_FILE
  BY <1>1, Distinct DEF Inv, Adding, Neat
<1> HIDE DEF p, k
<1>3. QED BY <1>1, <1>2, GrowingSet DEF f

\* What a write of the save leaves is a table between the two.
LEMMA GrownMixed ==
  ASSUME NEW old, NEW new, NEW mix, NEW New, Grown(old, new, New), \A n \in Nodes : mix[n] = old[n] \/ mix[n] = new[n]
  PROVE  Grown(mix, new, New)
  BY DEF Grown

LEMMA SavedMixes ==
  ASSUME Inv, Save
  PROVE  image'.inodes \in Tables /\ \A n \in Nodes : image'.inodes[n] = image.inodes[n] \/ image'.inodes[n] = inodes[n]
<1>1. saved \in Nat /\ image' \in Images
  BY SaveImage DEF Inv, Typed
<1>2. saved < 2 \/ saved >= 2
  BY <1>1
<1>3. QED BY <1>1, <1>2, SaveImage DEF Images

LEMMA GrowingWritten ==
  ASSUME Inv, Growing, Written
  PROVE  Growing'
<1>1. UNCHANGED <<data, inodes, pc, cmd, file>> /\ Save /\ saved' # 0 /\ pc = "save"
  BY DEF Written, Inv, Typed
<1>2. ASSUME cmd.op = "add"
      PROVE  \E N : Grown(image'.inodes, inodes', N) /\ Fresh(N)'
  <2>1. PICK New : Grown(image.inodes, inodes, New) /\ Fresh(New)
    BY <1>2 DEF Growing
  <2>2. Grown(image'.inodes, inodes, New)
    BY <1>1, <2>1, SavedMixes, GrownMixed
  <2>3. Fresh(New)'
    BY <1>1, <2>1 DEF Fresh
  <2>4. QED BY <1>1, <2>2, <2>3
<1>3. QED BY <1>1, <1>2 DEF Growing

LEMMA GrowingOpened ==
  ASSUME Inv, Growing, NEW op, NEW path, Opened(op, path)
  PROVE  Growing'
<1>1. image' = image /\ inodes' = image.inodes /\ data' = data /\ cmd' = [op |-> op, path |-> path] /\ Good(image.bitmap, image.inodes)
  BY DEF Opened, Inv, ImageGood
<1>2. Grown(image.inodes, image.inodes, {})
  BY DEF Grown
<1>3. Grown(image'.inodes, inodes', {}) /\ Fresh({})'
  BY <1>1, <1>2 DEF Fresh
<1>4. QED BY <1>1, <1>3 DEF Growing

LEMMA GrowingQuiet ==
  ASSUME Inv, Growing, Entered \/ Settled
  PROVE  Growing'
<1>1. UNCHANGED <<image, data, inodes, cmd, file, saved>> /\ pc = "walk" /\ (pc' = pc \/ pc' = "save")
  BY DEF Entered, Settled
<1>2. ASSUME cmd.op = "add"
      PROVE  \E N : Grown(image'.inodes, inodes', N) /\ Fresh(N)'
  <2>1. PICK New : Grown(image.inodes, inodes, New) /\ Fresh(New)
    BY <1>2 DEF Growing
  <2>2. Fresh(New)'
    BY <1>1, <2>1 DEF Fresh
  <2>3. QED BY <1>1, <2>1, <2>2
<1>3. QED BY <1>1, <1>2 DEF Growing

LEMMA GrowingStep ==
  ASSUME Inv, Neat, Growing, [Next]_vars
  PROVE  Growing'
<1>1. CASE UNCHANGED vars
  BY <1>1 DEF vars, Growing, Grown, Fresh
<1>2. CASE Dropped \/ LastWritten
  <2>1. cmd'.op # "add" /\ data' = data
    BY <1>2 DEF Dropped, LastWritten, Idle, NoCommand
  <2>2. QED BY <2>1 DEF Growing
<1>3. CASE cmd.op = "remove" /\ cmd' = cmd /\ DOMAIN data' = DOMAIN data
  BY <1>3 DEF Growing
<1>4. CASE Stopped \/ FreeingBegun \/ (\E i : ChildEntered(i)) \/ (\E i : BlockFreed(i)) \/ (\E i : ChildFreed(i))
             \/ (\E i : TargetFreed(i)) \/ (\E p, i : DirFreed(p, i))
  <2>1. cmd.op = "remove"
    BY <1>4 DEF Stopped, FreeingBegun, ChildEntered, BlockFreed, ChildFreed, TargetFreed, DirFreed, Inv, Phased
  <2>2. cmd' = cmd /\ DOMAIN data' = DOMAIN data
    BY <1>4 DEF Stopped, FreeingBegun, ChildEntered, BlockFreed, ChildFreed, TargetFreed, DirFreed, InodeFreed
  <2>3. QED BY <1>3, <2>1, <2>2
<1>5. QED BY <1>1, <1>2, <1>4, StepEffect, GrowingOpened, GrowingQuiet, GrowingDirMade, GrowingFileMade, GrowingBlockWritten,
         GrowingFileLinked, GrowingWritten DEF Effect

-----------------------------------------------------------------------------
\* What -e prints of a file in the image does not change when -a writes a block.
LEMMA BlockWrittenStored ==
  ASSUME Inv, Neat, Growing, NEW b, BlockWritten(b), NEW n \in Nodes, image.inodes[n].type = TYPE_FILE
  PROVE  Stored(data', image.inodes[n]) = Stored(data, image.inodes[n])
<1> DEFINE inode == image.inodes[n]
<1>1. cmd.op = "add" /\ b \in BlockIds /\ b # 0 /\ bitmap[b] = FREE /\ pc = "write" /\ data' = [data EXCEPT ![b] = buffer']
      /\ DOMAIN data = BlockIds
  BY DEF BlockWritten, Growing
<1>2. ASSUME NEW i \in Spots PROVE Entry(inode, i) # b /\ Entry(inode, i) \in BlockIds
  <2>1. inodes[n].type = TYPE_FILE /\ Entry(inodes[n], i) = Entry(inode, i)
    BY <1>1 DEF Inv, Adding
  <2>2. Entry(inode, i) # 0 => bitmap[Entry(inode, i)] = USED
    BY <1>1, <2>1, MemoryFacts DEF Good, Owned
  <2>3. Entry(inode, i) \in BlockIds
    BY <1>1, ImageFacts, EntryId
  <2>4. QED BY <1>1, <2>2, <2>3, Distinct
<1>3. inode.size \in 0..MAX_DIRECT + 1
  BY DEF Neat, Tidy
<1>4. ASSUME NEW i \in 1..inode.size PROVE data'[Entry(inode, i - 1)] = data[Entry(inode, i - 1)]
  <2>1. i - 1 \in Spots
    BY <1>3, SizesAssumption DEF Spots
  <2>2. QED BY <1>1, <1>2, <2>1
<1> HIDE DEF inode
<1>5. [i \in 1..inode.size |-> BeforeNul(data'[Entry(inode, i - 1)])] = [i \in 1..inode.size |-> BeforeNul(data[Entry(inode, i - 1)])]
  BY <1>4
<1>6. QED BY <1>5 DEF Stored, inode

\* FilesOf, opened.
LEMMA FileFound ==
  ASSUME NEW ins
  PROVE  \A f : f \in FilesOf(ins) <=> \E p \in Paths : \E n \in Lookup(ins, p) :
                  ins[n].type = TYPE_FILE /\ f = [path |-> p, content |-> Stored(data, ins[n])]
  BY DEF FilesOf

\* No write of -a to the image takes away or alters a file the image holds, for images
\* of any size: a file keeps its inode, and the way to it stays the first along its
\* path, for no name is given twice.
THEOREM AddKeepsFiles == Spec => KilledAddLosesNothing
<1>1. ASSUME Inv, Neat, Named, Growing, [Next]_vars, cmd.op = "add", torn = 0
      PROVE  FilesOf(image.inodes) \subseteq FilesOf(image.inodes)'
  <2> DEFINE ins == image.inodes
             more == image'.inodes
  <2>1. SUFFICES ASSUME NEW p \in Paths, NEW n \in Lookup(ins, p), ins[n].type = TYPE_FILE
                 PROVE  n \in Lookup(more, p) /\ more[n].type = TYPE_FILE /\ Stored(data', more[n]) = Stored(data, ins[n])
    <3>1. ASSUME NEW f \in FilesOf(ins) PROVE f \in FilesOf(image.inodes)'
      <4>0. PICK p \in Paths : \E n \in Lookup(ins, p) : ins[n].type = TYPE_FILE /\ f = [path |-> p, content |-> Stored(data, ins[n])]
        BY FileFound
      <4>1. PICK n \in Lookup(ins, p) : ins[n].type = TYPE_FILE /\ f = [path |-> p, content |-> Stored(data, ins[n])]
        BY <4>0
      <4>2. n \in Lookup(more, p) /\ more[n].type = TYPE_FILE /\ Stored(data', more[n]) = Stored(data, ins[n])
        BY <4>1, <2>1
      <4>3. QED BY <4>1, <4>2 DEF FilesOf
    <3>2. QED BY <3>1
  <2>2. ins \in Tables /\ Shaped(ins) /\ Len(p) \in Nat
    BY <1>1, ImageFacts, NamesAssumption
  <2>3. n \in Nodes
    BY <2>1, <2>2, LookupIsWay
  <2>4. CASE more = ins /\ data' = data
    BY <2>1, <2>4
  <2>5. CASE \E b : BlockWritten(b)
    <3>1. more = ins
      BY <2>5 DEF BlockWritten
    <3>2. Stored(data', ins[n]) = Stored(data, ins[n])
      BY <1>1, <2>1, <2>3, <2>5, BlockWrittenStored
    <3>3. QED BY <2>1, <3>1, <3>2
  <2>6. CASE Written \/ LastWritten
    <3>1. Save /\ data' = data /\ pc = "save"
      BY <2>6 DEF Written, LastWritten
    <3>2. more \in Tables /\ \A m \in Nodes : more[m] = ins[m] \/ more[m] = inodes[m]
      BY <1>1, <3>1, SavedMixes
    <3>3. PICK New : Grown(ins, inodes, New)
      BY <1>1 DEF Growing
    <3>4. \A m \in Nodes : ins[m].type # TYPE_FREE => more[m].type = ins[m].type /\ more[m].name = ins[m].name
                                                      /\ (ins[m].type = TYPE_FILE => more[m] = ins[m])
      BY <3>2, <3>3 DEF Grown
    <3>5. \A m \in Nodes, i \in Spots : Entry(ins[m], i) # 0 => Entry(more[m], i) = Entry(ins[m], i)
      BY <3>2, <3>3 DEF Grown
    <3>6. Within(ins, more)
      BY <3>4, <3>5 DEF Within
    <3>7. NamesApart(more)
      <4>1. NamesApart(inodes)
        BY <1>1, <3>1 DEF Named
      <4>2. Grown(more, inodes, New)
        BY <3>2, <3>3, GrownMixed
      <4>3. ASSUME NEW m \in Nodes, NEW i \in Spots, more[m].type = TYPE_DIR, InUse(more, Entry(more[m], i))
            PROVE  SameChild(inodes, more, m, i)
        <5>1. Entry(inodes[m], i) = Entry(more[m], i) /\ inodes[m].type = TYPE_DIR
          BY <4>2, <4>3, Distinct DEF Grown, InUse
        <5>2. \A c \in Nodes : more[c].type # TYPE_FREE => inodes[c].type = more[c].type /\ inodes[c].name = more[c].name
          BY <4>2 DEF Grown
        <5>3. QED BY <4>3, <5>1, <5>2 DEF InUse, SameChild
      <4>4. QED BY <4>1, <4>3, FewerNames
    <3>8. WayTo(more, p, Len(p), n)
      <4>1. Good(image.bitmap, ins)
        BY <1>1 DEF Inv, ImageGood
      <4>2. WayTo(ins, p, Len(p), n)
        BY <2>1, <2>2, LookupIsWay
      <4> HIDE DEF ins, more
      <4>3. QED BY <2>2, <3>2, <3>6, <3>7, <4>1, <4>2, WayStaysWithin
    <3>9. n \in Lookup(more, p)
      BY <2>2, <2>3, <3>2, <3>8, LookupIsWay
    <3>10. QED BY <2>1, <2>3, <3>1, <3>4, <3>9, Distinct
  <2>7. CASE Dropped \/ Entered \/ (\E i, j : DirMade(i, j)) \/ (\E i, j : FileMade(i, j)) \/ FileLinked \/ Settled
    BY <2>4, <2>7 DEF Dropped, Entered, DirMade, FileMade, FileLinked, Settled
  <2>8. CASE \E op, path : Opened(op, path)
    BY <2>4, <2>8 DEF Opened
  <2>9. CASE UNCHANGED vars
    BY <2>4, <2>9 DEF vars
  <2>10. CASE Stopped \/ FreeingBegun \/ (\E i : ChildEntered(i)) \/ (\E i : BlockFreed(i)) \/ (\E i : ChildFreed(i))
             \/ (\E i : TargetFreed(i)) \/ (\E q, i : DirFreed(q, i))
    <3>1. cmd.op = "remove"
      BY <1>1, <2>10 DEF Stopped, FreeingBegun, ChildEntered, BlockFreed, ChildFreed, TargetFreed, DirFreed, Inv, Phased
    <3>2. QED BY <1>1, <3>1
  <2>11. QED BY <1>1, <2>5, <2>6, <2>7, <2>8, <2>9, <2>10, StepEffect DEF Effect
<1>2. Init => Inv /\ Neat /\ Named /\ Growing
  BY InvInit, NeatInit, NamedInit, GrowingInit
<1>3. Inv /\ Neat /\ Named /\ Growing /\ [Next]_vars => (Inv /\ Neat /\ Named /\ Growing)'
  BY InvNext, NeatStep, NamedStep, GrowingStep
<1>4. Inv /\ Neat /\ Named /\ Growing /\ [Next]_vars => [cmd.op = "add" /\ torn = 0 => FilesOf(image.inodes) \subseteq FilesOf(image.inodes)']_vars
  BY <1>1
<1>5. QED BY <1>2, <1>3, <1>4, PTL DEF Spec, KilledAddLosesNothing

-----------------------------------------------------------------------------
\* What the table old has of the inodes that are not of New is all that mix has of them.
Before(old, mix, New) ==
  /\ \A n \in Nodes : n \notin New => mix[n].type = old[n].type /\ mix[n].name = old[n].name
  /\ \A n \in Nodes : old[n].type # TYPE_FREE => mix[n].type = old[n].type /\ mix[n].name = old[n].name
  /\ \A n \in Nodes, i \in Spots : Entry(old[n], i) # 0 => Entry(mix[n], i) = Entry(old[n], i)
  /\ \A n \in Nodes, i \in Spots : mix[n].type = TYPE_DIR /\ Entry(mix[n], i) # 0 /\ Entry(mix[n], i) \notin New =>
       n \notin New /\ Entry(old[n], i) = Entry(mix[n], i)

LEMMA GrownBefore ==
  ASSUME NEW old, NEW new, NEW mix, NEW New, Grown(old, new, New), \A n \in Nodes : mix[n] = old[n] \/ mix[n] = new[n]
  PROVE  Before(old, mix, New)
<1>1. \A n \in Nodes : n \notin New => mix[n].type = old[n].type /\ mix[n].name = old[n].name
  BY DEF Grown
<1>2. \A n \in Nodes : old[n].type # TYPE_FREE => mix[n].type = old[n].type /\ mix[n].name = old[n].name
  BY <1>1 DEF Grown
<1>3. \A n \in Nodes, i \in Spots : Entry(old[n], i) # 0 => Entry(mix[n], i) = Entry(old[n], i)
  BY DEF Grown
<1>4. ASSUME NEW n \in Nodes, NEW i \in Spots, mix[n].type = TYPE_DIR, Entry(mix[n], i) # 0, Entry(mix[n], i) \notin New
      PROVE  n \notin New /\ Entry(old[n], i) = Entry(mix[n], i)
  <2>1. CASE mix[n] = new[n]
    <3>1. n \notin New /\ Entry(old[n], i) # 0
      BY <1>4, <2>1 DEF Grown
    <3>2. QED BY <2>1, <3>1 DEF Grown
  <2>2. CASE mix[n] = old[n]
    <3>1. n \in New => old[n] = new[n]
      BY <1>4, <2>2, Distinct DEF Grown
    <3>2. n \notin New
      BY <1>4, <2>2, <3>1 DEF Grown
    <3>3. QED BY <2>2, <3>2
  <2>3. QED BY <2>1, <2>2
<1>5. QED BY <1>1, <1>2, <1>3, <1>4 DEF Before

\* A name that leads to an inode that is not new led to it before.
LEMMA HopWasThere ==
  ASSUME NEW old \in Tables, NEW mix \in Tables, NEW bits, Good(bits, mix), NEW New, Before(old, mix, New),
         NEW name, NEW n \in Nodes, NEW c, c \notin New, Hop(mix, name, n, c)
  PROVE  n \notin New /\ Hop(old, name, n, c)
<1> DEFINE S(ins) == {j \in Children(ins, n) : ins[ins[n].direct[j]].name = name}
<1>1. \A j \in Slots : j \in Spots /\ \A ins : Entry(ins[n], j) = ins[n].direct[j]
  BY SizesAssumption, Sizes DEF Entry, Slots
<1>2. mix[n].type = TYPE_DIR /\ c \in Nodes /\ c # 0 /\ mix[c].type # TYPE_FREE /\ mix[c].name = name
  BY HopFromDir, HopIsLink
<1>3. PICK i \in search_dir(mix, name, n) : mix[n].direct[i] = c
  BY DEF Hop
<1>4. i \in Slots /\ i \in S(mix) /\ \A j \in S(mix) : i <= j
  BY <1>3 DEF search_dir, Least, Children
<1>5. n \notin New /\ old[n].direct[i] = c
  <2>1. i \in Spots /\ Entry(mix[n], i) = c
    BY <1>1, <1>3, <1>4
  <2>2. n \notin New /\ Entry(old[n], i) = c
    BY <1>2, <2>1 DEF Before
  <2>3. QED BY <1>1, <1>4, <2>2
<1>6. old[c].type # TYPE_FREE /\ old[c].name = name
  BY <1>2 DEF Before
<1>7. i \in S(old)
  BY <1>2, <1>4, <1>5, <1>6, SizesAssumption DEF Children, IsChild, Nodes
<1>8. ASSUME NEW j \in S(old) PROVE j \in S(mix)
  <2> DEFINE d == old[n].direct[j]
  <2>1. j \in Slots /\ IsChild(old, d) /\ old[d].name = name
    BY <1>8 DEF Children
  <2>2. d \in Nodes /\ d # 0 /\ old[d].type # TYPE_FREE
    <3>1. d \in BlockIds
      BY <2>1 DEF Tables, Node
    <3>2. QED BY <2>1, <3>1, SizesAssumption DEF IsChild, Nodes, BlockIds
  <2>3. mix[d].type # TYPE_FREE /\ mix[d].name = name
    BY <2>1, <2>2 DEF Before
  <2>4. mix[n].direct[j] = d
    <3>1. Entry(old[n], j) = d /\ j \in Spots
      BY <1>1, <2>1
    <3>2. Entry(mix[n], j) = d
      BY <2>2, <3>1 DEF Before
    <3>3. QED BY <1>1, <2>1, <3>2
  <2> HIDE DEF d
  <2>5. IsChild(mix, d)
    BY <2>1, <2>3 DEF IsChild
  <2>6. QED BY <2>1, <2>3, <2>4, <2>5 DEF Children
<1> HIDE DEF S
<1>9. i \in Least(S(old))
  BY <1>4, <1>7, <1>8 DEF Least
<1>10. i \in search_dir(old, name, n)
  BY <1>9 DEF search_dir, S
<1>11. QED BY <1>5, <1>10 DEF Hop

\* ... and so does a way.
LEMMA WayWasThere ==
  ASSUME NEW old \in Tables, NEW mix \in Tables, NEW bits, Good(bits, mix), NEW New, Before(old, mix, New),
         NEW p, NEW k \in Nat, NEW n, n \notin New, WayTo(mix, p, k, n)
  PROVE  WayTo(old, p, k, n)
<1>1. PICK w : Walked(mix, p, k, w) /\ w[k] = n
  BY DEF WayTo
<1> DEFINE S == {x \in Nat : x <= k => w[k - x] \notin New}
<1>2. 0 \in S
  BY <1>1
<1>3. ASSUME NEW l \in 1..k, w[l] \notin New PROVE w[l - 1] \notin New /\ Hop(old, p[l], w[l - 1], w[l])
  <2>1. w[l - 1] \in Nodes /\ Hop(mix, p[l], w[l - 1], w[l])
    BY <1>1 DEF Walked
  <2>2. QED BY <1>3, <2>1, HopWasThere
<1>4. ASSUME NEW x \in Nat, x \in S PROVE x + 1 \in S
  <2> SUFFICES ASSUME x + 1 <= k PROVE w[k - (x + 1)] \notin New
    OBVIOUS
  <2>1. k - x \in 1..k /\ w[k - x] \notin New /\ (k - x) - 1 = k - (x + 1)
    BY <1>4
  <2>2. QED BY <1>3, <2>1
<1>5. \A x \in Nat : x \in S
  <2> HIDE DEF S
  <2>1. QED BY <1>2, <1>4, AllNaturals
<1>6. ASSUME NEW l \in 1..k PROVE Hop(old, p[l], w[l - 1], w[l])
  <2>1. k - l \in Nat /\ k - l <= k /\ k - (k - l) = l
    OBVIOUS
  <2>2. w[l] \notin New
    BY <1>5, <2>1
  <2>3. QED BY <1>3, <2>2
<1>7. QED BY <1>1, <1>6 DEF WayTo, Walked

-----------------------------------------------------------------------------
\* What block k of file F holds.
Chunk(F, k) ==
  [u \in 1..BLOCK_UNITS |-> IF k * BLOCK_UNITS + u <= Len(F) THEN F[k * BLOCK_UNITS + u] ELSE NUL]

\* The file -a writes is in its blocks as far as it has come, and is whole when it saves.
Content ==
  /\ DOMAIN data = BlockIds
  /\ pc = "idle" => buffer = ZeroBlock
  /\ cmd.op = "add" =>
       /\ pc = "walk" => buffer = ZeroBlock /\ (cmd.path # << >> => Len(at.nodes) < Len(cmd.path))
       /\ pc = "write" =>
            /\ inodes[file.node].size = 0 => buffer = ZeroBlock
            /\ \A i \in Spots : i < inodes[file.node].size =>
                 data[Entry(inodes[file.node], i)] = Chunk(UserFiles[Last(cmd.path)], i)
       /\ pc = "save" /\ cmd.path # << >> => Stored(data, inodes[file.node]) = UserFiles[Last(cmd.path)]

\* Blocks and rounds: r rounds of b units for l units.
LEMMA RoundsCover ==
  ASSUME NEW b \in Nat \ {0}, NEW l \in Nat
  PROVE  /\ (l + b - 1) \div b \in Nat
         /\ l <= ((l + b - 1) \div b) * b
         /\ \A k \in Nat : k < (l + b - 1) \div b => k * b < l
         /\ l = 0 => (l + b - 1) \div b = 0
  OBVIOUS

LEMMA RoundsFull ==
  ASSUME NEW b \in Nat \ {0}, NEW l \in Nat, l <= b \/ l % b = 0, NEW k \in Nat \ {0}, k * b < l
  PROVE  k * b + b <= l
<1>1. ASSUME l <= b PROVE FALSE
  <2>1. \A x \in Nat \ {0} : b <= x * b
    OBVIOUS
  <2>2. b <= k * b
    BY <2>1
  <2> DEFINE c == k * b
  <2>3. c \in Nat
    OBVIOUS
  <2> HIDE DEF c
  <2>4. QED BY <1>1, <2>2, <2>3 DEF c
<1>2. ASSUME l % b = 0 PROVE k * b + b <= l
  <2> DEFINE q == l \div b
  <2>1. q \in Nat /\ l = q * b
    BY <1>2
  <2> HIDE DEF q
  <2>2. k + 1 <= q
    <3>1. ASSUME q <= k PROVE FALSE
      <4>1. \A x, y, z \in Nat : x <= y => x * z <= y * z
        OBVIOUS
      <4>2. q * b <= k * b
        BY <2>1, <3>1, <4>1
      <4>3. QED BY <2>1, <4>2
    <3>2. QED BY <2>1, <3>1
  <2>3. \A x, y, z \in Nat : x + 1 <= y => x * z + z <= y * z
    OBVIOUS
  <2>4. QED BY <2>1, <2>2, <2>3
<1>3. QED BY <1>1, <1>2

\* What -e prints of a block is what the file has there.
LEMMA ChunkPrinted ==
  ASSUME NEW Units, NUL \notin Units, NEW F \in Seq(Units), NEW k \in Nat, k * BLOCK_UNITS < Len(F)
  PROVE  LET c == IF k * BLOCK_UNITS + BLOCK_UNITS <= Len(F) THEN BLOCK_UNITS ELSE Len(F) - k * BLOCK_UNITS
         IN  c \in 1..BLOCK_UNITS /\ BeforeNul(Chunk(F, k)) = SubSeq(F, k * BLOCK_UNITS + 1, k * BLOCK_UNITS + c)
<1> DEFINE from == k * BLOCK_UNITS
           c == IF from + BLOCK_UNITS <= Len(F) THEN BLOCK_UNITS ELSE Len(F) - from
           block == Chunk(F, k)
           Z == {u \in 1..BLOCK_UNITS : block[u] = NUL} \union {BLOCK_UNITS + 1}
<1>1. BLOCK_UNITS \in Nat \ {0} /\ from \in Nat /\ from < Len(F) /\ Len(F) \in Nat
  BY SizesAssumption
<1>2. \A u \in 1..BLOCK_UNITS : block[u] = IF from + u <= Len(F) THEN F[from + u] ELSE NUL
  BY DEF Chunk
<1>3. block \in Seq(Units \cup {NUL}) /\ Len(block) = BLOCK_UNITS
  <2>1. \A u \in 1..BLOCK_UNITS : from + u <= Len(F) => F[from + u] \in Units
    BY <1>1
  <2>2. block \in [1..BLOCK_UNITS -> Units \cup {NUL}]
    <3>1. block = [u \in 1..BLOCK_UNITS |-> IF from + u <= Len(F) THEN F[from + u] ELSE NUL]
      BY DEF Chunk
    <3> HIDE DEF block, from
    <3>2. QED BY <2>1, <3>1
  <2> HIDE DEF block
  <2>3. QED BY <1>1, <2>2
<1> HIDE DEF from, block
<1>4. c \in 1..BLOCK_UNITS /\ from + c <= Len(F)
  BY <1>1
<1>5. ASSUME NEW u \in 1..BLOCK_UNITS PROVE block[u] = NUL <=> u > c
  <2>1. from + u <= Len(F) <=> u <= c
    BY <1>1
  <2>2. from + u <= Len(F) => F[from + u] \in Units
    BY <1>1
  <2> HIDE DEF c
  <2>3. QED BY <1>1, <1>2, <1>4, <2>1, <2>2
<1> HIDE DEF c
<1>6. Min(Z) = c + 1
  <2>1. \A z \in Z : z \in Nat /\ c + 1 <= z
    BY <1>1, <1>4, <1>5
  <2>2. c + 1 \in Z
    BY <1>1, <1>4, <1>5
  <2> HIDE DEF Z
  <2>3. \A z \in Z : (\A y \in Z : z =< y) => z = c + 1
    BY <1>4, <2>1, <2>2
  <2>4. QED BY <2>1, <2>2, <2>3 DEF Min
<1>7. BeforeNul(block) = SubSeq(block, 1, c)
  <2>1. BeforeNul(block) = SubSeq(block, 1, Min(Z) - 1)
    BY DEF BeforeNul
  <2> HIDE DEF Z
  <2>2. Min(Z) - 1 = c
    BY <1>1, <1>4, <1>6
  <2>3. QED BY <2>1, <2>2
<1>8. SubSeq(block, 1, c) = SubSeq(F, from + 1, from + c)
  <2>1. SubSeq(block, 1, c) = [u \in 1..c |-> block[u]]
    BY <1>1, <1>3, <1>4
  <2>2. SubSeq(F, from + 1, from + c) = [u \in 1..c |-> F[from + u]]
    BY <1>1, <1>4
  <2>3. \A u \in 1..c : block[u] = F[from + u]
    BY <1>1, <1>2, <1>4
  <2>4. QED BY <2>1, <2>2, <2>3
<1>9. QED BY <1>4, <1>7, <1>8 DEF c, from, block

\* The function that FlattenSeq is.
LEMMA FlattenIs ==
  ASSUME NEW n \in Nat \ {0}, NEW s, Len(s) = n,
         NEW g, g = [i \in 1..n |-> IF i = 1 THEN s[1] ELSE g[i - 1] \o s[i]]
  PROVE  FlattenSeq(s) = g[n]
<1> DEFINE Is(f) == f = [i \in 1..n |-> IF i = 1 THEN s[i] ELSE f[i - 1] \o s[i]]
           flatten == CHOOSE f : Is(f)
<1>1. FlattenSeq(s) = flatten[n]
  BY DEF FlattenSeq
<1>2. Is(g)
  OBVIOUS
<1>3. Is(flatten)
  BY <1>2
<1> HIDE DEF flatten
<1> DEFINE S == {x \in Nat : x + 1 <= n => flatten[x + 1] = g[x + 1]}
<1>4. 0 \in S
  BY <1>2, <1>3
<1>5. ASSUME NEW x \in Nat, x \in S PROVE x + 1 \in S
  <2> SUFFICES ASSUME (x + 1) + 1 <= n PROVE flatten[(x + 1) + 1] = g[(x + 1) + 1]
    OBVIOUS
  <2>1. (x + 1) + 1 \in 1..n /\ (x + 1) + 1 # 1 /\ ((x + 1) + 1) - 1 = x + 1 /\ flatten[x + 1] = g[x + 1]
    BY <1>5
  <2>2. flatten[(x + 1) + 1] = flatten[x + 1] \o s[(x + 1) + 1] /\ g[(x + 1) + 1] = g[x + 1] \o s[(x + 1) + 1]
    BY <1>2, <1>3, <2>1
  <2>3. QED BY <2>1, <2>2
<1> HIDE DEF S
<1>6. n - 1 \in S
  <2>1. \A x \in Nat : x \in S
    BY <1>4, <1>5, AllNaturals
  <2>2. n - 1 \in Nat
    OBVIOUS
  <2>3. QED BY <2>1, <2>2
<1>7. QED BY <1>1, <1>6 DEF S

\* The blocks of a file, printed one behind the other, are the file.
LEMMA BlocksAreFile ==
  ASSUME NEW Units, NUL \notin Units, NEW F \in Seq(Units), NEW blocks, NEW inode,
         inode.size = (Len(F) + BLOCK_UNITS - 1) \div BLOCK_UNITS,
         \A i \in Nat : i < inode.size => blocks[Entry(inode, i)] = Chunk(F, i)
  PROVE  Stored(blocks, inode) = F
<1> DEFINE r == inode.size
           b == BLOCK_UNITS
           l == Len(F)
           s == [i \in 1..r |-> BeforeNul(blocks[Entry(inode, i - 1)])]
           c(k) == IF k * b + b <= l THEN b ELSE l - k * b
           t(k) == IF k * b <= l THEN k * b ELSE l
           g == [i \in 1..r |-> SubSeq(F, 1, t(i))]
<1>1. b \in Nat \ {0} /\ l \in Nat /\ r \in Nat /\ l <= r * b /\ (\A k \in Nat : k < r => k * b < l) /\ (l = 0 => r = 0)
  <2>1. b \in Nat \ {0} /\ l \in Nat /\ r = (l + b - 1) \div b
    BY SizesAssumption
  <2> HIDE DEF b, l, r
  <2>2. QED BY <2>1, RoundsCover
<1>2. Stored(blocks, inode) = FlattenSeq(s) /\ Len(s) = r
  BY <1>1 DEF Stored
<1>3. CASE r = 0
  <2>1. l = 0
    BY <1>1, <1>3
  <2>2. FlattenSeq(s) = s
    BY <1>2, <1>3 DEF FlattenSeq
  <2>3. s = << >>
    BY <1>3
  <2>4. F = << >>
    BY <2>1
  <2>5. QED BY <1>2, <2>2, <2>3, <2>4
<1>4. CASE r # 0
  <2>1. ASSUME NEW k \in Nat, k < r PROVE s[k + 1] = SubSeq(F, k * b + 1, k * b + c(k)) /\ k * b < l /\ k * b \in Nat
    <3>1. k * b < l /\ k * b \in Nat
      BY <1>1, <2>1
    <3>2. s[k + 1] = BeforeNul(Chunk(F, k))
      BY <1>1, <2>1
    <3>3. QED BY <3>1, <3>2, ChunkPrinted
  <2>2. ASSUME NEW k \in Nat, k < r
        PROVE  /\ t(k + 1) = k * b + c(k) /\ k * b < t(k + 1) /\ t(k + 1) <= l /\ t(k + 1) \in Nat /\ t(k) = k * b
    <3>1. (k + 1) * b = k * b + b
      BY <1>1
    <3>2. k * b < l /\ k * b \in Nat
      BY <2>1, <2>2
    <3> DEFINE d == k * b
    <3> HIDE DEF d
    <3>3. t(k + 1) = IF d + b <= l THEN d + b ELSE l
      BY <3>1 DEF d
    <3>4. t(k) = d /\ c(k) = IF d + b <= l THEN b ELSE l - d
      BY <1>1, <3>2 DEF d
    <3> HIDE DEF t, c
    <3>5. /\ t(k + 1) = d + c(k) /\ d < t(k + 1) /\ t(k + 1) <= l /\ t(k + 1) \in Nat /\ t(k) = d
      <4>1. d \in Nat /\ d < l
        BY <3>2 DEF d
      <4>2. CASE d + b <= l
        <5>1. t(k + 1) = d + b /\ c(k) = b
          BY <3>3, <3>4, <4>2
        <5>2. QED BY <1>1, <3>4, <4>1, <4>2, <5>1
      <4>3. CASE ~(d + b <= l)
        <5>1. t(k + 1) = l /\ c(k) = l - d
          BY <3>3, <3>4, <4>3
        <5>2. QED BY <1>1, <3>4, <4>1, <4>3, <5>1
      <4>4. QED BY <4>2, <4>3
    <3>6. QED BY <3>5 DEF d
  <2>3. \A x, y \in Nat : x <= y /\ y <= l => SubSeq(F, 1, x) \o SubSeq(F, x + 1, y) = SubSeq(F, 1, y)
    <3> SUFFICES ASSUME NEW x \in Nat, NEW y \in Nat, x <= y, y <= l
                 PROVE  SubSeq(F, 1, x) \o SubSeq(F, x + 1, y) = SubSeq(F, 1, y)
      OBVIOUS
    <3>1. SubSeq(F, 1, x) \in Seq(Units) /\ SubSeq(F, x + 1, y) \in Seq(Units) /\ SubSeq(F, 1, y) \in Seq(Units)
      BY <1>1
    <3>2. Len(SubSeq(F, 1, x)) = x /\ Len(SubSeq(F, x + 1, y)) = y - x /\ Len(SubSeq(F, 1, y)) = y
      BY <1>1
    <3>3. QED BY <1>1, <3>1, <3>2
  <2>4. ASSUME NEW i \in 1..r PROVE SubSeq(F, 1, t(i)) = IF i = 1 THEN s[1] ELSE SubSeq(F, 1, t(i - 1)) \o s[i]
    <3>1. PICK k \in Nat : i = k + 1 /\ k < r
      <4>1. i - 1 \in Nat /\ i = (i - 1) + 1 /\ i - 1 < r
        BY <1>1
      <4>2. QED BY <4>1
    <3>2. s[i] = SubSeq(F, t(k) + 1, t(i)) /\ t(k) \in Nat /\ t(i) \in Nat /\ t(k) <= t(i) /\ t(i) <= l
      <4>1. s[i] = SubSeq(F, k * b + 1, k * b + c(k)) /\ k * b \in Nat
        BY <2>1, <3>1
      <4> HIDE DEF t, c, s
      <4>2. /\ t(k + 1) = k * b + c(k) /\ k * b < t(k + 1) /\ t(k + 1) <= l /\ t(k + 1) \in Nat /\ t(k) = k * b
        BY <2>2, <3>1
      <4> DEFINE d == k * b
                 e == k * b + c(k)
      <4> HIDE DEF d, e
      <4>3. s[i] = SubSeq(F, d + 1, e) /\ t(i) = e /\ t(k) = d /\ d \in Nat /\ e \in Nat /\ d < e /\ e <= l
        BY <3>1, <4>1, <4>2 DEF d, e
      <4>4. QED BY ONLY <4>3, SMTT(20)
    <3>3. CASE i = 1
      <4>1. k = 0
        BY <3>1, <3>3
      <4>2. t(k) = 0
        BY <1>1, <4>1
      <4> HIDE DEF t, s
      <4>3. QED BY <3>2, <3>3, <4>2
    <3>4. CASE i # 1
      <4>1. k = i - 1
        BY <3>1
      <4> HIDE DEF t, s
      <4>2. QED BY <2>3, <3>2, <3>4, <4>1
    <3>5. QED BY <3>3, <3>4
  <2> HIDE DEF t, s, c
  <2>5. \A i \in 1..r : g[i] = IF i = 1 THEN s[1] ELSE g[i - 1] \o s[i]
    <3> SUFFICES ASSUME NEW i \in 1..r PROVE g[i] = IF i = 1 THEN s[1] ELSE g[i - 1] \o s[i]
      OBVIOUS
    <3>1. i # 1 => i - 1 \in 1..r
      BY <1>1
    <3>2. QED BY <2>4, <3>1
  <2>6. g = [i \in 1..r |-> IF i = 1 THEN s[1] ELSE g[i - 1] \o s[i]]
    <3>1. g = [i \in 1..r |-> g[i]]
      OBVIOUS
    <3> HIDE DEF g
    <3>2. QED BY <2>5, <3>1
  <2>7. FlattenSeq(s) = g[r]
    <3>1. r \in Nat \ {0} /\ Len(s) = r
      BY <1>1, <1>2, <1>4
    <3> HIDE DEF g, r
    <3>2. QED BY ONLY <3>1, <2>6, FlattenIs, ZenonT(30)
  <2>8. g[r] = SubSeq(F, 1, t(r))
    <3>1. r \in 1..r
      BY <1>1, <1>4
    <3> HIDE DEF r
    <3>2. QED BY <3>1
  <2>9. t(r) = l
    <3>1. r - 1 \in Nat /\ r - 1 < r /\ (r - 1) + 1 = r
      BY <1>1, <1>4
    <3>2. t(r) <= l /\ t(r) \in Nat
      BY <2>2, <3>1
    <3>3. r * b \in Nat
      BY <1>1
    <3>4. QED BY <1>1, <3>2, <3>3 DEF t
  <2>10. SubSeq(F, 1, l) = F
    BY <1>1
  <2>11. QED BY <1>2, <2>7, <2>8, <2>9, <2>10
<1>5. QED BY <1>3, <1>4

-----------------------------------------------------------------------------
LEMMA ContentInit == Init => Content
  BY DEF Init, InitWith, Content, NoCommand

LEMMA ContentIdle ==
  ASSUME Idle, DOMAIN data' = BlockIds
  PROVE  Content'
<1>1. pc' = "idle" /\ cmd'.op # "add" /\ buffer' = ZeroBlock
  BY DEF Idle, NoCommand
<1>2. QED BY <1>1 DEF Content

LEMMA ContentRemove ==
  ASSUME Content, cmd.op = "remove", cmd' = cmd, DOMAIN data' = DOMAIN data, pc' # "idle"
  PROVE  Content'
  BY DEF Content

LEMMA ContentOpened ==
  ASSUME Inv, Content, NEW op, NEW path, Opened(op, path)
  PROVE  Content'
<1>1. /\ pc = "idle" /\ pc' = "walk" /\ UNCHANGED <<data, buffer>> /\ at' = AtRoot
      /\ cmd'.path = path /\ path \in Seq(Names)
  <2>1. << >> \in Seq(Names)
    OBVIOUS
  <2>2. QED BY <2>1, NamesAssumption DEF Opened
<1>2. path # << >> => 0 < Len(path)
  BY <1>1
<1>3. Len(at'.nodes) = 0
  BY <1>1 DEF AtRoot
<1>4. QED BY <1>1, <1>2, <1>3 DEF Content

\* The walk and the new directories.
LEMMA ContentWalk ==
  ASSUME Inv, Content, Entered \/ \E n, i : DirMade(n, i)
  PROVE  Content'
<1>1. /\ UNCHANGED <<data, cmd, buffer, pc>> /\ pc = "walk" /\ Len(at.nodes) < Len(cmd.path)
      /\ at'.nodes = Append(at.nodes, at.node)
      /\ cmd.op = "add" => Len(at.nodes) + 1 # Len(cmd.path)
      /\ at.nodes \in Seq(Nodes) /\ cmd.path \in Seq(Names)
  <2>1. at.nodes \in Seq(Nodes) /\ cmd.path \in Seq(Names)
    BY DEF Inv, Typed
  <2>2. CASE Entered
    BY <2>1, <2>2 DEF Entered
  <2>3. CASE \E n, i : DirMade(n, i)
    BY <2>1, <2>3 DEF DirMade
  <2>4. QED BY <2>2, <2>3
<1>2. cmd.op = "add" => Len(at'.nodes) < Len(cmd.path)
  BY <1>1
<1>3. QED BY <1>1, <1>2 DEF Content

LEMMA ContentFileMade ==
  ASSUME Inv, Content, NEW n, NEW i, FileMade(n, i)
  PROVE  Content'
<1>1. /\ UNCHANGED <<data, cmd, buffer>> /\ pc = "walk" /\ pc' = "write" /\ cmd.op = "add" /\ file'.node = n
      /\ n \in Nodes /\ inodes'[n].size = 0
  BY MemoryFacts DEF FileMade, FileAdded, Shaped
<1>2. \A j \in Spots : ~(j < inodes'[file'.node].size)
  BY <1>1, SizesAssumption DEF Spots
<1>3. QED BY <1>1, <1>2 DEF Content

\* Each block the file gets holds its part of the user's file.
LEMMA ContentBlockWritten ==
  ASSUME FilesFit(UserFiles), Inv, Neat, Content, NEW b, BlockWritten(b)
  PROVE  Content'
<1> DEFINE f == file.node
           k == inodes[f].size
           name == Last(cmd.path)
           F == UserFiles[name]
           l == Len(F)
<1>1. /\ UNCHANGED <<cmd, file, pc>> /\ cmd.op = "add" /\ pc = "write" /\ f \in Nodes /\ k \in Spots
      /\ k < Rounds(name) /\ b \in BlockIds /\ b # 0 /\ bitmap[b] = FREE
      /\ data' = [data EXCEPT ![b] = buffer']
      /\ inodes'[f].size = k + 1
      /\ \A j \in Spots : Entry(inodes'[f], j) = IF j = k THEN b ELSE Entry(inodes[f], j)
      /\ inodes[f].type = TYPE_FILE /\ name \in DOMAIN UserFiles
  BY DEF BlockWritten, EntrySet, Inv, Typed, Writing
<1>2. buffer' = [u \in 1..BLOCK_UNITS |-> IF k * BLOCK_UNITS + u <= l THEN F[k * BLOCK_UNITS + u] ELSE buffer[u]]
  BY DEF BlockWritten
<1>3. /\ DOMAIN data = BlockIds
      /\ k = 0 => buffer = ZeroBlock
      /\ \A j \in Spots : j < k => data[Entry(inodes[f], j)] = Chunk(F, j)
  BY <1>1 DEF Content
<1>4. ASSUME NEW j \in Spots PROVE Entry(inodes[f], j) # b
  <2>1. Entry(inodes[f], j) # 0 => bitmap[Entry(inodes[f], j)] = USED
    BY <1>1, MemoryFacts DEF Good, Owned
  <2>2. QED BY <1>1, <2>1, Distinct
<1>5. buffer' = Chunk(F, k)
  <2>1. CASE k = 0
    <3>1. buffer = ZeroBlock
      BY <1>3, <2>1
    <3>2. QED BY <1>2, <3>1 DEF Chunk, ZeroBlock
  <2>2. CASE k # 0
    <3>1. /\ BLOCK_UNITS \in Nat \ {0} /\ l \in Nat /\ k \in Nat \ {0} /\ k < (l + BLOCK_UNITS - 1) \div BLOCK_UNITS
          /\ l <= BLOCK_UNITS \/ l % BLOCK_UNITS = 0
      <4>1. l \in Nat /\ (l <= BLOCK_UNITS \/ l % BLOCK_UNITS = 0)
        <5>1. l <= BLOCK_UNITS \/ l % BLOCK_UNITS = 0
          BY <1>1 DEF FilesFit
        <5>2. l \in Nat
          <6>1. PICK Units : F \in Seq(Units)
            BY <1>1 DEF FilesFit
          <6>2. QED BY <6>1
        <5>3. QED BY <5>1, <5>2
      <4>2. QED BY <1>1, <2>2, <4>1, SizesAssumption DEF Spots, Rounds
    <3> DEFINE from == k * BLOCK_UNITS
    <3> HIDE DEF k, l
    <3>2. from < l
      BY <3>1, RoundsCover
    <3>3. from + BLOCK_UNITS <= l /\ from \in Nat
      <4>1. from \in Nat
        BY <3>1
      <4>2. k * BLOCK_UNITS < l
        BY <3>2
      <4>3. k * BLOCK_UNITS + BLOCK_UNITS <= l
        BY ONLY <3>1, <4>2, RoundsFull
      <4>4. QED BY <4>1, <4>3
    <3> HIDE DEF from
    <3>4. \A u \in 1..BLOCK_UNITS : from + u <= l
      BY <3>1, <3>3
    <3> HIDE DEF F
    <3>5. buffer' = [u \in 1..BLOCK_UNITS |-> IF from + u <= l THEN F[from + u] ELSE buffer[u]]
      BY <1>2 DEF from
    <3>6. Chunk(F, k) = [u \in 1..BLOCK_UNITS |-> IF from + u <= l THEN F[from + u] ELSE NUL]
      BY DEF Chunk, from, l
    <3>7. QED BY <3>4, <3>5, <3>6
  <2>3. QED BY <2>1, <2>2
<1>6. ASSUME NEW j \in Spots, j < k + 1 PROVE data'[Entry(inodes'[f], j)] = Chunk(F, j)
  <2>1. CASE j = k
    BY <1>1, <1>3, <1>5, <2>1
  <2>2. CASE j # k
    <3>1. j < k
      BY <1>1, <1>6, <2>2, SizesAssumption DEF Spots
    <3>2. Entry(inodes'[f], j) = Entry(inodes[f], j) /\ Entry(inodes[f], j) \in BlockIds
      BY <1>1, <2>2, MemoryFacts, EntryId
    <3>3. QED BY <1>1, <1>3, <1>4, <3>1, <3>2
  <2>3. QED BY <2>1, <2>2
<1>7. k + 1 # 0 /\ DOMAIN data' = BlockIds
  BY <1>1, <1>3, SizesAssumption DEF Spots
<1>8. /\ pc' = "write" /\ cmd' = cmd /\ file' = file
      /\ inodes'[file'.node].size # 0
      /\ \A j \in Spots : j < inodes'[file'.node].size => data'[Entry(inodes'[file'.node], j)] = Chunk(UserFiles[Last(cmd'.path)], j)
  BY <1>1, <1>6, <1>7
<1> HIDE DEF f, k, name, F, l
<1>9. QED BY <1>7, <1>8 DEF Content

\* With all its blocks the file is whole.
LEMMA ContentFileLinked ==
  ASSUME FilesFit(UserFiles), Inv, Neat, Content, FileLinked
  PROVE  Content'
<1> DEFINE f == file.node
           name == Last(cmd.path)
           F == UserFiles[name]
<1>1. /\ UNCHANGED <<data, cmd, file>> /\ cmd.op = "add" /\ pc = "write" /\ pc' = "save" /\ f \in Nodes
      /\ inodes[f].size = Rounds(name) /\ inodes[f].type = TYPE_FILE /\ name \in DOMAIN UserFiles
      /\ inodes[at.node].type = TYPE_DIR
      /\ \A m \in Nodes : m # at.node => inodes'[m] = inodes[m]
  BY DEF FileLinked, Renamed, Inv, Typed, Writing, Adding
<1>2. inodes'[f] = inodes[f]
  BY <1>1, Distinct
<1>3. inodes[f].size \in 0..MAX_DIRECT + 1
  BY <1>1 DEF Neat, Tidy
<1>4. ASSUME NEW i \in Nat, i < inodes[f].size PROVE data[Entry(inodes[f], i)] = Chunk(F, i)
  <2>1. i \in Spots
    BY <1>3, <1>4, SizesAssumption DEF Spots
  <2>2. QED BY <1>1, <1>4, <2>1 DEF Content
<1>5. PICK Units : NUL \notin Units /\ F \in Seq(Units)
  BY <1>1 DEF FilesFit
<1>6. inodes[f].size = (Len(F) + BLOCK_UNITS - 1) \div BLOCK_UNITS
  BY <1>1 DEF Rounds
<1>7. Stored(data, inodes[f]) = F
  <2> DEFINE inode == inodes[f]
  <2>1. inode.size = (Len(F) + BLOCK_UNITS - 1) \div BLOCK_UNITS
    BY <1>6
  <2>2. \A i \in Nat : i < inode.size => data[Entry(inode, i)] = Chunk(F, i)
    BY <1>4
  <2> HIDE DEF inode, F
  <2>3. Stored(data, inode) = F
    BY ONLY <1>5, <2>1, <2>2, BlocksAreFile
  <2>4. QED BY <2>3 DEF inode
<1>8. Stored(data', inodes'[file'.node]) = UserFiles[Last(cmd'.path)] /\ DOMAIN data' = BlockIds
  BY <1>1, <1>2, <1>7 DEF Content
<1>9. QED BY <1>1, <1>8 DEF Content

LEMMA ContentSettled ==
  ASSUME Inv, Content, Settled
  PROVE  Content'
<1>1. UNCHANGED <<data, cmd>> /\ pc = "walk" /\ pc' = "save" /\ (cmd.op = "add" => Len(at.nodes) = Len(cmd.path))
  BY DEF Settled
<1>2. Len(at.nodes) \in Nat
  BY DEF Inv, Typed
<1>3. cmd.op = "add" => cmd.path = << >>
  BY <1>1, <1>2 DEF Content
<1>4. QED BY <1>1, <1>3 DEF Content

LEMMA ContentWritten ==
  ASSUME Inv, Content, Written
  PROVE  Content'
<1>1. UNCHANGED <<data, inodes, pc, cmd, file>> /\ pc = "save"
  BY DEF Written
<1>2. QED BY <1>1 DEF Content

LEMMA ContentStep ==
  ASSUME FilesFit(UserFiles), Inv, Neat, Content, [Next]_vars
  PROVE  Content'
<1>1. CASE UNCHANGED vars
  BY <1>1 DEF vars, Content
<1>2. CASE Dropped \/ LastWritten
  <2>1. Idle /\ data' = data
    BY <1>2 DEF Dropped, LastWritten
  <2>2. QED BY <2>1, ContentIdle DEF Content
<1>3. CASE Stopped \/ FreeingBegun \/ (\E i : ChildEntered(i)) \/ (\E i : BlockFreed(i)) \/ (\E i : ChildFreed(i))
             \/ (\E i : TargetFreed(i)) \/ (\E p, i : DirFreed(p, i))
  <2>1. cmd.op = "remove"
    BY <1>3 DEF Stopped, FreeingBegun, ChildEntered, BlockFreed, ChildFreed, TargetFreed, DirFreed, Inv, Phased
  <2>2. cmd' = cmd /\ DOMAIN data' = DOMAIN data /\ pc' # "idle"
    BY <1>3 DEF Stopped, FreeingBegun, ChildEntered, BlockFreed, ChildFreed, TargetFreed, DirFreed, InodeFreed
  <2>3. QED BY <2>1, <2>2, ContentRemove
<1>4. QED BY <1>1, <1>2, <1>3, StepEffect, ContentOpened, ContentWalk, ContentFileMade, ContentBlockWritten,
         ContentFileLinked, ContentSettled, ContentWritten DEF Effect

\* A file that comes into sight with a write of -a is whole, and stays so, for images of
\* any size: it is the file the command adds, for the others were there before, and all
\* its blocks are written before the save begins.
THEOREM AddShowsWholeFiles ==
  ASSUME FilesFit(UserFiles)
  PROVE  Spec => AddedFilesWhole
<1>1. ASSUME Inv, Neat, Growing, Content, Inv', [Next]_vars, cmd.op = "add",
             NEW f \in FilesOf(image.inodes)' \ FilesOf(image.inodes)
      PROVE  f.content = UserFiles[Last(cmd.path)]
  <2> DEFINE ins == image.inodes
             more == image'.inodes
  <2>1. PICK p \in Paths : \E n \in Lookup(more, p) : more[n].type = TYPE_FILE /\ f = [path |-> p, content |-> Stored(data', more[n])]
    BY <1>1 DEF FilesOf
  <2>2. PICK n \in Lookup(more, p) : more[n].type = TYPE_FILE /\ f = [path |-> p, content |-> Stored(data', more[n])]
    BY <2>1
  <2>3. ins \in Tables /\ more \in Tables /\ Len(p) \in Nat
    BY <1>1, ImageFacts, NamesAssumption DEF Inv, Typed, Images
  <2>4. n \in Nodes /\ WayTo(more, p, Len(p), n)
    BY <2>2, <2>3, LookupIsWay
  <2>5. ASSUME n \in Lookup(ins, p), ins[n].type = TYPE_FILE, Stored(data, ins[n]) = Stored(data', more[n])
        PROVE  FALSE
    <3>1. f \in FilesOf(ins)
      BY <2>2, <2>5, FileFound
    <3>2. QED BY <1>1, <3>1
  <2>6. CASE more = ins /\ data' = data
    BY <2>2, <2>5, <2>6
  <2>7. CASE \E b : BlockWritten(b)
    <3>1. more = ins
      BY <2>7 DEF BlockWritten
    <3>2. Stored(data', ins[n]) = Stored(data, ins[n])
      BY <1>1, <2>2, <2>4, <2>7, <3>1, BlockWrittenStored
    <3>3. QED BY <2>2, <2>5, <3>1, <3>2
  <2>8. CASE Written \/ LastWritten
    <3>1. Save /\ data' = data /\ pc = "save" /\ (cmd'.op = "add" \/ cmd'.op = "none")
      BY <1>1, <2>8 DEF Written, LastWritten, Idle, NoCommand
    <3>2. \A m \in Nodes : more[m] = ins[m] \/ more[m] = inodes[m]
      BY <1>1, <3>1, SavedMixes
    <3>3. PICK New : Grown(ins, inodes, New) /\ Fresh(New)
      BY <1>1 DEF Growing
    <3>4. Before(ins, more, New)
      <4> HIDE DEF ins, more
      <4>1. QED BY <3>2, <3>3, GrownBefore
    <3>5. CASE n \notin New
      <4>1. Good(image'.bitmap, more)
        BY <1>1, <3>1 DEF Inv, ImageGood
      <4>2. WayTo(ins, p, Len(p), n)
        <5> HIDE DEF ins, more
        <5>1. QED BY <2>3, <2>4, <3>4, <3>5, <4>1, WayWasThere
      <4>3. n \in Lookup(ins, p)
        BY <2>3, <2>4, <4>2, LookupIsWay
      <4>4. ins[n].type = TYPE_FILE /\ inodes[n] = ins[n]
        BY <2>2, <2>4, <3>2, <3>3, <3>5 DEF Grown
      <4>5. more[n] = ins[n]
        BY <2>4, <3>2, <4>4
      <4>6. QED BY <2>5, <3>1, <4>3, <4>4, <4>5
    <3>6. CASE n \in New
      <4>1. more[n] = inodes[n]
        BY <2>2, <2>4, <3>2, <3>3, <3>6, Distinct DEF Grown
      <4>2. n = file.node /\ cmd.path # << >>
        BY <2>2, <2>4, <3>3, <3>6, <4>1 DEF Fresh
      <4>3. Stored(data, inodes[n]) = UserFiles[Last(cmd.path)]
        BY <1>1, <3>1, <4>2 DEF Content
      <4>4. QED BY <2>2, <3>1, <4>1, <4>3
    <3>7. QED BY <3>5, <3>6
  <2>9. CASE Dropped \/ Entered \/ (\E i, j : DirMade(i, j)) \/ (\E i, j : FileMade(i, j)) \/ FileLinked \/ Settled
    BY <2>6, <2>9 DEF Dropped, Entered, DirMade, FileMade, FileLinked, Settled
  <2>10. CASE \E op, path : Opened(op, path)
    BY <2>6, <2>10 DEF Opened
  <2>11. CASE UNCHANGED vars
    BY <2>6, <2>11 DEF vars
  <2>12. CASE Stopped \/ FreeingBegun \/ (\E i : ChildEntered(i)) \/ (\E i : BlockFreed(i)) \/ (\E i : ChildFreed(i))
             \/ (\E i : TargetFreed(i)) \/ (\E q, i : DirFreed(q, i))
    <3>1. cmd.op = "remove"
      BY <1>1, <2>12 DEF Stopped, FreeingBegun, ChildEntered, BlockFreed, ChildFreed, TargetFreed, DirFreed, Inv, Phased
    <3>2. QED BY <1>1, <3>1
  <2>13. QED BY <1>1, <2>7, <2>8, <2>9, <2>10, <2>11, <2>12, StepEffect DEF Effect
<1>2. Init => Inv /\ Neat /\ Growing /\ Content
  BY InvInit, NeatInit, GrowingInit, ContentInit
<1>3. Inv /\ Neat /\ Growing /\ Content /\ [Next]_vars => (Inv /\ Neat /\ Growing /\ Content)'
  BY InvNext, NeatStep, GrowingStep, ContentStep
<1>4. Inv /\ Neat /\ Growing /\ Content /\ Inv' /\ [Next]_vars =>
        [cmd.op = "add" => \A f \in FilesOf(image.inodes)' \ FilesOf(image.inodes) : f.content = UserFiles[Last(cmd.path)]]_vars
  BY <1>1
<1>5. QED BY <1>2, <1>3, <1>4, PTL DEF Spec, AddedFilesWhole
=============================================================================
