---------------------------- MODULE FileFsTables ----------------------------
(*****************************************************************************)
(* What the steps of FileFs do to a bitmap and a table of inodes, and that   *)
(* they keep them sound: the part of the proofs that is not about which      *)
(* step a command takes when.  The tables are seen through the type and      *)
(* size of an inode and its entries, Entry(inode, i), and through the ways   *)
(* that paths take in them.                                                  *)
(*****************************************************************************)
EXTENDS FileFs, WellFoundedInduction, SequenceTheorems, TLAPS

FileNames == Names \union {NoName, "root"}
Node == [name : FileNames, type : Types, size : Int, direct : [Slots -> BlockIds], indirect : BlockIds]
Tables == [Nodes -> Node]
Bitmaps == [BlockIds -> {FREE, USED}]
Spots == 0..MAX_DIRECT

\* Every entry of a file is a block of the data, used, and its own.
Apart(ins) ==
  \A n, m \in Nodes, i, j \in Spots :
       ins[n].type = TYPE_FILE /\ ins[m].type = TYPE_FILE /\ Entry(ins[n], i) # 0 /\ Entry(ins[n], i) = Entry(ins[m], j) =>
       n = m /\ i = j

Owned(bits, ins) ==
  /\ \A n \in Nodes, i \in Spots : ins[n].type = TYPE_FILE /\ Entry(ins[n], i) # 0 =>
       Entry(ins[n], i) >= data_start /\ bits[Entry(ins[n], i)] = USED
  /\ Apart(ins)

\* What a free inode, a directory and the root look like.
Shaped(ins) ==
  /\ ins[0].type = TYPE_DIR
  /\ \A n \in Nodes : ins[n].type = TYPE_FREE => ins[n].size = 0
  /\ \A n \in Nodes, i \in Spots : ins[n].type = TYPE_FREE => Entry(ins[n], i) = 0
  /\ \A n \in Nodes, i \in Spots : ins[n].type = TYPE_DIR => Entry(ins[n], i) < MAX_INODES
  /\ \A n \in Nodes : ins[n].type = TYPE_DIR => Entry(ins[n], MAX_DIRECT) = 0

MetaUsed(bits) == \A b \in BlockIds : b < data_start => bits[b] = USED

\* Every link leads to an inode in use, and no two to the same.
Linked(ins) ==
  /\ \A n \in Nodes, i \in Spots : ins[n].type = TYPE_DIR /\ Entry(ins[n], i) # 0 =>
       ins[Entry(ins[n], i)].type # TYPE_FREE
  /\ \A n, m \in Nodes, i, j \in Spots :
       ins[n].type = TYPE_DIR /\ ins[m].type = TYPE_DIR /\ Entry(ins[n], i) # 0 /\ Entry(ins[n], i) = Entry(ins[m], j) =>
       n = m /\ i = j

\* Every used block of the data is an entry of a file.
Covered(bits, ins) ==
  \A b \in BlockIds : bits[b] = USED /\ b >= data_start =>
    \E n \in Nodes, i \in Spots : ins[n].type = TYPE_FILE /\ Entry(ins[n], i) = b

\* What holds of the tables until a save is cut short.
Kept(bits, ins) == Linked(ins) /\ Covered(bits, ins)

Good(bits, ins) == MetaUsed(bits) /\ Owned(bits, ins) /\ Shaped(ins)

\* What a step makes of the table ins: a new directory n under entry k of p; a
\* new file n; b in entry k of n, whose size becomes c; inode n freed, and entry
\* k of p, which led to it, cleared.
DirAdded(ins, new, n, p, k) ==
  /\ new \in Tables
  /\ \A m \in Nodes : new[m].type = IF m = n THEN TYPE_DIR ELSE ins[m].type
  /\ \A m \in Nodes : m # p => new[m].size = ins[m].size
  /\ \A m \in Nodes, j \in Spots : Entry(new[m], j) = IF m = p /\ j = k THEN n ELSE Entry(ins[m], j)
FileAdded(ins, new, n) ==
  /\ new \in Tables
  /\ \A m \in Nodes : new[m].type = IF m = n THEN TYPE_FILE ELSE ins[m].type
  /\ \A m \in Nodes : new[m].size = ins[m].size
  /\ \A m \in Nodes, j \in Spots : Entry(new[m], j) = Entry(ins[m], j)
EntrySet(ins, new, n, k, b, c) ==
  /\ new \in Tables
  /\ \A m \in Nodes : new[m].type = ins[m].type
  /\ \A m \in Nodes : new[m].size = IF m = n THEN c ELSE ins[m].size
  /\ \A m \in Nodes, j \in Spots : Entry(new[m], j) = IF m = n /\ j = k THEN b ELSE Entry(ins[m], j)
Released(ins, new, n, p, k) ==
  /\ new \in Tables
  /\ \A m \in Nodes : new[m].type = IF m = n THEN TYPE_FREE ELSE ins[m].type
  /\ \A m \in Nodes : m # p => new[m].size = IF m = n THEN 0 ELSE ins[m].size
  /\ \A m \in Nodes, j \in Spots : Entry(new[m], j) = IF m = p /\ j = k THEN 0 ELSE Entry(ins[m], j)

-----------------------------------------------------------------------------
\* The sizes, and the sets of numbers that come of them.
LEMMA Sizes ==
  /\ {BLOCK_UNITS, MAX_INODES, MAX_DIRECT, BITMAP_BLOCKS, DATA_BLOCKS} \subseteq Nat \ {0}
  /\ MAX_BLOCKS \in Nat /\ data_start \in Nat /\ data_start < MAX_BLOCKS /\ MAX_INODES < data_start
  /\ Slots \subseteq Spots /\ MAX_DIRECT \in Spots /\ MAX_DIRECT \notin Slots /\ Nodes \subseteq BlockIds
  /\ 0 \in Nodes /\ 0 \in BlockIds
  BY SizesAssumption DEF MAX_BLOCKS, data_start, inode_start, Slots, Spots, Nodes, BlockIds

\* The constants of the code that are told apart.
LEMMA Distinct == TYPE_FREE # TYPE_FILE /\ TYPE_FREE # TYPE_DIR /\ TYPE_FILE # TYPE_DIR /\ FREE # USED
  BY DEF FREE, USED, TYPE_FREE, TYPE_FILE, TYPE_DIR

\* The updates of the inodes, one field at a time.
SetName(ins, n, v) == [ins EXCEPT ![n].name = v]

\* A name changes nothing that the proofs look at.
LEMMA SetNameTable ==
  ASSUME NEW ins \in Tables, NEW n \in Nodes, NEW v \in FileNames
  PROVE  /\ SetName(ins, n, v) \in Tables
         /\ \A m \in Nodes : SetName(ins, n, v)[m].type = ins[m].type /\ SetName(ins, n, v)[m].size = ins[m].size
         /\ \A m \in Nodes, j \in Spots : Entry(SetName(ins, n, v)[m], j) = Entry(ins[m], j)
<1>1. SetName(ins, n, v) \in Tables
  BY DEF Tables, Node, SetName
<1>2. \A m \in Nodes : /\ SetName(ins, n, v)[m].type = ins[m].type
                       /\ SetName(ins, n, v)[m].size = ins[m].size
                       /\ SetName(ins, n, v)[m].indirect = ins[m].indirect
                       /\ \A j \in Slots : SetName(ins, n, v)[m].direct[j] = ins[m].direct[j]
  BY DEF Tables, Node, SetName
<1>3. \A m \in Nodes, j \in Spots : Entry(SetName(ins, n, v)[m], j) = Entry(ins[m], j)
  BY <1>2, Sizes DEF Entry, Spots, Slots
<1>4. QED BY <1>1, <1>2, <1>3

SetType(ins, n, v) == [ins EXCEPT ![n].type = v]

\* The type of one inode.
LEMMA SetTypeTable ==
  ASSUME NEW ins \in Tables, NEW n \in Nodes, NEW v \in Types
  PROVE  /\ SetType(ins, n, v) \in Tables
         /\ \A m \in Nodes : SetType(ins, n, v)[m].type = (IF m = n THEN v ELSE ins[m].type) /\ SetType(ins, n, v)[m].size = ins[m].size
         /\ \A m \in Nodes, j \in Spots : Entry(SetType(ins, n, v)[m], j) = Entry(ins[m], j)
<1>1. SetType(ins, n, v) \in Tables
  BY DEF Tables, Node, SetType
<1>2. \A m \in Nodes : /\ SetType(ins, n, v)[m].type = (IF m = n THEN v ELSE ins[m].type)
                       /\ SetType(ins, n, v)[m].size = ins[m].size
                       /\ SetType(ins, n, v)[m].indirect = ins[m].indirect
                       /\ \A j \in Slots : SetType(ins, n, v)[m].direct[j] = ins[m].direct[j]
  BY DEF Tables, Node, SetType
<1>3. \A m \in Nodes, j \in Spots : Entry(SetType(ins, n, v)[m], j) = Entry(ins[m], j)
  BY <1>2, Sizes DEF Entry, Spots, Slots
<1>4. QED BY <1>1, <1>2, <1>3

SetSize(ins, n, v) == [ins EXCEPT ![n].size = v]

\* The size of one inode.
LEMMA SetSizeTable ==
  ASSUME NEW ins \in Tables, NEW n \in Nodes, NEW v \in Int
  PROVE  /\ SetSize(ins, n, v) \in Tables
         /\ \A m \in Nodes : SetSize(ins, n, v)[m].type = ins[m].type /\ SetSize(ins, n, v)[m].size = (IF m = n THEN v ELSE ins[m].size)
         /\ \A m \in Nodes, j \in Spots : Entry(SetSize(ins, n, v)[m], j) = Entry(ins[m], j)
<1>1. SetSize(ins, n, v) \in Tables
  BY DEF Tables, Node, SetSize
<1>2. \A m \in Nodes : /\ SetSize(ins, n, v)[m].type = ins[m].type
                       /\ SetSize(ins, n, v)[m].size = (IF m = n THEN v ELSE ins[m].size)
                       /\ SetSize(ins, n, v)[m].indirect = ins[m].indirect
                       /\ \A j \in Slots : SetSize(ins, n, v)[m].direct[j] = ins[m].direct[j]
  BY DEF Tables, Node, SetSize
<1>3. \A m \in Nodes, j \in Spots : Entry(SetSize(ins, n, v)[m], j) = Entry(ins[m], j)
  BY <1>2, Sizes DEF Entry, Spots, Slots
<1>4. QED BY <1>1, <1>2, <1>3

SetDirect(ins, n, i, v) == [ins EXCEPT ![n].direct[i] = v]

\* One entry in direct[] of one inode.
LEMMA SetDirectTable ==
  ASSUME NEW ins \in Tables, NEW n \in Nodes, NEW i \in Slots, NEW v \in BlockIds
  PROVE  /\ SetDirect(ins, n, i, v) \in Tables
         /\ \A m \in Nodes : SetDirect(ins, n, i, v)[m].type = ins[m].type /\ SetDirect(ins, n, i, v)[m].size = ins[m].size
         /\ \A m \in Nodes, j \in Spots : Entry(SetDirect(ins, n, i, v)[m], j) = IF m = n /\ j = i THEN v ELSE Entry(ins[m], j)
<1>1. SetDirect(ins, n, i, v) \in Tables
  BY DEF Tables, Node, SetDirect
<1>2. \A m \in Nodes : /\ SetDirect(ins, n, i, v)[m].type = ins[m].type
                       /\ SetDirect(ins, n, i, v)[m].size = ins[m].size
                       /\ SetDirect(ins, n, i, v)[m].indirect = ins[m].indirect
                       /\ \A j \in Slots : SetDirect(ins, n, i, v)[m].direct[j] = IF m = n /\ j = i THEN v ELSE ins[m].direct[j]
  BY DEF Tables, Node, SetDirect
<1>3. \A m \in Nodes, j \in Spots : Entry(SetDirect(ins, n, i, v)[m], j) = IF m = n /\ j = i THEN v ELSE Entry(ins[m], j)
  BY <1>2, Sizes DEF Entry, Spots, Slots
<1>4. QED BY <1>1, <1>2, <1>3

SetIndirect(ins, n, v) == [ins EXCEPT ![n].indirect = v]

\* The entry behind direct[] of one inode.
LEMMA SetIndirectTable ==
  ASSUME NEW ins \in Tables, NEW n \in Nodes, NEW v \in BlockIds
  PROVE  /\ SetIndirect(ins, n, v) \in Tables
         /\ \A m \in Nodes : SetIndirect(ins, n, v)[m].type = ins[m].type /\ SetIndirect(ins, n, v)[m].size = ins[m].size
         /\ \A m \in Nodes, j \in Spots : Entry(SetIndirect(ins, n, v)[m], j) = IF m = n /\ j = MAX_DIRECT THEN v ELSE Entry(ins[m], j)
<1>1. SetIndirect(ins, n, v) \in Tables
  BY DEF Tables, Node, SetIndirect
<1>2. \A m \in Nodes : /\ SetIndirect(ins, n, v)[m].type = ins[m].type
                       /\ SetIndirect(ins, n, v)[m].size = ins[m].size
                       /\ SetIndirect(ins, n, v)[m].indirect = IF m = n THEN v ELSE ins[m].indirect
                       /\ \A j \in Slots : SetIndirect(ins, n, v)[m].direct[j] = ins[m].direct[j]
  BY DEF Tables, Node, SetIndirect
<1>3. \A m \in Nodes, j \in Spots : Entry(SetIndirect(ins, n, v)[m], j) = IF m = n /\ j = MAX_DIRECT THEN v ELSE Entry(ins[m], j)
  BY <1>2, Sizes DEF Entry, Spots, Slots
<1>4. QED BY <1>1, <1>2, <1>3

-----------------------------------------------------------------------------
\* add_dir makes a directory and links it.
LEMMA AddDirTable ==
  ASSUME inodes \in Tables, NEW n \in Nodes, NEW p \in Nodes, NEW i \in Slots, NEW a \in Names,
         NEW new, new = [inodes EXCEPT ![n].name = a, ![n].type = TYPE_DIR,
                                       ![p].size = @ + 1, ![p].direct[i] = n]
  PROVE  DirAdded(inodes, new, n, p, i)
<1> DEFINE t1 == SetName(inodes, n, a)
           t2 == SetType(t1, n, TYPE_DIR)
           t3 == SetSize(t2, p, inodes[p].size + 1)
           t4 == SetDirect(t3, p, i, n)
<1>1. t4 = new
  BY DEF SetName, SetType, SetSize, SetDirect, SetIndirect
<1>2. a \in FileNames /\ TYPE_DIR \in Types /\ inodes[p].size + 1 \in Int /\ n \in BlockIds
  BY Sizes DEF FileNames, Types, Tables, Node
<1> HIDE DEF t1, t2, t3, t4
<1>3. /\ t1 \in Tables
      /\ \A m \in Nodes : t1[m].type = inodes[m].type /\ t1[m].size = inodes[m].size
      /\ \A m \in Nodes, j \in Spots : Entry(t1[m], j) = Entry(inodes[m], j)
  BY <1>2, SetNameTable DEF t1
<1>4. /\ t2 \in Tables
      /\ \A m \in Nodes : t2[m].type = (IF m = n THEN TYPE_DIR ELSE t1[m].type) /\ t2[m].size = t1[m].size
      /\ \A m \in Nodes, j \in Spots : Entry(t2[m], j) = Entry(t1[m], j)
  BY <1>2, <1>3, SetTypeTable DEF t2
<1>5. /\ t3 \in Tables
      /\ \A m \in Nodes : t3[m].type = t2[m].type /\ (m # p => t3[m].size = t2[m].size)
      /\ \A m \in Nodes, j \in Spots : Entry(t3[m], j) = Entry(t2[m], j)
  BY <1>2, <1>4, SetSizeTable DEF t3
<1>6. /\ t4 \in Tables
      /\ \A m \in Nodes : t4[m].type = t3[m].type /\ t4[m].size = t3[m].size
      /\ \A m \in Nodes, j \in Spots : Entry(t4[m], j) = IF m = p /\ j = i THEN n ELSE Entry(t3[m], j)
  BY <1>2, <1>5, SetDirectTable DEF t4
<1>7. \A m \in Nodes : t4[m].type = IF m = n THEN TYPE_DIR ELSE inodes[m].type
  BY <1>3, <1>4, <1>5, <1>6
<1>8. \A m \in Nodes : m # p => t4[m].size = inodes[m].size
  BY <1>3, <1>4, <1>5, <1>6
<1>9. \A m \in Nodes, j \in Spots : Entry(t4[m], j) = IF m = p /\ j = i THEN n ELSE Entry(inodes[m], j)
  BY <1>3, <1>4, <1>5, <1>6
<1>10. QED BY <1>1, <1>6, <1>7, <1>8, <1>9 DEF DirAdded

\* add_file makes a file that nothing links yet.
LEMMA AddFileTable ==
  ASSUME inodes \in Tables, NEW n \in Nodes, NEW a \in Names,
         NEW new, new = [inodes EXCEPT ![n].name = a, ![n].type = TYPE_FILE]
  PROVE  FileAdded(inodes, new, n)
<1> DEFINE t1 == SetName(inodes, n, a)
           t2 == SetType(t1, n, TYPE_FILE)
<1>1. t2 = new
  BY DEF SetName, SetType, SetSize, SetDirect, SetIndirect
<1>2. a \in FileNames /\ TYPE_FILE \in Types
  BY DEF FileNames, Types
<1> HIDE DEF t1, t2
<1>3. /\ t1 \in Tables
      /\ \A m \in Nodes : t1[m].type = inodes[m].type /\ t1[m].size = inodes[m].size
      /\ \A m \in Nodes, j \in Spots : Entry(t1[m], j) = Entry(inodes[m], j)
  BY <1>2, SetNameTable DEF t1
<1>4. /\ t2 \in Tables
      /\ \A m \in Nodes : t2[m].type = (IF m = n THEN TYPE_FILE ELSE t1[m].type) /\ t2[m].size = t1[m].size
      /\ \A m \in Nodes, j \in Spots : Entry(t2[m], j) = Entry(t1[m], j)
  BY <1>2, <1>3, SetTypeTable DEF t2
<1>5. QED BY <1>1, <1>3, <1>4 DEF FileAdded

\* An entry of inode n, and its size.
LEMMA DirectTable ==
  ASSUME NEW ins \in Tables, NEW n \in Nodes, NEW i \in Slots, NEW b \in BlockIds, NEW c \in Int,
         NEW new, new = [ins EXCEPT ![n].direct[i] = b, ![n].size = c]
  PROVE  EntrySet(ins, new, n, i, b, c)
<1> DEFINE t1 == SetDirect(ins, n, i, b)
           t2 == SetSize(t1, n, c)
<1>1. t2 = new
  BY DEF SetName, SetType, SetSize, SetDirect, SetIndirect
<1> HIDE DEF t1, t2
<1>3. /\ t1 \in Tables
      /\ \A m \in Nodes : t1[m].type = ins[m].type /\ t1[m].size = ins[m].size
      /\ \A m \in Nodes, j \in Spots : Entry(t1[m], j) = IF m = n /\ j = i THEN b ELSE Entry(ins[m], j)
  BY SetDirectTable DEF t1
<1>4. /\ t2 \in Tables
      /\ \A m \in Nodes : t2[m].type = t1[m].type /\ t2[m].size = IF m = n THEN c ELSE t1[m].size
      /\ \A m \in Nodes, j \in Spots : Entry(t2[m], j) = Entry(t1[m], j)
  BY <1>3, SetSizeTable DEF t2
<1>5. QED BY <1>1, <1>3, <1>4, ZenonT(40) DEF EntrySet

\* ... and WriteBlock of the block behind the last entry of direct[].
LEMMA IndirectTable ==
  ASSUME NEW ins \in Tables, NEW n \in Nodes, NEW b \in BlockIds, NEW c \in Int,
         NEW new, new = [ins EXCEPT ![n].indirect = b, ![n].size = c]
  PROVE  EntrySet(ins, new, n, MAX_DIRECT, b, c)
<1> DEFINE t1 == SetIndirect(ins, n, b)
           t2 == SetSize(t1, n, c)
<1>1. t2 = new
  BY DEF SetName, SetType, SetSize, SetDirect, SetIndirect
<1> HIDE DEF t1, t2
<1>3. /\ t1 \in Tables
      /\ \A m \in Nodes : t1[m].type = ins[m].type /\ t1[m].size = ins[m].size
      /\ \A m \in Nodes, j \in Spots : Entry(t1[m], j) = IF m = n /\ j = MAX_DIRECT THEN b ELSE Entry(ins[m], j)
  BY SetIndirectTable DEF t1
<1>4. /\ t2 \in Tables
      /\ \A m \in Nodes : t2[m].type = t1[m].type /\ t2[m].size = IF m = n THEN c ELSE t1[m].size
      /\ \A m \in Nodes, j \in Spots : Entry(t2[m], j) = Entry(t1[m], j)
  BY <1>3, SetSizeTable DEF t2
<1>5. QED BY <1>1, <1>3, <1>4, ZenonT(40) DEF EntrySet

\* The end of free_directory and free_file leaves the entries of the inode.
LEMMA FreedTable ==
  ASSUME inodes \in Tables, NEW n \in Nodes
  PROVE  /\ Freed(n) \in Tables
         /\ \A m \in Nodes : Freed(n)[m].type = IF m = n THEN TYPE_FREE ELSE inodes[m].type
         /\ \A m \in Nodes : Freed(n)[m].size = IF m = n THEN 0 ELSE inodes[m].size
         /\ \A m \in Nodes, j \in Spots : Entry(Freed(n)[m], j) = Entry(inodes[m], j)
<1> DEFINE t1 == SetName(inodes, n, NoName)
           t2 == SetType(t1, n, TYPE_FREE)
           t3 == SetSize(t2, n, 0)
<1>1. t3 = Freed(n)
  BY DEF Freed, SetName, SetType, SetSize
<1>2. NoName \in FileNames /\ TYPE_FREE \in Types
  BY DEF FileNames, Types
<1> HIDE DEF t1, t2, t3
<1>3. /\ t1 \in Tables
      /\ \A m \in Nodes : t1[m].type = inodes[m].type /\ t1[m].size = inodes[m].size
      /\ \A m \in Nodes, j \in Spots : Entry(t1[m], j) = Entry(inodes[m], j)
  BY <1>2, SetNameTable DEF t1
<1>4. /\ t2 \in Tables
      /\ \A m \in Nodes : t2[m].type = (IF m = n THEN TYPE_FREE ELSE t1[m].type) /\ t2[m].size = t1[m].size
      /\ \A m \in Nodes, j \in Spots : Entry(t2[m], j) = Entry(t1[m], j)
  BY <1>2, <1>3, SetTypeTable DEF t2
<1>5. /\ t3 \in Tables
      /\ \A m \in Nodes : t3[m].type = t2[m].type /\ t3[m].size = IF m = n THEN 0 ELSE t2[m].size
      /\ \A m \in Nodes, j \in Spots : Entry(t3[m], j) = Entry(t2[m], j)
  BY <1>4, SetSizeTable DEF t3
<1>6. QED BY <1>1, <1>3, <1>4, <1>5

\* free_directory and free_file, and the entry taken out of the directory above.
LEMMA ReleasedTable ==
  ASSUME inodes \in Tables, NEW n \in Nodes, NEW p \in Nodes, NEW i \in Slots, NEW new,
         \/ new = [Freed(n) EXCEPT ![p].direct[i] = 0]
         \/ new = [Freed(n) EXCEPT ![p].direct[i] = 0, ![p].size = @ - 1]
  PROVE  Released(inodes, new, n, p, i)
<1>1. Freed(n) \in Tables /\ Freed(n)[p].size - 1 \in Int
  BY FreedTable DEF Tables, Node
<1>2. /\ new \in Tables
      /\ \A m \in Nodes : new[m].type = Freed(n)[m].type
      /\ \A m \in Nodes : m # p => new[m].size = Freed(n)[m].size
      /\ \A m \in Nodes, j \in Spots : Entry(new[m], j) = IF m = p /\ j = i THEN 0 ELSE Entry(Freed(n)[m], j)
  <2> DEFINE t1 == SetDirect(Freed(n), p, i, 0)
             t2 == SetSize(t1, p, Freed(n)[p].size - 1)
  <2>0. new = t1 \/ new = t2
    BY DEF SetDirect, SetSize
  <2> 0 \in BlockIds
    BY Sizes
  <2> HIDE DEF t1, t2
  <2>1. /\ t1 \in Tables
        /\ \A m \in Nodes : t1[m].type = Freed(n)[m].type /\ t1[m].size = Freed(n)[m].size
        /\ \A m \in Nodes, j \in Spots : Entry(t1[m], j) = IF m = p /\ j = i THEN 0 ELSE Entry(Freed(n)[m], j)
    BY <1>1, SetDirectTable DEF t1
  <2>2. /\ t2 \in Tables
        /\ \A m \in Nodes : t2[m].type = t1[m].type /\ (m # p => t2[m].size = t1[m].size)
        /\ \A m \in Nodes, j \in Spots : Entry(t2[m], j) = Entry(t1[m], j)
    BY <1>1, <2>1, SetSizeTable, SMTT(30) DEF t2
  <2>3. /\ \A m \in Nodes : t2[m].type = Freed(n)[m].type
        /\ \A m \in Nodes : m # p => t2[m].size = Freed(n)[m].size
    BY <2>1, <2>2
  <2>4. \A m \in Nodes, j \in Spots : Entry(t2[m], j) = IF m = p /\ j = i THEN 0 ELSE Entry(Freed(n)[m], j)
    BY <2>1, <2>2
  <2>5. QED BY <2>0, <2>1, <2>2, <2>3, <2>4
<1>3. QED BY <1>2, FreedTable DEF Released

-----------------------------------------------------------------------------
\* Every entry is the number of a block.
LEMMA EntryId == \A ins \in Tables : \A n \in Nodes, i \in Spots : Entry(ins[n], i) \in BlockIds
  BY Sizes DEF Tables, Node, Entry, Spots, Slots

\* The entries of a directory are numbers of inodes.
LEMMA NodeEntry ==
  \A ins \in Tables : Shaped(ins) =>
    \A n \in Nodes, i \in Spots : ins[n].type = TYPE_DIR => Entry(ins[n], i) \in Nodes
  BY Sizes, EntryId DEF Shaped, Nodes, BlockIds

\* Blocks stay owned if every file keeps its entries or loses them.
LEMMA FewerOwned ==
  ASSUME NEW bits, NEW ins, NEW new, Owned(bits, ins),
         \A m \in Nodes, j \in Spots : new[m].type = TYPE_FILE /\ Entry(new[m], j) # 0 =>
           ins[m].type = TYPE_FILE /\ Entry(new[m], j) = Entry(ins[m], j)
  PROVE  Owned(bits, new)
<1>1. ASSUME NEW n \in Nodes, NEW i \in Spots, new[n].type = TYPE_FILE, Entry(new[n], i) # 0
      PROVE  Entry(new[n], i) >= data_start /\ bits[Entry(new[n], i)] = USED
  BY <1>1 DEF Owned
<1>2. ASSUME NEW n \in Nodes, NEW m \in Nodes, NEW i \in Spots, NEW j \in Spots,
             new[n].type = TYPE_FILE, new[m].type = TYPE_FILE, Entry(new[n], i) # 0, Entry(new[n], i) = Entry(new[m], j)
      PROVE  n = m /\ i = j
  <2>1. ins[n].type = TYPE_FILE /\ Entry(new[n], i) = Entry(ins[n], i)
    BY <1>2
  <2>2. ins[m].type = TYPE_FILE /\ Entry(new[m], j) = Entry(ins[m], j)
    BY <1>2
  <2>3. Entry(ins[n], i) # 0 /\ Entry(ins[n], i) = Entry(ins[m], j)
    BY <1>2, <2>1, <2>2
  <2>4. QED BY <2>1, <2>2, <2>3 DEF Owned, Apart
<1>3. QED BY <1>1, <1>2 DEF Owned, Apart

\* Links stay links if every directory keeps its entries or loses them.
LEMMA FewerLinked ==
  ASSUME NEW ins, NEW new, Linked(ins),
         \A m \in Nodes, j \in Spots : new[m].type = TYPE_DIR /\ Entry(new[m], j) # 0 =>
           /\ ins[m].type = TYPE_DIR /\ Entry(new[m], j) = Entry(ins[m], j)
           /\ new[Entry(new[m], j)].type # TYPE_FREE
  PROVE  Linked(new)
<1>2. ASSUME NEW n \in Nodes, NEW m \in Nodes, NEW i \in Spots, NEW j \in Spots,
             new[n].type = TYPE_DIR, new[m].type = TYPE_DIR, Entry(new[n], i) # 0, Entry(new[n], i) = Entry(new[m], j)
      PROVE  n = m /\ i = j
  <2>1. ins[n].type = TYPE_DIR /\ Entry(new[n], i) = Entry(ins[n], i)
    BY <1>2
  <2>2. ins[m].type = TYPE_DIR /\ Entry(new[m], j) = Entry(ins[m], j)
    BY <1>2
  <2>3. Entry(ins[n], i) # 0 /\ Entry(ins[n], i) = Entry(ins[m], j)
    BY <1>2, <2>1, <2>2
  <2>4. QED BY <2>1, <2>2, <2>3 DEF Linked
<1>1. ASSUME NEW n \in Nodes, NEW i \in Spots, new[n].type = TYPE_DIR, Entry(new[n], i) # 0
      PROVE  new[Entry(new[n], i)].type # TYPE_FREE
  BY <1>1
<1>3. QED BY <1>1, <1>2 DEF Linked

\* One more link, to an inode that had none.
LEMMA MoreLinked ==
  ASSUME NEW ins, NEW new, Linked(ins), NEW p \in Nodes, NEW k \in Spots, NEW c,
         \A m \in Nodes, j \in Spots : ins[m].type = TYPE_DIR => Entry(ins[m], j) # c,
         Entry(new[p], k) = c, new[c].type # TYPE_FREE,
         \A m \in Nodes, j \in Spots : new[m].type = TYPE_DIR /\ Entry(new[m], j) # 0 =>
           \/ m = p /\ j = k
           \/ /\ ins[m].type = TYPE_DIR /\ Entry(new[m], j) = Entry(ins[m], j)
              /\ new[Entry(new[m], j)].type # TYPE_FREE
  PROVE  Linked(new)
<1>2. ASSUME NEW n \in Nodes, NEW m \in Nodes, NEW i \in Spots, NEW j \in Spots,
             new[n].type = TYPE_DIR, new[m].type = TYPE_DIR, Entry(new[n], i) # 0, Entry(new[n], i) = Entry(new[m], j)
      PROVE  n = m /\ i = j
  <2>1. \/ n = p /\ i = k
        \/ ins[n].type = TYPE_DIR /\ Entry(new[n], i) = Entry(ins[n], i)
    BY <1>2
  <2>2. \/ m = p /\ j = k
        \/ ins[m].type = TYPE_DIR /\ Entry(new[m], j) = Entry(ins[m], j)
    BY <1>2
  <2>3. CASE n = p /\ i = k /\ m = p /\ j = k
    BY <2>3
  <2>4. CASE n = p /\ i = k /\ ~(m = p /\ j = k)
    BY <1>2, <2>2, <2>4
  <2>5. CASE ~(n = p /\ i = k) /\ m = p /\ j = k
    BY <1>2, <2>1, <2>5
  <2>6. CASE ~(n = p /\ i = k) /\ ~(m = p /\ j = k)
    BY <1>2, <2>1, <2>2, <2>6 DEF Linked
  <2>7. QED BY <2>3, <2>4, <2>5, <2>6
<1>1. ASSUME NEW n \in Nodes, NEW i \in Spots, new[n].type = TYPE_DIR, Entry(new[n], i) # 0
      PROVE  new[Entry(new[n], i)].type # TYPE_FREE
  BY <1>1
<1>3. QED BY <1>1, <1>2 DEF Linked

\* Blocks stay covered if every file keeps its entries but one of a block that is
\* not used any more.
LEMMA MoreCovered ==
  ASSUME NEW bits, NEW ins, NEW bits2, NEW new, Covered(bits, ins),
         \A b \in BlockIds : bits2[b] = USED /\ b >= data_start =>
           \/ \E n \in Nodes, i \in Spots : new[n].type = TYPE_FILE /\ Entry(new[n], i) = b
           \/ /\ bits[b] = USED
              /\ \A n \in Nodes, i \in Spots : ins[n].type = TYPE_FILE /\ Entry(ins[n], i) = b =>
                   new[n].type = TYPE_FILE /\ Entry(new[n], i) = b
  PROVE  Covered(bits2, new)
<1> SUFFICES ASSUME NEW b \in BlockIds, bits2[b] = USED, b >= data_start
             PROVE  \E n \in Nodes, i \in Spots : new[n].type = TYPE_FILE /\ Entry(new[n], i) = b
  BY DEF Covered
<1>1. CASE /\ bits[b] = USED
           /\ \A n \in Nodes, i \in Spots : ins[n].type = TYPE_FILE /\ Entry(ins[n], i) = b =>
                new[n].type = TYPE_FILE /\ Entry(new[n], i) = b
  <2>1. PICK n \in Nodes, i \in Spots : ins[n].type = TYPE_FILE /\ Entry(ins[n], i) = b
    BY <1>1 DEF Covered
  <2>2. QED BY <1>1, <2>1
<1>2. QED BY <1>1

\* A new directory keeps the table sound: add_dir.
LEMMA DirAddedKeeps ==
  ASSUME NEW bits \in Bitmaps, NEW ins \in Tables, NEW new, NEW n \in Nodes, NEW p \in Nodes, NEW k \in Slots,
         DirAdded(ins, new, n, p, k), ins[n].type = TYPE_FREE, ins[p].type = TYPE_DIR, Good(bits, ins)
  PROVE  Good(bits, new) /\ (Kept(bits, ins) => Kept(bits, new))
<1> USE DEF DirAdded, Good
<1>1. ASSUME Owned(bits, ins) PROVE Owned(bits, new)
  BY <1>1, FewerOwned, Distinct
<1>2. Shaped(new)
  BY Sizes, Distinct DEF Shaped, Slots, Nodes
<1>3. ASSUME Linked(ins) PROVE Linked(new)
  <2>1. \A m \in Nodes, j \in Spots : ins[m].type = TYPE_DIR => Entry(ins[m], j) # n
    BY <1>3, Sizes, Distinct DEF Linked, Shaped
  <2>2. \A m \in Nodes, j \in Spots : new[m].type = TYPE_DIR /\ Entry(new[m], j) # 0 =>
           \/ m = p /\ j = k
           \/ /\ ins[m].type = TYPE_DIR /\ Entry(new[m], j) = Entry(ins[m], j)
              /\ new[Entry(new[m], j)].type # TYPE_FREE
    <3> SUFFICES ASSUME NEW m \in Nodes, NEW j \in Spots, new[m].type = TYPE_DIR, Entry(new[m], j) # 0, ~(m = p /\ j = k)
                 PROVE  /\ ins[m].type = TYPE_DIR /\ Entry(new[m], j) = Entry(ins[m], j)
                        /\ new[Entry(new[m], j)].type # TYPE_FREE
      OBVIOUS
    <3>1. Entry(new[m], j) = Entry(ins[m], j)
      OBVIOUS
    <3>2. ins[m].type = TYPE_DIR
      BY <3>1, Distinct DEF Shaped
    <3>3. Entry(ins[m], j) \in Nodes /\ ins[Entry(ins[m], j)].type # TYPE_FREE
      BY <1>3, <3>1, <3>2, NodeEntry DEF Linked
    <3>4. QED BY <3>1, <3>2, <3>3, Distinct
  <2>3. Entry(new[p], k) = n /\ new[n].type # TYPE_FREE
    BY Sizes, Distinct
  <2>4. k \in Spots
    BY Sizes
  <2>5. QED BY <1>3, <2>1, <2>2, <2>3, <2>4, MoreLinked
<1>6. ASSUME Covered(bits, ins) PROVE Covered(bits, new)
  <2>1. ASSUME NEW d \in BlockIds, d >= data_start,
               NEW m \in Nodes, NEW i \in Spots, ins[m].type = TYPE_FILE, Entry(ins[m], i) = d
        PROVE  new[m].type = TYPE_FILE /\ Entry(new[m], i) = d
    BY <2>1, Sizes, Distinct
  <2>2. QED BY <1>6, <2>1, MoreCovered
<1>7. QED BY <1>1, <1>2, <1>3, <1>6 DEF Kept

\* So does a new file that nothing links: add_file.
LEMMA FileAddedKeeps ==
  ASSUME NEW bits \in Bitmaps, NEW ins \in Tables, NEW new, NEW n \in Nodes,
         FileAdded(ins, new, n), ins[n].type = TYPE_FREE, Good(bits, ins)
  PROVE  Good(bits, new) /\ (Kept(bits, ins) => Kept(bits, new))
<1> USE DEF FileAdded, Good
<1>1. ASSUME Owned(bits, ins) PROVE Owned(bits, new)
  BY <1>1, FewerOwned DEF Shaped
<1>2. Shaped(new)
  BY Sizes, Distinct DEF Shaped
<1>3. ASSUME Linked(ins) PROVE Linked(new)
  <2>1. ASSUME NEW m \in Nodes, NEW j \in Spots, new[m].type = TYPE_DIR, Entry(new[m], j) # 0
        PROVE  /\ ins[m].type = TYPE_DIR /\ Entry(new[m], j) = Entry(ins[m], j)
               /\ new[Entry(new[m], j)].type # TYPE_FREE
    <3>1. ins[m].type = TYPE_DIR /\ Entry(new[m], j) = Entry(ins[m], j)
      BY <2>1, Distinct
    <3>2. Entry(ins[m], j) \in Nodes /\ ins[Entry(ins[m], j)].type # TYPE_FREE
      BY <1>3, <2>1, <3>1, NodeEntry DEF Linked
    <3>3. QED BY <3>1, <3>2, Distinct
  <2>2. QED BY <1>3, <2>1, FewerLinked
<1>6. ASSUME Covered(bits, ins) PROVE Covered(bits, new)
  <2>1. ASSUME NEW d \in BlockIds, d >= data_start,
               NEW m \in Nodes, NEW i \in Spots, ins[m].type = TYPE_FILE, Entry(ins[m], i) = d
        PROVE  new[m].type = TYPE_FILE /\ Entry(new[m], i) = d
    BY <2>1, Distinct
  <2>2. QED BY <1>6, <2>1, MoreCovered
<1>7. QED BY <1>1, <1>2, <1>3, <1>6 DEF Kept

\* A free block given to a file has one owner: WriteBlock.
LEMMA BlockAddedKeeps ==
  ASSUME NEW bits \in Bitmaps, NEW ins \in Tables, NEW new, NEW n \in Nodes, NEW k \in Spots, NEW b \in BlockIds,
         NEW c, EntrySet(ins, new, n, k, b, c), ins[n].type = TYPE_FILE, bits[b] = FREE, Good(bits, ins)
  PROVE  Good([bits EXCEPT ![b] = USED], new) /\ (Kept(bits, ins) /\ Entry(ins[n], k) = 0 => Kept([bits EXCEPT ![b] = USED], new))
<1> DEFINE bnew == [bits EXCEPT ![b] = USED]
<1> bnew \in Bitmaps
  BY DEF Bitmaps
<1> USE DEF EntrySet, Good
<1>0. MetaUsed(bnew) /\ b >= data_start
  BY Sizes, Distinct DEF MetaUsed, Bitmaps, BlockIds
<1>1. ASSUME Owned(bits, ins) PROVE Owned(bnew, new)
  <2>1. \A m \in Nodes, j \in Spots : ins[m].type = TYPE_FILE => Entry(ins[m], j) # b
    BY <1>0, <1>1, Sizes, Distinct DEF Owned
  <2>2. \A m \in Nodes, j \in Spots : ins[m].type = TYPE_FILE /\ Entry(ins[m], j) # 0 => bnew[Entry(ins[m], j)] = USED
    BY <1>1, Sizes, EntryId DEF Owned, Bitmaps
  <2>3. bnew[b] = USED
    BY DEF Bitmaps
  <2>4. QED BY <1>0, <1>1, <2>1, <2>2, <2>3, Sizes DEF Owned, Apart
<1>2. Shaped(new)
  BY Sizes, Distinct DEF Shaped
<1>3. ASSUME Linked(ins) PROVE Linked(new)
  <2>1. ASSUME NEW m \in Nodes, NEW j \in Spots, new[m].type = TYPE_DIR, Entry(new[m], j) # 0
        PROVE  /\ ins[m].type = TYPE_DIR /\ Entry(new[m], j) = Entry(ins[m], j)
               /\ new[Entry(new[m], j)].type # TYPE_FREE
    <3>1. ins[m].type = TYPE_DIR /\ Entry(new[m], j) = Entry(ins[m], j)
      BY <2>1, Distinct
    <3>2. Entry(ins[m], j) \in Nodes /\ ins[Entry(ins[m], j)].type # TYPE_FREE
      BY <1>3, <2>1, <3>1, NodeEntry DEF Linked
    <3>3. QED BY <3>1, <3>2, Distinct
  <2>2. QED BY <1>3, <2>1, FewerLinked
<1>6. ASSUME Covered(bits, ins), Entry(ins[n], k) = 0 PROVE Covered(bnew, new)
  <2>1. Entry(new[n], k) = b /\ new[n].type = TYPE_FILE
    OBVIOUS
  <2>2. \A d \in BlockIds : bnew[d] = USED => d = b \/ bits[d] = USED
    BY DEF Bitmaps
  <2>3. ASSUME NEW d \in BlockIds, d # b, bits[d] = USED, d >= data_start,
               NEW m \in Nodes, NEW i \in Spots, ins[m].type = TYPE_FILE, Entry(ins[m], i) = d
        PROVE  new[m].type = TYPE_FILE /\ Entry(new[m], i) = d
    <3>1. d # 0
      BY <2>3, Sizes
    <3>2. QED BY <1>6, <2>3, <3>1
  <2>4. \A d \in BlockIds : bnew[d] = USED /\ d >= data_start =>
           \/ \E m \in Nodes, i \in Spots : new[m].type = TYPE_FILE /\ Entry(new[m], i) = d
           \/ /\ bits[d] = USED
              /\ \A m \in Nodes, i \in Spots : ins[m].type = TYPE_FILE /\ Entry(ins[m], i) = d =>
                   new[m].type = TYPE_FILE /\ Entry(new[m], i) = d
    <3> HIDE DEF bnew, EntrySet, Good
    <3>1. QED BY <2>1, <2>2, <2>3
  <2> HIDE DEF bnew, EntrySet, Good
  <2>5. QED BY <1>6, <2>4, MoreCovered
<1>7. QED BY <1>0, <1>1, <1>2, <1>3, <1>6 DEF Kept

\* A link to a file that has none: LinkFile.
LEMMA LinkSetKeeps ==
  ASSUME NEW bits \in Bitmaps, NEW ins \in Tables, NEW new, NEW n \in Nodes, NEW p \in Nodes, NEW k \in Slots,
         NEW c, EntrySet(ins, new, p, k, n, c), ins[n].type = TYPE_FILE, ins[p].type = TYPE_DIR, Good(bits, ins)
  PROVE  /\ Good(bits, new)
         /\ Kept(bits, ins) /\ (\A m \in Nodes, j \in Spots : ins[m].type = TYPE_DIR => Entry(ins[m], j) # n) =>
              Kept(bits, new)
<1> USE DEF EntrySet, Good
<1>1. ASSUME Owned(bits, ins) PROVE Owned(bits, new)
  BY <1>1, FewerOwned, Distinct
<1>2. Shaped(new)
  BY Sizes, Distinct DEF Shaped, Slots, Nodes
<1>3. ASSUME Linked(ins), \A m \in Nodes, j \in Spots : ins[m].type = TYPE_DIR => Entry(ins[m], j) # n PROVE Linked(new)
  <2>2. \A m \in Nodes, j \in Spots : new[m].type = TYPE_DIR /\ Entry(new[m], j) # 0 =>
           \/ m = p /\ j = k
           \/ /\ ins[m].type = TYPE_DIR /\ Entry(new[m], j) = Entry(ins[m], j)
              /\ new[Entry(new[m], j)].type # TYPE_FREE
    <3> SUFFICES ASSUME NEW m \in Nodes, NEW j \in Spots, new[m].type = TYPE_DIR, Entry(new[m], j) # 0, ~(m = p /\ j = k)
                 PROVE  /\ ins[m].type = TYPE_DIR /\ Entry(new[m], j) = Entry(ins[m], j)
                        /\ new[Entry(new[m], j)].type # TYPE_FREE
      OBVIOUS
    <3>1. Entry(new[m], j) = Entry(ins[m], j) /\ ins[m].type = TYPE_DIR
      OBVIOUS
    <3>3. Entry(ins[m], j) \in Nodes /\ ins[Entry(ins[m], j)].type # TYPE_FREE
      BY <1>3, <3>1, NodeEntry DEF Linked
    <3>4. QED BY <3>1, <3>3
  <2>3. Entry(new[p], k) = n /\ new[n].type # TYPE_FREE /\ k \in Spots
    BY Sizes, Distinct
  <2>5. QED BY <1>3, <2>2, <2>3, MoreLinked
<1>6. ASSUME Covered(bits, ins) PROVE Covered(bits, new)
  <2>1. ASSUME NEW d \in BlockIds, d >= data_start,
               NEW m \in Nodes, NEW i \in Spots, ins[m].type = TYPE_FILE, Entry(ins[m], i) = d
        PROVE  new[m].type = TYPE_FILE /\ Entry(new[m], i) = d
    BY <2>1, Distinct
  <2>2. QED BY <1>6, <2>1, MoreCovered
<1>7. QED BY <1>1, <1>2, <1>3, <1>6 DEF Kept

\* A block given back had one owner, so none is left: FreeBlock.
LEMMA BlockFreedKeeps ==
  ASSUME NEW bits \in Bitmaps, NEW ins \in Tables, NEW new, NEW n \in Nodes, NEW k \in Spots,
         NEW c, EntrySet(ins, new, n, k, 0, c), ins[n].type = TYPE_FILE, Entry(ins[n], k) # 0, Good(bits, ins)
  PROVE  Good([bits EXCEPT ![Entry(ins[n], k)] = FREE], new) /\ (Kept(bits, ins) => Kept([bits EXCEPT ![Entry(ins[n], k)] = FREE], new))
<1> DEFINE bnew == [bits EXCEPT ![Entry(ins[n], k)] = FREE]
<1> bnew \in Bitmaps
  BY DEF Bitmaps
<1> USE DEF EntrySet, Good
<1>0. Entry(ins[n], k) >= data_start /\ Entry(ins[n], k) \in BlockIds
  BY EntryId DEF Owned
<1>1. Owned(bnew, new)
  <2>1. Owned(bits, new)
    BY FewerOwned
  <2>2. ASSUME NEW m \in Nodes, NEW j \in Spots, new[m].type = TYPE_FILE, Entry(new[m], j) # 0
        PROVE  bnew[Entry(new[m], j)] = USED
    <3>1. ins[m].type = TYPE_FILE /\ Entry(new[m], j) = Entry(ins[m], j) /\ Entry(ins[m], j) \in BlockIds
      BY <2>2, EntryId
    <3>2. Entry(ins[m], j) # Entry(ins[n], k)
      BY <2>2, <3>1 DEF Owned, Apart
    <3>3. bits[Entry(ins[m], j)] = USED
      BY <2>2, <3>1 DEF Owned
    <3>4. QED BY <1>0, <3>1, <3>2, <3>3 DEF Bitmaps
  <2>3. QED BY <2>1, <2>2 DEF Owned
<1>2. Shaped(new)
  BY Sizes, Distinct DEF Shaped
<1>3. ASSUME Linked(ins) PROVE Linked(new)
  <2>1. ASSUME NEW m \in Nodes, NEW j \in Spots, new[m].type = TYPE_DIR, Entry(new[m], j) # 0
        PROVE  /\ ins[m].type = TYPE_DIR /\ Entry(new[m], j) = Entry(ins[m], j)
               /\ new[Entry(new[m], j)].type # TYPE_FREE
    <3>1. ins[m].type = TYPE_DIR /\ Entry(new[m], j) = Entry(ins[m], j)
      BY <2>1, Distinct
    <3>2. Entry(ins[m], j) \in Nodes /\ ins[Entry(ins[m], j)].type # TYPE_FREE
      BY <1>3, <2>1, <3>1, NodeEntry DEF Linked
    <3>3. QED BY <3>1, <3>2, Distinct
  <2>2. QED BY <1>3, <2>1, FewerLinked
<1>5. MetaUsed(bnew)
  BY <1>0, Sizes DEF MetaUsed, Bitmaps, BlockIds
<1>6. ASSUME Covered(bits, ins) PROVE Covered(bnew, new)
  <2>1. ASSUME NEW d \in BlockIds, bnew[d] = USED
        PROVE  /\ bits[d] = USED
               /\ \A m \in Nodes, i \in Spots : ins[m].type = TYPE_FILE /\ Entry(ins[m], i) = d =>
                    new[m].type = TYPE_FILE /\ Entry(new[m], i) = d
    <3>1. d # Entry(ins[n], k) /\ bits[d] = USED
      BY <1>0, <2>1, Distinct DEF Bitmaps
    <3>2. ASSUME NEW m \in Nodes, NEW i \in Spots, ins[m].type = TYPE_FILE, Entry(ins[m], i) = d
          PROVE  new[m].type = TYPE_FILE /\ Entry(new[m], i) = d
      BY <3>1, <3>2
    <3>3. QED BY <3>1, <3>2
  <2> HIDE DEF bnew, EntrySet, Good
  <2>2. \A d \in BlockIds : bnew[d] = USED /\ d >= data_start =>
           \/ \E m \in Nodes, i \in Spots : new[m].type = TYPE_FILE /\ Entry(new[m], i) = d
           \/ /\ bits[d] = USED
              /\ \A m \in Nodes, i \in Spots : ins[m].type = TYPE_FILE /\ Entry(ins[m], i) = d =>
                   new[m].type = TYPE_FILE /\ Entry(new[m], i) = d
    BY <2>1
  <2>3. QED BY <1>6, <2>2, MoreCovered
<1>7. QED BY <1>1, <1>2, <1>3, <1>5, <1>6 DEF Kept

\* An empty inode freed and its one link cleared: FreedChild, FreedTarget, GoUp.
LEMMA ReleasedKeeps ==
  ASSUME NEW bits \in Bitmaps, NEW ins \in Tables, NEW new, NEW n \in Nodes, NEW p \in Nodes, NEW k \in Slots,
         Released(ins, new, n, p, k), n # 0, n # p, ins[p].type = TYPE_DIR, Entry(ins[p], k) = n,
         \A j \in Spots : Entry(ins[n], j) = 0, Good(bits, ins)
  PROVE  Good(bits, new) /\ (Kept(bits, ins) => Kept(bits, new))
<1> USE DEF Released, Good
<1>1. ASSUME Owned(bits, ins) PROVE Owned(bits, new)
  BY <1>1, FewerOwned, Distinct
<1>2. Shaped(new)
  BY Sizes, Distinct DEF Shaped, Slots, Nodes
<1>3. ASSUME Linked(ins) PROVE Linked(new)
  <2>1. ASSUME NEW m \in Nodes, NEW j \in Spots, new[m].type = TYPE_DIR, Entry(new[m], j) # 0
        PROVE  /\ ins[m].type = TYPE_DIR /\ Entry(new[m], j) = Entry(ins[m], j)
               /\ new[Entry(new[m], j)].type # TYPE_FREE
    <3>1. ins[m].type = TYPE_DIR /\ Entry(new[m], j) = Entry(ins[m], j) /\ ~(m = p /\ j = k)
      BY <2>1, Distinct
    <3>2. Entry(ins[m], j) \in Nodes /\ ins[Entry(ins[m], j)].type # TYPE_FREE
      BY <1>3, <2>1, <3>1, NodeEntry DEF Linked
    <3>4. Entry(ins[m], j) # n
      BY <1>3, <2>1, <3>1, Sizes DEF Linked
    <3>3. QED BY <3>1, <3>2, <3>4, Distinct
  <2>2. QED BY <1>3, <2>1, FewerLinked
<1>6. ASSUME Covered(bits, ins) PROVE Covered(bits, new)
  <2>1. ASSUME NEW d \in BlockIds, d >= data_start,
               NEW m \in Nodes, NEW i \in Spots, ins[m].type = TYPE_FILE, Entry(ins[m], i) = d
        PROVE  new[m].type = TYPE_FILE /\ Entry(new[m], i) = d
    BY <2>1, Sizes, Distinct
  <2>2. QED BY <1>6, <2>1, MoreCovered
<1>7. QED BY <1>1, <1>2, <1>3, <1>6 DEF Kept

-----------------------------------------------------------------------------
\* Induction over the natural numbers, for a set of them.
LEMMA AllNaturals ==
  ASSUME NEW S, 0 \in S, \A n \in Nat : n \in S => n + 1 \in S
  PROVE  \A n \in Nat : n \in S
<1> SUFFICES ASSUME NEW x \in Nat, x \notin S PROVE FALSE
  OBVIOUS
<1> DEFINE T == {n \in Nat : n \notin S}
<1>1. T \subseteq Nat /\ T # {}
  OBVIOUS
<1>2. PICK m \in T : \A y \in T : ~(<<y, m>> \in OpToRel(<, Nat))
  BY <1>1, NatLessThanWellFounded, WFMin
<1>3. m \in Nat /\ m \notin S
  OBVIOUS
<1>4. m # 0 /\ m - 1 \in Nat /\ m - 1 < m
  BY <1>3
<1>5. m - 1 \notin T
  BY <1>2, <1>3, <1>4 DEF OpToRel
<1>6. m - 1 \in S
  BY <1>4, <1>5
<1>7. (m - 1) + 1 \in S
  BY <1>4, <1>6
<1>8. (m - 1) + 1 = m
  BY <1>3
<1>9. QED BY <1>3, <1>7, <1>8

\* search_dir finds name in directory n, and it leads to c.
Hop(ins, name, n, c) == \E i \in search_dir(ins, name, n) : ins[n].direct[i] = c

\* w goes from the root along the first k names of path; n is where that leads.
Walked(ins, path, k, w) ==
  w \in [0..k -> Nodes] /\ w[0] = 0 /\ \A l \in 1..k : Hop(ins, path[l], w[l - 1], w[l])
WayTo(ins, path, k, n) == \E w : Walked(ins, path, k, w) /\ w[k] = n

\* No directory has two entries of one name.
InUse(ins, n) == n # 0 /\ n \in Nodes /\ ins[n].type # TYPE_FREE
NamesApart(ins) ==
  \A n \in Nodes, i, j \in Spots :
    ins[n].type = TYPE_DIR /\ InUse(ins, Entry(ins[n], i)) /\ InUse(ins, Entry(ins[n], j))
      /\ ins[Entry(ins[n], i)].name = ins[Entry(ins[n], j)].name => i = j

\* All that is in ins is in more, and named as there.
Within(ins, more) ==
  /\ \A n \in Nodes : ins[n].type # TYPE_FREE => more[n].type = ins[n].type /\ more[n].name = ins[n].name
  /\ \A n \in Nodes, i \in Spots : ins[n].type = TYPE_DIR /\ Entry(ins[n], i) # 0 => Entry(more[n], i) = Entry(ins[n], i)

\* What a name leads to is one inode in use.
LEMMA HopIsLink ==
  ASSUME NEW ins \in Tables, NEW name, NEW n \in Nodes, NEW c, Hop(ins, name, n, c)
  PROVE  /\ c \in Nodes /\ c # 0 /\ ins[c].type # TYPE_FREE /\ ins[c].name = name
         /\ \E i \in Slots : Entry(ins[n], i) = c
<1>1. PICK i \in search_dir(ins, name, n) : ins[n].direct[i] = c
  BY DEF Hop
<1>2. i \in Slots /\ IsChild(ins, c) /\ ins[c].name = name
  BY <1>1 DEF search_dir, Least, Children
<1>3. Entry(ins[n], i) = c
  BY <1>1, <1>2, SizesAssumption DEF Entry, Slots
<1>4. c \in BlockIds
  BY <1>1, <1>2 DEF Tables, Node
<1>5. c \in Nodes /\ c # 0 /\ ins[c].type # TYPE_FREE
  BY <1>2, <1>4, Sizes DEF IsChild, Nodes, BlockIds
<1>6. QED BY <1>2, <1>3, <1>5

LEMMA HopOnce ==
  ASSUME NEW ins, NEW name, NEW n, NEW c, NEW d, Hop(ins, name, n, c), Hop(ins, name, n, d)
  PROVE  c = d
<1>1. PICK i \in search_dir(ins, name, n) : ins[n].direct[i] = c
  BY DEF Hop
<1>2. PICK j \in search_dir(ins, name, n) : ins[n].direct[j] = d
  BY DEF Hop
<1>3. i \in Slots /\ j \in Slots /\ i <= j /\ j <= i
  BY DEF search_dir, Least, Children
<1>4. i = j
  BY <1>3, SizesAssumption DEF Slots
<1>5. QED BY <1>1, <1>2, <1>4

\* Files and free inodes have no children.
LEMMA HopFromDir ==
  ASSUME NEW ins \in Tables, NEW bits, Good(bits, ins), NEW name, NEW n \in Nodes, NEW c, Hop(ins, name, n, c)
  PROVE  ins[n].type = TYPE_DIR
<1>1. PICK i \in Slots : Entry(ins[n], i) = c
  BY HopIsLink
<1>2. c \in Nodes /\ c # 0 /\ i \in Spots
  BY HopIsLink, Sizes
<1>3. ins[n].type # TYPE_FREE
  BY <1>1, <1>2 DEF Good, Shaped
<1>4. ins[n].type # TYPE_FILE
  <2>1. SUFFICES ASSUME ins[n].type = TYPE_FILE PROVE FALSE
    OBVIOUS
  <2>2. c >= data_start /\ c < MAX_INODES /\ c \in Nat
    BY <1>1, <1>2, <2>1, Sizes DEF Good, Owned, Nodes
  <2>3. QED BY <2>2, Sizes
<1>5. QED BY <1>3, <1>4 DEF Tables, Node, Types

\* An entry of a directory is found under its name, if no other has it.
LEMMA EntryIsHop ==
  ASSUME NEW ins \in Tables, NamesApart(ins), NEW n \in Nodes, ins[n].type = TYPE_DIR, NEW i \in Slots,
         Entry(ins[n], i) # 0, Entry(ins[n], i) \in Nodes, ins[Entry(ins[n], i)].type # TYPE_FREE
  PROVE  Hop(ins, ins[Entry(ins[n], i)].name, n, Entry(ins[n], i))
<1> DEFINE c == Entry(ins[n], i)
           S == {j \in Children(ins, n) : ins[ins[n].direct[j]].name = ins[c].name}
<1>1. \A j \in Slots : Entry(ins[n], j) = ins[n].direct[j] /\ j \in Spots
  BY SizesAssumption, Sizes DEF Entry, Slots
<1>2. i \in S
  BY <1>1, SizesAssumption DEF Children, IsChild, Nodes
<1>3. \A j \in S : j = i
  <2> SUFFICES ASSUME NEW j \in S PROVE j = i
    OBVIOUS
  <2>1. j \in Slots /\ Entry(ins[n], j) # 0 /\ ins[Entry(ins[n], j)].name = ins[c].name
    <3>1. j \in Slots /\ IsChild(ins, ins[n].direct[j]) /\ ins[ins[n].direct[j]].name = ins[c].name
      BY DEF Children
    <3>2. ins[n].direct[j] # 0
      BY <3>1, SizesAssumption DEF IsChild
    <3>3. QED BY <1>1, <3>1, <3>2
  <2>2. InUse(ins, Entry(ins[n], i)) /\ InUse(ins, Entry(ins[n], j))
    <3>1. j \in Children(ins, n)
      OBVIOUS
    <3>2. IsChild(ins, Entry(ins[n], j))
      BY <1>1, <3>1 DEF Children
    <3>3. Entry(ins[n], j) \in Nodes
      <4>1. Entry(ins[n], j) \in BlockIds
        BY <1>1, <2>1 DEF Tables, Node
      <4>2. QED BY <3>2, <4>1, SizesAssumption DEF IsChild, Nodes, BlockIds
    <3>4. QED BY <3>2, <3>3, SizesAssumption DEF IsChild, InUse, Nodes
  <2>3. i \in Spots /\ j \in Spots /\ ins[Entry(ins[n], i)].name = ins[Entry(ins[n], j)].name
    BY <1>1, <2>1
  <2>4. QED BY <2>2, <2>3 DEF NamesApart
<1> HIDE DEF S, c
<1>4. i \in Least(S)
  BY <1>2, <1>3, SizesAssumption DEF Least, Slots
<1>5. i \in search_dir(ins, ins[c].name, n)
  BY <1>4 DEF search_dir, S
<1>6. ins[n].direct[i] = c
  BY <1>1 DEF c
<1>7. QED BY <1>5, <1>6 DEF Hop, c

-----------------------------------------------------------------------------
\* A way comes to one inode.
LEMMA WalksAgree ==
  ASSUME NEW ins, NEW p, NEW q, NEW j \in Nat, NEW k \in Nat, NEW w, NEW v,
         Walked(ins, p, j, w), Walked(ins, q, k, v),
         NEW l \in Nat, l <= j, l <= k, \A x \in 1..l : p[x] = q[x]
  PROVE  w[l] = v[l]
<1> DEFINE S == {x \in Nat : x <= l => w[x] = v[x]}
<1>1. 0 \in S
  BY DEF Walked
<1>2. ASSUME NEW x \in Nat, x \in S PROVE x + 1 \in S
  <2> SUFFICES ASSUME x + 1 <= l PROVE w[x + 1] = v[x + 1]
    OBVIOUS
  <2>1. x + 1 \in 1..j /\ x + 1 \in 1..k /\ x + 1 \in 1..l /\ (x + 1) - 1 = x /\ w[x] = v[x]
    BY <1>2
  <2>2. Hop(ins, p[x + 1], w[x], w[x + 1]) /\ Hop(ins, q[x + 1], v[x], v[x + 1])
    BY <2>1 DEF Walked
  <2>3. QED BY <2>1, <2>2, HopOnce
<1> HIDE DEF S
<1>3. l \in S
  BY <1>1, <1>2, AllNaturals
<1>4. QED BY <1>3 DEF S

\* In a table where no two links lead to one inode, neither do two ways.
LEMMA OneWay ==
  ASSUME NEW ins \in Tables, NEW bits, Good(bits, ins), Linked(ins), NEW p, NEW q, NEW j \in Nat, NEW k \in Nat, NEW w, NEW v,
         Walked(ins, p, j, w), Walked(ins, q, k, v), w[j] = v[k]
  PROVE  j = k /\ \A x \in 1..j : p[x] = q[x]
<1> DEFINE Same(x) == w[j - x] = v[k - x] /\ (x > 0 => p[j - x + 1] = q[k - x + 1])
           S == {x \in Nat : x <= j /\ x <= k => Same(x)}
<1>1. 0 \in S
  BY SMT
<1>2. ASSUME NEW x \in Nat, x \in S PROVE x + 1 \in S
  <2> SUFFICES ASSUME x + 1 <= j, x + 1 <= k PROVE Same(x + 1)
    OBVIOUS
  <2> DEFINE a == w[j - x - 1]
             b == v[k - x - 1]
             c == w[j - x]
  <2>1. j - x \in 1..j /\ k - x \in 1..k /\ c = v[k - x]
    BY <1>2
  <2>2. Hop(ins, p[j - x], a, c) /\ Hop(ins, q[k - x], b, c) /\ a \in Nodes /\ b \in Nodes
    BY <2>1 DEF Walked
  <2>3. ins[a].type = TYPE_DIR /\ ins[b].type = TYPE_DIR /\ c # 0 /\ ins[c].name = p[j - x] /\ ins[c].name = q[k - x]
    BY ONLY <2>2, HopFromDir, HopIsLink, ins \in Tables, Good(bits, ins)
  <2>4. PICK l \in Slots : Entry(ins[a], l) = c
    BY ONLY <2>2, HopIsLink, ins \in Tables
  <2>5. PICK m \in Slots : Entry(ins[b], m) = c
    BY ONLY <2>2, HopIsLink, ins \in Tables
  <2>6. a = b
    BY <2>2, <2>3, <2>4, <2>5, Sizes DEF Linked
  <2>7. j - (x + 1) = j - x - 1 /\ k - (x + 1) = k - x - 1 /\ j - (x + 1) + 1 = j - x /\ k - (x + 1) + 1 = k - x
    OBVIOUS
  <2> HIDE DEF c
  <2>8. p[j - x] = q[k - x]
    BY <2>3
  <2>9. QED BY <2>6, <2>7, <2>8
<1> HIDE DEF S
<1>3. \A x \in Nat : x <= j /\ x <= k => Same(x)
  <2>1. \A x \in Nat : x \in S
    BY <1>1, <1>2, AllNaturals
  <2> HIDE DEF Same
  <2>2. QED BY <2>1 DEF S
<1>4. ~(j < k)
  <2> SUFFICES ASSUME j < k PROVE FALSE
    OBVIOUS
  <2>1. w[j - j] = v[k - j] /\ j - j = 0 /\ k - j \in 1..k /\ k - j - 1 \in 0..k
    BY <1>3
  <2>2. Hop(ins, q[k - j], v[k - j - 1], v[k - j]) /\ w[0] = 0 /\ v[k - j - 1] \in Nodes
    BY <2>1 DEF Walked
  <2>3. v[k - j] # 0
    BY <2>2, HopIsLink
  <2>4. QED BY <2>1, <2>2, <2>3
<1>5. ~(k < j)
  <2> SUFFICES ASSUME k < j PROVE FALSE
    OBVIOUS
  <2>1. w[j - k] = v[k - k] /\ k - k = 0 /\ j - k \in 1..j /\ j - k - 1 \in 0..j
    BY <1>3
  <2>2. Hop(ins, p[j - k], w[j - k - 1], w[j - k]) /\ v[0] = 0 /\ w[j - k - 1] \in Nodes
    BY <2>1 DEF Walked
  <2>3. w[j - k] # 0
    BY <2>2, HopIsLink
  <2>4. QED BY <2>1, <2>2, <2>3
<1>6. j = k
  BY <1>4, <1>5
<1>7. ASSUME NEW x \in 1..j PROVE p[x] = q[x]
  <2>1. (j - x) + 1 \in Nat /\ (j - x) + 1 <= j /\ (j - x) + 1 > 0 /\ j - ((j - x) + 1) + 1 = x
    OBVIOUS
  <2>2. QED BY <1>3, <1>6, <2>1
<1>8. QED BY <1>6, <1>7

\* A way goes on with the next name, and its beginning is a way.
LEMMA WayOn ==
  ASSUME NEW ins \in Tables, NEW path, NEW k \in Nat, NEW n, WayTo(ins, path, k, n), NEW c, Hop(ins, path[k + 1], n, c)
  PROVE  WayTo(ins, path, k + 1, c)
<1>1. PICK w : Walked(ins, path, k, w) /\ w[k] = n
  BY DEF WayTo
<1>2. n \in Nodes /\ k \in 0..k
  BY <1>1 DEF Walked
<1>3. c \in Nodes
  BY <1>2, HopIsLink
<1> DEFINE v == [l \in 0..k+1 |-> IF l <= k THEN w[l] ELSE c]
<1>4. v \in [0..k+1 -> Nodes] /\ v[0] = 0 /\ v[k + 1] = c
  BY <1>1, <1>3 DEF Walked
<1>5. ASSUME NEW l \in 1..k+1 PROVE Hop(ins, path[l], v[l - 1], v[l])
  <2>1. CASE l = k + 1
    BY <1>1, <2>1
  <2>2. CASE l # k + 1
    <3>1. l \in 1..k /\ v[l - 1] = w[l - 1] /\ v[l] = w[l]
      BY <2>2
    <3>2. QED BY <1>1, <3>1 DEF Walked
  <2>3. QED BY <2>1, <2>2
<1> HIDE DEF v
<1>6. QED BY <1>4, <1>5 DEF WayTo, Walked

LEMMA WalkBegins ==
  ASSUME NEW ins, NEW path, NEW k \in Nat, NEW w, Walked(ins, path, k, w), NEW j \in Nat, j <= k
  PROVE  WayTo(ins, path, j, w[j])
<1> DEFINE v == [l \in 0..j |-> w[l]]
<1>1. v \in [0..j -> Nodes] /\ v[0] = 0 /\ v[j] = w[j]
  BY DEF Walked
<1>2. ASSUME NEW l \in 1..j PROVE Hop(ins, path[l], v[l - 1], v[l])
  <2>1. l \in 1..k /\ v[l] = w[l] /\ v[l - 1] = w[l - 1]
    OBVIOUS
  <2>2. QED BY <2>1 DEF Walked
<1> HIDE DEF v
<1>3. QED BY <1>1, <1>2 DEF WayTo, Walked

\* A way is one of the names, whatever follows them.
LEMMA WayOfNames ==
  ASSUME NEW ins, NEW p, NEW q, NEW k \in Nat, \A l \in 1..k : p[l] = q[l], NEW n, WayTo(ins, p, k, n)
  PROVE  WayTo(ins, q, k, n)
  BY DEF WayTo, Walked

\* A way stays one while the table grows.
LEMMA WayStaysWithin ==
  ASSUME NEW ins \in Tables, NEW more \in Tables, NEW bits, Good(bits, ins), Within(ins, more), NamesApart(more),
         NEW path, NEW k \in Nat, NEW n, WayTo(ins, path, k, n)
  PROVE  WayTo(more, path, k, n)
<1>1. ASSUME NEW name, NEW a \in Nodes, NEW c, Hop(ins, name, a, c)
      PROVE  Hop(more, name, a, c)
  <2>1. c \in Nodes /\ c # 0 /\ ins[c].type # TYPE_FREE /\ ins[c].name = name /\ ins[a].type = TYPE_DIR
    BY <1>1, HopIsLink, HopFromDir
  <2>2. PICK i \in Slots : Entry(ins[a], i) = c
    BY <1>1, HopIsLink
  <2>3. more[a].type = TYPE_DIR /\ more[c].type # TYPE_FREE /\ more[c].name = name /\ Entry(more[a], i) = c
    BY <2>1, <2>2, Sizes, Distinct DEF Within
  <2>4. QED BY <2>1, <2>3, EntryIsHop
<1>2. PICK w : Walked(ins, path, k, w) /\ w[k] = n
  BY DEF WayTo
<1>3. \A l \in 1..k : l - 1 \in 0..k
  OBVIOUS
<1>4. Walked(more, path, k, w)
  BY <1>1, <1>2, <1>3 DEF Walked
<1>5. QED BY <1>2, <1>4 DEF WayTo

\* Lookup is where the way along the path comes to.
LEMMA LookupIsWay ==
  ASSUME NEW ins \in Tables, NEW path, Len(path) \in Nat
  PROVE  Lookup(ins, path) = {n \in Nodes : WayTo(ins, path, Len(path), n)}
<1> DEFINE K == Len(path)
           Next1(S, k) == UNION {{ins[n].direct[i] : i \in search_dir(ins, path[k], n)} : n \in S}
           Leads(f) == f = [k \in 0..K |-> IF k = 0 THEN {0} ELSE Next1(f[k - 1], k)]
           leads == CHOOSE f : Leads(f)
           ways == [k \in 0..K |-> {n \in Nodes : WayTo(ins, path, k, n)}]
<1>1. Lookup(ins, path) = leads[K]
  BY DEF Lookup
<1>2. ASSUME NEW S \in SUBSET Nodes, NEW k, NEW c
      PROVE  c \in Next1(S, k) <=> \E n \in S : Hop(ins, path[k], n, c)
  BY DEF Hop
<1> HIDE DEF Next1
<1>3. {n \in Nodes : WayTo(ins, path, 0, n)} = {0}
  <2>1. WayTo(ins, path, 0, 0)
    <3> DEFINE v == [l \in 0..0 |-> 0]
    <3>1. v \in [0..0 -> Nodes] /\ v[0] = 0
      BY Sizes
    <3> HIDE DEF v
    <3>2. Walked(ins, path, 0, v)
      BY <3>1 DEF Walked
    <3>3. QED BY <3>1, <3>2 DEF WayTo
  <2>2. \A n : WayTo(ins, path, 0, n) => n = 0
    BY DEF WayTo, Walked
  <2>3. QED BY <2>1, <2>2, Sizes
<1>4. ASSUME NEW k \in 1..K PROVE ways[k] = Next1(ways[k - 1], k)
  <2>1. k - 1 \in 0..K /\ k \in 0..K /\ k - 1 \in Nat /\ (k - 1) + 1 = k /\ k \in 1..k /\ k \in Nat /\ k - 1 <= k
    OBVIOUS
  <2>2. ways[k] = {n \in Nodes : WayTo(ins, path, k, n)} /\ ways[k - 1] = {n \in Nodes : WayTo(ins, path, k - 1, n)}
    BY <2>1
  <2>3. ASSUME NEW c, c \in ways[k] PROVE c \in Next1(ways[k - 1], k)
    <3>1. PICK w : Walked(ins, path, k, w) /\ w[k] = c
      BY <2>2, <2>3 DEF WayTo
    <3>2. WayTo(ins, path, k - 1, w[k - 1]) /\ w[k - 1] \in Nodes /\ Hop(ins, path[k], w[k - 1], c)
      BY <2>1, <3>1, WalkBegins DEF Walked
    <3>3. w[k - 1] \in ways[k - 1]
      BY <2>2, <3>2
    <3>4. ways[k - 1] \in SUBSET Nodes
      BY <2>2
    <3> HIDE DEF ways
    <3>5. QED BY <1>2, <3>2, <3>3, <3>4
  <2>4. ASSUME NEW c, c \in Next1(ways[k - 1], k) PROVE c \in ways[k]
    <3>1. ways[k - 1] \in SUBSET Nodes
      BY <2>2
    <3> HIDE DEF ways
    <3>2. PICK n \in ways[k - 1] : Hop(ins, path[k], n, c)
      BY <1>2, <2>4, <3>1
    <3>3. WayTo(ins, path, k - 1, n) /\ n \in Nodes
      BY <2>2, <3>2
    <3>4. WayTo(ins, path, k, c)
      BY <2>1, <3>2, <3>3, WayOn
    <3>5. c \in Nodes
      BY <3>2, <3>3, HopIsLink
    <3>6. QED BY <2>2, <3>4, <3>5
  <2>5. QED BY <2>3, <2>4
<1>5. Leads(ways)
  <2>1. ways[0] = {0}
    BY <1>3
  <2>2. DOMAIN ways = 0..K
    OBVIOUS
  <2>3. \A k \in 0..K : ways[k] = IF k = 0 THEN {0} ELSE Next1(ways[k - 1], k)
    <3> SUFFICES ASSUME NEW k \in 0..K PROVE ways[k] = IF k = 0 THEN {0} ELSE Next1(ways[k - 1], k)
      OBVIOUS
    <3>1. k = 0 \/ k \in 1..K
      OBVIOUS
    <3> HIDE DEF ways
    <3>2. QED BY <1>4, <2>1, <3>1
  <2>4. ways = [k \in 0..K |-> ways[k]]
    OBVIOUS
  <2> HIDE DEF ways
  <2>5. QED BY <2>3, <2>4
<1>6. Leads(leads)
  BY <1>5
<1> HIDE DEF leads
<1> DEFINE S == {x \in Nat : x <= K => leads[x] = ways[x]}
<1>7. 0 \in S
  BY <1>3, <1>6
<1>8. ASSUME NEW x \in Nat, x \in S PROVE x + 1 \in S
  <2> SUFFICES ASSUME x + 1 <= K PROVE leads[x + 1] = ways[x + 1]
    OBVIOUS
  <2>1. x + 1 \in 1..K /\ x + 1 # 0 /\ (x + 1) - 1 = x /\ leads[x] = ways[x]
    BY <1>8
  <2>2. leads[x + 1] = Next1(leads[x], x + 1)
    <3>1. \A k \in 0..K : leads[k] = IF k = 0 THEN {0} ELSE Next1(leads[k - 1], k)
      BY <1>6
    <3>2. x + 1 \in 0..K
      BY <2>1
    <3>3. leads[x + 1] = Next1(leads[(x + 1) - 1], x + 1)
      BY <2>1, <3>1, <3>2
    <3>4. QED BY <2>1, <3>3
  <2> HIDE DEF ways
  <2>3. QED BY <1>4, <2>1, <2>2
<1> HIDE DEF S
<1>9. K \in S
  BY <1>7, <1>8, AllNaturals
<1>10. leads[K] = ways[K]
  BY <1>9 DEF S
<1>11. QED BY <1>1, <1>10
=============================================================================
