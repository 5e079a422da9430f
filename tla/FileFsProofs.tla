---------------------------- MODULE FileFsProofs ----------------------------
(*****************************************************************************)
(* One owner per block in FileFs, for images of any size and after any       *)
(* number of saves of -a cut short, and no block lost until the first.  -r   *)
(* walks links that no two inodes share, so its recursion meets every        *)
(* inode once; the save of -a writes a bitmap that covers old and new        *)
(* inodes alike.  The invariant says what the image and the memory are       *)
(* while a command is at each of its steps.  The last part sums up what      *)
(* each step does to the tables.                                             *)
(*****************************************************************************)
EXTENDS FileFsTables

Superblocks == [num_free : Int, size : Int, inode_start : Int]
Images == [sb : Superblocks, bitmap : Bitmaps, inodes : Tables]
Ops == {"none", "add", "remove", "extract", "list"}

Typed ==
  /\ image \in Images
  /\ sb \in Superblocks /\ bitmap \in Bitmaps /\ inodes \in Tables
  /\ pc \in {"idle", "walk", "write", "free", "up", "save"}
  /\ cmd \in [op : Ops, path : Seq(Names)]
  /\ at \in [node : Nodes, nodes : Seq(Nodes), slots : Seq(Slots)]
  /\ file \in [node : Nodes, slot : Slots]
  /\ stack \in Seq(Nodes)
  /\ saved \in Nat /\ torn \in Nat

\* Which commands are where.
Phased ==
  /\ pc = "idle" => cmd.op = "none" /\ at = AtRoot
  /\ pc # "idle" => cmd.op # "none"
  /\ pc = "write" => cmd.op = "add"
  /\ pc \in {"free", "up"} => cmd.op = "remove"
  /\ pc # "save" => saved = 0
  /\ saved <= MAX_INODES + 1
  /\ cmd.op = "remove" => torn = 0 /\ cmd.path # << >>

\* The image is sound at all times but while -r saves, the memory while a
\* command runs.
ImageGood == cmd.op # "remove" \/ saved = 0 => Good(image.bitmap, image.inodes)
MemoryGood == pc # "idle" => Good(bitmap, inodes)

\* Until a save is cut short links are as they should be, and no block is lost.
TreeKept ==
  torn = 0 =>
    /\ saved = 0 \/ cmd.op \in {"extract", "list"} => Kept(image.bitmap, image.inodes)
    /\ pc # "idle" => Kept(bitmap, inodes)

\* -e and -l change nothing.
Reading == cmd.op \in {"extract", "list"} => bitmap = image.bitmap /\ inodes = image.inodes

\* -a changes no file there is, and writes only into directories and a new file.
Adding ==
  cmd.op = "add" =>
    /\ \A n \in Nodes : image.inodes[n].type = TYPE_FILE => inodes[n].type = TYPE_FILE
    /\ \A n \in Nodes, i \in Spots :
         image.inodes[n].type = TYPE_FILE => Entry(image.inodes[n], i) = Entry(inodes[n], i)
    /\ pc \in {"walk", "write"} => inodes[at.node].type = TYPE_DIR

\* The file it writes is new, has no entries behind the last block written, and
\* is not linked yet.
Writing ==
  pc = "write" =>
    /\ inodes[file.node].type = TYPE_FILE /\ inodes[file.node].size >= 0
    /\ image.inodes[file.node].type # TYPE_FILE
    /\ Last(cmd.path) \in DOMAIN UserFiles
    /\ \A i \in Spots : i >= inodes[file.node].size => Entry(inodes[file.node], i) = 0
    /\ torn = 0 => \A n \in Nodes, i \in Spots : inodes[n].type = TYPE_DIR => Entry(inodes[n], i) # file.node

\* What has been saved is in the image.
Saving ==
  saved >= 2 =>
    /\ image.bitmap = bitmap
    /\ \A n \in Nodes : n + 2 < saved => image.inodes[n] = inodes[n]

\* The way -r has come: a path from the root along links, without repetition.
Way ==
  /\ at.nodes # << >> => at.nodes[1] = 0
  /\ \A k \in 1..Len(at.nodes) : inodes[at.nodes[k]].type = TYPE_DIR
  /\ \A k \in 1..Len(at.nodes)-1 : Entry(inodes[at.nodes[k]], at.slots[k]) = at.nodes[k + 1]
  /\ \A j, k \in 1..Len(at.nodes) : at.nodes[j] = at.nodes[k] => j = k

\* It leads on to inode n.
LeadsTo(n) ==
  /\ Len(at.slots) = Len(at.nodes)
  /\ at.nodes = << >> => n = 0
  /\ at.nodes # << >> => Entry(inodes[at.nodes[Len(at.nodes)]], at.slots[Len(at.nodes)]) = n /\ n # 0
  /\ \A k \in 1..Len(at.nodes) : at.nodes[k] # n

\* Entry i of directory n is its first link.
FirstLink(ins, n, i) ==
  /\ i \in Slots /\ Entry(ins[n], i) # 0
  /\ \A j \in Slots : j < i => Entry(ins[n], j) = 0

\* The recursion of free_directory: each inode on the stack is the first child
\* of the one before, and none is there twice or on the way to the first.
Recursion ==
  /\ stack # << >>
  /\ LeadsTo(stack[1])
  /\ \A k \in 1..Len(stack)-1 :
       /\ inodes[stack[k]].type = TYPE_DIR
       /\ \E i \in Slots : FirstLink(inodes, stack[k], i) /\ Entry(inodes[stack[k]], i) = stack[k + 1]
  /\ \A j, k \in 1..Len(stack) : stack[j] = stack[k] => j = k
  /\ \A j \in 1..Len(at.nodes), k \in 1..Len(stack) : at.nodes[j] # stack[k]

Removing ==
  cmd.op = "remove" =>
    /\ pc \in {"walk", "free", "up"} => Way
    /\ pc = "walk" => LeadsTo(at.node)
    /\ pc = "free" => Recursion
    /\ pc \in {"free", "up"} => at.nodes # << >>
    /\ pc = "up" => Len(at.nodes) <= Len(at.slots)

Inv ==
  /\ Typed /\ Phased /\ ImageGood /\ MemoryGood /\ TreeKept
  /\ Reading /\ Adding /\ Writing /\ Saving /\ Removing

\* What the memory holds while no command runs.
LEMMA ZeroTyped == ZeroFs.sb \in Superblocks /\ ZeroFs.bitmap \in Bitmaps /\ ZeroFs.inodes \in Tables
<1>1. ZeroInode \in Node
  BY Sizes DEF ZeroInode, Node, FileNames, Types
<1>2. QED BY <1>1 DEF ZeroFs, Superblocks, Bitmaps, Tables

\* A new image is sound.
LEMMA NewTyped ==
  /\ new_filesys \in Images
  /\ Good(new_filesys.bitmap, new_filesys.inodes) /\ Kept(new_filesys.bitmap, new_filesys.inodes)
<1> DEFINE root == [ZeroInode EXCEPT !.name = "root", !.type = TYPE_DIR]
<1>1. ZeroInode \in Node /\ ZeroInode.type = TYPE_FREE /\ ZeroInode.size = 0
  BY Sizes DEF ZeroInode, Node, FileNames, Types
<1>2. root \in Node /\ root.type = TYPE_DIR
  BY <1>1 DEF Node, FileNames, Types
<1>3. \A i \in Spots : Entry(ZeroInode, i) = 0 /\ Entry(root, i) = 0
  BY <1>1, Sizes DEF Entry, ZeroInode, Spots, Slots
<1> HIDE DEF root
<1>4. new_filesys.sb \in Superblocks /\ new_filesys.bitmap \in Bitmaps
  BY SizesAssumption DEF new_filesys, Superblocks, Bitmaps, MAX_BLOCKS, data_start, inode_start
<1>5. new_filesys.inodes \in Tables /\ \A n \in Nodes : new_filesys.inodes[n] = IF n = 0 THEN root ELSE ZeroInode
  BY <1>1, <1>2 DEF new_filesys, Tables, root
<1>6. new_filesys \in Images
  BY <1>4, <1>5 DEF new_filesys, Images
<1>7. MetaUsed(new_filesys.bitmap)
  BY DEF new_filesys, MetaUsed
<1> DEFINE ins == new_filesys.inodes
<1>8. \A n \in Nodes : ins[n].type = IF n = 0 THEN TYPE_DIR ELSE TYPE_FREE
  BY <1>1, <1>2, <1>5
<1>9. \A n \in Nodes, i \in Spots : Entry(ins[n], i) = 0
  BY <1>3, <1>5
<1>10. \A n \in Nodes : n # 0 => ins[n].size = 0
  BY <1>1, <1>5
<1> HIDE DEF ins
<1>11. Shaped(ins)
  BY <1>8, <1>9, <1>10, Sizes, Distinct DEF Shaped
<1>12. Owned(new_filesys.bitmap, ins) /\ Linked(ins) /\ Covered(new_filesys.bitmap, ins)
  BY <1>9, Distinct, Sizes DEF Owned, Apart, Linked, Covered, new_filesys, BlockIds
<1>13. QED BY <1>6, <1>7, <1>11, <1>12 DEF Good, Kept, ins

\* The values of the variables of the walk at rest.
LEMMA NothingTyped ==
  /\ NoCommand \in [op : Ops, path : Seq(Names)]
  /\ AtRoot \in [node : Nodes, nodes : Seq(Nodes), slots : Seq(Slots)]
  /\ NoFile \in [node : Nodes, slot : Slots]
  /\ << >> \in Seq(Nodes)
<1>1. 0 \in Nodes /\ 0 \in Slots
  BY SizesAssumption DEF Nodes, Slots
<1>2. QED BY <1>1 DEF NoCommand, AtRoot, NoFile, Ops

\* The invariant holds at first.
LEMMA InvInit == Init => Inv
<1> SUFFICES ASSUME Init PROVE Inv
  OBVIOUS
<1> USE DEF Init, InitWith
<1>1. Typed
  BY NewTyped, ZeroTyped, NothingTyped DEF Typed
<1>2. Good(image.bitmap, image.inodes) /\ Kept(image.bitmap, image.inodes)
  BY NewTyped
<1>3. Phased
  BY SizesAssumption DEF Phased, NoCommand
<1>4. QED BY <1>1, <1>2, <1>3
      DEF Inv, ImageGood, MemoryGood, TreeKept, Reading, Adding, Writing, Saving, Removing, NoCommand

\* The end of a command leaves what the image is then.
LEMMA IdleKeeps ==
  ASSUME Idle, image' \in Images, torn' \in Nat,
         Good(image'.bitmap, image'.inodes), torn' = 0 => Kept(image'.bitmap, image'.inodes)
  PROVE  Inv'
<1> USE DEF Idle, load_filesys
<1>1. Typed'
  BY ZeroTyped, NothingTyped DEF Typed
<1>2. Phased'
  BY SizesAssumption DEF Phased, NoCommand
<1>3. QED BY <1>1, <1>2
      DEF Inv, ImageGood, MemoryGood, TreeKept, Reading, Adding, Writing, Saving, Removing, NoCommand

\* die() leaves the image as it is.
LEMMA DieKeeps ==
  ASSUME Inv, saved = 0, die
  PROVE  Inv'
<1>1. image' = image /\ torn' = torn /\ Idle
  BY DEF die
<1>2. Good(image.bitmap, image.inodes) /\ (torn = 0 => Kept(image.bitmap, image.inodes)) /\ image \in Images /\ torn \in Nat
  BY DEF Inv, ImageGood, TreeKept, Typed
<1>3. QED BY <1>1, <1>2, IdleKeeps

\* So does a kill, and a save of -a leaves a sound image wherever it is cut short.
LEMMA CrashKeeps ==
  ASSUME Inv, Crash
  PROVE  Inv'
<1>1. image' = image /\ Idle /\ image \in Images /\ torn' \in Nat
  BY DEF Crash, Inv, Typed
<1>2. cmd.op # "remove" \/ saved = 0
  BY DEF Crash, Inv, Phased, Typed
<1>3. Good(image.bitmap, image.inodes)
  BY <1>2 DEF Inv, ImageGood
<1>4. ASSUME torn' = 0 PROVE Kept(image.bitmap, image.inodes)
  <2>1. torn = 0 /\ (saved = 0 \/ cmd.op \in {"extract", "list"})
    BY <1>4 DEF Crash, Inv, Typed, Phased, Ops
  <2>2. QED BY <2>1 DEF Inv, TreeKept
<1>5. QED BY <1>1, <1>3, <1>4, IdleKeeps

\* The start of a command takes a sound image into memory.
LEMMA OpenKeeps ==
  ASSUME Inv, NEW op \in {"add", "remove", "extract", "list"}, NEW path \in Seq(Names), Open(op, path),
         path = << >> => op # "remove"
  PROVE  Inv'
<1>0. /\ pc = "idle" /\ pc' = "walk" /\ cmd' = [op |-> op, path |-> path] /\ (op = "remove" => torn = 0)
      /\ UNCHANGED <<at, file, stack, saved, torn>>
  BY DEF Open
<1>1. image # NoImage
  <2>1. "bitmap" \in DOMAIN image
    BY DEF Inv, Typed, Images
  <2>2. DOMAIN NoImage = {"sb"}
    BY DEF NoImage
  <2>3. QED BY <2>1, <2>2
<1>2. image' = image /\ sb' = image.sb /\ bitmap' = image.bitmap /\ inodes' = image.inodes
  BY <1>1 DEF Open, load_filesys
<1>3. saved = 0 /\ cmd.op = "none"
  BY <1>0 DEF Inv, Phased
<1>4. Good(image.bitmap, image.inodes) /\ (torn = 0 => Kept(image.bitmap, image.inodes))
  BY <1>3 DEF Inv, ImageGood, TreeKept
<1>5. at = AtRoot /\ image.inodes \in Tables /\ image.bitmap \in Bitmaps /\ image.sb \in Superblocks /\ torn \in Nat
  BY <1>0 DEF Inv, Phased, Typed, Images
<1>6. Typed'
  BY <1>0, <1>2, <1>3, <1>5 DEF Typed, Inv, Images, Ops
<1>7. Phased'
  BY <1>0, <1>3, SizesAssumption DEF Phased
<1>8. ImageGood' /\ MemoryGood' /\ TreeKept' /\ Reading' /\ Writing' /\ Saving'
  BY <1>0, <1>2, <1>3, <1>4 DEF ImageGood, MemoryGood, TreeKept, Reading, Writing, Saving
<1>9. inodes'[0].type = TYPE_DIR
  BY <1>2, <1>4 DEF Good, Shaped
<1>10. Adding'
  BY <1>0, <1>2, <1>5, <1>9 DEF Adding, AtRoot
<1>11. Removing'
  BY <1>0, <1>5 DEF Removing, Way, LeadsTo, AtRoot
<1>12. QED BY <1>6, <1>7, <1>8, <1>10, <1>11 DEF Inv

\* A step that leaves image and memory alone.
LEMMA QuietKeeps ==
  ASSUME Inv, UNCHANGED <<image, fs, cmd, file, saved, torn>>, pc # "idle", pc' # "idle",
         Typed', Phased', pc' # "write",
         pc' = "walk" => (cmd.op = "add" => inodes[at'.node].type = TYPE_DIR),
         Removing'
  PROVE  Inv'
<1>1. image' = image /\ sb' = sb /\ bitmap' = bitmap /\ inodes' = inodes /\ cmd' = cmd /\ saved' = saved /\ torn' = torn
  BY DEF fs
<1>2. ImageGood' /\ MemoryGood' /\ TreeKept' /\ Reading' /\ Writing' /\ Saving'
  BY <1>1 DEF Inv, ImageGood, MemoryGood, TreeKept, Reading, Writing, Saving
<1>3. Adding'
  BY <1>1 DEF Inv, Adding
<1>4. QED BY <1>2, <1>3 DEF Inv

\* A step of -a that works on the memory.
LEMMA AddKeeps ==
  ASSUME Inv, cmd.op = "add", UNCHANGED <<image, cmd, saved, torn>>, saved = 0, pc' # "idle",
         Typed', Phased', Good(bitmap', inodes'), torn = 0 => Kept(bitmap', inodes'),
         \A n \in Nodes : image.inodes[n].type = TYPE_FILE => inodes'[n].type = TYPE_FILE,
         \A n \in Nodes, i \in Spots :
           image.inodes[n].type = TYPE_FILE => Entry(image.inodes[n], i) = Entry(inodes'[n], i),
         pc' \in {"walk", "write"} => inodes'[at'.node].type = TYPE_DIR,
         Writing'
  PROVE  Inv'
<1>1. ImageGood' /\ MemoryGood' /\ TreeKept' /\ Reading' /\ Saving' /\ Adding' /\ Removing'
  BY DEF Inv, ImageGood, MemoryGood, TreeKept, Reading, Saving, Adding, Removing
<1>2. QED BY <1>1 DEF Inv

\* A step of -r that works on the memory.
LEMMA RemoveKeeps ==
  ASSUME Inv, cmd.op = "remove", UNCHANGED <<image, cmd, saved, torn>>, saved = 0, pc' \notin {"idle", "write"},
         Typed', Phased', Good(bitmap', inodes'), Kept(bitmap', inodes'), Removing'
  PROVE  Inv'
<1>1. ImageGood' /\ MemoryGood' /\ TreeKept' /\ Reading' /\ Saving' /\ Adding' /\ Writing'
  BY DEF Inv, ImageGood, MemoryGood, TreeKept, Reading, Saving, Adding, Writing
<1>2. QED BY <1>1 DEF Inv

-----------------------------------------------------------------------------
\* What search_dir finds is a link to an inode in use.
LEMMA FoundIsLink ==
  ASSUME Inv, NEW i \in Found
  PROVE  /\ i \in Slots
         /\ inodes[at.node].direct[i] = Entry(inodes[at.node], i)
         /\ Entry(inodes[at.node], i) \in Nodes /\ Entry(inodes[at.node], i) # 0
         /\ inodes[Entry(inodes[at.node], i)].type # TYPE_FREE
<1>1. i \in Children(inodes, at.node)
  BY DEF Found, search_dir, Least
<1>2. i \in Slots /\ IsChild(inodes, inodes[at.node].direct[i])
  BY <1>1 DEF Children
<1>3. inodes[at.node].direct[i] = Entry(inodes[at.node], i)
  BY <1>2, SizesAssumption DEF Entry, Slots
<1>4. Entry(inodes[at.node], i) \in Nodes /\ Entry(inodes[at.node], i) # 0
  <2>1. Entry(inodes[at.node], i) \in BlockIds
    BY <1>2, Sizes, EntryId DEF Inv, Typed
  <2>2. Entry(inodes[at.node], i) > 0 /\ Entry(inodes[at.node], i) < MAX_INODES
    BY <1>2, <1>3 DEF IsChild
  <2>3. QED BY <2>1, <2>2, Sizes DEF Nodes, BlockIds
<1>5. QED BY <1>2, <1>3, <1>4 DEF IsChild

\* The walk stays within the inodes.
LEMMA EnterTyped ==
  ASSUME Inv, NEW i \in Slots, NEW n \in Nodes, Enter(i, n)
  PROVE  /\ at' \in [node : Nodes, nodes : Seq(Nodes), slots : Seq(Slots)]
         /\ at'.node = n /\ at'.nodes = Append(at.nodes, at.node) /\ at'.slots = Append(at.slots, i)
  BY DEF Enter, Inv, Typed

\* add_file steps into a directory.
LEMMA EnterDirKeeps ==
  ASSUME Inv, EnterDir
  PROVE  Inv'
<1>1. pc = "walk" /\ cmd.op = "add" /\ saved = 0 /\ inodes \in Tables /\ at.node \in Nodes
  BY DEF EnterDir, Walking, Inv, Phased, Typed
<1>2. PICK i \in Found :
        LET child == inodes[at.node].direct[i]
        IN  IF inodes[child].type # TYPE_DIR THEN die ELSE
               /\ Enter(i, child)
               /\ UNCHANGED <<image, data, fs, pc, cmd, file, buffer, stack, saved, torn, out>>
  BY DEF EnterDir
<1> DEFINE child == inodes[at.node].direct[i]
<1>3. i \in Slots /\ child \in Nodes
  BY FoundIsLink
<1>4. CASE inodes[child].type # TYPE_DIR
  BY <1>1, <1>2, <1>4, DieKeeps
<1>5. CASE inodes[child].type = TYPE_DIR
  <2>1. Enter(i, child) /\ UNCHANGED <<image, data, fs, pc, cmd, file, buffer, stack, saved, torn, out>>
    BY <1>2, <1>5
  <2>2. at'.node = child /\ at' \in [node : Nodes, nodes : Seq(Nodes), slots : Seq(Slots)]
    BY <1>3, <2>1, EnterTyped
  <2>3. Typed'
    BY <2>1, <2>2 DEF Inv, Typed, fs
  <2>4. Phased'
    BY <1>1, <2>1 DEF Inv, Phased
  <2>5. Removing'
    BY <1>1, <2>1 DEF Removing
  <2>6. QED BY <1>1, <1>5, <2>1, <2>2, <2>3, <2>4, <2>5, QuietKeeps
<1>6. QED BY <1>4, <1>5

\* add_dir.
LEMMA add_dirKeeps ==
  ASSUME Inv, add_dir
  PROVE  Inv'
<1>1. pc = "walk" /\ cmd.op = "add" /\ saved = 0 /\ inodes \in Tables /\ bitmap \in Bitmaps /\ at.node \in Nodes
      /\ Good(bitmap, inodes) /\ inodes[at.node].type = TYPE_DIR /\ (torn = 0 => Kept(bitmap, inodes))
  BY DEF add_dir, Walking, Inv, Phased, Typed, MemoryGood, Adding, TreeKept
<1>2. CASE die
  BY <1>1, <1>2, DieKeeps
<1>3. ASSUME NEW i \in search_open_dir(at.node), NEW n \in find_free_inode,
        inodes' = [inodes EXCEPT ![n].name = cmd.path[Len(at.nodes) + 1], ![n].type = TYPE_DIR,
                                 ![at.node].size = @ + 1, ![at.node].direct[i] = n],
        Enter(i, n),
        UNCHANGED <<image, data, sb, bitmap, pc, cmd, file, buffer, stack, saved, torn, out>>
      PROVE  Inv'
  <2>1. i \in Slots /\ n \in Nodes /\ inodes[n].type = TYPE_FREE
    BY DEF search_open_dir, find_free_inode, Least
  <2>2. cmd.path[Len(at.nodes) + 1] \in Names
    <3>1. cmd.path \in Seq(Names) /\ at.nodes \in Seq(Nodes)
      BY DEF Inv, Typed
    <3>2. Len(at.nodes) < Len(cmd.path)
      BY DEF add_dir, Walking
    <3>3. QED BY <3>1, <3>2
  <2>3. DirAdded(inodes, inodes', n, at.node, i)
    BY <1>1, <1>3, <2>1, <2>2, AddDirTable
  <2>4. Good(bitmap', inodes') /\ (torn = 0 => Kept(bitmap', inodes'))
    BY <1>1, <1>3, <2>1, <2>3, DirAddedKeeps
  <2>5. at'.node = n /\ at' \in [node : Nodes, nodes : Seq(Nodes), slots : Seq(Slots)]
    BY <1>3, <2>1, EnterTyped
  <2>6. Typed'
    BY <1>3, <2>3, <2>5 DEF Inv, Typed, DirAdded
  <2>7. Phased'
    BY <1>1, <1>3 DEF Inv, Phased
  <2>8. \A m \in Nodes : image.inodes[m].type = TYPE_FILE => inodes[m].type = TYPE_FILE
    BY <1>1 DEF Inv, Adding
  <2>9. \A m \in Nodes, j \in Spots : image.inodes[m].type = TYPE_FILE => Entry(image.inodes[m], j) = Entry(inodes[m], j)
    BY <1>1 DEF Inv, Adding
  <2>10. \A m \in Nodes : image.inodes[m].type = TYPE_FILE => inodes'[m].type = TYPE_FILE
    BY <2>1, <2>3, <2>8, Distinct DEF DirAdded
  <2>11. \A m \in Nodes, j \in Spots : image.inodes[m].type = TYPE_FILE => Entry(image.inodes[m], j) = Entry(inodes'[m], j)
    BY <1>1, <2>3, <2>8, <2>9, Distinct DEF DirAdded
  <2>12. Writing'
    BY <1>1, <1>3 DEF Writing
  <2>13. inodes'[at'.node].type = TYPE_DIR
    BY <2>1, <2>3, <2>5 DEF DirAdded
  <2>14. QED BY <1>1, <1>3, <2>4, <2>6, <2>7, <2>10, <2>11, <2>12, <2>13, AddKeeps
<1>4. QED BY <1>2, <1>3 DEF add_dir

\* add_file.
LEMMA add_fileKeeps ==
  ASSUME Inv, add_file
  PROVE  Inv'
<1>1. pc = "walk" /\ cmd.op = "add" /\ saved = 0 /\ inodes \in Tables /\ bitmap \in Bitmaps /\ at.node \in Nodes
      /\ Good(bitmap, inodes) /\ inodes[at.node].type = TYPE_DIR /\ (torn = 0 => Kept(bitmap, inodes))
  BY DEF add_file, Walking, Inv, Phased, Typed, MemoryGood, Adding, TreeKept
<1>2. CASE die
  BY <1>1, <1>2, DieKeeps
<1>3. ASSUME NEW i \in search_open_dir(at.node), NEW n \in find_free_inode, Last(cmd.path) \in DOMAIN UserFiles,
        inodes' = [inodes EXCEPT ![n].name = Last(cmd.path), ![n].type = TYPE_FILE],
        file' = [node |-> n, slot |-> i],
        pc' = "write",
        UNCHANGED <<image, data, sb, bitmap, cmd, at, buffer, stack, saved, torn, out>>
      PROVE  Inv'
  <2>1. i \in Slots /\ n \in Nodes /\ inodes[n].type = TYPE_FREE
    BY DEF search_open_dir, find_free_inode, Least
  <2>2. Last(cmd.path) \in Names
    BY DEF add_file, Walking, OnLastName, Last, Inv, Typed
  <2>3. FileAdded(inodes, inodes', n)
    BY <1>1, <1>3, <2>1, <2>2, AddFileTable
  <2>4. Good(bitmap', inodes') /\ (torn = 0 => Kept(bitmap', inodes'))
    BY <1>1, <1>3, <2>1, <2>3, FileAddedKeeps
  <2>6. Typed'
    BY <1>3, <2>1, <2>3 DEF Inv, Typed, FileAdded
  <2>7. Phased'
    BY <1>1, <1>3 DEF Inv, Phased
  <2>8. \A m \in Nodes : image.inodes[m].type = TYPE_FILE => inodes[m].type = TYPE_FILE
    BY <1>1 DEF Inv, Adding
  <2>9. \A m \in Nodes, j \in Spots : image.inodes[m].type = TYPE_FILE => Entry(image.inodes[m], j) = Entry(inodes[m], j)
    BY <1>1 DEF Inv, Adding
  <2>10. \A m \in Nodes : image.inodes[m].type = TYPE_FILE => inodes'[m].type = TYPE_FILE
    BY <2>1, <2>3, <2>8, Distinct DEF FileAdded
  <2>11. \A m \in Nodes, j \in Spots : image.inodes[m].type = TYPE_FILE => Entry(image.inodes[m], j) = Entry(inodes'[m], j)
    BY <1>1, <2>3, <2>9 DEF FileAdded
  <2>12. Writing'
    <3>1. inodes'[n].type = TYPE_FILE /\ inodes'[n].size = 0 /\ image.inodes[n].type # TYPE_FILE
      BY <1>1, <2>1, <2>3, <2>8, Distinct DEF FileAdded, Good, Shaped
    <3>2. ASSUME torn = 0, NEW m \in Nodes, NEW j \in Spots, inodes'[m].type = TYPE_DIR
          PROVE  Entry(inodes'[m], j) # n
      <4>1. inodes[m].type = TYPE_DIR /\ Entry(inodes'[m], j) = Entry(inodes[m], j)
        BY <2>3, <3>2, Distinct DEF FileAdded
      <4>2. n # 0
        BY <1>1, <2>1, Distinct DEF Good, Shaped
      <4>3. QED BY <1>1, <2>1, <3>2, <4>1, <4>2 DEF Kept, Linked
    <3>3. image' = image /\ torn' = torn /\ file'.node = n /\ cmd' = cmd
      BY <1>3
    <3>4. \A j \in Spots : Entry(inodes'[n], j) = 0
      BY <1>1, <2>1, <2>3 DEF FileAdded, Good, Shaped
    <3>5. Last(cmd'.path) \in DOMAIN UserFiles /\ inodes'[file'.node].size >= 0
      BY <1>3, <3>1, <3>3
    <3>6. QED BY <3>1, <3>2, <3>3, <3>4, <3>5 DEF Writing
  <2>13. inodes'[at'.node].type = TYPE_DIR
    BY <1>1, <1>3, <2>1, <2>3, Distinct DEF FileAdded
  <2>14. QED BY <1>1, <1>3, <2>4, <2>6, <2>7, <2>10, <2>11, <2>12, <2>13, AddKeeps
<1>4. QED BY <1>2, <1>3 DEF add_file

\* -a of "/".
LEMMA add_nothingKeeps ==
  ASSUME Inv, add_nothing
  PROVE  Inv'
<1>1. pc = "walk" /\ pc' = "save" /\ cmd.op = "add" /\ saved = 0
      /\ UNCHANGED <<image, data, fs, cmd, at, file, buffer, stack, saved, torn, out>>
  BY DEF add_nothing, Arrived, Inv, Phased
<1>2. Typed' /\ Phased' /\ Removing'
  BY <1>1 DEF Inv, Typed, Phased, Removing, fs
<1>3. QED BY <1>1, <1>2, QuietKeeps

\* A file that fits the entries takes no more rounds than there are entries.
LEMMA RoundsBound ==
  ASSUME NEW L \in Nat, NEW B \in Nat \ {0}, NEW M \in Nat, L <= M * B
  PROVE  (L + B - 1) \div B <= M
  OBVIOUS

\* write_file, which takes a free block, keeps each block to one owner and writes
\* over no entry of the new file.
LEMMA WriteBlockKeeps ==
  ASSUME Inv, WriteBlock
  PROVE  Inv'
<1> DEFINE f == file.node
           k == inodes[f].size
<1>1. pc = "write" /\ cmd.op = "add" /\ saved = 0 /\ inodes \in Tables /\ bitmap \in Bitmaps /\ f \in Nodes
      /\ Good(bitmap, inodes) /\ (torn = 0 => Kept(bitmap, inodes))
  BY DEF WriteBlock, Inv, Phased, Typed, MemoryGood, TreeKept
<1>2. inodes[f].type = TYPE_FILE /\ k \in Nat /\ image.inodes[f].type # TYPE_FILE
  BY <1>1 DEF Inv, Writing, Tables, Node
<1>3. k <= MAX_DIRECT
  <2> DEFINE name == Last(cmd.path)
  <2>1. name \in DOMAIN UserFiles
    BY <1>1 DEF Inv, Writing
  <2>2. Len(UserFiles[name]) \in Nat /\ Len(UserFiles[name]) <= (MAX_DIRECT + 1) * BLOCK_UNITS
    BY <2>1, NamesAssumption
  <2>3. BLOCK_UNITS \in Nat \ {0} /\ MAX_DIRECT + 1 \in Nat /\ MAX_DIRECT \in Nat
    BY Sizes
  <2> HIDE DEF name
  <2>4. (Len(UserFiles[name]) + BLOCK_UNITS - 1) \div BLOCK_UNITS <= MAX_DIRECT + 1
    BY <2>2, <2>3, RoundsBound
  <2>5. k < Rounds(name)
    BY DEF WriteBlock, name
  <2>6. Rounds(name) <= MAX_DIRECT + 1
    BY <2>4 DEF Rounds
  <2>7. Rounds(name) \in Int
    BY <2>2, <2>3 DEF Rounds
  <2> HIDE DEF k
  <2>8. QED BY <1>2, <2>3, <2>5, <2>6, <2>7
<1>4. CASE die
  BY <1>1, <1>4, DieKeeps
<1>5. ASSUME NEW b \in allocate_blocks,
        bitmap' = [bitmap EXCEPT ![b] = USED],
        inodes' = IF k < MAX_DIRECT THEN [inodes EXCEPT ![f].direct[k] = b, ![f].size = k + 1]
                                    ELSE [inodes EXCEPT ![f].indirect = b, ![f].size = k + 1],
        UNCHANGED <<image, sb, pc, cmd, at, file, stack, saved, torn, out>>
      PROVE  Inv'
  <2>1. b \in BlockIds /\ bitmap[b] = FREE
    BY DEF allocate_blocks, Least
  <2>2. PICK e \in Spots, c \in Nat : e = k /\ c = k + 1 /\ EntrySet(inodes, inodes', f, e, b, c)
    <3>0. k + 1 \in Int /\ k + 1 \in Nat
      BY <1>2
    <3>1. CASE k < MAX_DIRECT
      <4>1. k \in Slots /\ k \in Spots /\ inodes' = [inodes EXCEPT ![f].direct[k] = b, ![f].size = k + 1]
        BY <1>2, <1>5, <3>1, SizesAssumption DEF Slots, Spots
      <4>2. EntrySet(inodes, inodes', f, k, b, k + 1)
        BY <1>1, <2>1, <3>0, <4>1, DirectTable
      <4>3. QED BY <3>0, <4>1, <4>2
    <3>2. CASE ~(k < MAX_DIRECT)
      <4>1. inodes' = [inodes EXCEPT ![f].indirect = b, ![f].size = k + 1]
        BY <1>5, <3>2
      <4>2. EntrySet(inodes, inodes', f, MAX_DIRECT, b, k + 1)
        BY <1>1, <2>1, <3>0, <4>1, IndirectTable
      <4>3. MAX_DIRECT \in Spots /\ MAX_DIRECT \in Nat
        BY Sizes
      <4>4. k = MAX_DIRECT
        BY <1>2, <1>3, <3>2, <4>3
      <4>5. QED BY <3>0, <4>2, <4>3, <4>4
    <3>3. QED BY <3>1, <3>2
  <2>3. Entry(inodes[f], e) = 0
    BY <1>1, <1>2, <2>2 DEF Inv, Writing
  <2>4. Good(bitmap', inodes') /\ (torn = 0 => Kept(bitmap', inodes'))
    <3>1. Good([bitmap EXCEPT ![b] = USED], inodes') /\ (Kept(bitmap, inodes) => Kept([bitmap EXCEPT ![b] = USED], inodes'))
      <4>1. /\ bitmap \in Bitmaps /\ inodes \in Tables /\ f \in Nodes /\ e \in Spots /\ b \in BlockIds
            /\ EntrySet(inodes, inodes', f, e, b, c) /\ inodes[f].type = TYPE_FILE /\ bitmap[b] = FREE
            /\ Good(bitmap, inodes) /\ Entry(inodes[f], e) = 0
        BY <1>1, <1>2, <2>1, <2>2, <2>3
      <4> HIDE DEF f, k
      <4>2. QED BY ONLY <4>1, BlockAddedKeeps
    <3>2. QED BY <1>1, <1>5, <3>1
  <2>5. bitmap' \in Bitmaps
    BY <1>1, <1>5, <2>1 DEF Bitmaps
  <2>6. Typed'
    BY <1>5, <2>2, <2>5 DEF Inv, Typed, EntrySet
  <2>7. Phased'
    BY <1>1, <1>5 DEF Inv, Phased
  <2>8. \A m \in Nodes : image.inodes[m].type = TYPE_FILE => inodes[m].type = TYPE_FILE
    BY <1>1 DEF Inv, Adding
  <2>9. \A m \in Nodes, j \in Spots : image.inodes[m].type = TYPE_FILE => Entry(image.inodes[m], j) = Entry(inodes[m], j)
    BY <1>1 DEF Inv, Adding
  <2>10. \A m \in Nodes : image.inodes[m].type = TYPE_FILE => inodes'[m].type = TYPE_FILE
    BY <2>2, <2>8 DEF EntrySet
  <2>11. \A m \in Nodes, j \in Spots : image.inodes[m].type = TYPE_FILE => Entry(image.inodes[m], j) = Entry(inodes'[m], j)
    BY <1>2, <2>2, <2>9 DEF EntrySet
  <2>12. Writing'
    <3>1. file' = file /\ image' = image /\ torn' = torn /\ cmd' = cmd
      BY <1>5
    <3>2. inodes'[f].type = TYPE_FILE /\ inodes'[f].size = k + 1
      BY <1>1, <1>2, <2>2 DEF EntrySet
    <3>3. ASSUME NEW j \in Spots, j >= k + 1 PROVE Entry(inodes'[f], j) = 0
      <4>1. j # e /\ j >= k
        BY <1>2, <2>2, <3>3, Sizes DEF Spots
      <4>2. Entry(inodes'[f], j) = Entry(inodes[f], j)
        BY <1>1, <2>2, <4>1 DEF EntrySet
      <4>3. QED BY <1>1, <4>1, <4>2 DEF Inv, Writing
    <3>4. \A m \in Nodes, j \in Spots : inodes'[m].type = TYPE_DIR =>
            inodes[m].type = TYPE_DIR /\ Entry(inodes'[m], j) = Entry(inodes[m], j)
      BY <1>2, <2>2, Distinct DEF EntrySet
    <3>5. QED BY <1>1, <1>2, <3>1, <3>2, <3>4, <3>3 DEF Inv, Writing
  <2>13. inodes'[at'.node].type = TYPE_DIR
    <3>1. at' = at /\ at.node \in Nodes /\ inodes[at.node].type = TYPE_DIR
      BY <1>1, <1>5 DEF Inv, Adding, Typed
    <3>2. QED BY <2>2, <3>1 DEF EntrySet
  <2>14. QED BY <1>1, <1>5, <2>4, <2>6, <2>7, <2>10, <2>11, <2>12, <2>13, AddKeeps
<1>6. QED BY <1>4, <1>5 DEF WriteBlock

\* add_file links the file, which nothing links yet.
LEMMA LinkFileKeeps ==
  ASSUME Inv, LinkFile
  PROVE  Inv'
<1> DEFINE f == file.node
           p == at.node
<1>1. pc = "write" /\ cmd.op = "add" /\ saved = 0 /\ inodes \in Tables /\ bitmap \in Bitmaps /\ f \in Nodes /\ p \in Nodes
      /\ file.slot \in Slots /\ Good(bitmap, inodes) /\ (torn = 0 => Kept(bitmap, inodes)) /\ pc' = "save"
  BY DEF LinkFile, Inv, Phased, Typed, MemoryGood, TreeKept
<1>2. inodes[f].type = TYPE_FILE /\ inodes[p].type = TYPE_DIR
  BY <1>1 DEF Inv, Writing, Adding
<1>3. PICK c \in Int : EntrySet(inodes, inodes', p, file.slot, f, c)
  <2>1. inodes' = [inodes EXCEPT ![p].direct[file.slot] = f, ![p].size = inodes[p].size + 1]
    BY DEF LinkFile
  <2>2. f \in BlockIds /\ inodes[p].size + 1 \in Int
    BY <1>1, Sizes DEF Tables, Node
  <2>3. EntrySet(inodes, inodes', p, file.slot, f, inodes[p].size + 1)
    BY <1>1, <2>1, <2>2, DirectTable
  <2>4. QED BY <2>2, <2>3
<1>4. Good(bitmap', inodes') /\ (torn = 0 => Kept(bitmap', inodes'))
  <2>1. bitmap' = bitmap
    BY DEF LinkFile
  <2>2. torn = 0 => \A m \in Nodes, j \in Spots : inodes[m].type = TYPE_DIR => Entry(inodes[m], j) # f
    BY <1>1 DEF Inv, Writing
  <2>3. Good(bitmap, inodes')
    BY <1>1, <1>2, <1>3, LinkSetKeeps
  <2>4. torn = 0 => Kept(bitmap', inodes')
    <3>1. torn = 0 => Kept(bitmap, inodes')
      BY <1>1, <1>2, <1>3, <2>2, LinkSetKeeps
    <3>2. QED BY <2>1, <3>1
  <2>5. QED BY <2>1, <2>3, <2>4
<1>5. UNCHANGED <<image, bitmap, cmd, at, file, stack, saved, torn>>
  BY DEF LinkFile
<1>6. Typed'
  <2>0. sb \in Superblocks /\ sb' = [sb EXCEPT !.num_free = @ - 1, !.size = @ + 1]
        /\ sb.num_free - 1 \in Int /\ sb.size + 1 \in Int
    BY DEF LinkFile, Inv, Typed, Superblocks
  <2>1. sb' \in Superblocks
    BY <2>0 DEF Superblocks
  <2>2. QED BY <1>1, <1>3, <1>5, <2>1 DEF Inv, Typed, EntrySet
<1>7. Phased'
  BY <1>1, <1>5 DEF Inv, Phased
<1>8. \A m \in Nodes : image.inodes[m].type = TYPE_FILE => inodes[m].type = TYPE_FILE
  BY <1>1 DEF Inv, Adding
<1>9. \A m \in Nodes, j \in Spots : image.inodes[m].type = TYPE_FILE => Entry(image.inodes[m], j) = Entry(inodes[m], j)
  BY <1>1 DEF Inv, Adding
<1>10. \A m \in Nodes : image.inodes[m].type = TYPE_FILE => inodes'[m].type = TYPE_FILE
  BY <1>3, <1>8 DEF EntrySet
<1>11. \A m \in Nodes, j \in Spots : image.inodes[m].type = TYPE_FILE => Entry(image.inodes[m], j) = Entry(inodes'[m], j)
  BY <1>2, <1>3, <1>8, <1>9, Distinct DEF EntrySet
<1>12. Writing'
  BY <1>1 DEF Writing
<1>13. QED BY <1>1, <1>4, <1>5, <1>6, <1>7, <1>10, <1>11, <1>12, AddKeeps

\* -e prints a file.
LEMMA ExtractKeeps ==
  ASSUME Inv, extract_file
  PROVE  Inv'
<1>1. pc = "walk" /\ cmd.op = "extract" /\ saved = 0
  BY DEF extract_file, Arrived, Inv, Phased
<1>2. CASE die
  BY <1>1, <1>2, DieKeeps
<1>3. CASE pc' = "save" /\ UNCHANGED <<image, data, fs, cmd, at, file, buffer, stack, saved, torn>>
  <2>1. Typed' /\ Phased' /\ Removing'
    BY <1>1, <1>3 DEF Inv, Typed, Phased, Removing, fs
  <2>2. QED BY <1>1, <1>3, <2>1, QuietKeeps
<1>4. QED BY <1>2, <1>3 DEF extract_file

\* -l.
LEMMA ListKeeps ==
  ASSUME Inv, list_dir
  PROVE  Inv'
<1>1. pc = "walk" /\ pc' = "save" /\ cmd.op = "list" /\ saved = 0
      /\ UNCHANGED <<image, data, fs, cmd, at, file, buffer, stack, saved, torn, out>>
  BY DEF list_dir, Inv, Phased
<1>2. Typed' /\ Phased' /\ Removing'
  BY <1>1 DEF Inv, Typed, Phased, Removing, fs
<1>3. QED BY <1>1, <1>2, QuietKeeps

-----------------------------------------------------------------------------
\* Least finds something where there is something.
LEMMA LeastExists ==
  ASSUME NEW S, S \subseteq Nat, S # {}
  PROVE  Least(S) # {}
<1>1. PICK x \in S : \A y \in S : ~(<<y, x>> \in OpToRel(<, Nat))
  BY NatLessThanWellFounded, WFMin
<1>2. \A y \in S : x <= y
  <2> SUFFICES ASSUME NEW y \in S PROVE x <= y
    OBVIOUS
  <2>1. x \in Nat /\ y \in Nat
    OBVIOUS
  <2>2. ~(y < x)
    BY <1>1, <2>1 DEF OpToRel
  <2>3. QED BY <2>1, <2>2
<1>3. QED BY <1>1, <1>2 DEF Least

\* A sequence and its last element.
LEMMA FrontParts ==
  ASSUME NEW S, NEW s \in Seq(S), s # << >>
  PROVE  /\ Len(s) \in Nat \ {0} /\ Last(s) = s[Len(s)] /\ Last(s) \in S
         /\ Front(s) \in Seq(S) /\ Len(Front(s)) = Len(s) - 1
         /\ \A k \in 1..Len(s)-1 : Front(s)[k] = s[k]
<1>1. Len(s) \in Nat \ {0} /\ Last(s) = s[Len(s)]
  BY EmptySeq DEF Last
<1>2. \A k \in 1..Len(s) : s[k] \in S
  BY ElementOfSeq
<1> DEFINE n == Len(s) - 1
<1>3. n \in Nat /\ n \in Int /\ n <= Len(s)
  BY <1>1
<1>4. SubSeq(s, 1, n) = Front(s)
  BY DEF Front
<1> HIDE DEF n
<1>5. /\ SubSeq(s, 1, n) \in Seq(S)
      /\ Len(SubSeq(s, 1, n)) = IF 1 <= n THEN n-1+1 ELSE 0
      /\ \A k \in 1..n-1+1 : SubSeq(s, 1, n)[k] = s[1+k-1]
  BY <1>1, <1>2, <1>3, SubSeqProperties
<1>6. Len(SubSeq(s, 1, n)) = n
  BY <1>3, <1>5
<1>7. \A k \in 1..n : SubSeq(s, 1, n)[k] = s[k]
  BY <1>3, <1>5
<1>8. Last(s) \in S
  BY <1>1, <1>2
<1>9. QED BY <1>1, <1>4, <1>5, <1>6, <1>7, <1>8 DEF n

\* The children of a directory are its links.
LEMMA ChildrenAreLinks ==
  ASSUME inodes \in Tables, Shaped(inodes), Linked(inodes), NEW n \in Nodes, inodes[n].type = TYPE_DIR
  PROVE  \A i \in Slots : i \in Children(inodes, n) <=> Entry(inodes[n], i) # 0
<1> SUFFICES ASSUME NEW i \in Slots
             PROVE  i \in Children(inodes, n) <=> Entry(inodes[n], i) # 0
  OBVIOUS
<1>1. inodes[n].direct[i] = Entry(inodes[n], i)
  BY SizesAssumption DEF Entry, Slots
<1>2. i \in Spots
  BY Sizes
<1>3. Entry(inodes[n], i) \in Nodes
  BY <1>2, NodeEntry
<1>4. CASE Entry(inodes[n], i) = 0
  BY <1>1, <1>4 DEF Children, IsChild
<1>5. CASE Entry(inodes[n], i) # 0
  <2>1. inodes[Entry(inodes[n], i)].type # TYPE_FREE
    BY <1>2, <1>5 DEF Linked
  <2>2. Entry(inodes[n], i) > 0 /\ Entry(inodes[n], i) < MAX_INODES
    BY <1>3, <1>5, SizesAssumption DEF Nodes
  <2>3. QED BY <1>1, <1>5, <2>1, <2>2 DEF Children, IsChild
<1>6. QED BY <1>4, <1>5

\* A directory without children and a file that has given back its blocks are empty.
LEMMA EmptyDir ==
  ASSUME inodes \in Tables, Shaped(inodes), Linked(inodes), NEW n \in Nodes, inodes[n].type = TYPE_DIR,
         Children(inodes, n) = {}
  PROVE  \A j \in Spots : Entry(inodes[n], j) = 0
<1>1. \A j \in Slots : Entry(inodes[n], j) = 0
  BY ChildrenAreLinks
<1>2. Entry(inodes[n], MAX_DIRECT) = 0
  BY DEF Shaped
<1>3. \A j \in Spots : j \in Slots \/ j = MAX_DIRECT
  BY SizesAssumption DEF Spots, Slots
<1>4. QED BY <1>1, <1>2, <1>3

\* The entries of a directory are counted from 0.
LEMMA SlotsAreNat == Slots \subseteq Nat
  BY SizesAssumption DEF Slots

\* The next child free_directory finds is the first link; without one the directory is empty.
LEMMA NextChildIsFirst ==
  ASSUME inodes \in Tables, Shaped(inodes), Linked(inodes), NEW n \in Nodes, inodes[n].type = TYPE_DIR
  PROVE  /\ \A i : i \in NextChild(n) => FirstLink(inodes, n, i)
         /\ NextChild(n) = {} => \A j \in Spots : Entry(inodes[n], j) = 0
<1>1. ASSUME NEW i, i \in NextChild(n) PROVE FirstLink(inodes, n, i)
  <2>1. i \in Children(inodes, n) /\ \A j \in Children(inodes, n) : i <= j
    BY <1>1 DEF NextChild, Least
  <2>2. i \in Slots
    BY <2>1 DEF Children
  <2>3. ASSUME NEW j \in Slots, j < i PROVE Entry(inodes[n], j) = 0
    <3>1. j \notin Children(inodes, n)
      BY <2>1, <2>2, <2>3, SlotsAreNat
    <3>2. QED BY <3>1, ChildrenAreLinks
  <2>4. QED BY <2>1, <2>2, <2>3, ChildrenAreLinks DEF FirstLink
<1>2. ASSUME NextChild(n) = {} PROVE Children(inodes, n) = {}
  BY <1>2, LeastExists, SlotsAreNat DEF NextChild, Children
<1>3. QED BY <1>1, <1>2, EmptyDir

\* There is one first link.
LEMMA FirstIsOne ==
  ASSUME NEW n, NEW i, NEW j, FirstLink(inodes, n, i), FirstLink(inodes, n, j)
  PROVE  i = j
<1>1. i \in Nat /\ j \in Nat
  BY SlotsAreNat DEF FirstLink
<1>2. ~(i < j) /\ ~(j < i)
  BY DEF FirstLink
<1>3. QED BY <1>1, <1>2

\* A file that has given back its blocks is empty.
LEMMA EmptyFile ==
  ASSUME inodes \in Tables, stack \in Seq(Nodes), stack # << >>, NextBlock = {}, inodes[Last(stack)].indirect = FREE
  PROVE  \A j \in Spots : Entry(inodes[Last(stack)], j) = 0
<1> DEFINE n == Last(stack)
<1>1. n \in Nodes
  BY FrontParts
<1>2. \A j \in Slots : ~(inodes[n].direct[j] > 0)
  BY LeastExists, SlotsAreNat DEF NextBlock
<1>3. \A j \in Slots : inodes[n].direct[j] \in Nat
  BY <1>1 DEF Tables, Node, BlockIds
<1>4. \A j \in Slots : inodes[n].direct[j] = 0
  BY <1>2, <1>3
<1>5. QED BY <1>4, SizesAssumption DEF Entry, Spots, Slots, FREE

-----------------------------------------------------------------------------
\* Only a directory has children.
LEMMA ParentIsDir ==
  ASSUME inodes \in Tables, Good(bitmap, inodes), NEW n \in Nodes, NEW i \in Spots,
         Entry(inodes[n], i) \in Nodes, Entry(inodes[n], i) # 0
  PROVE  inodes[n].type = TYPE_DIR
<1>1. inodes[n].type # TYPE_FREE
  BY DEF Good, Shaped
<1>2. inodes[n].type # TYPE_FILE
  <2>1. Entry(inodes[n], i) < data_start
    BY Sizes DEF Nodes
  <2>2. Entry(inodes[n], i) \in Int /\ data_start \in Int
    BY Sizes DEF Nodes
  <2>3. QED BY <2>1, <2>2 DEF Good, Owned
<1>3. QED BY <1>1, <1>2 DEF Tables, Node, Types

\* One step further, the way is a way still.
LEMMA FollowWay ==
  ASSUME Inv, pc = "walk", cmd.op = "remove", NEW i \in Slots,
         Entry(inodes[at.node], i) # 0, Entry(inodes[at.node], i) \in Nodes,
         Enter(i, Entry(inodes[at.node], i)), inodes' = inodes
  PROVE  Way' /\ LeadsTo(at.node)'
<1> DEFINE p == at.node
           c == Entry(inodes[p], i)
           ns == at.nodes
           ss == at.slots
           l == Len(ns)
<1>1. /\ inodes \in Tables /\ p \in Nodes /\ ns \in Seq(Nodes) /\ ss \in Seq(Slots)
      /\ Good(bitmap, inodes) /\ Kept(bitmap, inodes) /\ Linked(inodes) /\ Way /\ LeadsTo(p)
  BY DEF Inv, Typed, MemoryGood, Removing, TreeKept, Phased, Kept
<1>2. l \in Nat /\ Len(ss) = l /\ i \in Spots /\ 0 \in Nodes
  BY <1>1, LenProperties, Sizes DEF LeadsTo
<1>3. inodes[p].type = TYPE_DIR
  BY <1>1, <1>2, ParentIsDir
<1>4. at'.node = c /\ at'.nodes = Append(ns, p) /\ at'.slots = Append(ss, i)
  BY DEF Enter
<1>5. /\ Append(ns, p) \in Seq(Nodes) /\ Len(Append(ns, p)) = l + 1
      /\ \A k \in 1..l : Append(ns, p)[k] = ns[k]
      /\ Append(ns, p)[l + 1] = p
  BY <1>1, AppendProperties
<1>6. /\ Len(Append(ss, i)) = l + 1
      /\ \A k \in 1..l : Append(ss, i)[k] = ss[k]
      /\ Append(ss, i)[l + 1] = i
  BY <1>1, <1>2, AppendProperties
<1>7. \A k \in 1..l : ns[k] \in Nodes /\ ss[k] \in Slots /\ ss[k] \in Spots
  BY <1>1, <1>2, ElementOfSeq, Sizes
<1>8. /\ ns # << >> => ns[1] = 0
      /\ \A k \in 1..l : inodes[ns[k]].type = TYPE_DIR
      /\ \A k \in 1..l-1 : Entry(inodes[ns[k]], ss[k]) = ns[k + 1]
      /\ \A j, k \in 1..l : ns[j] = ns[k] => j = k
      /\ ns = << >> => p = 0
      /\ ns # << >> => Entry(inodes[ns[l]], ss[l]) = p
      /\ \A k \in 1..l : ns[k] # p
  BY <1>1 DEF Way, LeadsTo
<1>9. ns = << >> <=> l = 0
  BY <1>1, EmptySeq
<1> DEFINE ns2 == Append(ns, p)
           ss2 == Append(ss, i)
<1> HIDE DEF ns2, ss2, ns, ss, l, p, c
<1>10. ns2[1] = 0
  BY <1>2, <1>5, <1>8, <1>9 DEF ns2
<1>11. \A k \in 1..l+1 : inodes[ns2[k]].type = TYPE_DIR
  BY <1>2, <1>3, <1>5, <1>8 DEF ns2
<1>12. \A k \in 1..l : Entry(inodes[ns2[k]], ss2[k]) = ns2[k + 1]
  <2> SUFFICES ASSUME NEW k \in 1..l PROVE Entry(inodes[ns2[k]], ss2[k]) = ns2[k + 1]
    OBVIOUS
  <2>1. CASE k = l
    BY <1>2, <1>5, <1>6, <1>8, <1>9, <2>1 DEF ns2, ss2
  <2>2. CASE k # l
    <3>1. k \in 1..l-1 /\ k + 1 \in 1..l
      BY <1>2, <2>2
    <3>2. QED BY <1>5, <1>6, <1>8, <3>1 DEF ns2, ss2
  <2>3. QED BY <2>1, <2>2
<1>13. \A j, k \in 1..l+1 : ns2[j] = ns2[k] => j = k
  BY <1>2, <1>5, <1>8 DEF ns2
<1>14. Entry(inodes[ns2[l + 1]], ss2[l + 1]) = c
  BY <1>5, <1>6 DEF ns2, ss2, c
<1>15. \A k \in 1..l+1 : ns2[k] # c
  <2> SUFFICES ASSUME NEW k \in 1..l+1, ns2[k] = c PROVE FALSE
    OBVIOUS
  <2>1. c # 0 /\ c = Entry(inodes[p], i)
    BY DEF c, p
  <2>2. CASE k = 1
    BY <1>10, <2>1, <2>2
  <2>3. CASE k # 1
    <3>1. k - 1 \in 1..l /\ (k - 1) + 1 = k
      BY <1>2, <2>3
    <3>2. PICK j \in 1..l : j + 1 = k
      BY <3>1
    <3>3. Entry(inodes[ns[j]], ss[j]) = c
      BY <1>5, <1>6, <1>12, <3>2 DEF ns2, ss2
    <3>4. ns[j] \in Nodes /\ ss[j] \in Spots /\ inodes[ns[j]].type = TYPE_DIR
      BY <1>7, <1>8
    <3>5. ns[j] = p
      BY <1>1, <1>2, <1>3, <2>1, <3>3, <3>4 DEF Linked, p
    <3>6. QED BY <1>8, <3>5
  <2>4. QED BY <2>2, <2>3
<1>16. at'.node = c /\ at'.nodes = ns2 /\ at'.slots = ss2 /\ inodes' = inodes /\ c # 0
  BY <1>4 DEF ns2, ss2, c, p, ns, ss
<1>17. Len(ns2) = l + 1 /\ Len(ss2) = l + 1 /\ (l + 1) - 1 = l /\ l + 1 \in Nat /\ ns2 # << >>
  BY <1>2, <1>5, <1>6, <1>1, AppendProperties DEF ns2, ss2, ns, p
<1>18. Way'
  BY <1>10, <1>11, <1>12, <1>13, <1>16, <1>17 DEF Way
<1>19. LeadsTo(at.node)'
  BY <1>14, <1>15, <1>16, <1>17 DEF LeadsTo
<1>20. QED BY <1>18, <1>19

\* -r and -e follow the path.
LEMMA FollowKeeps ==
  ASSUME Inv, NEW op \in {"remove", "extract"}, Follow(op)
  PROVE  Inv'
<1>1. pc = "walk" /\ cmd.op = op /\ saved = 0
  BY DEF Follow, Walking, Inv, Phased
<1>2. CASE die
  BY <1>1, <1>2, DieKeeps
<1>3. ASSUME NEW i \in Found, Enter(i, inodes[at.node].direct[i]),
             UNCHANGED <<image, data, fs, pc, cmd, file, buffer, stack, saved, torn, out>>
      PROVE  Inv'
  <2>1. i \in Slots /\ inodes[at.node].direct[i] = Entry(inodes[at.node], i)
        /\ Entry(inodes[at.node], i) \in Nodes /\ Entry(inodes[at.node], i) # 0
    BY FoundIsLink
  <2>2. at' \in [node : Nodes, nodes : Seq(Nodes), slots : Seq(Slots)]
    BY <1>3, <2>1, EnterTyped
  <2>3. Typed'
    BY <1>3, <2>2 DEF Inv, Typed, fs
  <2>4. Phased'
    BY <1>1, <1>3 DEF Inv, Phased
  <2>5. Removing'
    <3>1. CASE op = "extract"
      BY <1>1, <1>3, <3>1 DEF Removing
    <3>2. CASE op = "remove"
      <4>1. inodes' = inodes /\ pc' = pc /\ cmd' = cmd
        BY <1>3 DEF fs
      <4>2. Way' /\ LeadsTo(at.node)'
        BY <1>1, <1>3, <2>1, <3>2, <4>1, FollowWay
      <4>3. QED BY <1>1, <4>1, <4>2 DEF Removing
    <3>3. QED BY <3>1, <3>2
  <2>6. QED BY <1>1, <1>3, <2>3, <2>4, <2>5, QuietKeeps
<1>4. QED BY <1>2, <1>3 DEF Follow

\* The start of the recursion at the inode the path leads to.
LEMMA remove_fileKeeps ==
  ASSUME Inv, remove_file
  PROVE  Inv'
<1>1. pc = "walk" /\ pc' = "free" /\ cmd.op = "remove" /\ saved = 0 /\ stack' = <<at.node>>
      /\ Len(at.nodes) = Len(cmd.path)
      /\ UNCHANGED <<image, data, fs, cmd, at, file, buffer, saved, torn, out>>
  BY DEF remove_file, Arrived, Inv, Phased
<1>2. /\ inodes' = inodes /\ at' = at /\ at.node \in Nodes /\ at.nodes \in Seq(Nodes) /\ cmd.path \in Seq(Names)
      /\ Way /\ LeadsTo(at.node) /\ cmd.path # << >>
  BY <1>1 DEF fs, Inv, Typed, Removing, Phased
<1>3. at.nodes # << >>
  BY <1>1, <1>2, EmptySeq
<1>4. Typed'
  BY <1>1, <1>2 DEF Inv, Typed, fs
<1>5. Phased'
  BY <1>1 DEF Inv, Phased
<1>6. Recursion'
  <2>1. Len(<<at.node>>) = 1 /\ <<at.node>>[1] = at.node /\ <<at.node>> # << >>
    OBVIOUS
  <2>2. LeadsTo(stack[1])'
    BY <1>1, <1>2, <2>1 DEF LeadsTo
  <2>3. \A j \in 1..Len(at.nodes), k \in 1..1 : at.nodes[j] # <<at.node>>[k]
    BY <1>2, <2>1 DEF LeadsTo
  <2>4. QED BY <1>1, <1>2, <2>1, <2>2, <2>3 DEF Recursion
<1>7. Removing'
  BY <1>1, <1>2, <1>3, <1>6 DEF Removing, Way
<1>8. QED BY <1>1, <1>4, <1>5, <1>7, QuietKeeps

-----------------------------------------------------------------------------
\* What is so while free_directory and free_file work.
LEMMA FreeingFacts ==
  ASSUME Inv, pc = "free"
  PROVE  /\ cmd.op = "remove" /\ saved = 0
         /\ inodes \in Tables /\ bitmap \in Bitmaps /\ Good(bitmap, inodes) /\ Kept(bitmap, inodes) /\ Shaped(inodes) /\ Linked(inodes)
         /\ at.nodes \in Seq(Nodes) /\ at.slots \in Seq(Slots) /\ stack \in Seq(Nodes)
         /\ Way /\ Recursion /\ at.nodes # << >> /\ stack # << >>
         /\ Len(stack) \in Nat \ {0} /\ Last(stack) = stack[Len(stack)] /\ Last(stack) \in Nodes
         /\ Len(at.nodes) \in Nat \ {0} /\ Len(at.slots) = Len(at.nodes)
         /\ \A k \in 1..Len(stack) : stack[k] \in Nodes
         /\ \A k \in 1..Len(at.nodes) : at.nodes[k] \in Nodes /\ at.slots[k] \in Slots
<1>1. /\ cmd.op = "remove" /\ saved = 0
      /\ inodes \in Tables /\ bitmap \in Bitmaps /\ Good(bitmap, inodes) /\ Shaped(inodes)
      /\ at.nodes \in Seq(Nodes) /\ at.slots \in Seq(Slots) /\ stack \in Seq(Nodes)
      /\ Way /\ Recursion /\ at.nodes # << >> /\ stack # << >>
  BY DEF Inv, Phased, Typed, MemoryGood, Removing, Recursion, Good
<1>2. Kept(bitmap, inodes) /\ Linked(inodes)
  BY <1>1 DEF Inv, Phased, TreeKept, Kept
<1>3. Len(at.slots) = Len(at.nodes)
  BY <1>1 DEF Recursion, LeadsTo
<1>4. Len(stack) \in Nat \ {0} /\ Last(stack) = stack[Len(stack)] /\ Last(stack) \in Nodes
      /\ Len(at.nodes) \in Nat \ {0}
  BY <1>1, FrontParts
<1>5. \A k \in 1..Len(stack) : stack[k] \in Nodes
  BY <1>1, ElementOfSeq
<1>6. \A k \in 1..Len(at.nodes) : at.nodes[k] \in Nodes /\ at.slots[k] \in Slots
  BY <1>1, <1>3, ElementOfSeq
<1>7. QED BY <1>1, <1>2, <1>3, <1>4, <1>5, <1>6

\* The first child of the last inode of the stack is not on the stack or on the
\* way: it has one link.
LEMMA ChildIsNew ==
  ASSUME Inv, pc = "free", inodes[Last(stack)].type = TYPE_DIR, NEW i, FirstLink(inodes, Last(stack), i)
  PROVE  LET c == Entry(inodes[Last(stack)], i)
         IN  /\ \A k \in 1..Len(stack) : stack[k] # c
             /\ \A k \in 1..Len(at.nodes) : at.nodes[k] # c
<1> DEFINE n == Last(stack)
           c == Entry(inodes[n], i)
           l == Len(stack)
           w == Len(at.nodes)
<1>1. /\ Linked(inodes) /\ Way /\ Recursion
      /\ l \in Nat \ {0} /\ n = stack[l] /\ n \in Nodes /\ w \in Nat \ {0}
      /\ \A k \in 1..l : stack[k] \in Nodes
      /\ \A k \in 1..w : at.nodes[k] \in Nodes /\ at.slots[k] \in Spots
  BY FreeingFacts, Sizes
<1>2. i \in Spots /\ c # 0
  BY Sizes DEF FirstLink
<1>3. inodes[n].type = TYPE_DIR
  OBVIOUS
<1>4. \A m \in Nodes, j \in Spots : inodes[m].type = TYPE_DIR /\ Entry(inodes[m], j) = c => m = n
  BY <1>1, <1>2, <1>3 DEF Linked
<1> HIDE DEF n, c, l, w
<1>5. \A k \in 1..l, j \in 1..w : at.nodes[j] # stack[k]
  BY <1>1 DEF Recursion, l, w
<1>6. at.nodes[1] = 0 /\ \A k \in 1..w : inodes[at.nodes[k]].type = TYPE_DIR
  BY <1>1, FreeingFacts DEF Way, w
<1>7. ASSUME NEW k \in 1..l, stack[k] = c PROVE FALSE
  <2>1. CASE k = 1
    <3>1. Entry(inodes[at.nodes[w]], at.slots[w]) = c
      BY <1>1, <1>7, <2>1, FreeingFacts DEF Recursion, LeadsTo, w
    <3>2. at.nodes[w] = n
      BY <1>1, <1>4, <1>6, <3>1
    <3>3. QED BY <1>1, <1>5, <3>2
  <2>2. CASE k # 1
    <3>1. PICK j \in 1..l-1 : j + 1 = k
      <4>1. k - 1 \in 1..l-1 /\ (k - 1) + 1 = k
        BY <1>1, <2>2
      <4>2. QED BY <4>1
    <3>2. inodes[stack[j]].type = TYPE_DIR /\ \E e \in Slots : Entry(inodes[stack[j]], e) = c
      BY <1>1, <1>7, <3>1 DEF Recursion, l
    <3>3. j \in 1..l
      BY <1>1
    <3>4. stack[j] = n
      BY <1>1, <1>4, <3>2, <3>3, Sizes
    <3>5. j = l
      BY <1>1, <3>3, <3>4 DEF Recursion, l
    <3>6. QED BY <1>1, <3>5
  <2>3. QED BY <2>1, <2>2
<1>8. ASSUME NEW k \in 1..w, at.nodes[k] = c PROVE FALSE
  <2>1. CASE k = 1
    BY <1>2, <1>6, <1>8, <2>1
  <2>2. CASE k # 1
    <3>1. PICK j \in 1..w-1 : j + 1 = k
      <4>1. k - 1 \in 1..w-1 /\ (k - 1) + 1 = k
        BY <1>1, <2>2
      <4>2. QED BY <4>1
    <3>2. Entry(inodes[at.nodes[j]], at.slots[j]) = c
      BY <1>1, <1>8, <3>1 DEF Way, w
    <3>3. j \in 1..w
      BY <1>1
    <3>4. at.nodes[j] = n
      BY <1>1, <1>4, <1>6, <3>2, <3>3
    <3>5. QED BY <1>1, <1>5, <3>3, <3>4
  <2>3. QED BY <2>1, <2>2
<1>9. QED BY <1>7, <1>8 DEF n, c, l, w

\* free_directory calls itself for its first child.
LEMMA FreeChildKeeps ==
  ASSUME Inv, FreeChild
  PROVE  Inv'
<1> DEFINE n == Last(stack)
           l == Len(stack)
<1>1. /\ pc = "free" /\ inodes[n].type = TYPE_DIR
      /\ UNCHANGED <<image, data, fs, pc, cmd, at, file, buffer, saved, torn, out>>
  BY DEF FreeChild, Freeing
<1>2. PICK i \in NextChild(n) : stack' = Append(stack, inodes[n].direct[i])
  BY DEF FreeChild
<1>3. /\ cmd.op = "remove" /\ saved = 0 /\ inodes \in Tables /\ Shaped(inodes) /\ Linked(inodes)
      /\ stack \in Seq(Nodes) /\ Way /\ Recursion /\ n \in Nodes
      /\ l \in Nat \ {0} /\ n = stack[l] /\ at.nodes # << >>
  BY <1>1, FreeingFacts
<1>4. FirstLink(inodes, n, i)
  BY <1>1, <1>3, NextChildIsFirst
<1> DEFINE c == Entry(inodes[n], i)
<1>5. inodes[n].direct[i] = c /\ i \in Slots /\ i \in Spots
  BY <1>4, SizesAssumption DEF FirstLink, Entry, Slots, Spots
<1>6. c \in Nodes
  BY <1>1, <1>3, <1>5, NodeEntry
<1>7. /\ \A k \in 1..l : stack[k] # c
      /\ \A k \in 1..Len(at.nodes) : at.nodes[k] # c
  BY <1>1, <1>4, ChildIsNew
<1> DEFINE s2 == Append(stack, c)
<1>8. /\ s2 \in Seq(Nodes) /\ s2 # << >> /\ Len(s2) = l + 1
      /\ \A k \in 1..l : s2[k] = stack[k]
      /\ s2[l + 1] = c
  BY <1>3, <1>6, AppendProperties
<1>9. stack' = s2 /\ inodes' = inodes /\ at' = at /\ pc' = pc /\ cmd' = cmd
  BY <1>1, <1>2, <1>5 DEF fs
<1> HIDE DEF s2, n, c, l
<1>10. Typed'
  BY <1>1, <1>8, <1>9 DEF Inv, Typed, fs
<1>11. Phased'
  BY <1>1 DEF Inv, Phased
<1>12. Recursion'
  <2>1. /\ LeadsTo(stack[1])
        /\ \A k \in 1..l-1 :
             /\ inodes[stack[k]].type = TYPE_DIR
             /\ \E e \in Slots : FirstLink(inodes, stack[k], e) /\ Entry(inodes[stack[k]], e) = stack[k + 1]
        /\ \A j, k \in 1..l : stack[j] = stack[k] => j = k
        /\ \A j \in 1..Len(at.nodes), k \in 1..l : at.nodes[j] # stack[k]
    BY <1>3 DEF Recursion, l
  <2>2. s2[1] = stack[1]
    BY <1>3, <1>8
  <2>3. \A k \in 1..l :
             /\ inodes[s2[k]].type = TYPE_DIR
             /\ \E e \in Slots : FirstLink(inodes, s2[k], e) /\ Entry(inodes[s2[k]], e) = s2[k + 1]
    <3> SUFFICES ASSUME NEW k \in 1..l
                 PROVE  /\ inodes[s2[k]].type = TYPE_DIR
                        /\ \E e \in Slots : FirstLink(inodes, s2[k], e) /\ Entry(inodes[s2[k]], e) = s2[k + 1]
      OBVIOUS
    <3>1. CASE k = l
      BY <1>1, <1>3, <1>4, <1>5, <1>8, <3>1 DEF c, n
    <3>2. CASE k # l
      <4>1. k \in 1..l-1 /\ k + 1 \in 1..l
        BY <1>3, <3>2
      <4>2. QED BY <1>8, <2>1, <4>1
    <3>3. QED BY <3>1, <3>2
  <2>4. (l + 1) - 1 = l /\ \A k \in 1..l+1 : k \in 1..l \/ k = l + 1
    BY <1>3
  <2>5. \A j, k \in 1..l+1 : s2[j] = s2[k] => j = k
    BY <1>7, <1>8, <2>1, <2>4
  <2>6. \A j \in 1..Len(at.nodes), k \in 1..l+1 : at.nodes[j] # s2[k]
    BY <1>7, <1>8, <2>1, <2>4
  <2>7. LeadsTo(stack[1])'
    BY <1>9, <2>1, <2>2 DEF LeadsTo
  <2>8. QED BY <1>8, <1>9, <2>3, <2>4, <2>5, <2>6, <2>7 DEF Recursion, FirstLink
<1>13. Removing'
  BY <1>1, <1>3, <1>9, <1>12 DEF Removing, Way
<1>14. QED BY <1>1, <1>3, <1>10, <1>11, <1>13, QuietKeeps

\* A step that leaves the types and the links along the way alone leaves the way.
LEMMA WayStays ==
  ASSUME Way, at' = at,
         \A k \in 1..Len(at.nodes) : inodes'[at.nodes[k]].type = inodes[at.nodes[k]].type,
         \A k \in 1..Len(at.nodes)-1 :
           Entry(inodes'[at.nodes[k]], at.slots[k]) = Entry(inodes[at.nodes[k]], at.slots[k])
  PROVE  Way'
  BY DEF Way

\* free_file gives back a block.
LEMMA FreeBlockKeeps ==
  ASSUME Inv, FreeBlock
  PROVE  Inv'
<1> DEFINE n == Last(stack)
           l == Len(stack)
           w == Len(at.nodes)
<1>1. /\ pc = "free" /\ inodes[n].type = TYPE_FILE
      /\ UNCHANGED <<image, sb, pc, cmd, at, file, buffer, stack, saved, torn, out>>
  BY DEF FreeBlock, Freeing
<1>2. PICK i \in NextBlock :
        /\ bitmap' = [bitmap EXCEPT ![inodes[n].direct[i]] = FREE]
        /\ inodes' = [inodes EXCEPT ![n].direct[i] = FREE, ![n].size = @ - 1]
  BY DEF FreeBlock
<1>3. /\ cmd.op = "remove" /\ saved = 0 /\ inodes \in Tables /\ bitmap \in Bitmaps
      /\ Good(bitmap, inodes) /\ Kept(bitmap, inodes) /\ Linked(inodes)
      /\ Way /\ Recursion /\ n \in Nodes
      /\ l \in Nat \ {0} /\ n = stack[l] /\ at.nodes # << >> /\ w \in Nat \ {0}
      /\ \A k \in 1..l : stack[k] \in Nodes
      /\ \A k \in 1..w : at.nodes[k] \in Nodes /\ at.slots[k] \in Slots
  BY <1>1, FreeingFacts
<1>4. i \in Slots /\ i \in Spots /\ inodes[n].direct[i] > 0 /\ inodes[n].direct[i] = Entry(inodes[n], i)
  BY <1>2, SizesAssumption DEF NextBlock, Least, Entry, Slots, Spots
<1>5. PICK c \in Int : EntrySet(inodes, inodes', n, i, 0, c)
  <2>1. inodes[n].size - 1 \in Int /\ 0 \in BlockIds
    BY <1>3, Sizes DEF Tables, Node
  <2>2. inodes' = [inodes EXCEPT ![n].direct[i] = 0, ![n].size = inodes[n].size - 1]
    BY <1>2 DEF FREE
  <2>3. EntrySet(inodes, inodes', n, i, 0, inodes[n].size - 1)
    BY <1>3, <1>4, <2>1, <2>2, DirectTable
  <2>4. QED BY <2>1, <2>3
<1> HIDE DEF n, l, w
<1>6. Good(bitmap', inodes') /\ Kept(bitmap', inodes')
  <2>1. Entry(inodes[n], i) # 0
    BY <1>4
  <2>2. Good([bitmap EXCEPT ![Entry(inodes[n], i)] = FREE], inodes')
        /\ (Kept(bitmap, inodes) => Kept([bitmap EXCEPT ![Entry(inodes[n], i)] = FREE], inodes'))
    BY <1>1, <1>3, <1>4, <1>5, <2>1, BlockFreedKeeps
  <2>3. QED BY <1>2, <1>3, <1>4, <2>2
<1>7. Typed'
  <2>1. bitmap' \in Bitmaps
    BY <1>2, <1>3 DEF Bitmaps
  <2>2. QED BY <1>1, <1>5, <2>1 DEF Inv, Typed, EntrySet
<1>8. Phased'
  BY <1>1 DEF Inv, Phased
<1>9. /\ \A m \in Nodes : inodes'[m].type = inodes[m].type
      /\ \A m \in Nodes, j \in Slots : m # n => Entry(inodes'[m], j) = Entry(inodes[m], j)
  BY <1>5, Sizes DEF EntrySet
<1>10. \A k \in 1..w : at.nodes[k] # n
  BY <1>3 DEF Recursion, l, w
<1>11. \A k \in 1..l-1 : k \in 1..l /\ stack[k] # n
  BY <1>3 DEF Recursion, l
<1>12. Way'
  <2>1. \A k \in 1..w : inodes'[at.nodes[k]].type = inodes[at.nodes[k]].type
    BY <1>3, <1>9
  <2>2. \A k \in 1..w-1 : Entry(inodes'[at.nodes[k]], at.slots[k]) = Entry(inodes[at.nodes[k]], at.slots[k])
    BY <1>3, <1>9, <1>10
  <2>3. QED BY <1>1, <1>3, <2>1, <2>2, WayStays DEF w
<1>13. LeadsTo(stack[1])'
  <2>1. Entry(inodes'[at.nodes[w]], at.slots[w]) = Entry(inodes[at.nodes[w]], at.slots[w])
    BY <1>3, <1>9, <1>10
  <2>2. LeadsTo(stack[1])
    BY <1>3 DEF Recursion
  <2>3. QED BY <1>1, <2>1, <2>2 DEF LeadsTo, w
<1>14. \A k \in 1..l-1 :
         /\ inodes'[stack[k]].type = TYPE_DIR
         /\ \E e \in Slots : FirstLink(inodes', stack[k], e) /\ Entry(inodes'[stack[k]], e) = stack[k + 1]
  <2> SUFFICES ASSUME NEW k \in 1..l-1
               PROVE  /\ inodes'[stack[k]].type = TYPE_DIR
                      /\ \E e \in Slots : FirstLink(inodes', stack[k], e) /\ Entry(inodes'[stack[k]], e) = stack[k + 1]
    OBVIOUS
  <2>1. PICK e \in Slots : FirstLink(inodes, stack[k], e) /\ Entry(inodes[stack[k]], e) = stack[k + 1]
    BY <1>3 DEF Recursion, l
  <2>2. stack[k] \in Nodes /\ stack[k] # n /\ inodes[stack[k]].type = TYPE_DIR
    BY <1>3, <1>11 DEF Recursion, l
  <2>3. inodes'[stack[k]].type = TYPE_DIR /\ \A j \in Slots : Entry(inodes'[stack[k]], j) = Entry(inodes[stack[k]], j)
    BY <1>9, <2>2
  <2>4. FirstLink(inodes', stack[k], e)
    BY <1>1, <2>1, <2>3 DEF FirstLink
  <2>5. QED BY <2>1, <2>3, <2>4
<1>15. Recursion'
  BY <1>1, <1>3, <1>13, <1>14 DEF Recursion, l
<1>16. Removing'
  BY <1>1, <1>3, <1>12, <1>15 DEF Removing
<1>17. QED BY <1>1, <1>3, <1>6, <1>7, <1>8, <1>16, RemoveKeeps

\* free_file dies of a file with a block in indirect.
LEMMA FreeIndirectKeeps ==
  ASSUME Inv, FreeIndirect
  PROVE  Inv'
<1>1. pc = "free" /\ die
  BY DEF FreeIndirect, Freeing
<1>2. saved = 0
  BY <1>1, FreeingFacts
<1>3. QED BY <1>1, <1>2, DieKeeps

\* What FreedChild and FreedTarget delete is empty.
LEMMA EmptiedIsEmpty ==
  ASSUME Inv, pc = "free", Emptied
  PROVE  \A j \in Spots : Entry(inodes[Last(stack)], j) = 0
<1>1. inodes \in Tables /\ Shaped(inodes) /\ Linked(inodes) /\ stack \in Seq(Nodes) /\ stack # << >> /\ Last(stack) \in Nodes
  BY FreeingFacts
<1>2. CASE inodes[Last(stack)].type = TYPE_DIR /\ NextChild(Last(stack)) = {}
  BY <1>1, <1>2, NextChildIsFirst
<1>3. CASE NextBlock = {} /\ inodes[Last(stack)].indirect = FREE
  BY <1>1, <1>3, EmptyFile
<1>4. QED BY <1>2, <1>3 DEF Emptied, Freeing

\* free_directory clears the link to the child it has deleted.
LEMMA FreedChildKeeps ==
  ASSUME Inv, FreedChild
  PROVE  Inv'
<1> DEFINE n == Last(stack)
           l == Len(stack)
           w == Len(at.nodes)
           p == stack[l - 1]
<1>1. /\ pc = "free" /\ Emptied /\ l > 1 /\ stack' = Front(stack)
      /\ UNCHANGED <<image, data, sb, bitmap, pc, cmd, at, file, buffer, saved, torn, out>>
  BY DEF FreedChild, Emptied, Freeing
<1>2. PICK i \in NextChild(p) : inodes' = [Freed(n) EXCEPT ![p].direct[i] = 0]
  BY DEF FreedChild
<1>3. /\ cmd.op = "remove" /\ saved = 0 /\ inodes \in Tables /\ bitmap \in Bitmaps
      /\ Good(bitmap, inodes) /\ Kept(bitmap, inodes) /\ Linked(inodes) /\ Shaped(inodes)
      /\ Way /\ Recursion /\ n \in Nodes /\ stack \in Seq(Nodes) /\ stack # << >>
      /\ l \in Nat \ {0} /\ n = stack[l] /\ at.nodes # << >> /\ w \in Nat \ {0}
      /\ \A k \in 1..l : stack[k] \in Nodes
      /\ \A k \in 1..w : at.nodes[k] \in Nodes /\ at.slots[k] \in Slots
  BY <1>1, FreeingFacts
<1>4. \A j \in Spots : Entry(inodes[n], j) = 0
  BY <1>1, EmptiedIsEmpty
<1>5. l - 1 \in 1..l-1 /\ l - 1 \in 1..l /\ l - 1 # l /\ (l - 1) + 1 = l /\ l \in 1..l
  BY <1>1, <1>3
<1>6. PICK e \in Slots : FirstLink(inodes, p, e) /\ Entry(inodes[p], e) = stack[(l - 1) + 1]
  BY <1>3, <1>5 DEF Recursion
<1>7. p \in Nodes /\ inodes[p].type = TYPE_DIR /\ n # p
  BY <1>3, <1>5 DEF Recursion
<1>8. i = e
  BY <1>2, <1>3, <1>6, <1>7, NextChildIsFirst, FirstIsOne
<1>9. i \in Slots /\ i \in Spots /\ Entry(inodes[p], i) = n /\ n # 0
  BY <1>3, <1>5, <1>6, <1>8, Sizes DEF FirstLink
<1> DEFINE s2 == Front(stack)
<1>10. s2 \in Seq(Nodes) /\ Len(s2) = l - 1 /\ (\A k \in 1..l-1 : s2[k] = stack[k]) /\ l - 1 \in Nat
  BY <1>1, <1>3, FrontParts
<1> HIDE DEF n, l, w, p, s2
<1>11. Released(inodes, inodes', n, p, i)
  BY <1>2, <1>3, <1>7, <1>9, ReleasedTable
<1>12. Good(bitmap', inodes') /\ Kept(bitmap', inodes')
  <2>1. Good(bitmap, inodes') /\ (Kept(bitmap, inodes) => Kept(bitmap, inodes'))
    BY <1>3, <1>4, <1>7, <1>9, <1>11, ReleasedKeeps
  <2>2. QED BY <1>1, <1>3, <2>1
<1>13. Typed'
  BY <1>1, <1>10, <1>11 DEF Inv, Typed, Released, s2
<1>14. Phased'
  BY <1>1 DEF Inv, Phased
<1>15. /\ \A m \in Nodes : m # n => inodes'[m].type = inodes[m].type
       /\ \A m \in Nodes, j \in Slots : m # p => Entry(inodes'[m], j) = Entry(inodes[m], j)
  BY <1>11, Sizes DEF Released
<1>16. \A k \in 1..w : at.nodes[k] # n /\ at.nodes[k] # p
  BY <1>3, <1>5 DEF Recursion, l, w, p
<1>17. Way'
  <2>1. \A k \in 1..w : inodes'[at.nodes[k]].type = inodes[at.nodes[k]].type
    BY <1>3, <1>15, <1>16
  <2>2. \A k \in 1..w-1 : Entry(inodes'[at.nodes[k]], at.slots[k]) = Entry(inodes[at.nodes[k]], at.slots[k])
    BY <1>3, <1>15, <1>16
  <2>3. QED BY <1>1, <1>3, <2>1, <2>2, WayStays DEF w
<1>18. s2 # << >> /\ s2[1] = stack[1]
  BY <1>1, <1>3, <1>5, <1>10
<1>19. LeadsTo(stack[1])'
  <2>1. Entry(inodes'[at.nodes[w]], at.slots[w]) = Entry(inodes[at.nodes[w]], at.slots[w])
    BY <1>3, <1>15, <1>16
  <2>2. LeadsTo(stack[1])
    BY <1>3 DEF Recursion
  <2>3. stack'[1] = stack[1]
    BY <1>1, <1>18 DEF s2
  <2>4. QED BY <1>1, <2>1, <2>2, <2>3 DEF LeadsTo, w
<1>20. \A k \in 1..(l-1)-1 :
         /\ inodes'[s2[k]].type = TYPE_DIR
         /\ \E f \in Slots : FirstLink(inodes', s2[k], f) /\ Entry(inodes'[s2[k]], f) = s2[k + 1]
  <2> SUFFICES ASSUME NEW k \in 1..(l-1)-1
               PROVE  /\ inodes'[s2[k]].type = TYPE_DIR
                      /\ \E f \in Slots : FirstLink(inodes', s2[k], f) /\ Entry(inodes'[s2[k]], f) = s2[k + 1]
    OBVIOUS
  <2>0. k \in 1..l-1 /\ k \in 1..l /\ k # l /\ k # l - 1 /\ k + 1 \in 1..l-1
    BY <1>3
  <2>1. PICK f \in Slots : FirstLink(inodes, stack[k], f) /\ Entry(inodes[stack[k]], f) = stack[k + 1]
    BY <1>3, <2>0 DEF Recursion, l
  <2>2. stack[k] \in Nodes /\ stack[k] # n /\ stack[k] # p /\ inodes[stack[k]].type = TYPE_DIR
    BY <1>3, <1>5, <2>0 DEF Recursion, l, p
  <2>3. inodes'[stack[k]].type = TYPE_DIR /\ \A j \in Slots : Entry(inodes'[stack[k]], j) = Entry(inodes[stack[k]], j)
    BY <1>15, <2>2
  <2>4. FirstLink(inodes', stack[k], f)
    BY <1>1, <2>1, <2>3 DEF FirstLink
  <2>5. s2[k] = stack[k] /\ s2[k + 1] = stack[k + 1]
    BY <1>10, <2>0
  <2>6. QED BY <2>1, <2>3, <2>4, <2>5
<1>21. Recursion'
  <2>0. \A j \in 1..l-1 : j \in 1..l /\ s2[j] = stack[j]
    BY <1>3, <1>10
  <2>1. \A j, k \in 1..l-1 : s2[j] = s2[k] => j = k
    <3>1. \A j, k \in 1..l : stack[j] = stack[k] => j = k
      BY <1>3 DEF Recursion, l
    <3>2. QED BY <2>0, <3>1
  <2>2. \A j \in 1..w, k \in 1..l-1 : at.nodes[j] # s2[k]
    <3>1. \A j \in 1..w, k \in 1..l : at.nodes[j] # stack[k]
      BY <1>3 DEF Recursion, l, w
    <3>2. QED BY <2>0, <3>1
  <2>3. stack' = s2 /\ at' = at /\ Len(s2) = l - 1
    BY <1>1, <1>10 DEF s2
  <2>4. QED BY <1>18, <1>19, <1>20, <2>1, <2>2, <2>3 DEF Recursion, w
<1>22. Removing'
  BY <1>1, <1>3, <1>17, <1>21 DEF Removing
<1>23. QED BY <1>1, <1>3, <1>12, <1>13, <1>14, <1>22, RemoveKeeps

\* remove_file clears the link to what it has deleted.
LEMMA FreedTargetKeeps ==
  ASSUME Inv, FreedTarget
  PROVE  Inv'
<1> DEFINE n == Last(stack)
           w == Len(at.nodes)
           p == Last(at.nodes)
           i == Last(at.slots)
<1>1. /\ pc = "free" /\ Emptied /\ Len(stack) = 1 /\ stack' = << >> /\ pc' = "up"
      /\ inodes' = [Freed(n) EXCEPT ![p].direct[i] = 0, ![p].size = @ - 1]
      /\ UNCHANGED <<image, data, sb, bitmap, cmd, at, file, buffer, saved, torn, out>>
  BY DEF FreedTarget, Emptied, Freeing
<1>2. /\ cmd.op = "remove" /\ saved = 0 /\ inodes \in Tables /\ bitmap \in Bitmaps
      /\ Good(bitmap, inodes) /\ Kept(bitmap, inodes) /\ Linked(inodes)
      /\ Way /\ Recursion /\ n \in Nodes /\ n = stack[1]
      /\ at.nodes \in Seq(Nodes) /\ at.slots \in Seq(Slots) /\ at.nodes # << >>
      /\ w \in Nat \ {0} /\ Len(at.slots) = w
      /\ \A k \in 1..w : at.nodes[k] \in Nodes /\ at.slots[k] \in Slots
  BY <1>1, FreeingFacts
<1>3. \A j \in Spots : Entry(inodes[n], j) = 0
  BY <1>1, EmptiedIsEmpty
<1>4. p = at.nodes[w] /\ i = at.slots[w] /\ w \in 1..w
  BY <1>2 DEF Last
<1>5. Entry(inodes[p], i) = n /\ n # 0 /\ \A k \in 1..w : at.nodes[k] # n
  BY <1>2, <1>4 DEF Recursion, LeadsTo
<1>6. p \in Nodes /\ i \in Slots /\ inodes[p].type = TYPE_DIR /\ n # p
  BY <1>2, <1>4, <1>5 DEF Way
<1> HIDE DEF n, w, p, i
<1>7. Released(inodes, inodes', n, p, i)
  BY <1>1, <1>2, <1>6, ReleasedTable
<1>8. Good(bitmap', inodes') /\ Kept(bitmap', inodes')
  <2>1. Good(bitmap, inodes') /\ (Kept(bitmap, inodes) => Kept(bitmap, inodes'))
    BY <1>2, <1>3, <1>5, <1>6, <1>7, ReleasedKeeps
  <2>2. QED BY <1>1, <1>2, <2>1
<1>9. Typed'
  BY <1>1, <1>7, NothingTyped DEF Inv, Typed, Released
<1>10. Phased'
  BY <1>1, <1>2 DEF Inv, Phased
<1>11. Way'
  <2>1. /\ \A m \in Nodes : m # n => inodes'[m].type = inodes[m].type
        /\ \A m \in Nodes, j \in Slots : m # p => Entry(inodes'[m], j) = Entry(inodes[m], j)
    BY <1>7, Sizes DEF Released
  <2>2. \A k \in 1..w : inodes'[at.nodes[k]].type = inodes[at.nodes[k]].type
    BY <1>2, <1>5, <2>1
  <2>3. \A k \in 1..w-1 : k \in 1..w /\ at.nodes[k] # p
    BY <1>2, <1>4 DEF Way, w
  <2>4. \A k \in 1..w-1 : Entry(inodes'[at.nodes[k]], at.slots[k]) = Entry(inodes[at.nodes[k]], at.slots[k])
    BY <1>2, <2>1, <2>3
  <2>5. QED BY <1>1, <1>2, <2>2, <2>4, WayStays DEF w
<1>12. Removing'
  BY <1>1, <1>2, <1>11 DEF Removing, w
<1>13. QED BY <1>1, <1>2, <1>8, <1>9, <1>10, <1>12, RemoveKeeps

\* remove_file deletes each directory left empty.
LEMMA GoUpKeeps ==
  ASSUME Inv, GoUp
  PROVE  Inv'
<1> DEFINE n == Last(at.nodes)
           w == Len(at.nodes)
           p == Last(Front(at.nodes))
<1>1. /\ pc = "up" /\ UNCHANGED <<image, data, sb, bitmap, cmd, file, buffer, stack, saved, torn, out>>
  BY DEF GoUp
<1>2. /\ cmd.op = "remove" /\ saved = 0 /\ inodes \in Tables /\ bitmap \in Bitmaps
      /\ Good(bitmap, inodes) /\ Kept(bitmap, inodes) /\ Shaped(inodes) /\ Linked(inodes) /\ Way
      /\ at.nodes \in Seq(Nodes) /\ at.slots \in Seq(Slots) /\ at.nodes # << >> /\ w <= Len(at.slots)
  BY <1>1 DEF Inv, Phased, Typed, MemoryGood, TreeKept, Removing, Good, Kept
<1>3. /\ w \in Nat \ {0} /\ n = at.nodes[w] /\ n \in Nodes
      /\ Front(at.nodes) \in Seq(Nodes) /\ Len(Front(at.nodes)) = w - 1
      /\ \A k \in 1..w-1 : Front(at.nodes)[k] = at.nodes[k]
  BY <1>2, FrontParts
<1>4. Len(at.slots) \in Nat
  BY <1>2, LenProperties
<1>5. \A k \in 1..w : at.nodes[k] \in Nodes /\ at.slots[k] \in Slots
  BY <1>2, <1>3, <1>4, ElementOfSeq
<1>6. CASE n = 0 \/ ~is_empty_dir(n)
  <2>1. pc' = "save" /\ UNCHANGED <<inodes, at>>
    BY <1>6 DEF GoUp
  <2>2. Typed' /\ Phased' /\ Removing'
    BY <1>1, <1>2, <2>1 DEF Inv, Typed, Phased, Removing
  <2>3. QED BY <1>1, <1>2, <2>1, <2>2, RemoveKeeps
<1>7. CASE n # 0 /\ is_empty_dir(n)
  <2>1. /\ \/ \E j \in Least({i \in Slots : inodes[p].direct[i] = n}) :
                inodes' = [Freed(n) EXCEPT ![p].direct[j] = 0, ![p].size = @ - 1]
           \/ \A i \in Slots : inodes[p].direct[i] # n
        /\ at' = [at EXCEPT !.nodes = Front(@)] /\ pc' = pc
    BY <1>7 DEF GoUp
  <2>2. \A j \in Spots : Entry(inodes[n], j) = 0
    BY <1>2, <1>3, <1>7, EmptyDir DEF is_empty_dir
  <2>3. w # 1
    BY <1>2, <1>3, <1>7 DEF Way
  <2>4. w - 1 \in 1..w-1 /\ w - 1 \in 1..w /\ (w - 1) + 1 = w /\ w \in 1..w /\ w - 1 \in Nat \ {0}
    <3>1. \A x \in Nat \ {0} : x # 1 =>
            x - 1 \in 1..x-1 /\ x - 1 \in 1..x /\ (x - 1) + 1 = x /\ x \in 1..x /\ x - 1 \in Nat \ {0}
      OBVIOUS
    <3>2. QED BY <1>3, <2>3, <3>1
  <2>5. Front(at.nodes) # << >> /\ p = at.nodes[w - 1]
    BY <1>3, <2>4, EmptySeq DEF Last
  <2>6. p \in Nodes /\ inodes[p].type = TYPE_DIR /\ n # p /\ Entry(inodes[p], at.slots[w - 1]) = n
    <3>1. /\ at.nodes[w] = n
          /\ \A x \in 1..w : at.nodes[x] \in Nodes /\ inodes[at.nodes[x]].type = TYPE_DIR
          /\ \A x \in 1..w-1 : Entry(inodes[at.nodes[x]], at.slots[x]) = at.nodes[x + 1]
          /\ \A x, y \in 1..w : at.nodes[x] = at.nodes[y] => x = y
      BY <1>2, <1>3, <1>5 DEF Way, Last
    <3> HIDE DEF n, w, p
    <3>2. QED BY <2>3, <2>4, <2>5, <3>1
  <2>7. at.slots[w - 1] \in Slots /\ \A j \in Slots : Entry(inodes[p], j) = inodes[p].direct[j]
    BY <1>5, <2>4, SizesAssumption, SMTT(60) DEF Entry, Slots
  <2>8. PICK j \in Least({i \in Slots : inodes[p].direct[i] = n}) :
          inodes' = [Freed(n) EXCEPT ![p].direct[j] = 0, ![p].size = @ - 1]
    BY <2>1, <2>6, <2>7
  <2>9. j \in Slots /\ Entry(inodes[p], j) = n
    BY <2>7 DEF Least
  <2> HIDE DEF n, w, p
  <2>10. Released(inodes, inodes', n, p, j)
    BY <1>2, <1>3, <2>6, <2>8, <2>9, ReleasedTable
  <2>11. Good(bitmap', inodes') /\ Kept(bitmap', inodes')
    <3>1. Good(bitmap, inodes') /\ (Kept(bitmap, inodes) => Kept(bitmap, inodes'))
      BY <1>2, <1>3, <1>7, <2>2, <2>6, <2>9, <2>10, ReleasedKeeps
    <3>2. QED BY <1>1, <1>2, <3>1
  <2>12. at' \in [node : Nodes, nodes : Seq(Nodes), slots : Seq(Slots)] /\ at'.nodes = Front(at.nodes) /\ at'.slots = at.slots
    BY <1>3, <2>1 DEF Inv, Typed
  <2>13. Typed'
    BY <1>1, <2>1, <2>10, <2>12 DEF Inv, Typed, Released
  <2>14. Phased'
    BY <1>1, <2>1 DEF Inv, Phased
  <2>15. Way'
    <3> DEFINE f == Front(at.nodes)
    <3>1. /\ \A m \in Nodes : m # n => inodes'[m].type = inodes[m].type
          /\ \A m \in Nodes, e \in Slots : m # p => Entry(inodes'[m], e) = Entry(inodes[m], e)
      BY <2>10, Sizes DEF Released
    <3>2. /\ at.nodes[1] = 0
          /\ \A k \in 1..w : inodes[at.nodes[k]].type = TYPE_DIR
          /\ \A k \in 1..w-1 : Entry(inodes[at.nodes[k]], at.slots[k]) = at.nodes[k + 1]
          /\ \A j1, k \in 1..w : at.nodes[j1] = at.nodes[k] => j1 = k
      BY <1>2 DEF Way, w
    <3>3. /\ \A k \in 1..w-1 : k \in 1..w /\ k # w
          /\ \A k \in 1..(w-1)-1 : k \in 1..w-1 /\ k # w - 1 /\ k + 1 \in 1..w-1
      BY <1>3
    <3>4. Len(f) = w - 1 /\ \A k \in 1..w-1 : f[k] = at.nodes[k]
      BY <1>3
    <3> HIDE DEF f
    <3>5. f[1] = 0
      <4>1. 1 \in 1..w-1
        BY <2>4
      <4>2. QED BY <3>2, <3>4, <4>1
    <3>6. \A k \in 1..w-1 : inodes'[f[k]].type = TYPE_DIR
      <4> SUFFICES ASSUME NEW k \in 1..w-1 PROVE inodes'[f[k]].type = TYPE_DIR
        OBVIOUS
      <4>1. k \in 1..w /\ k # w /\ w \in 1..w /\ f[k] = at.nodes[k] /\ at.nodes[k] \in Nodes
        BY <1>5, <2>4, <3>3, <3>4
      <4>2. at.nodes[k] # n
        BY <1>3, <3>2, <4>1
      <4>3. QED BY <3>1, <3>2, <4>1, <4>2
    <3>7. \A k \in 1..(w-1)-1 : Entry(inodes'[f[k]], at.slots[k]) = f[k + 1]
      <4> SUFFICES ASSUME NEW k \in 1..(w-1)-1 PROVE Entry(inodes'[f[k]], at.slots[k]) = f[k + 1]
        OBVIOUS
      <4>1. /\ k \in 1..w-1 /\ k \in 1..w /\ k # w - 1 /\ w - 1 \in 1..w
            /\ f[k] = at.nodes[k] /\ f[k + 1] = at.nodes[k + 1] /\ at.nodes[k] \in Nodes /\ at.slots[k] \in Slots
        BY <1>5, <2>4, <3>3, <3>4
      <4>2. at.nodes[k] # p
        BY <2>5, <3>2, <4>1
      <4>3. QED BY <3>1, <3>2, <4>1, <4>2
    <3>8. \A j1, k \in 1..w-1 : f[j1] = f[k] => j1 = k
      BY <3>2, <3>3, <3>4
    <3>9. at'.nodes = f /\ at'.slots = at.slots
      BY <2>12 DEF f
    <3>10. QED BY <3>4, <3>5, <3>6, <3>7, <3>8, <3>9 DEF Way
  <2>16. at'.nodes # << >> /\ Len(at'.nodes) <= Len(at'.slots)
    BY <1>2, <1>3, <1>4, <2>5, <2>12 DEF w
  <2>17. Removing'
    BY <1>1, <1>2, <2>1, <2>15, <2>16 DEF Removing
  <2>18. QED BY <1>1, <1>2, <2>1, <2>11, <2>13, <2>14, <2>17, RemoveKeeps
<1>8. QED BY <1>6, <1>7

-----------------------------------------------------------------------------
\* What Save makes of the image.
LEMMA SaveImage ==
  ASSUME Inv, Save
  PROVE  /\ image' \in Images /\ saved \in 0..MAX_INODES+1
         /\ saved # 1 => image'.bitmap = image.bitmap
         /\ saved = 1 => image'.bitmap = bitmap
         /\ saved < 2 => image'.inodes = image.inodes
         /\ saved >= 2 => saved - 2 \in Nodes /\
              \A n \in Nodes : image'.inodes[n] = IF n = saved - 2 THEN inodes[n] ELSE image.inodes[n]
<1>1. /\ image \in Images /\ sb \in Superblocks /\ bitmap \in Bitmaps /\ inodes \in Tables
      /\ saved \in Nat /\ saved <= MAX_INODES + 1 /\ image' = AfterWrite(saved)
  BY DEF Inv, Typed, Phased, Save
<1>2. MAX_INODES \in Nat \ {0} /\ saved \in 0..MAX_INODES+1
  BY <1>1, SizesAssumption
<1>3. CASE saved = 0
  <2>1. image' = [image EXCEPT !.sb = sb]
    BY <1>1, <1>3 DEF AfterWrite
  <2>2. QED BY <1>1, <1>2, <1>3, <2>1 DEF Images
<1>4. CASE saved = 1
  <2>1. image' = [image EXCEPT !.bitmap = bitmap]
    BY <1>1, <1>4 DEF AfterWrite
  <2>2. QED BY <1>1, <1>2, <1>4, <2>1 DEF Images
<1>5. CASE saved >= 2
  <2>1. image' = [image EXCEPT !.inodes[saved - 2] = inodes[saved - 2]]
    BY <1>1, <1>5 DEF AfterWrite
  <2>2. saved - 2 \in Nodes
    BY <1>1, <1>2, <1>5 DEF Nodes
  <2>3. image' = [image EXCEPT !.inodes = [image.inodes EXCEPT ![saved - 2] = inodes[saved - 2]]]
    BY <2>1
  <2>4. [image.inodes EXCEPT ![saved - 2] = inodes[saved - 2]] \in Tables
    BY <1>1, <2>2 DEF Images, Tables
  <2>5. image' \in Images /\ image'.bitmap = image.bitmap
        /\ image'.inodes = [image.inodes EXCEPT ![saved - 2] = inodes[saved - 2]]
    BY <1>1, <2>3, <2>4 DEF Images
  <2>6. \A n \in Nodes : image'.inodes[n] = IF n = saved - 2 THEN inodes[n] ELSE image.inodes[n]
    BY <1>1, <2>2, <2>5 DEF Images, Tables
  <2>7. QED BY <1>1, <1>2, <1>5, <2>2, <2>5, <2>6
<1>6. QED BY <1>1, <1>3, <1>4, <1>5

\* A table between the one in the image and the one in memory, while -a saves.
LEMMA MixedGood ==
  ASSUME NEW old \in Tables, NEW new \in Tables, NEW mix \in Tables, NEW bits \in Bitmaps,
         Shaped(old), Good(bits, new),
         \A n \in Nodes : mix[n] = old[n] \/ mix[n] = new[n],
         \A n \in Nodes : old[n].type = TYPE_FILE => new[n].type = TYPE_FILE,
         \A n \in Nodes, i \in Spots : old[n].type = TYPE_FILE => Entry(old[n], i) = Entry(new[n], i)
  PROVE  Good(bits, mix)
<1>1. Owned(bits, mix)
  <2>1. \A n \in Nodes, i \in Spots : mix[n].type = TYPE_FILE /\ Entry(mix[n], i) # 0 =>
          new[n].type = TYPE_FILE /\ Entry(mix[n], i) = Entry(new[n], i)
    OBVIOUS
  <2>2. QED BY <2>1, FewerOwned DEF Good
<1>2. Shaped(mix)
  BY Sizes DEF Good, Shaped
<1>3. QED BY <1>1, <1>2 DEF Good

\* -e and -l write what is there already.
LEMMA SaveReadKeeps ==
  ASSUME Inv, Save, cmd.op \in {"extract", "list"}
  PROVE  image'.bitmap = image.bitmap /\ image'.inodes = image.inodes
<1>1. bitmap = image.bitmap /\ inodes = image.inodes /\ image.inodes \in Tables /\ image' \in Images
  BY SaveImage DEF Inv, Reading, Typed, Images
<1>2. saved < 2 \/ saved >= 2
  BY DEF Inv, Typed
<1>3. image'.bitmap = image.bitmap
  BY <1>1, SaveImage
<1>4. CASE saved < 2
  BY <1>3, <1>4, SaveImage
<1>5. CASE saved >= 2
  <2>1. \A n \in Nodes : image'.inodes[n] = image.inodes[n]
    BY <1>1, <1>5, SaveImage
  <2>2. image'.inodes \in Tables
    BY <1>1 DEF Images
  <2>3. image'.inodes = image.inodes
    BY <1>1, <2>1, <2>2 DEF Tables
  <2>4. QED BY <1>3, <2>3
<1>6. QED BY <1>2, <1>4, <1>5

\* What the last write leaves is what the memory holds.
LEMMA SavedImage ==
  ASSUME Inv, Save, saved = MAX_INODES + 1
  PROVE  image'.bitmap = bitmap /\ image'.inodes = inodes
<1>1. MAX_INODES \in Nat \ {0} /\ saved >= 2 /\ saved # 1
  BY SizesAssumption
<1>2. /\ image' \in Images /\ image'.bitmap = image.bitmap
      /\ \A n \in Nodes : image'.inodes[n] = IF n = saved - 2 THEN inodes[n] ELSE image.inodes[n]
  BY <1>1, SaveImage
<1>3. image.bitmap = bitmap /\ \A n \in Nodes : n + 2 < saved => image.inodes[n] = inodes[n]
  BY <1>1 DEF Inv, Saving
<1>4. \A n \in Nodes : n = saved - 2 \/ n + 2 < saved
  BY <1>1 DEF Nodes
<1>5. \A n \in Nodes : image'.inodes[n] = inodes[n]
  BY <1>2, <1>3, <1>4
<1>6. image'.inodes \in Tables /\ inodes \in Tables
  BY <1>2 DEF Images, Inv, Typed
<1>7. image'.inodes = inodes
  BY <1>5, <1>6 DEF Tables
<1>8. QED BY <1>2, <1>3, <1>7

\* The writes of the save, one by one, and the end of the command.
LEMMA SaveKeeps ==
  ASSUME Inv, Save
  PROVE  Inv'
<1>1. /\ pc = "save" /\ cmd.op \in Ops /\ cmd.op # "none" /\ UNCHANGED torn
      /\ bitmap \in Bitmaps /\ inodes \in Tables /\ image \in Images /\ image.inodes \in Tables
      /\ Good(bitmap, inodes) /\ (torn = 0 => Kept(bitmap, inodes)) /\ saved \in Nat
  BY DEF Save, Inv, Typed, Phased, MemoryGood, TreeKept, Images
<1>2. image' \in Images /\ torn' \in Nat /\ image'.inodes \in Tables
  BY <1>1, SaveImage DEF Inv, Typed, Images
<1>3. CASE saved = MAX_INODES + 1
  <2>1. Idle
    BY <1>3 DEF Save
  <2>2. Good(image'.bitmap, image'.inodes) /\ (torn' = 0 => Kept(image'.bitmap, image'.inodes))
    BY <1>1, <1>3, SavedImage
  <2>3. QED BY <1>2, <2>1, <2>2, IdleKeeps
<1>4. CASE saved # MAX_INODES + 1
  <2>1. saved' = saved + 1 /\ UNCHANGED <<fs, pc, cmd, at, file, buffer, stack>>
    BY <1>4 DEF Save
  <2>2. sb' = sb /\ bitmap' = bitmap /\ inodes' = inodes /\ pc' = pc /\ cmd' = cmd /\ at' = at /\ torn' = torn
    BY <1>1, <2>1 DEF fs
  <2>3. Typed'
    BY <1>1, <1>2, <2>1, <2>2 DEF Inv, Typed
  <2>4. Phased'
    <3>1. saved <= MAX_INODES + 1 /\ MAX_INODES \in Nat
      BY SizesAssumption DEF Inv, Phased
    <3>2. saved + 1 <= MAX_INODES + 1
      BY <1>1, <1>4, <3>1
    <3>3. QED BY <1>1, <2>1, <2>2, <3>2 DEF Inv, Phased
  <2>5. ASSUME cmd.op = "add"
        PROVE  /\ Good(image'.bitmap, image'.inodes)
               /\ \A n \in Nodes : image'.inodes[n].type = TYPE_FILE => inodes[n].type = TYPE_FILE
               /\ \A n \in Nodes, i \in Spots :
                    image'.inodes[n].type = TYPE_FILE => Entry(image'.inodes[n], i) = Entry(inodes[n], i)
    <3>1. /\ \A n \in Nodes : image.inodes[n].type = TYPE_FILE => inodes[n].type = TYPE_FILE
          /\ \A n \in Nodes, i \in Spots :
               image.inodes[n].type = TYPE_FILE => Entry(image.inodes[n], i) = Entry(inodes[n], i)
          /\ Good(image.bitmap, image.inodes)
      BY <2>5 DEF Inv, Adding, ImageGood
    <3>2. \A n \in Nodes : image'.inodes[n] = image.inodes[n] \/ image'.inodes[n] = inodes[n]
      BY <1>1, SaveImage
    <3>3. CASE saved = 0
      <4>1. image'.bitmap = image.bitmap /\ image'.inodes = image.inodes
        BY <3>3, SaveImage
      <4>2. QED BY <3>1, <4>1
    <3>4. CASE saved # 0
      <4>1. image'.bitmap = bitmap
        <5>1. saved = 1 \/ saved >= 2
          BY <1>1, <3>4
        <5>2. QED BY <1>1, <5>1, SaveImage DEF Inv, Saving
      <4>2. Good(bitmap, image'.inodes)
        BY <1>1, <1>2, <3>1, <3>2, MixedGood DEF Good
      <4>3. QED BY <3>1, <3>2, <4>1, <4>2
    <3>5. QED BY <3>3, <3>4
  <2>6. ASSUME cmd.op \in {"extract", "list"}
        PROVE  /\ image'.bitmap = image.bitmap /\ image'.inodes = image.inodes
               /\ Good(image.bitmap, image.inodes) /\ (torn = 0 => Kept(image.bitmap, image.inodes))
    BY <2>6, SaveReadKeeps DEF Inv, ImageGood, TreeKept
  <2>7. cmd.op = "add" \/ cmd.op = "remove" \/ cmd.op \in {"extract", "list"}
    BY <1>1 DEF Ops
  <2>8. saved + 1 # 0
    BY <1>1
  <2>9. ImageGood'
    BY <2>1, <2>2, <2>5, <2>6, <2>7, <2>8 DEF ImageGood
  <2>10. MemoryGood'
    BY <1>1, <2>2 DEF MemoryGood
  <2>11. TreeKept'
    BY <1>1, <2>1, <2>2, <2>6, <2>8 DEF TreeKept
  <2>12. Reading'
    BY <2>2, <2>6 DEF Inv, Reading
  <2>13. Adding'
    BY <1>1, <2>2, <2>5 DEF Inv, Adding
  <2>14. Writing' /\ Removing'
    BY <1>1, <2>2 DEF Writing, Removing
  <2>15. Saving'
    <3> SUFFICES ASSUME saved + 1 >= 2
                 PROVE  /\ image'.bitmap = bitmap
                        /\ \A n \in Nodes : n + 2 < saved + 1 => image'.inodes[n] = inodes[n]
      BY <2>1, <2>2 DEF Saving
    <3>1. CASE saved = 1
      <4>1. \A n \in Nodes : ~(n + 2 < saved + 1)
        BY <3>1 DEF Nodes
      <4>2. QED BY <3>1, <4>1, SaveImage
    <3>2. CASE saved >= 2
      <4>1. /\ image'.bitmap = image.bitmap /\ image.bitmap = bitmap
            /\ \A n \in Nodes : image'.inodes[n] = IF n = saved - 2 THEN inodes[n] ELSE image.inodes[n]
            /\ \A n \in Nodes : n + 2 < saved => image.inodes[n] = inodes[n]
        BY <3>2, SaveImage DEF Inv, Saving
      <4>2. \A n \in Nodes : n + 2 < saved + 1 => n = saved - 2 \/ n + 2 < saved
        BY <1>1 DEF Nodes
      <4>3. QED BY <4>1, <4>2
    <3>3. QED BY <1>1, <3>1, <3>2
  <2>16. QED BY <2>3, <2>4, <2>9, <2>10, <2>11, <2>12, <2>13, <2>14, <2>15 DEF Inv
<1>5. QED BY <1>3, <1>4

\* A step that changes nothing.
LEMMA StutterKeeps ==
  ASSUME Inv, UNCHANGED vars
  PROVE  Inv'
  BY DEF vars, Inv, Typed, Phased, ImageGood, MemoryGood, TreeKept, Reading, Adding, Writing, Saving,
         Removing, Way, LeadsTo, Recursion

\* Every step keeps the invariant.
LEMMA InvNext == Inv /\ [Next]_vars => Inv'
<1> SUFFICES ASSUME Inv, [Next]_vars PROVE Inv'
  OBVIOUS
<1>1. CASE \E path \in Paths, op \in {"add", "remove", "extract"} :
             (path = << >> => op # "remove") /\ Open(op, path)
  <2>1. PICK path \in Paths, op \in {"add", "remove", "extract"} :
          (path = << >> => op # "remove") /\ Open(op, path)
    BY <1>1
  <2>2. path \in Seq(Names)
    BY NamesAssumption
  <2>3. QED BY <2>1, <2>2, OpenKeeps
<1>2. CASE Open("list", << >>)
  <2>1. << >> \in Seq(Names)
    OBVIOUS
  <2>2. QED BY <1>2, <2>1, OpenKeeps
<1>3. CASE AddSteps
  BY <1>3, EnterDirKeeps, add_dirKeeps, add_fileKeeps, add_nothingKeeps, WriteBlockKeeps, LinkFileKeeps DEF AddSteps
<1>4. CASE RemoveSteps
  BY <1>4, FollowKeeps, remove_fileKeeps, FreeChildKeeps, FreeBlockKeeps, FreeIndirectKeeps,
     FreedChildKeeps, FreedTargetKeeps, GoUpKeeps DEF RemoveSteps
<1>5. CASE Follow("extract") \/ extract_file
  BY <1>5, FollowKeeps, ExtractKeeps
<1>6. CASE list_dir
  BY <1>6, ListKeeps
<1>7. CASE Save
  BY <1>7, SaveKeeps
<1>8. CASE Crash
  BY <1>8, CrashKeeps
<1>9. CASE UNCHANGED vars
  BY <1>9, StutterKeeps
<1>10. QED BY <1>1, <1>2, <1>3, <1>4, <1>5, <1>6, <1>7, <1>8, <1>9 DEF Next, Step

\* NotShared, as the runs check it, is what Owned says of every entry.
LEMMA OwnedIsNotShared ==
  ASSUME NEW x, Owned(x.bitmap, x.inodes)
  PROVE  NotShared(x)
<1>1. ASSUME NEW e \in Entries(x)
      PROVE  /\ e[1] \in Nodes /\ e[2] \in Spots /\ e = <<e[1], e[2]>>
             /\ x.inodes[e[1]].type = TYPE_FILE /\ Entry(x.inodes[e[1]], e[2]) # 0
  BY DEF Entries, Spots
<1>2. ASSUME NEW e \in Entries(x), NEW f \in Entries(x), BlockAt(x, e) = BlockAt(x, f) PROVE e = f
  <2>1. e[1] = f[1] /\ e[2] = f[2]
    BY <1>1, <1>2 DEF Owned, Apart, BlockAt
  <2>2. QED BY <1>1, <2>1
<1>3. ASSUME NEW e \in Entries(x) PROVE BlockAt(x, e) >= data_start /\ x.bitmap[BlockAt(x, e)] = USED
  BY <1>1 DEF Owned, BlockAt
<1>4. QED BY <1>2, <1>3 DEF NotShared

\* The invariant holds in every state.
THEOREM Invariant == Spec => []Inv
  BY InvInit, InvNext, PTL DEF Spec

\* No two files share a block, none has a block of the metadata, and no block of
\* a file can be allocated again: in the image, after every single write to it but
\* those of -r, for images of any size and after any number of saves cut short.
THEOREM OneOwnerPerBlock == Spec => []BlocksNotShared
<1>1. Inv => BlocksNotShared
  BY OwnedIsNotShared DEF Inv, ImageGood, Good, BlocksNotShared
<1>2. QED BY <1>1, Invariant, PTL

\* Covered, by the entries of NoBlockLost.
LEMMA CoveredIsNotLost ==
  ASSUME NEW x, Covered(x.bitmap, x.inodes), NEW b \in BlockIds, x.bitmap[b] = USED
  PROVE  b < data_start \/ \E e \in Entries(x) : BlockAt(x, e) = b
<1>1. b \in Nat /\ data_start \in Nat /\ data_start > 0
  BY Sizes DEF BlockIds
<1>2. CASE b >= data_start
  <2>1. PICK n \in Nodes, i \in Spots : x.inodes[n].type = TYPE_FILE /\ Entry(x.inodes[n], i) = b
    BY <1>2 DEF Covered
  <2>2. <<n, i>> \in Entries(x) /\ BlockAt(x, <<n, i>>) = b
    BY <1>1, <1>2, <2>1 DEF Entries, BlockAt, Spots
  <2>3. QED BY <2>2
<1>3. QED BY <1>1, <1>2

\* No block is lost: between commands, until a save of -a is cut short, each block
\* marked used is one of the metadata or of a file, for images of any size.
THEOREM NoneLost == Spec => []NoBlockLost
<1>1. Inv => NoBlockLost
  <2> SUFFICES ASSUME Inv, pc = "idle", torn = 0
               PROVE  \A b \in BlockIds : image.bitmap[b] = USED =>
                        b < data_start \/ \E e \in Entries(image) : BlockAt(image, e) = b
    BY DEF NoBlockLost
  <2>1. Covered(image.bitmap, image.inodes)
    BY DEF Inv, Phased, TreeKept, Kept
  <2>2. QED BY <2>1, CoveredIsNotLost
<1>2. QED BY <1>1, Invariant, PTL

-----------------------------------------------------------------------------
\* Nothing but inode n changes, or n and p, and that is how their names change.
Renamed(ins, new, n, p, a) ==
  /\ \A m \in Nodes : new[m].name = IF m = n THEN a ELSE ins[m].name
  /\ \A m \in Nodes : m # n /\ m # p => new[m] = ins[m]

LEMMA AddFileRest ==
  ASSUME inodes \in Tables, NEW n \in Nodes, NEW a \in Names,
         NEW new, new = [inodes EXCEPT ![n].name = a, ![n].type = TYPE_FILE]
  PROVE  Renamed(inodes, new, n, n, a)
  BY DEF Tables, Node, Renamed

LEMMA DirectRest ==
  ASSUME inodes \in Tables, NEW n \in Nodes, NEW i, NEW b, NEW c,
         NEW new, \/ new = [inodes EXCEPT ![n].direct[i] = b, ![n].size = c]
                  \/ new = [inodes EXCEPT ![n].indirect = b, ![n].size = c]
  PROVE  Renamed(inodes, new, n, n, inodes[n].name)
  BY DEF Tables, Node, Renamed

LEMMA FreedRest ==
  ASSUME inodes \in Tables, NEW n \in Nodes, NEW p \in Nodes, n # p,
         \A m \in Nodes : m # p => inodes'[m] = Freed(n)[m], inodes'[p].name = Freed(n)[p].name
  PROVE  Renamed(inodes, inodes', n, p, NoName)
<1>1. \A m \in Nodes : /\ Freed(n)[m].name = IF m = n THEN NoName ELSE inodes[m].name
                       /\ m # n => Freed(n)[m] = inodes[m]
  BY DEF Tables, Node, Freed
<1>2. QED BY <1>1 DEF Renamed

\* ... by the return to free_directory, and by that to remove_file.
LEMMA ChildRest ==
  ASSUME inodes \in Tables, NEW n \in Nodes, NEW p \in Nodes, NEW i, n # p, inodes' = [Freed(n) EXCEPT ![p].direct[i] = 0]
  PROVE  Renamed(inodes, inodes', n, p, NoName) /\ inodes'[p].size = inodes[p].size
<1>1. Freed(n) \in Tables /\ Freed(n)[p].size = inodes[p].size
  BY FreedTable
<1>2. (\A m \in Nodes : m # p => inodes'[m] = Freed(n)[m]) /\ inodes'[p].name = Freed(n)[p].name
      /\ inodes'[p].size = Freed(n)[p].size
  BY <1>1 DEF Tables, Node
<1>3. QED BY <1>1, <1>2, FreedRest

LEMMA TargetRest ==
  ASSUME inodes \in Tables, NEW n \in Nodes, NEW p \in Nodes, NEW i, n # p,
         inodes' = [Freed(n) EXCEPT ![p].direct[i] = 0, ![p].size = @ - 1]
  PROVE  Renamed(inodes, inodes', n, p, NoName) /\ inodes'[p].size = inodes[p].size - 1
<1>1. Freed(n) \in Tables /\ Freed(n)[p].size = inodes[p].size
  BY FreedTable
<1>2. (\A m \in Nodes : m # p => inodes'[m] = Freed(n)[m]) /\ inodes'[p].name = Freed(n)[p].name
      /\ inodes'[p].size = Freed(n)[p].size - 1
  BY <1>1 DEF Tables, Node
<1>3. QED BY <1>1, <1>2, FreedRest

-----------------------------------------------------------------------------
\* What the steps do, as far as the proofs need it.

\* The command ends without saving any more.
Dropped ==
  /\ Idle /\ pc # "idle"
  /\ UNCHANGED <<image, data, out>>
  /\ torn' = torn \/ (torn < MaxTorn /\ torn' = torn + 1)
  /\ torn' = 0 => torn = 0 /\ (saved = 0 \/ cmd.op \in {"extract", "list"})

Opened(op, path) ==
  /\ pc = "idle" /\ pc' = "walk" /\ cmd' = [op |-> op, path |-> path]
  /\ at = AtRoot /\ saved = 0
  /\ UNCHANGED <<image, data, at, file, buffer, stack, saved, torn, out>>
  /\ sb' = image.sb /\ bitmap' = image.bitmap /\ inodes' = image.inodes
  /\ op = "add" => image.sb.size < data_start + MaxAdds
  /\ op = "remove" => torn = 0 /\ path # << >>
  /\ path \in Paths \/ (op = "list" /\ path = << >>)
  /\ op \in {"add", "remove", "extract", "list"}

Entered ==
  /\ pc = "walk" /\ Len(at.nodes) < Len(cmd.path) /\ saved = 0
  /\ UNCHANGED <<image, data, sb, bitmap, inodes, pc, cmd, file, buffer, stack, saved, torn, out>>
  /\ at'.nodes = Append(at.nodes, at.node)
  /\ Hop(inodes, cmd.path[Len(at.nodes) + 1], at.node, at'.node)
  /\ cmd.op = "add" => Len(at.nodes) + 1 # Len(cmd.path) /\ inodes[at'.node].type = TYPE_DIR

\* add_dir makes inode n a directory in entry i of at.node; add_file makes it a file.
DirMade(n, i) ==
  /\ pc = "walk" /\ cmd.op = "add" /\ Len(at.nodes) + 1 < Len(cmd.path) /\ saved = 0
  /\ UNCHANGED <<image, data, sb, bitmap, pc, cmd, file, buffer, stack, saved, torn, out>>
  /\ n \in Nodes /\ i \in Slots /\ n # 0 /\ n # at.node
  /\ inodes[n].type = TYPE_FREE /\ inodes[at.node].type = TYPE_DIR /\ Entry(inodes[at.node], i) = 0
  /\ search_dir(inodes, cmd.path[Len(at.nodes) + 1], at.node) = {}
  /\ DirAdded(inodes, inodes', n, at.node, i)
  /\ Renamed(inodes, inodes', n, at.node, cmd.path[Len(at.nodes) + 1])
  /\ inodes'[at.node].size = inodes[at.node].size + 1
  /\ at'.nodes = Append(at.nodes, at.node) /\ at'.node = n

FileMade(n, i) ==
  /\ pc = "walk" /\ pc' = "write" /\ cmd.op = "add" /\ Len(at.nodes) + 1 = Len(cmd.path) /\ saved = 0
  /\ UNCHANGED <<image, data, sb, bitmap, cmd, at, buffer, stack, saved, torn, out>>
  /\ n \in Nodes /\ i \in Slots /\ n # 0
  /\ inodes[n].type = TYPE_FREE /\ inodes[at.node].type = TYPE_DIR /\ Entry(inodes[at.node], i) = 0
  /\ search_dir(inodes, Last(cmd.path), at.node) = {}
  /\ FileAdded(inodes, inodes', n)
  /\ Renamed(inodes, inodes', n, n, Last(cmd.path))
  /\ file' = [node |-> n, slot |-> i]

\* write_file writes block b.
BlockWritten(b) ==
  LET k == inodes[file.node].size
  IN  /\ pc = "write" /\ cmd.op = "add" /\ saved = 0
      /\ UNCHANGED <<image, sb, pc, cmd, at, file, stack, saved, torn, out>>
      /\ k \in Spots /\ k < Rounds(Last(cmd.path)) /\ b \in BlockIds /\ b # 0 /\ bitmap[b] = FREE
      /\ buffer' = [u \in 1..BLOCK_UNITS |->
                      IF k * BLOCK_UNITS + u <= Len(UserFiles[Last(cmd.path)])
                      THEN UserFiles[Last(cmd.path)][k * BLOCK_UNITS + u] ELSE buffer[u]]
      /\ data' = [data EXCEPT ![b] = buffer']
      /\ EntrySet(inodes, inodes', file.node, k, b, k + 1)
      /\ Renamed(inodes, inodes', file.node, file.node, inodes[file.node].name)

FileLinked ==
  /\ pc = "write" /\ pc' = "save" /\ cmd.op = "add" /\ saved = 0
  /\ UNCHANGED <<image, data, bitmap, cmd, at, file, buffer, stack, saved, torn, out>>
  /\ inodes[file.node].size = Rounds(Last(cmd.path))
  /\ EntrySet(inodes, inodes', at.node, file.slot, file.node, inodes[at.node].size + 1)
  /\ Renamed(inodes, inodes', at.node, at.node, inodes[at.node].name)
  /\ sb'.size = sb.size + 1

\* -a of "/", -e and -l come to the save with nothing changed.
Settled ==
  /\ pc = "walk" /\ pc' = "save" /\ cmd.op # "remove" /\ saved = 0
  /\ UNCHANGED <<image, data, sb, bitmap, inodes, cmd, at, file, buffer, stack, saved, torn>>
  /\ cmd.op # "list" => Len(at.nodes) = Len(cmd.path)
  /\ IF cmd.op = "extract" THEN inodes[at.node].type = TYPE_FILE /\ out' = Stored(data, inodes[at.node])
                           ELSE out' = out

FreeingBegun ==
  /\ pc = "walk" /\ pc' = "free" /\ cmd.op = "remove" /\ saved = 0
  /\ UNCHANGED <<image, data, sb, bitmap, inodes, cmd, at, file, buffer, saved, torn, out>>
  /\ Len(at.nodes) = Len(cmd.path)
  /\ stack' = <<at.node>>

ChildEntered(i) ==
  /\ pc = "free" /\ saved = 0
  /\ UNCHANGED <<image, data, sb, bitmap, inodes, pc, cmd, at, file, buffer, saved, torn, out>>
  /\ inodes[Last(stack)].type = TYPE_DIR
  /\ i \in Slots /\ Entry(inodes[Last(stack)], i) # 0
  /\ stack' = Append(stack, Entry(inodes[Last(stack)], i))

BlockFreed(i) ==
  LET n == Last(stack)
  IN  /\ pc = "free" /\ saved = 0
      /\ UNCHANGED <<image, sb, pc, cmd, at, file, buffer, stack, saved, torn, out>>
      /\ inodes[n].type = TYPE_FILE /\ i \in Slots /\ Entry(inodes[n], i) # 0
      /\ EntrySet(inodes, inodes', n, i, 0, inodes[n].size - 1)
      /\ Renamed(inodes, inodes', n, n, inodes[n].name)
      /\ data' = [data EXCEPT ![Entry(inodes[n], i)] = ZeroBlock]

\* Inode n, which is empty, is freed, and entry i of p, which led to it, cleared.
InodeFreed(n, p, i) ==
  /\ saved = 0
  /\ UNCHANGED <<image, data, sb, bitmap, cmd, file, buffer, saved, torn, out>>
  /\ n \in Nodes /\ p \in Nodes /\ i \in Slots /\ n # p /\ n # 0
  /\ inodes[n].type # TYPE_FREE /\ inodes[p].type = TYPE_DIR /\ Entry(inodes[p], i) = n
  /\ \A j \in Spots : Entry(inodes[n], j) = 0
  /\ Released(inodes, inodes', n, p, i)
  /\ Renamed(inodes, inodes', n, p, NoName)

ChildFreed(i) ==
  /\ pc = "free" /\ pc' = "free" /\ at' = at
  /\ Len(stack) > 1 /\ stack' = Front(stack)
  /\ InodeFreed(Last(stack), stack[Len(stack) - 1], i)
  /\ inodes'[stack[Len(stack) - 1]].size = inodes[stack[Len(stack) - 1]].size

TargetFreed(i) ==
  /\ pc = "free" /\ pc' = "up" /\ at' = at
  /\ Len(stack) = 1 /\ stack' = << >>
  /\ InodeFreed(stack[1], Last(at.nodes), i)
  /\ inodes'[Last(at.nodes)].size = inodes[Last(at.nodes)].size - 1

DirFreed(p, i) ==
  /\ pc = "up" /\ pc' = "up" /\ stack' = stack
  /\ inodes[Last(at.nodes)].type = TYPE_DIR
  /\ InodeFreed(Last(at.nodes), p, i)
  /\ inodes'[p].size = inodes[p].size - 1
  /\ at'.nodes # << >> /\ Last(at'.nodes) = p /\ at'.node = at.node

Stopped ==
  /\ pc = "up" /\ pc' = "save" /\ saved = 0
  /\ UNCHANGED <<image, data, sb, bitmap, inodes, cmd, at, file, buffer, stack, saved, torn, out>>
  /\ Last(at.nodes) = 0 \/ \E i \in Spots : Entry(inodes[Last(at.nodes)], i) # 0

\* One write of the save, and the last.
Written ==
  /\ Save /\ pc = "save" /\ saved # MAX_INODES + 1
  /\ UNCHANGED <<data, sb, bitmap, inodes, pc, cmd, at, file, buffer, stack, torn, out>>
  /\ saved' = saved + 1
LastWritten ==
  /\ Save /\ pc = "save" /\ saved = MAX_INODES + 1 /\ Idle
  /\ UNCHANGED <<data, torn, out>>
  /\ image'.bitmap = bitmap /\ image'.inodes = inodes

\* One of these is what a step does.
Effect ==
  \/ UNCHANGED vars
  \/ Dropped
  \/ \E op, path : Opened(op, path)
  \/ Entered
  \/ \E n, i : DirMade(n, i)
  \/ \E n, i : FileMade(n, i)
  \/ \E b : BlockWritten(b)
  \/ FileLinked
  \/ Settled
  \/ FreeingBegun
  \/ \E i : ChildEntered(i)
  \/ \E i : BlockFreed(i)
  \/ \E i : ChildFreed(i)
  \/ \E i : TargetFreed(i)
  \/ \E p, i : DirFreed(p, i)
  \/ Stopped
  \/ Written
  \/ LastWritten

-----------------------------------------------------------------------------
\* The end of a command, by die() or by a kill.
LEMMA DieDrops ==
  ASSUME Inv, saved = 0, pc # "idle", die
  PROVE  Dropped
  BY DEF die, Dropped

LEMMA CrashDrops ==
  ASSUME Inv, Crash
  PROVE  Dropped
<1>1. torn \in Nat /\ saved \in Nat /\ cmd.op \in Ops /\ cmd.op # "none" /\ (pc # "save" => saved = 0)
  BY DEF Inv, Typed, Phased, Crash
<1>2. Idle /\ pc # "idle" /\ UNCHANGED <<image, data, out>>
  BY DEF Crash
<1>3. CASE pc = "save" /\ saved > 0 /\ cmd.op \in {"add", "remove"}
  <2>1. torn < MaxTorn /\ torn' = torn + 1
    BY <1>3 DEF Crash
  <2>2. torn' # 0
    BY <1>1, <2>1
  <2>3. QED BY <1>2, <2>1, <2>2 DEF Dropped
<1>4. CASE ~(pc = "save" /\ saved > 0 /\ cmd.op \in {"add", "remove"})
  <2>1. torn' = torn
    BY <1>4 DEF Crash
  <2>2. saved = 0 \/ cmd.op \in {"extract", "list"}
    BY <1>1, <1>4 DEF Ops
  <2>3. QED BY <1>2, <2>1, <2>2 DEF Dropped
<1>5. QED BY <1>3, <1>4

\* There always is an image.
LEMMA OpenOpens ==
  ASSUME Inv, NEW op \in {"add", "remove", "extract", "list"}, NEW path, Open(op, path),
         path = << >> => op # "remove", path \in Paths \/ (op = "list" /\ path = << >>)
  PROVE  Opened(op, path)
<1>1. image # NoImage
  <2>1. "bitmap" \in DOMAIN image
    BY DEF Inv, Typed, Images
  <2>2. DOMAIN NoImage = {"sb"}
    BY DEF NoImage
  <2>3. QED BY <2>1, <2>2
<1>2. image' = image /\ sb' = image.sb /\ bitmap' = image.bitmap /\ inodes' = image.inodes
  BY <1>1 DEF Open, load_filesys
<1>3. at = AtRoot /\ saved = 0 /\ pc = "idle"
  BY DEF Open, Inv, Phased
<1>4. /\ pc' = "walk" /\ cmd' = [op |-> op, path |-> path]
      /\ op = "add" => image.sb.size < data_start + MaxAdds
      /\ op = "remove" => torn = 0
      /\ UNCHANGED <<data, at, file, buffer, stack, saved, torn, out>>
  BY <1>1 DEF Open
<1>5. QED BY <1>2, <1>3, <1>4 DEF Opened

\* The walk.
LEMMA FoundHops ==
  ASSUME Inv, NEW i \in Found, Enter(i, inodes[at.node].direct[i])
  PROVE  /\ at'.node = inodes[at.node].direct[i] /\ at'.nodes = Append(at.nodes, at.node)
         /\ Hop(inodes, cmd.path[Len(at.nodes) + 1], at.node, at'.node)
<1>1. at'.node = inodes[at.node].direct[i] /\ at'.nodes = Append(at.nodes, at.node)
  BY DEF Enter
<1>2. QED BY <1>1 DEF Hop, Found

LEMMA EnterDirEnters ==
  ASSUME Inv, EnterDir
  PROVE  Dropped \/ Entered
<1>1. pc = "walk" /\ cmd.op = "add" /\ saved = 0 /\ Len(at.nodes) < Len(cmd.path) /\ Len(at.nodes) + 1 # Len(cmd.path)
  BY DEF EnterDir, Walking, OnLastName, Inv, Phased
<1>2. PICK i \in Found :
        LET child == inodes[at.node].direct[i]
        IN  IF inodes[child].type # TYPE_DIR THEN die ELSE
               /\ Enter(i, child)
               /\ UNCHANGED <<image, data, fs, pc, cmd, file, buffer, stack, saved, torn, out>>
  BY DEF EnterDir
<1> DEFINE child == inodes[at.node].direct[i]
<1>3. CASE inodes[child].type # TYPE_DIR
  BY <1>1, <1>2, <1>3, DieDrops
<1>4. CASE inodes[child].type = TYPE_DIR
  <2>1. Enter(i, child) /\ UNCHANGED <<image, data, fs, pc, cmd, file, buffer, stack, saved, torn, out>>
    BY <1>2, <1>4
  <2>2. QED BY <1>1, <1>4, <2>1, FoundHops DEF Entered, fs
<1>5. QED BY <1>3, <1>4

LEMMA FollowEnters ==
  ASSUME Inv, NEW op \in {"remove", "extract"}, Follow(op)
  PROVE  Dropped \/ Entered
<1>1. pc = "walk" /\ cmd.op = op /\ saved = 0 /\ Len(at.nodes) < Len(cmd.path)
  BY DEF Follow, Walking, Inv, Phased
<1>2. CASE die
  BY <1>1, <1>2, DieDrops
<1>3. ASSUME NEW i \in Found, Enter(i, inodes[at.node].direct[i]),
             UNCHANGED <<image, data, fs, pc, cmd, file, buffer, stack, saved, torn, out>>
      PROVE  Entered
  BY <1>1, <1>3, FoundHops DEF Entered, fs
<1>4. QED BY <1>2, <1>3 DEF Follow

LEMMA add_dirMakes ==
  ASSUME Inv, add_dir
  PROVE  Dropped \/ \E n, i : DirMade(n, i)
<1>1. /\ pc = "walk" /\ cmd.op = "add" /\ saved = 0 /\ inodes \in Tables /\ at.node \in Nodes
      /\ Good(bitmap, inodes) /\ inodes[at.node].type = TYPE_DIR
      /\ cmd.path \in Seq(Names) /\ at.nodes \in Seq(Nodes)
      /\ Len(at.nodes) < Len(cmd.path) /\ Len(at.nodes) + 1 # Len(cmd.path)
      /\ search_dir(inodes, cmd.path[Len(at.nodes) + 1], at.node) = {}
  BY DEF add_dir, Walking, OnLastName, Found, Inv, Phased, Typed, MemoryGood, Adding
<1>2. CASE die
  BY <1>1, <1>2, DieDrops
<1>3. ASSUME NEW i \in search_open_dir(at.node), NEW n \in find_free_inode,
        inodes' = [inodes EXCEPT ![n].name = cmd.path[Len(at.nodes) + 1], ![n].type = TYPE_DIR,
                                 ![at.node].size = @ + 1, ![at.node].direct[i] = n],
        Enter(i, n),
        UNCHANGED <<image, data, sb, bitmap, pc, cmd, file, buffer, stack, saved, torn, out>>
      PROVE  DirMade(n, i)
  <2>1. i \in Slots /\ inodes[at.node].direct[i] = 0 /\ n \in Nodes /\ inodes[n].type = TYPE_FREE
    BY DEF search_open_dir, find_free_inode, Least
  <2>2. n # 0 /\ n # at.node /\ Entry(inodes[at.node], i) = 0
    BY <1>1, <2>1, Distinct, SizesAssumption DEF Good, Shaped, Entry, Slots
  <2>3. Len(at.nodes) + 1 < Len(cmd.path) /\ cmd.path[Len(at.nodes) + 1] \in Names
    BY <1>1
  <2>4. DirAdded(inodes, inodes', n, at.node, i)
    BY <1>1, <1>3, <2>1, <2>3, AddDirTable
  <2>5. Renamed(inodes, inodes', n, at.node, cmd.path[Len(at.nodes) + 1]) /\ inodes'[at.node].size = inodes[at.node].size + 1
    <3> DEFINE a == cmd.path[Len(at.nodes) + 1]
               p == at.node
    <3>1. /\ inodes \in Tables /\ n \in Nodes /\ p \in Nodes /\ i \in Slots /\ a \in Names /\ n # p
          /\ inodes' = [inodes EXCEPT ![n].name = a, ![n].type = TYPE_DIR, ![p].size = @ + 1, ![p].direct[i] = n]
      BY <1>1, <1>3, <2>1, <2>2, <2>3
    <3> HIDE DEF a, p
    <3>2. \A m \in Nodes : /\ inodes'[m].name = IF m = n THEN a ELSE inodes[m].name
                           /\ inodes'[m].size = IF m = p THEN inodes[m].size + 1 ELSE inodes[m].size
                           /\ m # n /\ m # p => inodes'[m] = inodes[m]
      BY ONLY <3>1 DEF Tables, Node
    <3>3. QED BY <3>1, <3>2 DEF Renamed, a, p
  <2>6. at'.nodes = Append(at.nodes, at.node) /\ at'.node = n
    BY <1>3 DEF Enter
  <2>7. QED BY <1>1, <1>3, <2>1, <2>2, <2>3, <2>4, <2>5, <2>6 DEF DirMade
<1>4. QED BY <1>2, <1>3 DEF add_dir

LEMMA add_fileMakes ==
  ASSUME Inv, add_file
  PROVE  Dropped \/ \E n, i : FileMade(n, i)
<1>1. /\ pc = "walk" /\ cmd.op = "add" /\ saved = 0 /\ inodes \in Tables /\ at.node \in Nodes
      /\ Good(bitmap, inodes) /\ inodes[at.node].type = TYPE_DIR
      /\ cmd.path \in Seq(Names) /\ at.nodes \in Seq(Nodes) /\ Len(at.nodes) + 1 = Len(cmd.path)
  BY DEF add_file, Walking, OnLastName, Inv, Phased, Typed, MemoryGood, Adding
<1>2. CASE die
  BY <1>1, <1>2, DieDrops
<1>3. ASSUME NEW i \in search_open_dir(at.node), NEW n \in find_free_inode, Found = {},
        inodes' = [inodes EXCEPT ![n].name = Last(cmd.path), ![n].type = TYPE_FILE],
        file' = [node |-> n, slot |-> i],
        pc' = "write",
        UNCHANGED <<image, data, sb, bitmap, cmd, at, buffer, stack, saved, torn, out>>
      PROVE  FileMade(n, i)
  <2>1. i \in Slots /\ inodes[at.node].direct[i] = 0 /\ n \in Nodes /\ inodes[n].type = TYPE_FREE
    BY DEF search_open_dir, find_free_inode, Least
  <2>2. n # 0 /\ Entry(inodes[at.node], i) = 0
    BY <1>1, <2>1, Distinct, SizesAssumption DEF Good, Shaped, Entry, Slots
  <2>3. Last(cmd.path) = cmd.path[Len(at.nodes) + 1] /\ Last(cmd.path) \in Names
    BY <1>1 DEF Last
  <2>4. search_dir(inodes, Last(cmd.path), at.node) = {}
    BY <1>3, <2>3 DEF Found
  <2>5. FileAdded(inodes, inodes', n)
    BY <1>1, <1>3, <2>1, <2>3, AddFileTable
  <2>6. Renamed(inodes, inodes', n, n, Last(cmd.path))
    BY <1>1, <1>3, <2>1, <2>3, AddFileRest
  <2>7. QED BY <1>1, <1>3, <2>1, <2>2, <2>4, <2>5, <2>6 DEF FileMade
<1>4. QED BY <1>2, <1>3 DEF add_file

LEMMA WriteBlockWrites ==
  ASSUME Inv, WriteBlock
  PROVE  Dropped \/ \E b : BlockWritten(b)
<1> DEFINE f == file.node
           k == inodes[f].size
           name == Last(cmd.path)
<1>1. pc = "write" /\ cmd.op = "add" /\ saved = 0 /\ inodes \in Tables /\ bitmap \in Bitmaps /\ f \in Nodes
      /\ Good(bitmap, inodes) /\ name \in DOMAIN UserFiles /\ k \in Nat /\ k < Rounds(name)
  <2>1. pc = "write" /\ k < Rounds(name)
    BY DEF WriteBlock
  <2>2. cmd.op = "add" /\ saved = 0 /\ inodes \in Tables /\ bitmap \in Bitmaps /\ f \in Nodes
        /\ Good(bitmap, inodes) /\ name \in DOMAIN UserFiles /\ k >= 0
    BY <2>1 DEF Inv, Phased, Typed, MemoryGood, Writing
  <2>3. k \in Int
    BY <2>2 DEF Tables, Node
  <2>4. QED BY <2>1, <2>2, <2>3
<1>2. k <= MAX_DIRECT
  <2>2. Len(UserFiles[name]) \in Nat /\ Len(UserFiles[name]) <= (MAX_DIRECT + 1) * BLOCK_UNITS
    BY <1>1, NamesAssumption
  <2>3. BLOCK_UNITS \in Nat \ {0} /\ MAX_DIRECT + 1 \in Nat /\ MAX_DIRECT \in Nat
    BY Sizes
  <2> HIDE DEF name, k
  <2>4. (Len(UserFiles[name]) + BLOCK_UNITS - 1) \div BLOCK_UNITS <= MAX_DIRECT + 1
    BY <2>2, <2>3, RoundsBound
  <2>5. Rounds(name) <= MAX_DIRECT + 1
    BY <2>4 DEF Rounds
  <2>6. Rounds(name) \in Int
    BY <2>2, <2>3 DEF Rounds
  <2>7. QED BY <1>1, <2>3, <2>5, <2>6
<1>3. CASE die
  BY <1>1, <1>3, DieDrops
<1>4. ASSUME NEW b \in allocate_blocks,
        buffer' = [u \in 1..BLOCK_UNITS |-> IF k * BLOCK_UNITS + u <= Len(UserFiles[name])
                                            THEN UserFiles[name][k * BLOCK_UNITS + u] ELSE buffer[u]],
        data' = [data EXCEPT ![b] = buffer'],
        inodes' = IF k < MAX_DIRECT THEN [inodes EXCEPT ![f].direct[k] = b, ![f].size = k + 1]
                                    ELSE [inodes EXCEPT ![f].indirect = b, ![f].size = k + 1],
        UNCHANGED <<image, sb, pc, cmd, at, file, stack, saved, torn, out>>
      PROVE  BlockWritten(b)
  <2>1. b \in BlockIds /\ bitmap[b] = FREE
    BY DEF allocate_blocks, Least
  <2>2. b # 0
    BY <1>1, <2>1, Sizes, Distinct DEF Good, MetaUsed
  <2>3. k \in Spots /\ EntrySet(inodes, inodes', f, k, b, k + 1) /\ Renamed(inodes, inodes', f, f, inodes[f].name)
    <3>0. k + 1 \in Int
      BY <1>1
    <3>1. CASE k < MAX_DIRECT
      <4>1. k \in Slots /\ k \in Spots /\ inodes' = [inodes EXCEPT ![f].direct[k] = b, ![f].size = k + 1]
        BY <1>1, <1>4, <3>1, SizesAssumption DEF Slots, Spots
      <4> HIDE DEF k, f
      <4>2. EntrySet(inodes, inodes', f, k, b, k + 1)
        BY <1>1, <2>1, <3>0, <4>1, DirectTable
      <4>3. Renamed(inodes, inodes', f, f, inodes[f].name)
        BY ONLY <1>1, <4>1 DEF Renamed, Tables, Node
      <4>4. QED BY <4>1, <4>2, <4>3
    <3>2. CASE ~(k < MAX_DIRECT)
      <4>1. k \in Spots /\ k = MAX_DIRECT /\ inodes' = [inodes EXCEPT ![f].indirect = b, ![f].size = k + 1]
        BY <1>1, <1>2, <1>4, <3>2, SizesAssumption DEF Spots
      <4> HIDE DEF k, f
      <4>2. EntrySet(inodes, inodes', f, k, b, k + 1)
        BY <1>1, <2>1, <3>0, <4>1, IndirectTable
      <4>3. Renamed(inodes, inodes', f, f, inodes[f].name)
        BY ONLY <1>1, <4>1 DEF Renamed, Tables, Node
      <4>4. QED BY <4>1, <4>2, <4>3
    <3>3. QED BY <3>1, <3>2
  <2>4. QED BY <1>1, <1>4, <2>1, <2>2, <2>3 DEF BlockWritten
<1>5. QED BY <1>3, <1>4 DEF WriteBlock

LEMMA LinkFileLinks ==
  ASSUME Inv, LinkFile
  PROVE  FileLinked
<1> DEFINE f == file.node
           p == at.node
<1>1. /\ pc = "write" /\ cmd.op = "add" /\ saved = 0 /\ inodes \in Tables /\ f \in Nodes /\ p \in Nodes
      /\ file.slot \in Slots /\ pc' = "save" /\ sb \in Superblocks
  BY DEF LinkFile, Inv, Phased, Typed
<1>2. /\ inodes' = [inodes EXCEPT ![p].direct[file.slot] = f, ![p].size = inodes[p].size + 1]
      /\ f \in BlockIds /\ inodes[p].size + 1 \in Int
      /\ inodes[f].size = Rounds(Last(cmd.path))
      /\ sb' = [sb EXCEPT !.num_free = @ - 1, !.size = @ + 1]
      /\ UNCHANGED <<image, data, bitmap, cmd, at, file, buffer, stack, saved, torn, out>>
  BY <1>1, Sizes DEF LinkFile, Tables, Node
<1>3. sb'.size = sb.size + 1
  BY <1>1, <1>2 DEF Superblocks
<1> HIDE DEF f, p
<1>4. EntrySet(inodes, inodes', p, file.slot, f, inodes[p].size + 1)
  BY <1>1, <1>2, DirectTable
<1>5. Renamed(inodes, inodes', p, p, inodes[p].name)
  <2> DEFINE s == file.slot
             c == inodes[p].size + 1
  <2>1. inodes \in Tables /\ p \in Nodes /\ inodes' = [inodes EXCEPT ![p].direct[s] = f, ![p].size = c]
    BY <1>1, <1>2
  <2> HIDE DEF s, c
  <2>2. QED BY ONLY <2>1 DEF Renamed, Tables, Node
<1>6. QED BY <1>1, <1>2, <1>3, <1>4, <1>5 DEF FileLinked, f, p

LEMMA SettledFacts ==
  ASSUME Inv, add_nothing \/ list_dir \/ extract_file
  PROVE  Dropped \/ Settled
<1>1. CASE add_nothing
  BY <1>1 DEF add_nothing, Arrived, Settled, Inv, Phased, fs
<1>2. CASE list_dir
  BY <1>2 DEF list_dir, Settled, Inv, Phased, fs
<1>3. CASE extract_file
  <2>1. pc = "walk" /\ cmd.op = "extract" /\ saved = 0 /\ Len(at.nodes) = Len(cmd.path)
    BY <1>3 DEF extract_file, Arrived, Inv, Phased
  <2>2. CASE die
    BY <2>1, <2>2, DieDrops
  <2>3. CASE ~die
    BY <1>3, <2>1, <2>3 DEF extract_file, Settled, fs
  <2>4. QED BY <2>2, <2>3
<1>4. QED BY <1>1, <1>2, <1>3

LEMMA remove_fileBegins ==
  ASSUME Inv, remove_file
  PROVE  FreeingBegun
  BY DEF remove_file, Arrived, FreeingBegun, Inv, Phased, fs

LEMMA FreeChildEnters ==
  ASSUME Inv, FreeChild
  PROVE  \E i : ChildEntered(i)
<1> DEFINE n == Last(stack)
<1>1. /\ pc = "free" /\ inodes[n].type = TYPE_DIR
      /\ UNCHANGED <<image, data, fs, pc, cmd, at, file, buffer, saved, torn, out>>
  BY DEF FreeChild, Freeing
<1>2. PICK i \in NextChild(n) : stack' = Append(stack, inodes[n].direct[i])
  BY DEF FreeChild
<1>3. saved = 0 /\ inodes \in Tables /\ Shaped(inodes) /\ Linked(inodes) /\ n \in Nodes
  BY <1>1, FreeingFacts
<1>4. FirstLink(inodes, n, i)
  BY <1>1, <1>3, NextChildIsFirst
<1>5. inodes[n].direct[i] = Entry(inodes[n], i) /\ i \in Slots /\ Entry(inodes[n], i) # 0
  BY <1>4, SizesAssumption DEF FirstLink, Entry, Slots
<1>6. QED BY <1>1, <1>2, <1>3, <1>5 DEF ChildEntered, fs

LEMMA FreeBlockFrees ==
  ASSUME Inv, FreeBlock
  PROVE  \E i : BlockFreed(i)
<1> DEFINE n == Last(stack)
<1>1. /\ pc = "free" /\ inodes[n].type = TYPE_FILE
      /\ UNCHANGED <<image, sb, pc, cmd, at, file, buffer, stack, saved, torn, out>>
  BY DEF FreeBlock, Freeing
<1>2. PICK i \in NextBlock :
        /\ data' = [data EXCEPT ![inodes[n].direct[i]] = ZeroBlock]
        /\ inodes' = [inodes EXCEPT ![n].direct[i] = FREE, ![n].size = @ - 1]
  BY DEF FreeBlock
<1>3. saved = 0 /\ inodes \in Tables /\ n \in Nodes /\ inodes[n].size - 1 \in Int /\ 0 \in BlockIds
  BY <1>1, FreeingFacts, Sizes, SMTT(30) DEF Tables, Node
<1>4. i \in Slots /\ inodes[n].direct[i] = Entry(inodes[n], i) /\ Entry(inodes[n], i) # 0
  BY <1>2, SizesAssumption DEF NextBlock, Least, Entry, Slots
<1>5. inodes' = [inodes EXCEPT ![n].direct[i] = 0, ![n].size = inodes[n].size - 1]
  BY <1>2 DEF FREE
<1>6. EntrySet(inodes, inodes', n, i, 0, inodes[n].size - 1)
  BY <1>3, <1>4, <1>5, DirectTable
<1>7. Renamed(inodes, inodes', n, n, inodes[n].name)
  <2> HIDE DEF n
  <2>1. QED BY ONLY <1>3, <1>5 DEF Renamed, Tables, Node
<1>8. data' = [data EXCEPT ![Entry(inodes[n], i)] = ZeroBlock]
  BY <1>2, <1>4
<1> HIDE DEF n
<1>9. BlockFreed(i)
  BY <1>1, <1>3, <1>4, <1>6, <1>7, <1>8 DEF BlockFreed, n
<1>10. QED BY <1>9

LEMMA FreedChildFrees ==
  ASSUME Inv, FreedChild
  PROVE  \E i : ChildFreed(i)
<1> DEFINE n == Last(stack)
           l == Len(stack)
           p == stack[l - 1]
<1>1. /\ pc = "free" /\ Emptied /\ l > 1 /\ stack' = Front(stack)
      /\ UNCHANGED <<image, data, sb, bitmap, pc, cmd, at, file, buffer, saved, torn, out>>
  BY DEF FreedChild, Emptied, Freeing
<1>2. PICK i \in NextChild(p) : inodes' = [Freed(n) EXCEPT ![p].direct[i] = 0]
  BY DEF FreedChild
<1>3. /\ saved = 0 /\ inodes \in Tables /\ Linked(inodes) /\ Shaped(inodes)
      /\ Recursion /\ n \in Nodes /\ l \in Nat \ {0} /\ n = stack[l]
      /\ \A k \in 1..l : stack[k] \in Nodes
  BY <1>1, FreeingFacts
<1>4. \A j \in Spots : Entry(inodes[n], j) = 0
  BY <1>1, EmptiedIsEmpty
<1>5. l - 1 \in 1..l-1 /\ l - 1 \in 1..l /\ l - 1 # l /\ (l - 1) + 1 = l /\ l \in 1..l
  BY <1>1, <1>3
<1>6. PICK e \in Slots : FirstLink(inodes, p, e) /\ Entry(inodes[p], e) = stack[(l - 1) + 1]
  BY <1>3, <1>5 DEF Recursion
<1>7. p \in Nodes /\ inodes[p].type = TYPE_DIR /\ n # p
  BY <1>3, <1>5 DEF Recursion
<1>8. i = e
  BY <1>2, <1>3, <1>6, <1>7, NextChildIsFirst, FirstIsOne
<1>9. i \in Slots /\ i \in Spots /\ Entry(inodes[p], i) = n /\ n # 0
  BY <1>3, <1>5, <1>6, <1>8, Sizes DEF FirstLink
<1>10. inodes[n].type # TYPE_FREE
  BY <1>3, <1>7, <1>9 DEF Linked
<1> HIDE DEF n, l, p
<1>11. Released(inodes, inodes', n, p, i)
  BY <1>2, <1>3, <1>7, <1>9, ReleasedTable
<1>12. Renamed(inodes, inodes', n, p, NoName) /\ inodes'[p].size = inodes[p].size
  BY <1>2, <1>3, <1>7, ChildRest
<1>13. InodeFreed(n, p, i)
  BY <1>1, <1>3, <1>4, <1>7, <1>9, <1>10, <1>11, <1>12 DEF InodeFreed
<1>14. ChildFreed(i)
  BY <1>1, <1>12, <1>13 DEF ChildFreed, n, l, p
<1>15. QED BY <1>14

LEMMA FreedTargetFrees ==
  ASSUME Inv, FreedTarget
  PROVE  \E i : TargetFreed(i)
<1> DEFINE n == Last(stack)
           w == Len(at.nodes)
           p == Last(at.nodes)
           i == Last(at.slots)
<1>1. /\ pc = "free" /\ Emptied /\ Len(stack) = 1 /\ stack' = << >> /\ pc' = "up"
      /\ inodes' = [Freed(n) EXCEPT ![p].direct[i] = 0, ![p].size = @ - 1]
      /\ UNCHANGED <<image, data, sb, bitmap, cmd, at, file, buffer, saved, torn, out>>
  BY DEF FreedTarget, Emptied, Freeing
<1>2. /\ saved = 0 /\ inodes \in Tables /\ Linked(inodes)
      /\ Way /\ Recursion /\ n \in Nodes /\ n = stack[1]
      /\ at.nodes \in Seq(Nodes) /\ at.slots \in Seq(Slots) /\ at.nodes # << >>
      /\ w \in Nat \ {0} /\ Len(at.slots) = w
      /\ \A k \in 1..w : at.nodes[k] \in Nodes /\ at.slots[k] \in Slots
  BY <1>1, FreeingFacts
<1>3. \A j \in Spots : Entry(inodes[n], j) = 0
  BY <1>1, EmptiedIsEmpty
<1>4. p = at.nodes[w] /\ i = at.slots[w] /\ w \in 1..w
  BY <1>2 DEF Last
<1>5. Entry(inodes[p], i) = n /\ n # 0 /\ \A k \in 1..w : at.nodes[k] # n
  BY <1>2, <1>4 DEF Recursion, LeadsTo
<1>6. p \in Nodes /\ i \in Slots /\ inodes[p].type = TYPE_DIR /\ n # p
  BY <1>2, <1>4, <1>5 DEF Way
<1>7. inodes[n].type # TYPE_FREE
  BY <1>2, <1>5, <1>6, Sizes DEF Linked
<1> HIDE DEF n, w, p, i
<1>8. Released(inodes, inodes', n, p, i)
  BY <1>1, <1>2, <1>6, ReleasedTable
<1>9. Renamed(inodes, inodes', n, p, NoName) /\ inodes'[p].size = inodes[p].size - 1
  BY <1>1, <1>2, <1>6, TargetRest
<1>10. InodeFreed(n, p, i)
  BY <1>1, <1>2, <1>3, <1>5, <1>6, <1>7, <1>8, <1>9 DEF InodeFreed
<1>11. TargetFreed(i)
  BY <1>1, <1>2, <1>9, <1>10 DEF TargetFreed, n, p
<1>12. QED BY <1>11

LEMMA GoUpGoes ==
  ASSUME Inv, GoUp
  PROVE  Stopped \/ \E p, i : DirFreed(p, i)
<1> DEFINE n == Last(at.nodes)
           w == Len(at.nodes)
           p == Last(Front(at.nodes))
<1>1. /\ pc = "up" /\ UNCHANGED <<image, data, sb, bitmap, cmd, file, buffer, stack, saved, torn, out>>
  BY DEF GoUp
<1>2. /\ saved = 0 /\ inodes \in Tables
      /\ Good(bitmap, inodes) /\ Shaped(inodes) /\ Linked(inodes) /\ Way
      /\ at.nodes \in Seq(Nodes) /\ at.slots \in Seq(Slots) /\ at.nodes # << >> /\ w <= Len(at.slots)
  BY <1>1 DEF Inv, Phased, Typed, MemoryGood, TreeKept, Removing, Good, Kept
<1>3. /\ w \in Nat \ {0} /\ n = at.nodes[w] /\ n \in Nodes
      /\ Front(at.nodes) \in Seq(Nodes) /\ Len(Front(at.nodes)) = w - 1
      /\ \A k \in 1..w-1 : Front(at.nodes)[k] = at.nodes[k]
  BY <1>2, FrontParts
<1>4. Len(at.slots) \in Nat
  BY <1>2, LenProperties
<1>5. \A k \in 1..w : at.nodes[k] \in Nodes /\ at.slots[k] \in Slots
  BY <1>2, <1>3, <1>4, ElementOfSeq
<1>6. n \in Nodes /\ inodes[n].type = TYPE_DIR
  BY <1>2, <1>3 DEF Way
<1>7. CASE n = 0 \/ ~is_empty_dir(n)
  <2>1. pc' = "save" /\ UNCHANGED <<inodes, at>>
    BY <1>7 DEF GoUp
  <2>2. n = 0 \/ \E i \in Spots : Entry(inodes[n], i) # 0
    <3>1. CASE n = 0
      BY <3>1
    <3>2. CASE ~is_empty_dir(n)
      <4>1. PICK i \in Slots : i \in Children(inodes, n)
        BY <1>6, <3>2 DEF is_empty_dir, Children
      <4>2. Entry(inodes[n], i) # 0 /\ i \in Spots
        BY <1>2, <1>6, <4>1, ChildrenAreLinks, Sizes
      <4>3. QED BY <4>2
    <3>3. QED BY <1>7, <3>1, <3>2
  <2>3. QED BY <1>1, <1>2, <2>1, <2>2 DEF Stopped
<1>8. CASE n # 0 /\ is_empty_dir(n)
  <2>1. /\ \/ \E j \in Least({i \in Slots : inodes[p].direct[i] = n}) :
                inodes' = [Freed(n) EXCEPT ![p].direct[j] = 0, ![p].size = @ - 1]
           \/ \A i \in Slots : inodes[p].direct[i] # n
        /\ at' = [at EXCEPT !.nodes = Front(@)] /\ pc' = pc
    BY <1>8 DEF GoUp
  <2>2. \A j \in Spots : Entry(inodes[n], j) = 0
    BY <1>2, <1>3, <1>8, EmptyDir DEF is_empty_dir
  <2>3. w # 1
    BY <1>2, <1>3, <1>8 DEF Way
  <2>4. w - 1 \in 1..w-1 /\ w - 1 \in 1..w /\ (w - 1) + 1 = w /\ w \in 1..w /\ w - 1 \in Nat \ {0}
    <3>1. \A x \in Nat \ {0} : x # 1 =>
            x - 1 \in 1..x-1 /\ x - 1 \in 1..x /\ (x - 1) + 1 = x /\ x \in 1..x /\ x - 1 \in Nat \ {0}
      OBVIOUS
    <3>2. QED BY <1>3, <2>3, <3>1
  <2>5. Front(at.nodes) # << >> /\ p = at.nodes[w - 1]
    BY <1>3, <2>4, EmptySeq DEF Last
  <2>6. p \in Nodes /\ inodes[p].type = TYPE_DIR /\ n # p /\ Entry(inodes[p], at.slots[w - 1]) = n
    <3>1. /\ at.nodes[w] = n
          /\ \A x \in 1..w : at.nodes[x] \in Nodes /\ inodes[at.nodes[x]].type = TYPE_DIR
          /\ \A x \in 1..w-1 : Entry(inodes[at.nodes[x]], at.slots[x]) = at.nodes[x + 1]
          /\ \A x, y \in 1..w : at.nodes[x] = at.nodes[y] => x = y
      BY <1>2, <1>3, <1>5 DEF Way, Last
    <3> HIDE DEF n, w, p
    <3>2. QED BY <2>3, <2>4, <2>5, <3>1
  <2>7. at.slots[w - 1] \in Slots /\ \A j \in Slots : Entry(inodes[p], j) = inodes[p].direct[j]
    <3>1. at.slots[w - 1] \in Slots
      BY <1>5, <2>4
    <3>2. QED BY <3>1, SizesAssumption DEF Entry, Slots
  <2>8. PICK j \in Least({i \in Slots : inodes[p].direct[i] = n}) :
          inodes' = [Freed(n) EXCEPT ![p].direct[j] = 0, ![p].size = @ - 1]
    BY <2>1, <2>6, <2>7
  <2>9. j \in Slots /\ Entry(inodes[p], j) = n
    BY <2>7 DEF Least
  <2>10. at'.nodes = Front(at.nodes) /\ at'.node = at.node
    BY <2>1 DEF Inv, Typed
  <2> HIDE DEF n, w, p
  <2>11. Released(inodes, inodes', n, p, j)
    BY <1>2, <1>3, <2>6, <2>8, <2>9, ReleasedTable
  <2>12. Renamed(inodes, inodes', n, p, NoName) /\ inodes'[p].size = inodes[p].size - 1
    BY <1>2, <1>3, <2>6, <2>8, TargetRest
  <2>13. inodes[n].type # TYPE_FREE
    BY <1>6, Distinct
  <2>14. InodeFreed(n, p, j)
    BY <1>1, <1>2, <1>3, <1>8, <2>1, <2>2, <2>6, <2>9, <2>11, <2>12, <2>13 DEF InodeFreed
  <2>15. DirFreed(p, j)
    BY <1>1, <1>6, <2>1, <2>5, <2>10, <2>12, <2>14 DEF DirFreed, n, p
  <2>16. QED BY <2>15
<1>9. QED BY <1>7, <1>8

LEMMA SaveWrites ==
  ASSUME Inv, Save
  PROVE  Written \/ LastWritten
<1>1. pc = "save" /\ UNCHANGED <<data, torn, out>>
  BY DEF Save
<1>2. CASE saved = MAX_INODES + 1
  <2>1. Idle
    BY <1>2 DEF Save
  <2>2. QED BY <1>1, <1>2, <2>1, SavedImage DEF LastWritten
<1>3. CASE saved # MAX_INODES + 1
  <2>1. saved' = saved + 1 /\ UNCHANGED <<fs, pc, cmd, at, file, buffer, stack>>
    BY <1>3 DEF Save
  <2>2. QED BY <1>1, <1>3, <2>1 DEF Written, fs
<1>4. QED BY <1>2, <1>3

LEMMA StepEffect ==
  ASSUME Inv, [Next]_vars
  PROVE  Effect
<1>1. CASE \E path \in Paths, op \in {"add", "remove", "extract"} :
             (path = << >> => op # "remove") /\ Open(op, path)
  <2>1. PICK path \in Paths, op \in {"add", "remove", "extract"} :
          (path = << >> => op # "remove") /\ Open(op, path)
    BY <1>1
  <2>2. Opened(op, path)
    BY <2>1, OpenOpens
  <2>3. QED BY <2>2 DEF Effect
<1>2. CASE Open("list", << >>)
  <2>1. Opened("list", << >>)
    BY <1>2, OpenOpens
  <2>2. QED BY <2>1 DEF Effect
<1>3. CASE AddSteps
  BY <1>3, EnterDirEnters, add_dirMakes, add_fileMakes, SettledFacts, WriteBlockWrites, LinkFileLinks DEF AddSteps, Effect
<1>4. CASE RemoveSteps
  <2>1. CASE FreeIndirect
    <3>1. die /\ pc = "free" /\ saved = 0
      BY <2>1, FreeingFacts DEF FreeIndirect, Freeing
    <3>2. QED BY <3>1, DieDrops DEF Effect
  <2>2. QED BY <1>4, <2>1, FollowEnters, remove_fileBegins, FreeChildEnters, FreeBlockFrees,
           FreedChildFrees, FreedTargetFrees, GoUpGoes DEF RemoveSteps, Effect
<1>5. CASE Follow("extract") \/ extract_file
  BY <1>5, FollowEnters, SettledFacts DEF Effect
<1>6. CASE list_dir
  BY <1>6, SettledFacts DEF Effect
<1>7. CASE Save
  BY <1>7, SaveWrites DEF Effect
<1>8. CASE Crash
  BY <1>8, CrashDrops DEF Effect
<1>9. CASE UNCHANGED vars
  BY <1>9 DEF Effect
<1>10. QED BY <1>1, <1>2, <1>3, <1>4, <1>5, <1>6, <1>7, <1>8, <1>9 DEF Next, Step
=============================================================================
