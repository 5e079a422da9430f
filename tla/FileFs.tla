------------------------------- MODULE FileFs -------------------------------
(***************************************************************************)
(* projects/project2b/filefs.c: a file system kept in one image file.      *)
(* Every command is a process that loads the superblock, the bitmap and    *)
(* the inodes, works on them in memory, writes data blocks straight to the *)
(* image, and saves superblock, bitmap and inodes at the end; die() ends   *)
(* it without saving, a kill between any two writes to the image.          *)
(*                                                                         *)
(* The sizes are parameters.  A block holds BLOCK_UNITS units, the bytes   *)
(* of a user's file; NUL is the byte 0.  Where the code looks for the      *)
(* first entry, inode or block, the operator of its name is the set of     *)
(* that one, and empty where the code finds none.                          *)
(***************************************************************************)
EXTENDS Integers, Sequences, FiniteSets, SequencesExt

CONSTANTS Names,         \* what files and directories are called
          Paths,         \* the paths the user gives
          UserFiles,     \* UserFiles[name]: the units of the user's file name
          BLOCK_UNITS,
          MAX_INODES, MAX_DIRECT,
          BITMAP_BLOCKS, \* blocks the bitmap takes
          DATA_BLOCKS,   \* blocks left for data
          MaxAdds,       \* bound on the files added, which sb.size counts
          MaxTorn        \* bound on the saves of -a cut short by a kill

ASSUME SizesAssumption ==
  /\ {BLOCK_UNITS, MAX_INODES, MAX_DIRECT, BITMAP_BLOCKS, DATA_BLOCKS} \subseteq Nat \ {0}
  /\ {MaxAdds, MaxTorn} \subseteq Nat
ASSUME NamesAssumption ==
  /\ Paths \subseteq Seq(Names)
  /\ DOMAIN UserFiles \subseteq Names
  /\ \A name \in DOMAIN UserFiles : Len(UserFiles[name]) \in 0..(MAX_DIRECT + 1) * BLOCK_UNITS

FREE == 0
USED == 1
TYPE_FREE == 0
TYPE_FILE == 1
TYPE_DIR == 2

inode_start == 1 + BITMAP_BLOCKS
data_start == inode_start + MAX_INODES
MAX_BLOCKS == data_start + DATA_BLOCKS
Nodes == 0..MAX_INODES-1
Slots == 0..MAX_DIRECT-1
BlockIds == 0..MAX_BLOCKS-1

NoName == "" \* the name of a free inode
NUL == ""
ZeroBlock == [u \in 1..BLOCK_UNITS |-> NUL]

VARIABLES image,  \* the superblock, bitmap and inodes in the image, or NoImage
          data,   \* data[b]: what block b of the image holds
          sb, bitmap, inodes, \* the same in memory
          pc,     \* where the command is; "idle": no command runs
          cmd,    \* the command: op, path
          at,     \* the walk along the path: the inode it has come to, and
                  \* path_nodes and path_dirs, the way there
          file,   \* the file -a is writing: its node, the slot kept for it
          buffer, \* the buffer of write_file
          stack,  \* the inodes that free_directory and free_file work on
          saved,  \* how many of the writes of the final save are done
          torn,   \* how many saves were cut short
          out     \* what -e has printed last

fs == <<sb, bitmap, inodes>>
vars == <<image, data, sb, bitmap, inodes, pc, cmd, at, file, buffer, stack, saved, torn, out>>

ZeroInode == [name |-> NoName, type |-> TYPE_FREE, size |-> 0,
              direct |-> [i \in Slots |-> 0], indirect |-> 0]
ZeroFs == [sb |-> [num_free |-> 0, size |-> 0, inode_start |-> 0],
           bitmap |-> [b \in BlockIds |-> FREE], inodes |-> [n \in Nodes |-> ZeroInode]]
NoImage == [sb |-> "none"]

new_filesys ==
  [sb |-> [num_free |-> MAX_BLOCKS - data_start, size |-> data_start, inode_start |-> inode_start],
   bitmap |-> [b \in BlockIds |-> IF b < data_start THEN USED ELSE FREE],
   inodes |-> [n \in Nodes |-> IF n = 0 THEN [ZeroInode EXCEPT !.name = "root", !.type = TYPE_DIR]
                               ELSE ZeroInode]]

NoCommand == [op |-> "none", path |-> << >>]
AtRoot == [node |-> 0, nodes |-> << >>, slots |-> << >>]
NoFile == [node |-> 0, slot |-> 0]

InitWith(onDisk) ==
  /\ image = onDisk
  /\ data = [b \in BlockIds |-> ZeroBlock]
  /\ sb = ZeroFs.sb /\ bitmap = ZeroFs.bitmap /\ inodes = ZeroFs.inodes
  /\ pc = "idle"
  /\ cmd = NoCommand
  /\ at = AtRoot
  /\ file = NoFile
  /\ buffer = ZeroBlock
  /\ stack = << >>
  /\ saved = 0
  /\ torn = 0
  /\ out = << >>

\* There is no image yet; the image filefs -l has made.
InitFresh == InitWith(NoImage)
Init == InitWith(new_filesys)

-----------------------------------------------------------------------------
Least(S) == {x \in S : \A y \in S : x <= y}

find_free_inode == Least({n \in Nodes : inodes[n].type = TYPE_FREE})

AllocateUntested == Least({b \in BlockIds : b >= data_start})

allocate_blocks == Least({b \in BlockIds : bitmap[b] = FREE})

\* An entry of a directory that leads to an inode in use.
IsChild(ins, n) == n > 0 /\ n < MAX_INODES /\ ins[n].type # TYPE_FREE

Children(ins, node) == {i \in Slots : IsChild(ins, ins[node].direct[i])}

search_dir(ins, name, parent) ==
  Least({i \in Children(ins, parent) : ins[ins[parent].direct[i]].name = name})

search_open_dir(parent) == Least({i \in Slots : inodes[parent].direct[i] = 0})

is_empty_dir(node) == inodes[node].type = TYPE_DIR /\ Children(inodes, node) = {}

\* Entry i of a file's direct[]; the one behind the last is the next member.
Entry(inode, i) == IF i < MAX_DIRECT THEN inode.direct[i] ELSE inode.indirect

\* What extract_file prints of a file: of every block what is before the first NUL.
BeforeNul(block) ==
  SubSeq(block, 1, Min({u \in 1..BLOCK_UNITS : block[u] = NUL} \union {BLOCK_UNITS + 1}) - 1)
Stored(blocks, inode) ==
  FlattenSeq([i \in 1..inode.size |-> BeforeNul(blocks[Entry(inode, i - 1)])])

-----------------------------------------------------------------------------
load_filesys(x) == sb' = x.sb /\ bitmap' = x.bitmap /\ inodes' = x.inodes

\* The process ends; what it has in memory is lost.
Idle ==
  /\ load_filesys(ZeroFs)
  /\ pc' = "idle"
  /\ cmd' = NoCommand
  /\ at' = AtRoot
  /\ file' = NoFile
  /\ buffer' = ZeroBlock
  /\ stack' = << >>
  /\ saved' = 0

die == Idle /\ UNCHANGED <<image, data, torn, out>>

\* main: fopen and ftruncate of a new image, or load_filesys.
Open(op, path) ==
  /\ pc = "idle"
  /\ op = "add" /\ image # NoImage => image.sb.size < data_start + MaxAdds
  /\ op = "remove" => torn = 0  \* no -r after a save cut short
  /\ IF image = NoImage
     THEN image' = ZeroFs /\ load_filesys(new_filesys)
     ELSE /\ image.sb.inode_start # 0  \* of no image that is all zeros
          /\ load_filesys(image)
          /\ UNCHANGED image
  /\ pc' = "walk"
  /\ cmd' = [op |-> op, path |-> path]
  /\ UNCHANGED <<data, at, file, buffer, stack, saved, torn, out>>

\* The walk goes from at.node to its entry i, which leads to node.
Enter(i, node) ==
  at' = [node |-> node, nodes |-> Append(at.nodes, at.node), slots |-> Append(at.slots, i)]

Walking(op) == pc = "walk" /\ cmd.op = op /\ Len(at.nodes) < Len(cmd.path)
Arrived(op) == pc = "walk" /\ cmd.op = op /\ Len(at.nodes) = Len(cmd.path)
OnLastName == Len(at.nodes) + 1 = Len(cmd.path)
Found == search_dir(inodes, cmd.path[Len(at.nodes) + 1], at.node)

EnterAny ==
  /\ Walking("add") /\ ~OnLastName
  /\ \E i \in Found : Enter(i, inodes[at.node].direct[i])
  /\ UNCHANGED <<image, data, fs, pc, cmd, file, buffer, stack, saved, torn, out>>

\* add_file steps into a directory, and into nothing else.
EnterDir ==
  /\ Walking("add") /\ ~OnLastName
  /\ \E i \in Found :
       LET child == inodes[at.node].direct[i]
       IN  IF inodes[child].type # TYPE_DIR THEN die ELSE
              /\ Enter(i, child)
              /\ UNCHANGED <<image, data, fs, pc, cmd, file, buffer, stack, saved, torn, out>>

\* The inode is not cleared but for its name and type.
add_dir ==
  /\ Walking("add") /\ ~OnLastName /\ Found = {}
  /\ LET open == search_open_dir(at.node)
         new == find_free_inode
     IN  \/ (open = {} \/ new = {}) /\ die
         \/ \E i \in open, n \in new :
              /\ inodes' = [inodes EXCEPT ![n].name = cmd.path[Len(at.nodes) + 1],
                                          ![n].type = TYPE_DIR,
                                          ![at.node].size = @ + 1,
                                          ![at.node].direct[i] = n]
              /\ Enter(i, n)
              /\ UNCHANGED <<image, data, sb, bitmap, pc, cmd, file, buffer, stack, saved, torn, out>>

\* add_file at the last name, up to the first fread of write_file.
add_file ==
  /\ Walking("add") /\ OnLastName
  /\ LET name == Last(cmd.path)
         open == search_open_dir(at.node)
         new == find_free_inode
         fails == \/ Found # {}                   \* cannot overwrite
                  \/ open = {} \/ new = {}
                  \/ name \notin DOMAIN UserFiles \* could not be found
     IN  \/ fails /\ die
         \/ ~fails /\ \E i \in open, n \in new :
              /\ inodes' = [inodes EXCEPT ![n].name = name, ![n].type = TYPE_FILE]
              /\ file' = [node |-> n, slot |-> i]
              /\ pc' = "write"
              /\ UNCHANGED <<image, data, sb, bitmap, cmd, at, buffer, stack, saved, torn, out>>

\* -a of "/" has no name to add.
add_nothing ==
  /\ Arrived("add")
  /\ pc' = "save"
  /\ UNCHANGED <<image, data, fs, cmd, at, file, buffer, stack, saved, torn, out>>

RoundsDown(name) == Len(UserFiles[name]) \div BLOCK_UNITS

\* How often fread finds something.
Rounds(name) == (Len(UserFiles[name]) + BLOCK_UNITS - 1) \div BLOCK_UNITS

\* One round of the loop of write_file.  What fread does not fill keeps what the
\* buffer held before; the int behind direct[] is indirect.
WriteBlock ==
  LET name == Last(cmd.path)
      k == inodes[file.node].size
      from == k * BLOCK_UNITS
      free == allocate_blocks
  IN  /\ pc = "write" /\ k < Rounds(name)
      /\ \/ free = {} /\ die
         \/ \E b \in free :
              /\ buffer' = [u \in 1..BLOCK_UNITS |-> IF from + u <= Len(UserFiles[name])
                                                     THEN UserFiles[name][from + u] ELSE buffer[u]]
              /\ data' = [data EXCEPT ![b] = buffer']
              /\ bitmap' = [bitmap EXCEPT ![b] = USED]
              /\ inodes' = IF k < MAX_DIRECT
                           THEN [inodes EXCEPT ![file.node].direct[k] = b, ![file.node].size = k + 1]
                           ELSE [inodes EXCEPT ![file.node].indirect = b, ![file.node].size = k + 1]
              /\ UNCHANGED <<image, sb, pc, cmd, at, file, stack, saved, torn, out>>

LinkFileUncounted ==
  /\ pc = "write" /\ inodes[file.node].size = Rounds(Last(cmd.path))
  /\ inodes' = [inodes EXCEPT ![at.node].direct[file.slot] = file.node]
  /\ pc' = "save"
  /\ UNCHANGED <<image, data, sb, bitmap, cmd, at, file, buffer, stack, saved, torn, out>>

\* write_file returns and add_file links the new inode.
LinkFile ==
  /\ pc = "write" /\ inodes[file.node].size = Rounds(Last(cmd.path))
  /\ inodes' = [inodes EXCEPT ![at.node].direct[file.slot] = file.node, ![at.node].size = @ + 1]
  /\ sb' = [sb EXCEPT !.num_free = @ - 1, !.size = @ + 1]
  /\ pc' = "save"
  /\ UNCHANGED <<image, data, bitmap, cmd, at, file, buffer, stack, saved, torn, out>>

\* remove_file and extract_file go one name further.
Follow(op) ==
  /\ Walking(op)
  /\ \/ Found = {} /\ die
     \/ \E i \in Found :
          /\ Enter(i, inodes[at.node].direct[i])
          /\ UNCHANGED <<image, data, fs, pc, cmd, file, buffer, stack, saved, torn, out>>

extract_file ==
  /\ Arrived("extract")
  /\ LET inode == inodes[at.node]
     IN  IF inode.type # TYPE_FILE THEN die ELSE
            /\ out' = Stored(data, inode)
            /\ pc' = "save"
            /\ UNCHANGED <<image, data, fs, cmd, at, file, buffer, stack, saved, torn>>

\* list_dir prints the tree and changes nothing.
list_dir ==
  /\ pc = "walk" /\ cmd.op = "list"
  /\ pc' = "save"
  /\ UNCHANGED <<image, data, fs, cmd, at, file, buffer, stack, saved, torn, out>>

remove_file ==
  /\ Arrived("remove")
  /\ stack' = <<at.node>>
  /\ pc' = "free"
  /\ UNCHANGED <<image, data, fs, cmd, at, file, buffer, saved, torn, out>>

-----------------------------------------------------------------------------
\* free_directory and free_file, called for the last inode of stack.
Freeing(type) == pc = "free" /\ inodes[Last(stack)].type = type

NextChild(node) == Least(Children(inodes, node))
NextBlock == Least({i \in Slots : inodes[Last(stack)].direct[i] > 0})

\* free_directory calls itself or free_file for the next child.
FreeChild ==
  /\ Freeing(TYPE_DIR)
  /\ \E i \in NextChild(Last(stack)) :
       stack' = Append(stack, inodes[Last(stack)].direct[i])
  /\ UNCHANGED <<image, data, fs, pc, cmd, at, file, buffer, saved, torn, out>>

FreeBlockStillUsed ==
  /\ Freeing(TYPE_FILE)
  /\ \E i \in NextBlock :
       /\ data' = [data EXCEPT ![inodes[Last(stack)].direct[i]] = ZeroBlock]
       /\ inodes' = [inodes EXCEPT ![Last(stack)].direct[i] = FREE, ![Last(stack)].size = @ - 1]
  /\ UNCHANGED <<image, sb, bitmap, pc, cmd, at, file, buffer, stack, saved, torn, out>>

\* free_file and free_block; of what is written only the first byte is sure to be
\* NUL, and -e prints no byte behind it.
FreeBlock ==
  /\ Freeing(TYPE_FILE)
  /\ \E i \in NextBlock :
       LET b == inodes[Last(stack)].direct[i]
       IN  /\ data' = [data EXCEPT ![b] = ZeroBlock]
           /\ bitmap' = [bitmap EXCEPT ![b] = FREE]
           /\ inodes' = [inodes EXCEPT ![Last(stack)].direct[i] = FREE, ![Last(stack)].size = @ - 1]
  /\ UNCHANGED <<image, sb, pc, cmd, at, file, buffer, stack, saved, torn, out>>

\* free_file takes the block in indirect for an inode, far behind inodes[].
FreeIndirect ==
  /\ Freeing(TYPE_FILE) /\ NextBlock = {}
  /\ inodes[Last(stack)].indirect # FREE
  /\ die

\* The last inode of stack has no child or block left.
Emptied ==
  \/ Freeing(TYPE_DIR) /\ NextChild(Last(stack)) = {}
  \/ Freeing(TYPE_FILE) /\ NextBlock = {} /\ inodes[Last(stack)].indirect = FREE

\* The end of free_directory and free_file.
Freed(node) ==
  [inodes EXCEPT ![node].name = NoName, ![node].type = TYPE_FREE, ![node].size = 0]

\* ... and the return to the free_directory that called it.
FreedChild ==
  /\ Emptied /\ Len(stack) > 1
  /\ LET parent == stack[Len(stack) - 1]
     IN  \E i \in NextChild(parent) :
           inodes' = [Freed(Last(stack)) EXCEPT ![parent].direct[i] = 0]
  /\ stack' = Front(stack)
  /\ UNCHANGED <<image, data, sb, bitmap, pc, cmd, at, file, buffer, saved, torn, out>>

\* ... and the return to remove_file, which takes the entry out of the parent.
FreedTarget ==
  /\ Emptied /\ Len(stack) = 1 /\ at.nodes # << >>
  /\ inodes' = [Freed(Last(stack)) EXCEPT ![Last(at.nodes)].direct[Last(at.slots)] = 0,
                                          ![Last(at.nodes)].size = @ - 1]
  /\ stack' = << >>
  /\ pc' = "up"
  /\ UNCHANGED <<image, data, sb, bitmap, cmd, at, file, buffer, saved, torn, out>>

\* The same of "-r /", which has no name on its path: path_nodes[-1] is no inode,
\* and the program dies of it.
FreedRoot ==
  /\ Emptied /\ Len(stack) = 1 /\ at.nodes = << >>
  /\ die

StopAtOnce ==
  /\ pc = "up"
  /\ pc' = "save"
  /\ UNCHANGED <<image, data, fs, cmd, at, file, buffer, stack, saved, torn, out>>

\* The way back up the path: each directory left empty is deleted too.
GoUp ==
  /\ pc = "up"
  /\ LET node == Last(at.nodes)
         parent == Last(Front(at.nodes))
     IN  IF node = 0 \/ ~is_empty_dir(node)
         THEN pc' = "save" /\ UNCHANGED <<inodes, at>>
         ELSE /\ \/ \E j \in Least({i \in Slots : inodes[parent].direct[i] = node}) :
                      inodes' = [Freed(node) EXCEPT ![parent].direct[j] = 0, ![parent].size = @ - 1]
                 \/ (\A i \in Slots : inodes[parent].direct[i] # node) /\ inodes' = Freed(node)
              /\ at' = [at EXCEPT !.nodes = Front(@)]
              /\ UNCHANGED pc
  /\ UNCHANGED <<image, data, sb, bitmap, cmd, file, buffer, stack, saved, torn, out>>

-----------------------------------------------------------------------------
InodesFirst(k) ==
  CASE k = 0 -> [image EXCEPT !.sb = sb]
    [] k \in 1..MAX_INODES -> [image EXCEPT !.inodes[k - 1] = inodes[k - 1]]
    [] OTHER -> [image EXCEPT !.bitmap = bitmap]

\* The end of main: the superblock, the bitmap and the inodes, one by one.
AfterWrite(k) ==
  CASE k = 0 -> [image EXCEPT !.sb = sb]
    [] k = 1 -> [image EXCEPT !.bitmap = bitmap]
    [] OTHER -> [image EXCEPT !.inodes[k - 2] = inodes[k - 2]]

Save ==
  /\ pc = "save"
  /\ image' = AfterWrite(saved)
  /\ IF saved = MAX_INODES + 1
     THEN Idle
     ELSE saved' = saved + 1 /\ UNCHANGED <<fs, pc, cmd, at, file, buffer, stack>>
  /\ UNCHANGED <<data, torn, out>>

\* The process is killed; what it has written to the image stays.  Of the saves
\* that change something only those of -a are cut short, and those MaxTorn times.
Crash ==
  /\ pc # "idle"
  /\ IF pc = "save" /\ saved > 0 /\ cmd.op \in {"add", "remove"}
     THEN cmd.op = "add" /\ torn < MaxTorn /\ torn' = torn + 1
     ELSE UNCHANGED torn
  /\ Idle
  /\ UNCHANGED <<image, data, out>>

AddSteps == EnterDir \/ add_dir \/ add_file \/ add_nothing \/ WriteBlock \/ LinkFile
RemoveSteps ==
  \/ Follow("remove") \/ remove_file
  \/ FreeChild \/ FreeBlock \/ FreeIndirect \/ FreedChild \/ FreedTarget
  \/ GoUp

Step ==
  \/ \E path \in Paths, op \in {"add", "remove", "extract"} :
       (path = << >> => op # "remove") /\ Open(op, path)
  \/ Open("list", << >>)
  \/ AddSteps
  \/ RemoveSteps
  \/ Follow("extract") \/ extract_file
  \/ list_dir
  \/ Save

Next == Step \/ Crash

Spec == Init /\ [][Next]_vars

\* Nobody kills a command, and -r may be given "/"; the same without that from no image.
SteadySpec == Init /\ [][Step \/ Open("remove", << >>) \/ FreedRoot]_vars
FreshSpec == InitFresh /\ [][Step]_vars

-----------------------------------------------------------------------------
Types == {TYPE_FREE, TYPE_FILE, TYPE_DIR}
Inodes == [name : Names \union {NoName, "root"}, type : Types, size : 0..MAX_DIRECT + 1,
           direct : [Slots -> BlockIds], indirect : BlockIds]

FsOK(bits, ins) ==
  /\ bits \in [BlockIds -> {FREE, USED}]
  /\ \A n \in Nodes : ins[n] \in Inodes

\* The image and the memory hold a superblock, a bitmap and inodes, no size is
\* negative, and the walk and the recursion stay within the inodes.
TypeOK ==
  /\ image = NoImage \/ FsOK(image.bitmap, image.inodes)
  /\ FsOK(bitmap, inodes)
  /\ sb.size \in 0..data_start + MaxAdds
  /\ pc \in {"idle", "walk", "write", "free", "up", "save"}
  /\ at.node \in Nodes /\ at.nodes \in Seq(Nodes) /\ at.slots \in Seq(Slots)
  /\ file.node \in Nodes /\ file.slot \in Slots
  /\ stack \in Seq(Nodes)
  /\ saved \in 0..MAX_INODES + 1
  /\ torn \in 0..MaxTorn

Entries(x) == {e \in Nodes \X (0..MAX_DIRECT) :
                 x.inodes[e[1]].type = TYPE_FILE /\ Entry(x.inodes[e[1]], e[2]) # 0}
BlockAt(x, e) == Entry(x.inodes[e[1]], e[2])

\* No two files share a block, no file has a block of the metadata, and no
\* block of a file can be allocated again.
NotShared(x) ==
  /\ \A e, f \in Entries(x) : BlockAt(x, e) = BlockAt(x, f) => e = f
  /\ \A e \in Entries(x) : BlockAt(x, e) >= data_start /\ x.bitmap[BlockAt(x, e)] = USED

\* In the image this holds after every single write, so that a command killed
\* at any moment, also while it saves, leaves no two files with one block.  (Not
\* so for -r, which saves a bitmap with the blocks of the file free before it
\* saves the inodes.)
BlocksNotShared == cmd.op # "remove" => NotShared(image)

\* Between commands no block is marked used but those of the metadata and the
\* files: -r has given back every block, -a that died or was killed took none.
NoBlockLost ==
  pc = "idle" /\ torn = 0 =>
    \A b \in BlockIds : image.bitmap[b] = USED =>
      b < data_start \/ \E e \in Entries(image) : BlockAt(image, e) = b

Links(x) == {e \in Nodes \X Slots :
               x.inodes[e[1]].type = TYPE_DIR /\ x.inodes[e[1]].direct[e[2]] # 0}

\* Between commands the inodes are a tree: every inode in use but the root has
\* one link, every link leads to an inode in use, sizes count links and blocks,
\* only the root may be empty, and a free inode has no entry that a later
\* add_dir, which clears nothing, would take for a child.
TreeOK ==
  pc = "idle" /\ torn = 0 =>
    LET ins == image.inodes
        entries(n) == {i \in 0..MAX_DIRECT : Entry(ins[n], i) # 0}
    IN  /\ \A n \in Nodes \ {0} : ins[n].type # TYPE_FREE =>
             Cardinality({e \in Links(image) : ins[e[1]].direct[e[2]] = n}) = 1
        /\ \A e \in Links(image) : IsChild(ins, ins[e[1]].direct[e[2]])
        /\ \A n \in Nodes : ins[n].size = Cardinality(entries(n))
        /\ \A n \in Nodes \ {0} : ins[n].type = TYPE_DIR => entries(n) # {}
        /\ \A n \in Nodes : ins[n].type = TYPE_FREE => ins[n] = ZeroInode

\* The inode a path leads to from the root; none if a name is not found.
Lookup(ins, path) ==
  LET leads[k \in 0..Len(path)] ==
        IF k = 0 THEN {0}
        ELSE UNION {{ins[n].direct[i] : i \in search_dir(ins, path[k], n)} : n \in leads[k - 1]}
  IN  leads[Len(path)]

\* The files of an image, as -e finds and prints them.
FilesOf(ins) ==
  UNION {{[path |-> p, content |-> Stored(data, ins[n])] :
            n \in {m \in Lookup(ins, p) : ins[m].type = TYPE_FILE}} : p \in Paths}

\* No write of -a to the image, to a data block or of its save, takes away or
\* alters a file the image holds, so none is lost if -a is killed after it.  (Not
\* so when an earlier save was cut short: the entry it left in a directory may come
\* to lead to the new inode, whose name then hides that of an older entry.)
KilledAddLosesNothing ==
  [][cmd.op = "add" /\ torn = 0 => FilesOf(image.inodes) \subseteq FilesOf(image.inodes)']_vars

\* Files with no NUL and none that ends within a block but its first: of the others
\* WriteBlock puts, behind the end, what the buffer held.
FilesFit(files) ==
  LET Units == UNION {Range(files[name]) : name \in DOMAIN files}
  IN  /\ NUL \notin Units
      /\ \A name \in DOMAIN files :
           /\ files[name] \in Seq(Units)
           /\ Len(files[name]) <= BLOCK_UNITS \/ Len(files[name]) % BLOCK_UNITS = 0

\* A file that comes into sight with a write of -a is whole from then on: the
\* save, wherever it is cut short, shows no name before its blocks.  (So it is when
\* FilesFit(UserFiles).)
AddedFilesWhole ==
  [][cmd.op = "add" => \A f \in FilesOf(image.inodes)' \ FilesOf(image.inodes) :
                         f.content = UserFiles[Last(cmd.path)]]_vars

\* The files by their paths; -a and -r have happened with the first write of the save.
Store == INSTANCE FileStore
  WITH files <- FilesOf(IF pc = "save" /\ saved > 0 THEN inodes ELSE image.inodes),
       Content <- UserFiles, Paths <- Paths \ {<< >>}
\* As long as no save of -a is cut short, filefs is the file store: what -a has
\* added is found whole under its path until -r removes it, a command that dies or
\* is killed before it saves changes nothing, and a -r that does not come to its end
\* spoils no file but those under its path.  (What most steps do stands first.)
ImplementsFileStore ==
  Store!Init /\ [][torn' > 0 \/ UNCHANGED Store!vars \/ Store!Next]_(Store!vars)

\* "inode_start: initialized to 1 + size(bitmap). Has constant value"
\* (design.txt:12): true of every image between two commands.
ImageIsFileSystem ==
  pc = "idle" /\ image # NoImage => image.sb.inode_start = inode_start

\* "Write external file to filesystem" (filefs.c:271), and "none of the changes
\* actually happen" (design.txt:42) when a command dies: between two commands -e
\* prints every file as the user's file is.
FilesWholeAtRest ==
  pc = "idle" => \A f \in FilesOf(image.inodes) : f.content = UserFiles[Last(f.path)]
=============================================================================
