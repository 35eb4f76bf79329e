-------------------------------- MODULE Vfs ---------------------------------
(***************************************************************************)
(* The file system: path walk and creation (fs/path.c), the inode cache    *)
(* (fs/inode.c), mounts (fs/mount.c), open files (fs/file.c), device nodes *)
(* (fs/device.c, block/block.c) and the in-memory file system under it all *)
(* (fs/initfs/initfs.c).                                                   *)
(*                                                                         *)
(* An inode of initfs is found by its number in the superblock's table;    *)
(* the struct inode the rest of the kernel sees is a separate object with  *)
(* its own copy of mode and size, and it alone knows what is mounted on it *)
(* or which device it stands for.  The cache is what keeps one object per  *)
(* inode.  All callers in the tree run in the initial thread.              *)
(***************************************************************************)
EXTENDS PathText

CONSTANTS
    Names, Dev,     \* names of directory entries, as strings; Dev is "dev"
    NameMax,        \* DENTRY_NAME_MAX
    Supers, RootSb, \* addresses of superblocks
    Bytes, Junk,    \* contents of files, and of memory nobody wrote
    MaxInodes,      \* MAX_INODES
    Paths,          \* paths callers use, as strings
    Writes, Reads,  \* contents written at once, sizes read at once
    Overwrites,     \* may callers write anywhere but at the end of a file?
    MaxFiles,       \* bound: files opened
    MaxBytes,       \* bound: what all files hold before a write
    None

Characters == UNION {Range(name) : name \in Names}

ASSUME VfsAssumption ==
    /\ Dev \in Names /\ RootSb \in Supers /\ Junk \notin Bytes
    /\ MaxInodes \in Nat /\ MaxInodes >= 2 /\ NameMax \in Nat /\ Len(Dev) + 1 < NameMax
    /\ Names \subseteq Seq(Characters) /\ Paths \subseteq Seq({Slash} \cup Characters)
    /\ \A str \in Paths : str # <<>> /\ (Last(str) = Slash => Len(str) = 1)
    /\ Writes \subseteq Seq(Bytes) /\ Reads \subseteq Nat \ {0}

VARIABLES
    fs,         \* inodes: the struct inode objects; disk: initfs tables; cache
    files,      \* open files
    overrun,    \* which copy ran outside its memory; nothing is said of what follows
    made,       \* history: the object created for each path, until a mount hides it
    written     \* history: contents by superblock and inode number

vars == <<fs, files, overrun, made, written>>

-----------------------------------------------------------------------------
(* initfs, the inode cache and the path walk, as operators on fs.          *)

\* A table with one more entry, or a new one in an old one's place.
Put(table, key, value) ==
    [k \in {key} \cup DOMAIN table |-> IF k = key THEN value ELSE table[k]]

\* inode_allocate and initfs_allocate.
NewInode(sb, ino, mode) ==
    [sb |-> sb, ino |-> ino, mode |-> mode, size |-> 0, mp |-> <<>>, dev |-> FALSE]

NewRnode(mode) == [mode |-> mode, size |-> 0, data |-> <<>>, entries |-> <<>>]

\* initfs_mount: the table holds the root directory.
Mounted(f, sb) ==
    LET table == [next |-> 1, nodes |-> [ino \in {0} |-> NewRnode("dir")]]
    IN  [f EXCEPT !.disk = Put(@, sb, table),
                  !.inodes = Append(@, NewInode(sb, 0, "dir"))]

\* initfs_lookup: the first entry of that name, as a dentry.
EntriesOf(f, o) == f.disk[o.sb].nodes[o.ino].entries

FirstMatch(sb, entries, matches) ==
    IF matches = {} THEN None ELSE [sb |-> sb, ino |-> entries[Min(matches)].ino]

Lookup(f, dir, name) ==
    LET o == f.inodes[dir]
        e == EntriesOf(f, o)
    IN  FirstMatch(o.sb, e, {k \in DOMAIN e : e[k].name = name})

\* initfs_read_inode, into a fresh object.
ReadInode(f, d) ==
    LET r == f.disk[d.sb].nodes[d.ino]
    IN  [NewInode(d.sb, d.ino, r.mode) EXCEPT !.size = r.size]

\* inode_resolve_dentry: an object made on a miss is not put in the cache.
ResolveDentry(f, d) ==
    IF d \in DOMAIN f.cache THEN [fs |-> f, id |-> f.cache[d], dentry |-> d]
    ELSE [fs |-> [f EXCEPT !.inodes = Append(@, ReadInode(f, d))],
          id |-> Len(f.inodes) + 1, dentry |-> d]

\* path_resolve_mountpoint: the newest mount on an inode.
ResolveMountpoint(f, i) ==
    IF f.inodes[i].mp = <<>> THEN i ELSE Head(f.inodes[i].mp)

NotFound(f) == [fs |-> f, id |-> None, dentry |-> None]

\* One round of the loop of __path_resolve_dentry: w.id is where the walk is.
Enter(r) == [r EXCEPT !.id = ResolveMountpoint(r.fs, r.id)]

WalkInto(f, d) == IF d = None THEN NotFound(f) ELSE Enter(ResolveDentry(f, d))

WalkStep(w, name) == IF w.id = None THEN w ELSE WalkInto(w.fs, Lookup(w.fs, w.id, name))

Root == 1

\* path_resolve without O_CREAT: the inode under a mount, not the mount, and
\* for "/" the root with no dentry.  The root is also every cwd.
WalkEnd(w) == IF w.dentry = None THEN NotFound(w.fs) ELSE ResolveDentry(w.fs, w.dentry)

AtRoot(f) == [fs |-> f, id |-> Root, dentry |-> None]

Walk(f, names) ==
    LET at[k \in 0 .. Len(names)] ==
          IF k = 0 THEN AtRoot(f) ELSE WalkStep(at[k - 1], names[k])
    IN  WalkEnd(at[Len(names)])

PathResolve(f, str) == IF str = <<Slash>> THEN AtRoot(f) ELSE Walk(f, Tokens(str))

\* initfs_create.
InitfsCreate(f, dir, name, mode) ==
    LET o   == f.inodes[dir]
        t   == f.disk[o.sb]
        ino == t.next
        nodes == Put([t.nodes EXCEPT ![o.ino].entries = <<[name |-> name, ino |-> ino]>> \o @],
                     ino, NewRnode(mode))
    IN  [f EXCEPT !.disk[o.sb] = [next |-> ino + 1, nodes |-> nodes],
                  !.inodes = Append(@, NewInode(o.sb, ino, mode))]

\* Mutant: the new inode stays out of the cache.
InsertCache_Never(f, i) == f

\* inode_insert_cache.
InsertCache(f, i) ==
    [f EXCEPT !.cache = Put(@, [sb |-> f.inodes[i].sb, ino |-> f.inodes[i].ino], i)]

Opened(r, isNew) == [fs |-> r.fs, id |-> r.id, dentry |-> r.dentry, new |-> isNew]

\* The object initfs_create made goes into the cache.
NewEntry(f) ==
    LET id == Len(f.inodes)
        o  == f.inodes[id]
    IN  [fs |-> InsertCache(f, id), id |-> id, dentry |-> [sb |-> o.sb, ino |-> o.ino], new |-> TRUE]

\* Mutant: an existing entry is shadowed by a new one.
CreateAt_NoLookup(dir, old, name, mode) == NewEntry(InitfsCreate(dir.fs, dir.id, name, mode))

\* __path_resolve_create once the directory is known.  A file that exists is
\* returned without its dentry.
CreateAt(dir, old, name, mode) ==
    IF old = None THEN NewEntry(InitfsCreate(dir.fs, dir.id, name, mode))
    ELSE Opened([ResolveDentry(dir.fs, old) EXCEPT !.dentry = None], FALSE)

CreateIn(dir, name, mode) ==
    IF dir.id = None \/ dir.fs.inodes[dir.id].mode # "dir" THEN Opened(NotFound(dir.fs), FALSE)
    ELSE CreateAt(dir, Lookup(dir.fs, dir.id, name), name, mode)

\* path_resolve with O_CREAT.
PastRoot(str) == IF Head(str) = Slash THEN Tail(str) ELSE str

PathCreate(f, str, mode) ==
    IF str = <<Slash>> THEN Opened(AtRoot(f), FALSE)
    ELSE CreateIn(PathResolve(f, Dirname(PastRoot(str))), Basename(PastRoot(str)), mode)

-----------------------------------------------------------------------------
Key(i) == <<fs.inodes[i].sb, fs.inodes[i].ino>>

\* rootfs_init: initfs on the root, and /dev in it.
Init ==
    LET empty == [inodes |-> <<>>, disk |-> <<>>, cache |-> <<>>]
    IN  /\ fs = PathCreate(Mounted(empty, RootSb), <<Slash>> \o Dev, "dir").fs
        /\ files = <<>>
        /\ overrun = "no"
        /\ made = [names \in {<<Dev>>} |-> 2]
        /\ written = [k \in {<<RootSb, 0>>, <<RootSb, 1>>} |-> <<>>]

\* The copies of names to d_name[NameMax] that a call makes.  Of a name as long
\* as the array strncpy writes the terminator behind it: in dentry_lookup on
\* whatever the heap has behind the dentry, if the walk gets that far, and in
\* initfs_create on the low byte of d_ino.  A name one shorter is left without a
\* terminator in the fresh dentry of __path_resolve_create, and initfs_create
\* reads on.  All other names are copied whole.
Overlong(str) ==
    \E i \in 1 .. Len(str) : i + NameMax - 1 <= Len(str) /\ Slash \notin {str[k] : k \in i .. i + NameMax - 1}

NameCopies(str, isNew) ==
    IF isNew /\ Len(Basename(str)) >= NameMax THEN {"name"}
    ELSE IF Overlong(str) \/ (isNew /\ Len(Basename(str)) = NameMax - 1) THEN {"no", "name"}
    ELSE {"no"}

\* The histories, and the overrun of the table, after a create.
Created(str, c) ==
    LET o == c.fs.inodes[c.id] IN
    /\ fs' = c.fs
    /\ made' = IF c.new THEN Put(made, Components(str), c.id) ELSE made
    /\ written' = IF c.new THEN Put(written, <<o.sb, o.ino>>, <<>>) ELSE written
    /\ overrun' \in IF c.new /\ o.ino >= MaxInodes THEN {"table"} ELSE NameCopies(str, c.new)

\* file_open: both the inode and its dentry are needed.
FileOpened(r) ==
    files' = IF r.id = None \/ r.dentry = None THEN files
             ELSE Append(files, [inode |-> r.id, off |-> 0])

OpenFound(p, r) ==
    /\ FileOpened(r)
    /\ fs' = r.fs
    /\ overrun' \in NameCopies(p, FALSE)
    /\ UNCHANGED <<made, written>>

FileOpen(p) ==
    /\ overrun = "no" /\ Len(files) < MaxFiles
    /\ OpenFound(p, PathResolve(fs, p))

OpenCreated(p, c) == FileOpened(c) /\ Created(p, c)

FileOpenCreate(p, mode) ==
    /\ overrun = "no" /\ Len(files) < MaxFiles
    /\ OpenCreated(p, PathCreate(fs, p, mode))

\* mknod and block_mount_inode, as ahci_create_fs_node calls them.
MakeDevice(p, c) ==
    /\ c.id # None
    /\ Created(p, [c EXCEPT !.fs.inodes[c.id].mode = "blk", !.fs.inodes[c.id].dev = TRUE])

Mknod(p) ==
    /\ overrun = "no"
    /\ MakeDevice(p, PathCreate(fs, p, "blk"))
    /\ UNCHANGED files

\* Some directory of the path, before its last name, resolves to inode i.
GoesThrough(f, names, i) == \E n \in 1 .. Len(names) - 1 : Walk(f, SubSeq(names, 1, n)).id = i

\* Mutant: the mount also takes over the directory's own inode.
MountOn_Replaces(r, root) ==
    [r.fs EXCEPT !.cache = [d \in DOMAIN @ |-> IF @[d] = r.id THEN root ELSE @[d]]]

\* mount_fs puts the new root first on the inode's list of mounts.
MountOn(r, root) == [r.fs EXCEPT !.inodes[r.id].mp = <<root>> \o @]

\* mount_fs.  When the mount point is not found the new superblock is freed;
\* its root is leaked, but nothing refers to it.
MountFound(r) ==
    /\ r.id # None
    /\ fs' = MountOn(r, Len(fs.inodes) + 1)
    /\ made' = Restrict(made, {q \in DOMAIN made : ~GoesThrough(r.fs, q, r.id)})

MountFs(p, sb) ==
    /\ overrun = "no" /\ sb \notin DOMAIN fs.disk
    /\ MountFound(PathResolve(Mounted(fs, sb), p))
    /\ written' = Put(written, <<sb, 0>>, <<>>)
    /\ overrun' \in NameCopies(p, FALSE)
    /\ UNCHANGED files

-----------------------------------------------------------------------------
(* Reading and writing.                                                    *)

Rnode(i) == fs.disk[fs.inodes[i].sb].nodes[fs.inodes[i].ino]

At(s, k) == IF k \in DOMAIN s THEN s[k] ELSE Junk

\* Mutant: a read that ends past the file returns what was asked for.
ReadCount_NoClip(r, n, off) == n

\* initfs_read's count.  It includes the offset if the file is long enough.
ReadCount(r, n, off) == IF n + off > r.size THEN r.size - off ELSE n + off

\* What initfs_read copies to the caller's buffer.
InitfsRead(r, n, off) == [k \in 1 .. ReadCount(r, n, off) |-> At(r.data, off + k)]

Advance(h, n) == files' = [files EXCEPT ![h].off = IF n > 0 THEN @ + n ELSE @]

\* file_pread and file_read of an initfs file; only file_read advances.  A
\* negative count makes memcpy run through all of memory.  A count above n, of
\* a read inside the file, overruns the caller's buffer unless that is larger
\* than the caller said.  Reads of a device go to ahci_read and are not here.
FileRead(h, n, advance) ==
    LET i == files[h].inode
        c == ReadCount(Rnode(i), n, files[h].off)
    IN  /\ overrun = "no" /\ ~fs.inodes[i].dev
        /\ overrun' \in IF c < 0 THEN {"read"} ELSE IF c > n THEN {"no", "read"} ELSE {"no"}
        /\ Advance(h, IF advance THEN c ELSE 0)
        /\ UNCHANGED <<fs, made, written>>

\* Mutant: what the file held is not copied.
InitfsWrite_NoCopy(r, buf, off) ==
    [r EXCEPT !.data = [k \in 1 .. off + Len(buf) |-> IF k > off THEN buf[k - off] ELSE Junk],
              !.size = @ + Len(buf)]

\* How long the new buffer of initfs_write is.
WriteTotal(buf, off) == off + Len(buf)

\* initfs_write: a new buffer up to the end of the write; the size grows by
\* what was written, wherever that was.
InitfsWrite(r, buf, off) ==
    [r EXCEPT !.data = [k \in 1 .. WriteTotal(buf, off) |->
                          IF k > off THEN buf[k - off] ELSE IF k <= r.size THEN At(r.data, k) ELSE Junk],
              !.size = @ + Len(buf)]

\* What a file of contents s should hold after a write.
Overwritten(s, buf, off) ==
    [k \in 1 .. (IF off + Len(buf) > Len(s) THEN off + Len(buf) ELSE Len(s)) |->
        IF k \in off + 1 .. off + Len(buf) THEN buf[k - off] ELSE At(s, k)]

TotalBytes == MapThenSumSet(LAMBDA k : Len(written[k]), DOMAIN written)

\* file_pwrite and file_write.  The old contents are copied whole, also into
\* a smaller buffer.
FileWrite(h, buf, advance) ==
    LET i   == files[h].inode
        o   == fs.inodes[i]
        off == files[h].off
    IN  /\ overrun = "no"
        /\ TotalBytes < MaxBytes
        /\ Overwrites \/ off = Len(written[Key(i)])
        /\ fs' = [fs EXCEPT !.disk[o.sb].nodes[o.ino] = InitfsWrite(@, buf, off),
                            !.inodes[i].size = @ + Len(buf)]
        /\ overrun' = IF \/ Rnode(i).data # <<>> /\ Rnode(i).size > WriteTotal(buf, off)
                         \/ off + Len(buf) > WriteTotal(buf, off)
                      THEN "write" ELSE "no"
        /\ written' = [written EXCEPT ![Key(i)] = Overwritten(@, buf, off)]
        /\ Advance(h, IF advance THEN Len(buf) ELSE 0)
        /\ UNCHANGED made

Next ==
    \/ \E p \in Paths :
         \/ FileOpen(p) \/ Mknod(p)
         \/ \E mode \in {"dir", "file"} : FileOpenCreate(p, mode)
         \/ \E sb \in Supers : MountFs(p, sb)
    \/ \E h \in DOMAIN files, advance \in BOOLEAN :
         \/ \E n \in Reads : FileRead(h, n, advance)
         \/ \E buf \in Writes : FileWrite(h, buf, advance)

Spec == Init /\ [][Next]_vars
-----------------------------------------------------------------------------
(* Properties.                                                             *)

Resolves(f, p) == PathResolve(f, p).id

\* Until a copy runs outside its memory (NameCopies: a name that does not fit
\* ends that), inode_resolve_dentry never makes a second object for an inode:
\* the mounts on it, its device and its size would be seen by some callers only.
OneObjectPerInode ==
    \A i, j \in DOMAIN fs.inodes :
        fs.inodes[i].sb = fs.inodes[j].sb /\ fs.inodes[i].ino = fs.inodes[j].ino => i = j

\* Something is mounted on a directory that the path goes through.
ThroughMount(names) ==
    \E i \in DOMAIN fs.inodes : fs.inodes[i].mp # <<>> /\ GoesThrough(fs, names, i)

\* The root, or what was created under these names, is still a directory:
\* mknod turns any inode that it finds into a device.
MadeDirectory(names) ==
    LET inode == IF names = <<>> THEN {Root} ELSE {made[q] : q \in {names} \cap DOMAIN made}
    IN  \E i \in inode : fs.inodes[i].mode = "dir"

\* What O_CREAT or mknod created at a path is what path_resolve finds there
\* from then on, and in a directory so created path_resolve with O_CREAT always
\* returns an inode.  It stores the dentry too, without which file_open returns
\* NULL, if the file is new; path.h:43 says that it always does, path.c:139 does
\* not.  All this unless the path goes through a mount point or a copy ran
\* outside its memory.
CreatedIsFound ==
    overrun = "no" => \A p \in Paths \ {<<Slash>>} : LET names == Components(p) IN
        \/ ThroughMount(names)
        \/ /\ names \in DOMAIN made => Resolves(fs, p) = made[names]
           /\ MadeDirectory(Front(names)) => LET c == PathCreate(fs, p, "file") IN
                /\ c.id # None
                /\ Resolves(fs, p) = None => c.dentry # None

\* Creating, opening, writing and mounting elsewhere never change what a path
\* resolves to.  Only a new mount on a directory the path goes through does, or
\* a copy outside its memory.
PathsStable ==
    [][\A p \in Paths :
         \/ overrun' # "no" \/ Resolves(fs, p) = None
         \/ Resolves(fs', p) = Resolves(fs, p)
         \/ \E i \in DOMAIN fs.inodes :
              fs'.inodes[i].mp # fs.inodes[i].mp /\ GoesThrough(fs, Components(p), i)]_vars

\* If files are only appended to, initfs holds what was written, the size in
\* the struct inode agrees with the one in the table, and no write runs out of
\* the buffer it just allocated.
ContentsKept ==
    ~Overwrites => overrun # "write" /\ \A i \in DOMAIN fs.inodes : LET w == written[Key(i)] IN
        /\ Rnode(i).data = w
        /\ Rnode(i).size = Len(w)
        /\ fs.inodes[i].size = Len(w)

\* A read from the start of a file, or one that reaches its end, returns what
\* was written there and no more.
ReadRight ==
    ~Overwrites => \A h \in DOMAIN files, n \in Reads :
        LET off == files[h].off
            w   == written[Key(files[h].inode)]
            e   == IF off + n > Len(w) THEN Len(w) ELSE off + n
        IN  off <= Len(w) /\ (off = 0 \/ off + n > Len(w)) =>
              InitfsRead(Rnode(files[h].inode), n, off) = SubSeq(w, off + 1, e)
=============================================================================
