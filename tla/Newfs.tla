------------------------------- MODULE Newfs -------------------------------
(***************************************************************************)
(* newfs: from the options and the label of a disk to the file system on   *)
(* it (sbin/newfs/newfs.c, mkfs.c), with the sizes of the real program.    *)
(* The macros of the kernel's fs.h are those the source uses.              *)
(*                                                                         *)
(*   opt, label    the options that are given, the disk and its label      *)
(*   fs, fscs      sblock and the summaries of its groups                  *)
(*   group         acg, the cylinder group in memory                       *)
(*   io            the disk, a set of extents, and wc, the buffer of wtfs() *)
(*   cylno, pc     the next group; what is next, or how the run ended      *)
(***************************************************************************)
EXTENDS Integers, Sequences, SequencesExt, FiniteSetsExt, TLC

CONSTANTS
    Disks,      \* [opt, label]
    DESCPG      \* the number of cylinders of a group that newfs starts from

VARIABLES opt, label, fs, fscs, group, io, cylno, pc

DEV_BSIZE == 512
MINBSIZE == 4096
MAXFRAG == 8
BBSIZE == 8192
SBSIZE == 8192
MAXPHYS == 131072
FS_MAXCONTIG == 16
WCSIZE == 131072
NBBY == 8
DinodeSize == 128
CsumSize == 16
CgSize == 172
FsSize == 1376
ROOTINO == 2
DIRBLKSIZ == 512

Quot(n, m) == IF n >= 0 THEN n \div m ELSE -((-n) \div m)
HowMany(n, m) == Quot(n + m - 1, m)
RoundUp(n, m) == HowMany(n, m) * m
PowerOf2(n) == \E k \in 0..20 : n = 2 ^ k
NoCounts == [ndir |-> 0, nbfree |-> 0, nifree |-> 0, nffree |-> 0]

-----------------------------------------------------------------------------
(* main(): the parameters *)

Given(l, default) == IF l \in DOMAIN opt THEN opt[l] ELSE default
Least == [S |-> 1, a |-> 1, b |-> MINBSIZE, c |-> 1, f |-> 1, i |-> 1, n |-> 0, s |-> 1, t |-> 0, u |-> 0, N |-> 0]
Nflag == "N" \in DOMAIN opt

\* What an option does not say is in the label, or has a default.
Else(n, default) == IF n > 0 THEN n ELSE default
Fsize == Else(Given("f", label.fsize), Max({2048, label.secsize}))
Bsize(fsize) == Else(Given("b", label.frag * label.fsize), Min({16384, 8 * fsize}))
Nsectors == Else(Given("u", 4096), label.nsectors)
Ntracks == Else(Given("t", 1), label.ntracks)

Fatal ==
    \/ \E l \in DOMAIN opt : opt[l] < Least[l]
    \/ label.mounted /\ ~Nflag
    \/ label.read = "none" \/ label.psize = 0 \/ label.boot
    \/ Given("s", 0) > label.psize
    \/ Ntracks <= 0 \/ Nsectors <= 0 \/ Given("S", label.secsize) <= 0

\* Sizes count sectors of DEV_BSIZE, whatever those of the disk are.
Parameters(fsize, bsize, per) ==
    [fssize |-> Given("s", label.psize) * per, nsect |-> Nsectors * per, ntrak |-> Ntracks,
     spc |-> Nsectors * Ntracks * per, fsize |-> fsize, bsize |-> bsize, cpg |-> Given("c", DESCPG),
     density |-> Given("i", 4 * fsize), maxcontig |-> Given("a", Max({1, MAXPHYS \div bsize - 1})),
     nrpos |-> Else(Given("n", 1), 1)]

-----------------------------------------------------------------------------
(* wtfs() and rdfs(): what is written behind, until something else is done *)

Extent(bno, bytes, what) == [bno |-> bno, secs |-> bytes \div DEV_BSIZE, what |-> what]
Overlap(x, y) == x.bno < y.bno + y.secs /\ y.bno < x.bno + x.secs
OnDisk(disk, x) == {y \in disk : ~Overlap(x, y)} \cup {x}
Wtfsflush(f) == [disk |-> FoldLeft(OnDisk, f.disk, f.wc), wc |-> <<>>]
Behind(f, secs) == IF secs < WCSIZE \div DEV_BSIZE THEN f ELSE Wtfsflush(f)
Held(f) == FoldLeft(LAMBDA n, x : n + x.secs, 0, f.wc)
Wtfs(f, x) ==
    IF Nflag THEN f
    ELSE IF f.wc = <<>> THEN Behind([f EXCEPT !.wc = <<x>>], x.secs)
    ELSE IF f.wc[1].bno + Held(f) = x.bno /\ Held(f) + x.secs <= WCSIZE \div DEV_BSIZE
    THEN Behind([f EXCEPT !.wc = Append(@, x)], Held(f) + x.secs)
    ELSE [Wtfsflush(f) EXCEPT !.disk = OnDisk(@, x)]
WtfsAll(f, extents) == FoldLeft(Wtfs, f, extents)

At(disk, bno) == (CHOOSE x \in disk : x.bno = bno).what
Rdfs(f, bno) == At(Wtfsflush(f).disk, bno)

-----------------------------------------------------------------------------
(* The places of a group (fs.h) *)

NSPB(f) == f.nspf * f.frag
INOPF(f) == f.inopb \div f.frag
CGSIZE(f) ==
    CgSize + 4 + f.cpg * 4 + f.cpg * f.nrpos * 2 + HowMany(f.ipg, NBBY)
    + HowMany((f.cpg * f.spc) \div f.nspf, NBBY)
    + (IF f.contig <= 0 THEN 0 ELSE f.contig * 4 + HowMany((f.cpg * f.spc) \div NSPB(f), NBBY))
MAXIPG(f) == RoundUp((f.bsize * NBBY) \div 3, f.inopb)
Cgbase(f, c) == c * f.fpg
Cgstart(f, c) == Cgbase(f, c) + f.cgoffset * (c % (f.skew + 1))
Cgsblock(f, c) == Cgstart(f, c) + f.sblkno
Cgtod(f, c) == Cgstart(f, c) + f.cblkno
Cgimin(f, c) == Cgstart(f, c) + f.iblkno
Cgdmin(f, c) == Cgstart(f, c) + f.dblkno
Fsbtodb(f, d) == d * f.nspf
Cbtocylno(f, d) == (d * f.nspf) \div f.spc
Cbtorpos(f, d) == ((((d * f.nspf) % f.spc) % f.nsect) * f.nrpos) \div f.nsect

-----------------------------------------------------------------------------
(* mkfs(): the geometry *)

Refused(p) ==
    CASE p.fssize <= 0 -> 13
      [] ~PowerOf2(p.bsize) -> 16
      [] ~PowerOf2(p.fsize) -> 17
      [] p.fsize < DEV_BSIZE -> 18
      [] p.bsize < p.fsize -> 20
      [] p.bsize > p.fsize * MAXFRAG -> 21
      [] OTHER -> 0

RECURSIVE Halved(_, _)
Halved(cpc, spc) == IF cpc > 1 /\ spc % 2 = 0 THEN Halved(cpc \div 2, spc \div 2) ELSE cpc

\* The groups are skewed by the track: the low bits of their number that ~cgmask leaves.
Skew(ntrak) == Max({2 ^ k - 1 : k \in {j \in 0..12 : j = 0 \/ 2 ^ (j - 1) < ntrak}})

\* calcipg(): the number of inodes depends on itself.
NewIpg(f, ipg) ==
    RoundUp(Quot(Quot(Quot(Quot(f.cpg * f.spc * DEV_BSIZE - (f.iblkno + ipg \div INOPF(f)) * f.nspf * DEV_BSIZE,
                                f.density) * f.fssize, HowMany(HowMany(f.fssize, f.spc), f.cpg)), f.spc), f.cpg),
            f.inopb)
Calcipg(f) == FoldLeft(LAMBDA ipg, i : NewIpg(f, ipg), 0, [i \in 1..10 |-> i])
WithCpg(f, cpg) == [f EXCEPT !.cpg = cpg, !.ipg = Calcipg([f EXCEPT !.cpg = cpg])]

Layout(p, frag, nspf, sblkno) ==
    p @@ [frag |-> frag, nspf |-> nspf, inopb |-> p.bsize \div DinodeSize, sblkno |-> sblkno,
          cblkno |-> sblkno + RoundUp(HowMany(SBSIZE, p.fsize), frag),
          iblkno |-> sblkno + RoundUp(HowMany(SBSIZE, p.fsize), frag) + frag,
          cgoffset |-> RoundUp(HowMany(p.nsect, nspf), frag), skew |-> Skew(p.ntrak),
          cpc |-> Halved(nspf * frag, p.spc), ipg |-> 0,
          contig |-> IF p.maxcontig > 1 THEN Min({p.maxcontig, FS_MAXCONTIG}) ELSE 0]
Geometry(p) ==
    Layout(p, p.bsize \div p.fsize, p.fsize \div DEV_BSIZE,
           RoundUp(HowMany(BBSIZE + SBSIZE, p.fsize), p.bsize \div p.fsize))

\* The least group: one that has room for its inodes and the places before them.
LeastInodes(f) == Min({RoundUp((f.spc * DEV_BSIZE) \div DinodeSize, f.inopb), MAXIPG(f)})
Mincpg(f) ==
    RoundUp(HowMany(f.cgoffset * f.skew + (f.iblkno + LeastInodes(f) \div INOPF(f)) * f.nspf, f.spc), f.cpc)

\* When its map or its inodes do not fit, newfs looks for sizes that it could have been
\* given, says them, and ends with 22 or 23.
Cramped(f, least) ==
    \/ CGSIZE([f EXCEPT !.cpg = least, !.ipg = LeastInodes(f)]) > f.bsize
    \/ Calcipg([f EXCEPT !.cpg = least]) > MAXIPG(f)

\* As many cylinders to a group as the inodes and then the map leave.  The code counts
\* down; what it counts without the inodes alone is larger than a block for Full(f)
\* cylinders and more, and the search begins there.
Full(f) == RoundUp((f.bsize * NBBY * f.nspf) \div (f.spc + NBBY * f.nspf * (4 + 2 * f.nrpos)) + 1, f.cpc)
RECURSIVE FitInodes(_), FitMap(_)
FitInodes(f) == IF f.ipg > MAXIPG(f) THEN FitInodes(WithCpg(f, f.cpg - f.cpc)) ELSE f
FitMap(f) == IF CGSIZE(f) > f.bsize THEN FitMap(WithCpg(f, f.cpg - f.cpc)) ELSE f
Grouped(f) == FitMap(FitInodes(WithCpg(f, Min({RoundUp(f.cpg, f.cpc), Full(f)}))))
GroupRefused(f, least) ==
    IF (f.cpg * f.spc) % NSPB(f) # 0 THEN 24
    ELSE IF f.cpg < least THEN 25
    ELSE IF "c" \in DOMAIN opt /\ f.cpg # opt.c THEN 27
    ELSE 0

\* The file system ends with the disk, or before a last group that has no data.
Whole(f, ncyl) ==
    f @@ [fpg |-> (f.cpg * f.spc) \div f.nspf, cgsize |-> RoundUp(CGSIZE(f), f.fsize), size |-> f.fssize \div f.nspf,
          ncyl |-> ncyl, ncg |-> HowMany(ncyl, f.cpg), dblkno |-> f.iblkno + f.ipg \div INOPF(f),
          csaddr |-> 0, cssize |-> 0, dsize |-> 0, total |-> NoCounts]
SizeRefused(f) ==
    IF f.ncyl < 1 THEN 28
    ELSE IF Cgdmin(f, Min({f.skew, f.ncg - 1})) - Cgbase(f, Min({f.skew, f.ncg - 1})) >= f.fpg THEN 29
    ELSE IF f.ncg = 1 /\ f.size < f.fpg /\ Cgdmin(f, 0) > f.size THEN 30
    ELSE 0
Cut(f) ==
    IF f.size < Cgbase(f, f.ncg) /\ Cgdmin(f, f.ncg - 1) > f.size
    THEN [f EXCEPT !.ncg = @ - 1, !.ncyl = @ - (@ % f.cpg), !.size = ((f.ncyl - (f.ncyl % f.cpg)) * f.spc) \div f.nspf]
    ELSE f
Summed(f) == [f EXCEPT !.csaddr = Cgdmin(f, 0), !.cssize = RoundUp(f.ncg * CsumSize, f.fsize)]

\* The rotational tables: the blocks of a position of a cylinder, each a step from the one before.
Tabled(f) ==
    f.ntrak # 1 /\ f.nsect <= 2 ^ NBBY * NSPB(f)
    /\ FsSize + (f.cpc * f.spc) \div NSPB(f) + (IF f.nrpos = 8 /\ f.cpc <= 16 THEN 0 ELSE f.nrpos * f.cpc * 2) <= SBSIZE
Turn(f, t, blk) ==
    LET at == <<Cbtocylno(f, blk * f.frag), Cbtorpos(f, blk * f.frag)>>
    IN  [postbl |-> [t.postbl EXCEPT ![at] = blk],
         rotbl |-> [t.rotbl EXCEPT ![blk] = IF t.postbl[at] = -1 THEN 0 ELSE t.postbl[at] - blk]]
Tables(f, n) ==
    FoldLeft(LAMBDA t, i : Turn(f, t, n - i),
             [postbl |-> [at \in (0..(f.cpc - 1)) \X (0..(f.nrpos - 1)) |-> -1], rotbl |-> [b \in 0..(n - 1) |-> 0]],
             [i \in 1..n |-> i])
WithTables(f) ==
    f @@ IF Tabled(f) THEN Tables(f, (f.cpc * f.spc) \div NSPB(f)) ELSE [postbl |-> <<>>, rotbl |-> <<>>]

-----------------------------------------------------------------------------
(* The steps *)

Exit(code) == pc' = code /\ UNCHANGED <<opt, label, fs, fscs, group, io, cylno>>

Main ==
    /\ pc = "start"
    /\ IF Fatal THEN Exit("fatal")
       ELSE \E p \in {Parameters(Fsize, Bsize(Fsize), Given("S", label.secsize) \div DEV_BSIZE)} :
              /\ pc' = IF Refused(p) = 0 THEN "geometry" ELSE ToString(Refused(p))
              /\ fs' = p
              /\ io' = IF p.fssize <= 0 THEN io
                       ELSE Wtfs(io, Extent(p.fssize - Given("S", label.secsize) \div DEV_BSIZE,
                                                Given("S", label.secsize), [kind |-> "test"]))
              /\ UNCHANGED <<opt, label, fscs, group, cylno>>

Sized(f, ncyl) ==
    /\ pc' = IF SizeRefused(Whole(f, ncyl)) = 0 THEN "groups" ELSE ToString(SizeRefused(Whole(f, ncyl)))
    /\ fs' = IF SizeRefused(Whole(f, ncyl)) = 0 THEN Summed(Cut(WithTables(Whole(f, ncyl)))) ELSE f
    /\ UNCHANGED <<opt, label, fscs, group, io, cylno>>
Mkfs ==
    /\ pc = "geometry"
    /\ \E f \in {Geometry(fs)} : \E least \in {Mincpg(f)} :
          IF Cramped(f, least) THEN Exit("23")
          ELSE \E g \in {Grouped(f)} :
                 IF GroupRefused(g, least) # 0 THEN Exit(ToString(GroupRefused(g, least)))
                 ELSE Sized(g, HowMany((g.fssize \div g.nspf) * g.nspf, g.spc))

\* initcg(): the free fragments of the group "c": the blocks before its super block, the
\* rest of the block in which its data begin, the blocks behind, and what is left of the last.
Blocks(free) == {d \in free : d % fs.frag = 0 /\ \A i \in 1..(fs.frag - 1) : d + i \in free}
RunFrom(blocks, d, n) == Min({e \in (d \div fs.frag)..n : e = n \/ e * fs.frag \notin blocks}) - d \div fs.frag
Runs(blocks, n) ==
    LET starts == {d \in blocks : d - fs.frag \notin blocks}
    IN  [k \in 1..fs.contig |-> Cardinality({d \in starts : Min({RunFrom(blocks, d, n), fs.contig}) = k})]
Counted(placed) == [k \in {x[2] : x \in placed} |-> Cardinality({x \in placed : x[2] = k})]
CylOf(d) == Cbtocylno(fs, d)
PosOf(d) == <<Cbtocylno(fs, d), Cbtorpos(fs, d)>>
Group(c, n, head, blocks, last) ==
    [cgx |-> c, ncyl |-> IF c = fs.ncg - 1 THEN fs.ncyl % fs.cpg ELSE fs.cpg, ndblk |-> n,
     free |-> head \cup last \cup UNION {d..(d + fs.frag - 1) : d \in blocks},
     clusters |-> IF fs.contig > 0 THEN blocks ELSE {},
     clustersum |-> IF fs.contig > 0 THEN Runs(blocks, n \div fs.frag) ELSE <<>>,
     frsum |-> [k \in 1..(MAXFRAG - 1) |-> Cardinality({s \in {1, 2} : Cardinality(<<head, last>>[s]) = k})],
     iused |-> IF c = 0 THEN 0..(ROOTINO - 1) ELSE {},
     blktot |-> Counted({<<d, CylOf(d)>> : d \in blocks}), blks |-> Counted({<<d, PosOf(d)>> : d \in blocks}),
     cs |-> [ndir |-> 0, nbfree |-> Cardinality(blocks), nifree |-> fs.ipg - (IF c = 0 THEN ROOTINO ELSE 0),
             nffree |-> Cardinality(head) + Cardinality(last)]]
Initial(c, n, lower, upper, first) ==
    Group(c, n, upper..(first - 1),
          {d \in 0..(n - 1) : d % fs.frag = 0 /\ ((c > 0 /\ d < lower) \/ (d >= first /\ d + fs.frag <= n))},
          (first + (Max({n - first, 0}) \div fs.frag) * fs.frag)..(n - 1))
\* Mutant: the summaries of the groups are not kept out of the data of the first.
MutUpper(c) == Cgdmin(fs, c) - Cgbase(fs, c)
Upper(c) == Cgdmin(fs, c) - Cgbase(fs, c) + (IF c = 0 THEN HowMany(fs.cssize, fs.fsize) ELSE 0)
InitialGroup(c) ==
    Initial(c, Min({Cgbase(fs, c) + fs.fpg, fs.size}) - Cgbase(fs, c), Cgsblock(fs, c) - Cgbase(fs, c),
            Upper(c), RoundUp(Upper(c), fs.frag))
Plus(a, b) == [k \in DOMAIN a |-> a[k] + b[k]]

InodeBlock(c, i) == Extent(Fsbtodb(fs, Cgimin(fs, c) + i * fs.frag), fs.bsize, [kind |-> "inodes", nodes |-> {}])
GroupExtent(f, g) == Extent(Fsbtodb(f, Cgtod(f, g.cgx)), f.bsize, [kind |-> "cg", cg |-> g])
Initcg ==
    /\ pc = "groups"
    /\ \E g \in {InitialGroup(cylno)} :
          /\ group' = g
          /\ fscs' = Append(fscs, g.cs)
          /\ fs' = [fs EXCEPT !.total = Plus(@, g.cs),
                              !.dsize = @ + g.ndblk - Upper(cylno)
                                        + (IF cylno > 0 THEN Cgsblock(fs, cylno) - Cgbase(fs, cylno) ELSE 0)]
          /\ io' = Wtfs(WtfsAll(io, [i \in 1..HowMany(fs.ipg \div INOPF(fs), fs.frag) |-> InodeBlock(cylno, i - 1)]),
                        GroupExtent(fs, g))
    /\ cylno' = cylno + 1
    /\ pc' = IF cylno + 1 < fs.ncg THEN "groups" ELSE IF Nflag THEN "done" ELSE "root"
    /\ UNCHANGED <<opt, label>>

\* alloc() of the root's fragment: the first free block of the first group is broken up;
\* without one it is the fragment 0.
Alloc(g, d, frag) ==
    [g EXCEPT !.free = (@ \ (d..(d + fs.frag - 1))) \cup ((d + frag)..(d + fs.frag - 1)),
              !.clusters = @ \ {d},
              !.cs = Plus(@, [ndir |-> 1, nbfree |-> -1, nifree |-> 0, nffree |-> fs.frag - frag]),
              !.blktot[CylOf(d)] = @ - 1, !.blks[PosOf(d)] = @ - 1,
              !.frsum = IF frag = fs.frag THEN @ ELSE [@ EXCEPT ![fs.frag - frag] = @ + 1]]
Allocated(g) == IF g.cs.nbfree = 0 THEN g ELSE Alloc(g, Min(Blocks(g.free)), 1)

\* makedir(): the last entry takes the rest of the directory's block.
DirSiz(namlen) == 8 + RoundUp(namlen + 1, 4)
RootDir == <<[ino |-> ROOTINO, name |-> ".", reclen |-> DirSiz(1)],
             [ino |-> ROOTINO, name |-> "..", reclen |-> DIRBLKSIZ - DirSiz(1)]>>

\* iput() of the root, and what the allocation and it do to the summaries.
Iput(g) == [g EXCEPT !.iused = @ \cup {ROOTINO}, !.cs.nifree = @ - 1]
RootBlock(g) == IF g.cs.nbfree = 0 THEN 0 ELSE Min(Blocks(g.free))
RootExtent(d) == Extent(Fsbtodb(fs, d), fs.fsize, [kind |-> "root", entries |-> RootDir])
InodeExtent(d) == Extent(Fsbtodb(fs, Cgimin(fs, 0)), fs.bsize,
                         [kind |-> "inodes", nodes |-> {[ino |-> ROOTINO, size |-> DIRBLKSIZ, db |-> d]}])
Fsinit ==
    /\ pc = "root"
    /\ \E g \in {Rdfs(io, Fsbtodb(fs, Cgtod(fs, 0))).cg} : \E a \in {Allocated(g)} :
          \E change \in {[ndir |-> a.cs.ndir, nbfree |-> a.cs.nbfree - g.cs.nbfree, nifree |-> -1,
                          nffree |-> a.cs.nffree - g.cs.nffree]} :
             /\ group' = Iput(a)
             /\ fscs' = [fscs EXCEPT ![1] = Plus(@, change)]
             /\ fs' = [fs EXCEPT !.total = Plus(@, change)]
             /\ io' = Wtfs(WtfsAll(Wtfsflush(io), <<GroupExtent(fs, a), RootExtent(RootBlock(g)), GroupExtent(fs, Iput(a))>>),
                           InodeExtent(RootBlock(g)))
    /\ pc' = IF ROOTINO >= fs.ipg * fs.ncg THEN "32" ELSE "super"
    /\ UNCHANGED <<opt, label, cylno>>

\* The super block, the summaries and the copies of the super block; the label learns the sizes.
Super == [kind |-> "super", fs |-> fs]
Summaries ==
    [i \in 1..HowMany(fs.cssize, fs.bsize) |->
        Extent(Fsbtodb(fs, fs.csaddr + (i - 1) * fs.frag), Min({fs.bsize, fs.cssize - (i - 1) * fs.bsize}),
               [kind |-> "summary", cs |-> fscs])]
Copies == [c \in 1..fs.ncg |-> Extent(Fsbtodb(fs, Cgsblock(fs, c - 1)), SBSIZE, Super)]
Finish ==
    /\ pc = "super"
    /\ io' = Wtfsflush(WtfsAll(Wtfs(io, Extent(BBSIZE \div DEV_BSIZE, SBSIZE, Super)), Summaries \o Copies))
    /\ label' = IF label.read = "disktab" THEN label
                ELSE [label EXCEPT !.fsize = fs.fsize, !.frag = fs.frag]
    /\ pc' = IF fscs[1].ndir = 0 THEN "ran out" ELSE "done"
    /\ UNCHANGED <<opt, fs, fscs, group, cylno>>

Init ==
    /\ \E d \in Disks : opt = d.opt /\ label = d.label
    /\ fs = <<>> /\ fscs = <<>> /\ group = <<>>
    /\ io = [disk |-> {}, wc |-> <<>>]
    /\ cylno = 0 /\ pc = "start"
Next == Main \/ Mkfs \/ Initcg \/ Fsinit \/ Finish

-----------------------------------------------------------------------------
(* What fsck would look at *)

Groups == 0..(fs.ncg - 1)
Touched(x) == (x.bno \div fs.nspf)..((x.bno + x.secs - 1) \div fs.nspf)
InUse == UNION {Touched(x) : x \in {y \in io.disk : y.what.kind # "test"}}
         \cup 0..(fs.sblkno - 1) \cup UNION {Cgsblock(fs, c)..(Cgtod(fs, c) - 1) : c \in Groups}
CgOnDisk(c) == At(io.disk, Fsbtodb(fs, Cgtod(fs, c))).cg

\* A group's map has what nothing was written to, and all its counts are those of the map.
GroupSound(c, g) ==
    /\ g.free = {d \in 0..(Min({fs.size - Cgbase(fs, c), fs.fpg}) - 1) : Cgbase(fs, c) + d \notin InUse}
    /\ \E blocks \in {Blocks(g.free)} :
         /\ g.cs.nbfree = Cardinality(blocks)
         /\ g.cs.nffree = Cardinality(g.free) - fs.frag * Cardinality(blocks)
         /\ fs.contig > 0 => g.clusters = blocks /\ (c > 0 => g.clustersum = Runs(blocks, g.ndblk \div fs.frag))
         /\ \A k \in DOMAIN g.blktot : g.blktot[k] = Cardinality({d \in blocks : CylOf(d) = k})
         /\ \A k \in DOMAIN g.blks : g.blks[k] = Cardinality({d \in blocks : PosOf(d) = k})
         /\ g.cs.nffree = FoldLeft(LAMBDA n, m : n + m, 0, [k \in DOMAIN g.frsum |-> k * g.frsum[k]])
    /\ g.cs.nifree = fs.ipg - Cardinality(g.iused)
    /\ g.cs = fscs[c + 1]

\* Each block of a cycle is found from the entry of its position, in the order of the disk.
TablesSound ==
    \A b \in DOMAIN fs.rotbl :
        LET same == {d \in DOMAIN fs.rotbl : PosOf(d * fs.frag) = PosOf(b * fs.frag)}
            later == {d \in same : d > b}
        IN  /\ fs.postbl[PosOf(b * fs.frag)] = Min(same)
            /\ fs.rotbl[b] = IF later = {} THEN 0 ELSE Min(later) - b

Sound ==
    /\ \A c \in Groups : GroupSound(c, CgOnDisk(c)) /\ At(io.disk, Fsbtodb(fs, Cgsblock(fs, c))) = Super
    /\ At(io.disk, BBSIZE \div DEV_BSIZE) = Super
    /\ At(io.disk, Fsbtodb(fs, fs.csaddr)).cs = fscs
    /\ \E root \in At(io.disk, Fsbtodb(fs, Cgimin(fs, 0))).nodes :
          root.ino = ROOTINO /\ At(io.disk, Fsbtodb(fs, root.db)).kind = "root"
    /\ fs.total = FoldLeft(Plus, NoCounts, fscs)
    /\ TablesSound

\* The last group was dropped although its cylinders are all counted: the size is then that
\* of the cylinders, the ones beyond the disk included.
Overcounted == fs.size > Cgbase(fs, fs.ncg)

\* A run that ends well leaves a file system that fits the disk, in which the maps, the
\* counts, the copies and the root agree with what was written where; with -N it leaves nothing.
Formats ==
    pc = "done" =>
        IF Nflag THEN io.disk = {}
        ELSE (Overcounted \/ fs.size * fs.nspf <= fs.fssize) /\ Sound
=============================================================================
