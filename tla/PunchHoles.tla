----------------------------- MODULE PunchHoles -----------------------------
(***************************************************************************)
(* The scan that gives a saved memory image's zero pages back to the disk   *)
(* (pkg/sandbox/punch.go), over a file of blocks.  The scan can be          *)
(* cancelled between two reads; the capsule is then resumed from the file.  *)
(***************************************************************************)
EXTENDS Naturals, Sequences, SequencesExt, FiniteSets, FiniteSetsExt

\* "short" is a zero block at the file's end that is not a whole block.
Blocks == {"hole", "zero", "data", "short"}

\* Bounds: the largest file and the blocks of one read.
MaxBlocks == 6
ReadSize == 2

Files == {f \in UNION {[1..n -> Blocks] : n \in 0..MaxBlocks} :
            \A i \in 1..Len(f) : f[i] = "short" => i = Len(f)}

-----------------------------------------------------------------------------

punch(f, from, to) == [i \in DOMAIN f |-> IF from <= i /\ i < to THEN "hole" ELSE f[i]]

\* SEEK_DATA and SEEK_HOLE from block i on; past the end there is none.
SeekData(f, i) == Min({j \in i..Len(f) : f[j] # "hole"} \cup {Len(f) + 1})
SeekHole(f, i) == Min({j \in i..Len(f) : f[j] = "hole"} \cup {Len(f) + 1})

\* The pending run of zero blocks is punched.
flush(s, to) == IF s.zero = 0 THEN s ELSE [s EXCEPT !.file = punch(@, s.zero, to), !.zero = 0]

\* One block of a chunk.
scanBlock(s, i) ==
    IF s.file[i] = "zero" THEN [s EXCEPT !.zero = IF @ = 0 THEN i ELSE @] ELSE flush(s, i)

\* One data extent, chunk by chunk.  cut: the reads made before cancellation.
scanExtent(s, from, end, cut) ==
    LET chunk(t, i) ==
            IF t.stopped THEN t
            ELSE IF (i - from) % ReadSize = 0 /\ t.reads = cut THEN [flush(t, i) EXCEPT !.stopped = TRUE]
            ELSE scanBlock(IF (i - from) % ReadSize = 0 THEN [t EXCEPT !.reads = @ + 1] ELSE t, i)
        done == FoldLeft(chunk, s, [j \in 1..(end - from) |-> from + j - 1])
    IN IF done.stopped THEN done ELSE [flush(done, end) EXCEPT !.off = end]

\* punchZeroPages: extent after extent.  A file of n blocks has at most n.
punchZeroPages(f, cut) ==
    LET extent(s, unused) ==
            LET from == SeekData(f, s.off)
            IN IF s.stopped \/ from > Len(f) THEN s ELSE scanExtent(s, from, SeekHole(f, from), cut)
    IN FoldLeft(extent, [file |-> f, off |-> 1, zero |-> 0, reads |-> 0, stopped |-> FALSE], f)

-----------------------------------------------------------------------------

\* What a block reads as.
Reads(b) == IF b \in {"hole", "short"} THEN "zero" ELSE b

\* Whenever the scan is cancelled, the file reads as before: only blocks that
\* are whole and zero become holes.  A scan that is not cancelled leaves no
\* whole zero block behind.
PunchExact ==
    \A f \in Files : \A cut \in 0..MaxBlocks :
        LET s == punchZeroPages(f, cut)
        IN /\ Len(s.file) = Len(f)
           /\ \A i \in DOMAIN f : Reads(s.file[i]) = Reads(f[i]) /\ (f[i] = "short" => s.file[i] = "short")
           /\ s.stopped \/ \A i \in DOMAIN f : s.file[i] # "zero"
=============================================================================
