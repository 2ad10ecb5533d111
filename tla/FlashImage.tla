----------------------------- MODULE FlashImage -----------------------------
(***************************************************************************)
(* Two images in one flash: flashImage writes a new one, sector by sector, *)
(* and autoRun chooses one to boot (bcm63xx_util.c, bcm63xx_cmd.c, on the  *)
(* sector functions of dev_bcm63xx_flash.c and cfiflash.c).  The power may *)
(* fail between any two sector operations, and a write may fail for good.  *)
(*                                                                         *)
(* Sector 0 holds the boot loader and the NVRAM with the boot line, the    *)
(* last one the persistent settings (PSI).  Partition 1 follows the boot   *)
(* loader and partition 2 starts at half of the flash; an image starts     *)
(* with its tag.  A sector that holds a part of an image is a record of    *)
(* the image, its sequence number and the part's place in it; a checksum   *)
(* holds iff the sectors it covers are parts of one image.                 *)
(***************************************************************************)
EXTENDS Naturals

CONSTANTS N,        \* sectors of the flash
          Sect,     \* bytes of a sector, and of the boot loader and the reserve at the end
          TagLen,   \* TAG_LEN
          PsiRoom,  \* bytes of the last sector in front of the PSI
          Images,   \* the images there are
          SizeOf,   \* the size of each, root file system and kernel without the tag
          MaxSeq    \* bound: updates

ASSUME FlashAssumption ==
    /\ N \in Nat /\ N % 2 = 0 /\ N >= 4
    /\ Sect \in Nat \ {0} /\ TagLen \in 1 .. Sect /\ PsiRoom \in 0 .. Sect
    /\ SizeOf \in [Images -> Nat \ {0}] /\ MaxSeq \in Nat

VARIABLES
    flash,    \* what the sectors behind the boot loader hold
    boot,     \* sector 0: is the boot loader there, and which image the NVRAM's boot line names
    line,     \* the boot line of nvramData, the copy in memory
    up,       \* the board runs; FALSE for good when it is started without a boot loader
    job,      \* what flashImage is doing
    kept,     \* sector 0 is erased, and the copy in memory has a boot loader or has none
    sound     \* history: no update has endangered the image that boots

vars == <<flash, boot, line, up, job, kept, sound>>

Sectors == 1 .. N - 1
Psi     == N - 1

Erased == [seq |-> 0]
Part(image, seq, k) == [seq |-> seq, image |-> image, k |-> k]
NoBoot == [cfe |-> FALSE, line |-> "blank"]

Idle == [step |-> "idle"]

-----------------------------------------------------------------------------
(* Tags and the choice of an image *)

Start(p) == IF p = 1 THEN 1 ELSE N \div 2

\* getTagFromPartition finds a tag whose checksum holds.
Tagged(p) == flash[Start(p)] # Erased /\ flash[Start(p)].k = 0
Tag(p)    == flash[Start(p)]

\* sectors that an image takes with its tag
Span(image) == (TagLen + SizeOf[image] + Sect - 1) \div Sect

Whole(p) == /\ Tagged(p)
            /\ \A k \in 0 .. Span(Tag(p).image) - 1 :
                  /\ Start(p) + k \in Sectors
                  /\ flash[Start(p) + k] = Part(Tag(p).image, Tag(p).seq, k)

Both == Tagged(1) /\ Tagged(2)

Latest   == IF Tag(2).seq > Tag(1).seq THEN 2 ELSE 1
Previous == IF Tag(2).seq < Tag(1).seq THEN 2 ELSE 1

\* getBootImageTag: 0 when there is no image
BootImage(bootline) ==
    CASE Both /\ bootline = "previous" -> Previous
      [] Both /\ bootline # "previous" -> Latest
      [] ~ Both /\ Tagged(2)           -> 2
      [] ~ Both /\ ~ Tagged(2)         -> IF Tagged(1) THEN 1 ELSE 0

\* The whole image that autoRun and bootCompressedImage start, 0 when there is
\* none: with two tags the other image is tried when a checksum does not hold.
Boots ==
    LET p == BootImage(boot.line)
    IN CASE p # 0 /\ Whole(p)                            -> p
         [] p # 0 /\ ~ Whole(p) /\ Both /\ Whole(3 - p) -> 3 - p
         [] OTHER                                        -> 0

\* getPartitionFromTag goes by the sequence number.
PartitionOf(p) == IF p = 0 THEN 0
                  ELSE IF Tagged(1) /\ Tag(1).seq = Tag(p).seq THEN 1 ELSE 2

\* UpdateImageSequenceNumber
SeqOf(p) == IF Tagged(p) THEN Tag(p).seq ELSE 0

\* Mutant: only the first partition is looked at
NextSeq_FirstOnly == SeqOf(1) + 1

NextSeq == 1 + (IF SeqOf(2) > SeqOf(1) THEN SeqOf(2) ELSE SeqOf(1))

-----------------------------------------------------------------------------
(* flashImage *)

OneImage  == N * Sect - (Sect + TagLen) - Sect
TwoImages == (N \div 2) * Sect - Sect

\* An image whose checksums hold, with or without a boot loader, is in the staging buffer.
Begin(image, cfe) ==
    /\ up /\ job = Idle /\ NextSeq <= MaxSeq
    /\ job' = [step |-> IF cfe THEN "cfe" ELSE "plan", image |-> image]
    /\ UNCHANGED <<flash, boot, line, up, kept, sound>>

\* changeBootLine: only the NVRAM is written, and read again.
SetLine(bootline) ==
    /\ up /\ job = Idle /\ line # bootline
    /\ line' = bootline
    /\ job' = [step |-> "setline"]
    /\ UNCHANGED <<flash, boot, up, kept, sound>>

\* The steps that rewrite sector 0, and what comes after each, the sector written or
\* not: what writeNvramData returns nobody looks at.
Rewrites == {"cfe", "nvram", "setline", "line"}

Written(step) == [step |-> step, image |-> job.image, seq |-> job.seq, at |-> job.at]

After(written) ==
    CASE job.step = "cfe" /\ written -> [step |-> "nvram", image |-> job.image]
      [] job.step = "nvram"          -> [step |-> "plan", image |-> job.image]
      [] job.step = "line"           -> Written("reset")
      [] OTHER                       -> Idle

EraseBoot ==
    /\ job.step \in Rewrites /\ kept = "none"
    /\ boot' = NoBoot
    /\ kept' = IF boot.cfe THEN "loader" ELSE "blank"
    /\ UNCHANGED <<flash, line, up, job, sound>>

\* A new boot loader comes with an NVRAM that is not valid, so the saved one is put back
\* after it; an NVRAM goes with what the sector held before the erase.
WriteBoot ==
    /\ job.step \in Rewrites /\ kept # "none"
    /\ boot' = IF job.step = "cfe" THEN [cfe |-> TRUE, line |-> "blank"]
               ELSE [cfe |-> kept = "loader", line |-> line]
    /\ line' = IF job.step = "setline" THEN boot'.line ELSE line
    /\ job' = After(TRUE) /\ kept' = "none"
    /\ UNCHANGED <<flash, up, sound>>

WriteBootFails ==
    /\ job.step \in Rewrites /\ kept # "none"
    /\ line' = IF job.step = "setline" THEN boot.line ELSE line
    /\ job' = After(FALSE) /\ kept' = "none"
    /\ UNCHANGED <<flash, boot, up, sound>>

TooBig == /\ job.step = "plan" /\ SizeOf[job.image] > OneImage
          /\ job' = Idle
          /\ UNCHANGED <<flash, boot, line, up, kept, sound>>

\* Mutant: a new image goes behind the boot loader whatever boots
Target_First(image) == 1

\* The partition that does not boot, where two images have room.
Target(image) ==
    LET p   == BootImage(line)
        cur == IF p = 0 THEN 0 ELSE SizeOf[Tag(p).image]
    IN IF cur <= TwoImages /\ SizeOf[image] <= TwoImages /\ PartitionOf(p) = 1 THEN 2 ELSE 1

\* An update is sound when the image that getBootImageTag names is whole and
\* neither it nor the new one, with its tag, is larger than its half.
Apart(image) ==
    LET p == BootImage(line)
    IN /\ p # 0 /\ Whole(p)
       /\ SizeOf[image] + TagLen <= TwoImages /\ SizeOf[Tag(p).image] + TagLen <= TwoImages

Plan ==
    /\ job.step = "plan" /\ SizeOf[job.image] <= OneImage
    /\ job' = [step |-> "image", image |-> job.image, seq |-> NextSeq, at |-> Target(job.image),
               k |-> 0, erased |-> FALSE]
    /\ sound' = (sound /\ Apart(job.image))
    /\ UNCHANGED <<flash, boot, line, up, kept>>

\* kerSysBcmImageSet, a sector at a time; in the last one the PSI is kept.
Sector == Start(job.at) + job.k
Left   == TagLen + SizeOf[job.image] - job.k * Sect
NoRoom == Sector = Psi /\ Left > PsiRoom

EraseSector ==
    /\ job.step = "image" /\ ~ job.erased /\ ~ NoRoom
    /\ flash' = [flash EXCEPT ![Sector] = Erased]
    /\ job' = [job EXCEPT !.erased = TRUE]
    /\ UNCHANGED <<boot, line, up, kept, sound>>

\* After the last sector a boot line that names the previous image is rewritten.
WriteSector ==
    /\ job.step = "image" /\ job.erased
    /\ flash' = [flash EXCEPT ![Sector] = Part(job.image, job.seq, job.k)]
    /\ \/ Left > Sect
          /\ job' = [job EXCEPT !.k = @ + 1, !.erased = FALSE]
          /\ UNCHANGED line
       \/ Left <= Sect /\ line = "previous"
          /\ job' = Written("line")
          /\ line' = "latest"
       \/ Left <= Sect /\ line # "previous"
          /\ job' = Written("reset")
          /\ UNCHANGED line
    /\ UNCHANGED <<boot, up, kept, sound>>

\* A sector that cannot be written is left erased, and flashImage returns.
WriteFails ==
    /\ job.step = "image" /\ (job.erased \/ NoRoom)
    /\ job' = Idle
    /\ UNCHANGED <<flash, boot, line, up, kept, sound>>

\* kerSysMipsSoftReset after an update: the new image boots, and is a good one.
Reset ==
    /\ job.step = "reset"
    /\ job' = Idle /\ sound' = TRUE
    /\ up' = boot.cfe /\ line' = boot.line
    /\ UNCHANGED <<flash, boot, kept>>

PowerLoss ==
    /\ up
    /\ job' = Idle /\ kept' = "none"
    /\ up' = boot.cfe /\ line' = boot.line
    /\ UNCHANGED <<flash, boot, sound>>

-----------------------------------------------------------------------------
(* The specification *)

\* A new board has an image in partition 1, as writeWholeImage leaves it, or none.
Init ==
    /\ \/ flash = [s \in Sectors |-> Erased] /\ sound = FALSE
       \/ \E i \in Images :
             /\ SizeOf[i] <= OneImage /\ sound = TRUE
             /\ flash = [s \in Sectors |-> IF s <= Span(i) THEN Part(i, 1, s - 1) ELSE Erased]
    /\ boot = [cfe |-> TRUE, line |-> "latest"] /\ line = "latest"
    /\ up = TRUE /\ job = Idle /\ kept = "none"

Next ==
    \/ \E image \in Images, cfe \in BOOLEAN : Begin(image, cfe)
    \/ \E bootline \in {"latest", "previous"} : SetLine(bootline)
    \/ EraseBoot \/ WriteBoot \/ WriteBootFails
    \/ TooBig \/ Plan \/ EraseSector \/ WriteSector \/ WriteFails \/ Reset
    \/ PowerLoss

Spec == Init /\ [][Next]_vars

-----------------------------------------------------------------------------
(* Properties *)

\* Whatever is cut off and whatever cannot be written: while every update kept
\* apart from the image that boots, a board with a boot loader has an image
\* that is whole, and chooses it (autoRun, bootCompressedImage).
AlwaysBoots == sound /\ boot.cfe => Boots # 0

\* When flashImage has succeeded, the image it wrote is the one that boots
\* (UpdateImageSequenceNumber, the boot line).
TakesEffect == job.step = "reset" /\ boot.cfe =>
    Boots = job.at /\ flash[Start(job.at)] = Part(job.image, job.seq, 0)
=============================================================================
