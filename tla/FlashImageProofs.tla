-------------------------- MODULE FlashImageProofs --------------------------
(***************************************************************************)
(* Theorems about FlashImage: for every size of flash and every set of     *)
(* images, a board whose updates kept apart from the image that boots has  *)
(* an image to boot whenever the power fails, and an update that has       *)
(* succeeded is the one that boots.                                        *)
(***************************************************************************)
EXTENDS FlashImage, Integers, TLAPS

Parts == [seq : Nat \ {0}, image : Images, k : Nat]
Steps == {"idle", "cfe", "nvram", "plan", "setline", "image", "line", "reset"}

\* An image is being written.
Writing == [step : {"image"}, image : Images, seq : Nat \ {0}, at : {1, 2}, k : Nat,
            erased : BOOLEAN]

FlashTyped == flash \in [Sectors -> {Erased} \cup Parts]

JobTyped ==
    /\ job.step \in Steps
    /\ job.step \in {"cfe", "nvram", "plan", "image", "line", "reset"} => job.image \in Images
    /\ job.step \in {"image", "line", "reset"} => job.seq \in Nat \ {0} /\ job.at \in {1, 2}
    /\ job.step = "image" => job \in Writing

\* Two images never have the same number, and the one being written has the largest.
Numbered == Both => Tag(1).seq # Tag(2).seq
Newer    == job.step \in {"image", "line", "reset"} => SeqOf(3 - job.at) < job.seq

\* The image and its tag have room in half of the flash.
Fits(image) == SizeOf[image] + TagLen <= TwoImages

\* What an update has written is there, and while updates are sound the other half
\* has an image that is whole.
InProgress ==
    job.step = "image" =>
        /\ Sector \in Sectors /\ Left > 0
        /\ job.erased => ~ NoRoom
        /\ \A k \in 0 .. job.k - 1 :
              /\ Start(job.at) + k \in Sectors
              /\ flash[Start(job.at) + k] = Part(job.image, job.seq, k)
        /\ sound => /\ Whole(3 - job.at) /\ Fits(job.image) /\ Fits(Tag(3 - job.at).image)

Finished ==
    job.step \in {"line", "reset"} =>
        Whole(job.at) /\ flash[Start(job.at)] = Part(job.image, job.seq, 0)

SomeWhole == sound => Whole(1) \/ Whole(2)

\* The boot line in memory is the one of the NVRAM but while it is being changed.
LinesAgree ==
    /\ boot.cfe /\ job.step \notin {"nvram", "setline", "line"} => boot.line = line
    /\ kept # "none" => job.step \in Rewrites /\ ~ boot.cfe
    /\ job.step \in {"line", "reset"} => line # "previous"

FlashInv == FlashTyped /\ JobTyped /\ Numbered /\ Newer /\ InProgress /\ Finished /\ SomeWhole
Inv      == FlashInv /\ LinesAgree

USE FlashAssumption

-----------------------------------------------------------------------------
(* Sizes *)

Half == N \div 2

LEMMA Halves == Half \in Nat /\ Half >= 2 /\ N = 2 * Half
<1>1. \A n \in Nat : n % 2 = 0 /\ n >= 4 =>
         n \div 2 \in Nat /\ n \div 2 >= 2 /\ n = 2 * (n \div 2)
  OBVIOUS
<1> QED BY <1>1 DEF Half

LEMMA Times ==
    ASSUME NEW a \in Int, NEW b \in Int, NEW n \in Nat \ {0}
    PROVE  /\ a * n \in Int /\ (a + b) * n = a * n + b * n /\ (a - b) * n = a * n - b * n
           /\ 1 * n = n /\ (a >= 1 => a * n >= n)
  OBVIOUS

LEMMA Monotone ==
    ASSUME NEW a \in Int, NEW b \in Int, NEW n \in Nat \ {0}
    PROVE  a * n < b * n <=> a < b
<1> DEFINE d == a - b
<1>1. d * n = a * n - b * n /\ d \in Int /\ a * n \in Int /\ b * n \in Int
  BY Times
<1>2. (0 - d) * n = 0 * n - d * n /\ 0 * n = 0
  BY Times
<1>3. d >= 1 => d * n >= n
  BY Times
<1>4. 0 - d >= 1 => (0 - d) * n >= n
  BY <1>1, Times
<1>5. d = 0 => d * n = 0
  BY <1>2
<1> HIDE DEF d
<1>6. d < 0 <=> d * n < 0
  BY <1>1, <1>2, <1>3, <1>4, <1>5
<1> QED BY <1>1, <1>6 DEF d

\* The sectors of an image are those that begin before its last byte.
LEMMA SpanIs ==
    ASSUME NEW image \in Images
    PROVE  /\ Span(image) \in Nat \ {0}
           /\ \A k \in Nat : k < Span(image) <=> k * Sect < TagLen + SizeOf[image]
<1> DEFINE t == TagLen + SizeOf[image]
           a == t + Sect - 1
           q == a \div Sect
<1>1. t \in Nat \ {0} /\ a \in Nat /\ a >= Sect
  OBVIOUS
<1>2. q \in Int /\ a >= q * Sect /\ a < q * Sect + Sect
  <2>1. \A x \in Nat, n \in Nat \ {0} :
           /\ x \div n \in Int /\ x % n \in 0 .. n - 1
           /\ x = (x \div n) * n + (x % n)
    OBVIOUS
  <2> HIDE DEF a
  <2> QED BY <1>1, <2>1, Times
<1>3. Span(image) = q
  BY DEF Span
<1> HIDE DEF q
<1>4. q >= 1
  <2>1. q * Sect > 0 * Sect /\ 0 * Sect = 0
    <3>1. 0 * Sect = 0 /\ q * Sect \in Int
      BY <1>2, Times
    <3> QED BY <1>1, <1>2, <3>1
  <2> QED BY <1>2, <2>1, Monotone
<1>5. ASSUME NEW k \in Nat PROVE k < q <=> k * Sect < t
  <2>1. k * Sect \in Int /\ q * Sect \in Int /\ (q - 1) * Sect = q * Sect - Sect
    BY <1>2, Times
  <2>2. CASE k < q
    <3>1. ~ ((q - 1) * Sect < k * Sect)
      BY <1>2, <2>2, Monotone
    <3> QED BY <1>2, <2>1, <2>2, <3>1
  <2>3. CASE ~ (k < q)
    <3>1. ~ (k * Sect < q * Sect)
      BY <1>2, <2>3, Monotone
    <3> QED BY <1>2, <2>1, <2>3, <3>1
  <2> QED BY <2>2, <2>3
<1> QED BY <1>2, <1>3, <1>4, <1>5

\* An image that fits stays within its half.
LEMMA FitsIsShort ==
    ASSUME NEW image \in Images, Fits(image)
    PROVE  /\ Span(image) <= Half - 1
           /\ \A k \in Nat : k * Sect < TagLen + SizeOf[image] => k < Half - 1
<1>1. SizeOf[image] + TagLen <= Half * Sect - Sect
  BY DEF Fits, TwoImages, Half
<1>2. (Half - 1) * Sect = Half * Sect - Sect /\ Half * Sect \in Int /\ Half - 1 \in Nat
  BY Halves, Times
<1>3. ASSUME NEW k \in Nat, k * Sect < TagLen + SizeOf[image] PROVE k < Half - 1
  <2>1. k * Sect < (Half - 1) * Sect
    <3>1. k * Sect \in Int /\ SizeOf[image] \in Nat /\ TagLen \in Nat
      BY Times
    <3> QED BY <1>1, <1>2, <1>3, <3>1
  <2> QED BY <1>2, <2>1, Monotone
<1>4. Span(image) - 1 < Half - 1
  <2>1. Span(image) - 1 \in Nat /\ Span(image) - 1 < Span(image)
    BY SpanIs
  <2> QED BY <1>3, <2>1, SpanIs
<1> QED BY <1>2, <1>3, <1>4, SpanIs, Halves

-----------------------------------------------------------------------------
(* Tags and whole images *)

LEMMA StartIs ==
    /\ Start(1) = 1 /\ Start(2) = Half
    /\ \A p \in {1, 2} : Start(p) \in Sectors /\ Start(p) \in Nat
    /\ \A x : x \in Sectors <=> x \in Nat /\ 1 <= x /\ x <= 2 * Half - 1
<1>1. Start(1) = 1 /\ Start(2) = Half
  BY DEF Start, Half
<1> QED BY <1>1, Halves DEF Sectors

LEMMA PartIs ==
    ASSUME NEW image \in Images, NEW seq \in Nat \ {0}, NEW k \in Nat
    PROVE  /\ Part(image, seq, k) \in Parts /\ Part(image, seq, k) # Erased
           /\ Part(image, seq, k).seq = seq /\ Part(image, seq, k).image = image
           /\ Part(image, seq, k).k = k
<1>1. Erased.seq = 0
  BY DEF Erased
<1> QED BY <1>1 DEF Part, Parts

LEMMA TagIs ==
    ASSUME FlashTyped, NEW p \in {1, 2}
    PROVE  /\ Tagged(p) => /\ Tag(p).image \in Images /\ Tag(p).seq \in Nat \ {0}
                           /\ flash[Start(p)] = Part(Tag(p).image, Tag(p).seq, 0)
           /\ SeqOf(p) \in Nat
<1>1. flash[Start(p)] \in {Erased} \cup Parts
  BY StartIs DEF FlashTyped
<1>2. Tagged(p) => Tag(p) \in Parts /\ Tag(p).k = 0
  BY <1>1 DEF Tagged, Tag
<1>3. Tagged(p) => Tag(p).image \in Images /\ Tag(p).seq \in Nat \ {0}
  BY <1>2 DEF Parts
<1>4. Tagged(p) => Tag(p) = Part(Tag(p).image, Tag(p).seq, 0)
  BY <1>2 DEF Parts, Part
<1> QED BY <1>3, <1>4 DEF Tag, SeqOf

\* What makes an image whole.
LEMMA WholeIs ==
    ASSUME NEW p \in {1, 2}, NEW image \in Images, NEW seq \in Nat \ {0},
           \A k \in 0 .. Span(image) - 1 :
              Start(p) + k \in Sectors /\ flash[Start(p) + k] = Part(image, seq, k)
    PROVE  /\ Whole(p) /\ flash[Start(p)] = Part(image, seq, 0)
           /\ Tag(p).image = image /\ Tag(p).seq = seq
<1>1. 0 \in 0 .. Span(image) - 1 /\ Start(p) + 0 = Start(p)
  BY SpanIs, StartIs
<1>2. flash[Start(p)] = Part(image, seq, 0)
  BY <1>1
<1>3. Tag(p).image = image /\ Tag(p).seq = seq /\ Tagged(p)
  BY <1>2, PartIs DEF Tag, Tagged
<1>4. \A k \in 0 .. Span(Tag(p).image) - 1 :
         Start(p) + k \in Sectors /\ flash[Start(p) + k] = Part(Tag(p).image, Tag(p).seq, k)
  BY <1>3
<1> QED BY <1>2, <1>3, <1>4 DEF Whole

LEMMA BootImageIs ==
    ASSUME NEW bootline
    PROVE  /\ BootImage(bootline) \in {0, 1, 2}
           /\ BootImage(bootline) # 0 => Tagged(BootImage(bootline))
           /\ BootImage(bootline) = 0 => ~ Tagged(1) /\ ~ Tagged(2)
<1>1. Latest \in {1, 2} /\ Previous \in {1, 2}
  BY DEF Latest, Previous
<1>2. CASE Both /\ bootline = "previous"
  BY <1>1, <1>2 DEF BootImage, Both
<1>3. CASE Both /\ bootline # "previous"
  BY <1>1, <1>3 DEF BootImage, Both
<1>4. CASE ~ Both
  BY <1>4 DEF BootImage, Both
<1> QED BY <1>2, <1>3, <1>4

\* A board finds the image that is whole, whatever the boot line says.
LEMMA BootsIsWhole == Boots # 0 <=> Whole(1) \/ Whole(2)
<1> DEFINE p == BootImage(boot.line)
<1>1. p \in {0, 1, 2} /\ (p # 0 => Tagged(p)) /\ (p = 0 => ~ Tagged(1) /\ ~ Tagged(2))
  BY BootImageIs
<1>2. Whole(1) => Tagged(1)
  BY DEF Whole
<1>3. Whole(2) => Tagged(2)
  BY DEF Whole
<1>4. Boots = CASE p # 0 /\ Whole(p)                            -> p
                [] p # 0 /\ ~ Whole(p) /\ Both /\ Whole(3 - p) -> 3 - p
                [] OTHER                                        -> 0
  BY DEF Boots
<1> HIDE DEF p
<1>5. CASE p = 0
  BY <1>1, <1>2, <1>3, <1>4, <1>5
<1>6. CASE p = 1
  <2>1. Whole(2) => Both
    BY <1>1, <1>3, <1>6 DEF Both
  <2> QED BY <1>4, <1>6, <2>1
<1>7. CASE p = 2
  <2>1. Whole(1) => Both
    BY <1>1, <1>2, <1>7 DEF Both
  <2> QED BY <1>4, <1>7, <2>1
<1> QED BY <1>1, <1>5, <1>6, <1>7

\* The other half is not touched.
LEMMA WholeElsewhere ==
    ASSUME FlashTyped, NEW p \in {1, 2}, Whole(p), Fits(Tag(p).image), NEW s,
           IF p = 1 THEN s >= Half ELSE s < Half,
           s \in Nat,
           \A x \in Sectors : x # s => flash'[x] = flash[x]
    PROVE  Whole(p)' /\ Tagged(p)' /\ Tag(p)' = Tag(p) /\ SeqOf(p)' = SeqOf(p)
<1> DEFINE image == Tag(p).image
           seq   == Tag(p).seq
<1>1. Tagged(p) /\ image \in Images /\ seq \in Nat \ {0}
  BY TagIs DEF Whole
<1>2. Span(image) <= Half - 1 /\ Span(image) \in Nat \ {0}
  BY <1>1, FitsIsShort, SpanIs
<1>3. \A k \in 0 .. Span(image) - 1 :
         Start(p) + k \in Sectors /\ flash[Start(p) + k] = Part(image, seq, k)
  BY DEF Whole
<1> HIDE DEF image, seq
<1>4. \A k \in 0 .. Span(image) - 1 : Start(p) + k # s
  BY <1>2, StartIs, Halves
<1>5. \A k \in 0 .. Span(image) - 1 : flash'[Start(p) + k] = flash[Start(p) + k]
  BY <1>3, <1>4
<1>6. flash'[Start(p)] = flash[Start(p)]
  <2>1. 0 \in 0 .. Span(image) - 1 /\ Start(p) + 0 = Start(p)
    BY <1>2, StartIs
  <2> QED BY <1>5, <2>1
<1>7. Tagged(p)' /\ Tag(p)' = Tag(p) /\ SeqOf(p)' = SeqOf(p)
  BY <1>1, <1>6 DEF Tagged, Tag, SeqOf, Start
<1>8. Whole(p)'
  <2>1. Tag(p)'.image = image /\ Tag(p)'.seq = seq
    BY <1>7 DEF image, seq
  <2>2. \A k \in 0 .. Span(Tag(p)'.image) - 1 :
           /\ Start(p) + k \in Sectors
           /\ flash'[Start(p) + k] = Part(Tag(p)'.image, Tag(p)'.seq, k)
    BY <1>3, <1>5, <2>1
  <2> QED BY <1>7, <2>2 DEF Whole, Start, Sectors, Part, Span
<1> QED BY <1>7, <1>8

\* The partition that is written is the one that does not boot.
LEMMA TargetIsOther ==
    ASSUME FlashTyped, Numbered, NEW image \in Images, Apart(image)
    PROVE  \E p \in {1, 2} : /\ Target(image) = 3 - p /\ Whole(p)
                             /\ Fits(image) /\ Fits(Tag(p).image)
<1> DEFINE p == BootImage(line)
<1>1. p \in {1, 2} /\ Whole(p) /\ Fits(image) /\ Fits(Tag(p).image)
  BY BootImageIs DEF Apart, Fits
<1>2. Tagged(p) /\ Tag(p).image \in Images
  BY <1>1, TagIs DEF Whole
<1>3. SizeOf[Tag(p).image] <= TwoImages /\ SizeOf[image] <= TwoImages
  <2>1. SizeOf[image] \in Nat /\ SizeOf[Tag(p).image] \in Nat /\ TagLen \in Nat
    BY <1>2
  <2>2. TwoImages \in Int
    BY Halves, Times DEF TwoImages, Half
  <2> QED BY <1>1, <2>1, <2>2 DEF Fits
<1>4. Target(image) = IF PartitionOf(p) = 1 THEN 2 ELSE 1
  BY <1>1, <1>3 DEF Target
<1> HIDE DEF p
<1>5. CASE p = 1
  <2>1. PartitionOf(1) = 1
    BY <1>2, <1>5 DEF PartitionOf
  <2> QED BY <1>1, <1>4, <1>5, <2>1
<1>6. CASE p = 2
  <2>1. ~ (Tagged(1) /\ Tag(1).seq = Tag(2).seq)
    BY <1>2, <1>6 DEF Numbered, Both
  <2>2. PartitionOf(2) = 2
    BY <2>1 DEF PartitionOf
  <2> QED BY <1>1, <1>4, <1>6, <2>2
<1> QED BY <1>1, <1>5, <1>6

-----------------------------------------------------------------------------
(* The steps that leave the images alone *)

\* A new board
LEMMA InitInv == Init => Inv
<1> SUFFICES ASSUME Init PROVE Inv
  OBVIOUS
<1>1. job = [step |-> "idle"] /\ kept = "none" /\ line = "latest" /\ boot.line = "latest"
  BY DEF Init, Idle
<1>2. JobTyped /\ Newer /\ InProgress /\ Finished /\ LinesAgree
  BY <1>1 DEF JobTyped, Steps, Newer, InProgress, Finished, LinesAgree
<1>3. CASE flash = [x \in Sectors |-> Erased] /\ sound = FALSE
  <2>1. FlashTyped /\ SomeWhole
    BY <1>3 DEF FlashTyped, SomeWhole
  <2>2. ~ Tagged(1)
    BY <1>3, StartIs DEF Tagged
  <2> QED BY <1>2, <2>1, <2>2 DEF Inv, FlashInv, Numbered, Both
<1>4. ASSUME NEW i \in Images, SizeOf[i] <= OneImage,
             flash = [x \in Sectors |-> IF x <= Span(i) THEN Part(i, 1, x - 1) ELSE Erased]
      PROVE  Inv
  <2>1. Span(i) \in Nat \ {0} /\ Span(i) <= N - 2
    <3>1. TagLen + SizeOf[i] < (N - 1) * Sect
      <4>1. (N - 1) * Sect = N * Sect - Sect /\ N * Sect \in Int
        BY Times
      <4> QED BY <1>4, <4>1 DEF OneImage
    <3>2. Span(i) - 1 \in Nat /\ (Span(i) - 1) * Sect < TagLen + SizeOf[i]
      BY SpanIs
    <3>3. TagLen + SizeOf[i] < (N - 2) * Sect + 1
      <4>1. (N - 2) * Sect = N * Sect - 2 * Sect /\ N * Sect \in Int /\ 2 * Sect = Sect + Sect
        BY Times
      <4> QED BY <1>4, <4>1 DEF OneImage
    <3>4. (Span(i) - 1) * Sect < (N - 2) * Sect
      <4>1. (Span(i) - 1) * Sect \in Int /\ (N - 2) * Sect \in Int
        BY <3>2, Times
      <4> QED BY <3>2, <3>3, <4>1
    <3>5. Span(i) - 1 < N - 2
      BY <3>2, <3>4, Monotone
    <3> QED BY <3>5, SpanIs
  <2>2. FlashTyped
    <3> SUFFICES ASSUME NEW x \in Sectors
                 PROVE  (IF x <= Span(i) THEN Part(i, 1, x - 1) ELSE Erased) \in {Erased} \cup Parts
      BY <1>4 DEF FlashTyped
    <3>1. x - 1 \in Nat /\ 1 \in Nat \ {0}
      BY StartIs
    <3>2. Part(i, 1, x - 1) \in Parts
      BY <3>1 DEF Part, Parts
    <3> QED BY <3>2
  <2>3. Whole(1)
    <3>1. ASSUME NEW k \in 0 .. Span(i) - 1
          PROVE  Start(1) + k \in Sectors /\ flash[Start(1) + k] = Part(i, 1, k)
      <4>1. Start(1) + k = k + 1 /\ k + 1 \in Sectors /\ k + 1 <= Span(i) /\ (k + 1) - 1 = k
        BY <2>1, StartIs, Halves
      <4> QED BY <1>4, <4>1
    <3>2. 1 \in Nat \ {0}
      OBVIOUS
    <3> QED BY <3>1, <3>2, WholeIs
  <2>4. ~ Tagged(2)
    <3>1. Half \in Sectors /\ Half - 1 \in Nat \ {0}
      BY StartIs, Halves
    <3>2. CASE Half <= Span(i)
      <4>1. flash[Start(2)] = Part(i, 1, Half - 1)
        BY <1>4, <3>1, <3>2, StartIs
      <4>2. flash[Start(2)].k = Half - 1
        BY <4>1 DEF Part
      <4> QED BY <3>1, <4>2 DEF Tagged
    <3>3. CASE ~ (Half <= Span(i))
      BY <1>4, <3>1, <3>3, StartIs DEF Tagged
    <3> QED BY <3>2, <3>3
  <2> QED BY <1>2, <2>2, <2>3, <2>4 DEF Inv, FlashInv, Numbered, Both, SomeWhole
<1> QED BY <1>3, <1>4 DEF Init

\* The flash does not change, and flashImage has not begun to write or returns.
LEMMA FlashRests ==
    ASSUME FlashInv, flash' = flash, JobTyped', job'.step \notin {"image", "line", "reset"},
           sound' => Whole(1) \/ Whole(2)
    PROVE  FlashInv'
<1>1. FlashTyped' /\ Numbered'
  BY DEF FlashInv, FlashTyped, Numbered, Both, Tagged, Tag
<1>2. Newer' /\ InProgress' /\ Finished'
  BY DEF Newer, InProgress, Finished
<1>3. SomeWhole'
  BY DEF SomeWhole, Whole, Tagged, Tag
<1> QED BY <1>1, <1>2, <1>3 DEF FlashInv

\* The image has been written; what is left is the boot line.
LEMMA WrittenRests ==
    ASSUME FlashInv, flash' = flash, sound' = sound, JobTyped',
           job.step \in {"line", "reset"}, job'.step \in {"line", "reset"},
           job'.image = job.image /\ job'.seq = job.seq /\ job'.at = job.at
    PROVE  FlashInv'
<1>1. FlashTyped' /\ Numbered' /\ SomeWhole'
  BY DEF FlashInv, FlashTyped, Numbered, Both, Tagged, Tag, SomeWhole, Whole
<1>2. InProgress'
  BY DEF InProgress
<1>3. Newer' /\ Finished'
  BY DEF FlashInv, Newer, Finished, SeqOf, Tagged, Tag, Whole
<1> QED BY <1>1, <1>2, <1>3 DEF FlashInv

LEMMA BeginKeeps ==
    ASSUME Inv, NEW image \in Images, NEW cfe \in BOOLEAN, Begin(image, cfe)
    PROVE  Inv'
<1>1. /\ job.step = "idle" /\ job'.step \in {"cfe", "plan"} /\ job'.image = image
      /\ UNCHANGED <<flash, boot, line, up, kept, sound>>
  BY DEF Begin, Idle
<1>2. JobTyped'
  BY <1>1 DEF JobTyped, Steps
<1>3. FlashInv'
  BY <1>1, <1>2, FlashRests DEF Inv, FlashInv, SomeWhole
<1>4. LinesAgree'
  BY <1>1 DEF Inv, LinesAgree, Rewrites
<1> QED BY <1>3, <1>4 DEF Inv

LEMMA SetLineKeeps == ASSUME Inv, NEW bootline, SetLine(bootline) PROVE Inv'
<1>1. /\ job.step = "idle" /\ job'.step = "setline"
      /\ UNCHANGED <<flash, boot, up, kept, sound>>
  BY DEF SetLine, Idle
<1>2. JobTyped'
  BY <1>1 DEF JobTyped, Steps
<1>3. FlashInv'
  BY <1>1, <1>2, FlashRests DEF Inv, FlashInv, SomeWhole
<1>4. LinesAgree'
  BY <1>1 DEF Inv, LinesAgree, Rewrites
<1> QED BY <1>3, <1>4 DEF Inv

LEMMA EraseBootKeeps == ASSUME Inv, EraseBoot PROVE Inv'
<1>1. /\ job.step \in Rewrites /\ ~ boot'.cfe
      /\ UNCHANGED <<flash, line, up, job, sound>>
  BY DEF EraseBoot, NoBoot
<1>2. FlashTyped' /\ JobTyped' /\ Numbered' /\ Newer' /\ InProgress' /\ Finished' /\ SomeWhole'
  BY <1>1 DEF Inv, FlashInv, FlashTyped, JobTyped, Numbered, Newer, InProgress, Finished, SomeWhole,
              Both, Tagged, Tag, SeqOf, Whole, Sector, Left, NoRoom
<1>3. LinesAgree'
  BY <1>1 DEF Inv, LinesAgree
<1> QED BY <1>2, <1>3 DEF Inv, FlashInv

\* What comes after sector 0 was rewritten, or was not
LEMMA AfterKeeps ==
    ASSUME FlashInv, NEW written \in BOOLEAN, job.step \in Rewrites,
           job' = After(written), UNCHANGED <<flash, sound>>
    PROVE  FlashInv' /\ (job'.step = "nvram" \/ job'.step \notin Rewrites)
<1>1. CASE job.step = "cfe" /\ written
  <2>1. job' = [step |-> "nvram", image |-> job.image]
    BY <1>1 DEF After
  <2>2. job.image \in Images
    BY <1>1 DEF FlashInv, JobTyped
  <2>3. job'.step = "nvram" /\ job'.image \in Images
    BY <2>1, <2>2
  <2>4. JobTyped'
    BY <2>3 DEF JobTyped, Steps
  <2> QED BY <2>3, <2>4, FlashRests DEF FlashInv, SomeWhole
<1>2. CASE job.step = "nvram"
  <2>1. job' = [step |-> "plan", image |-> job.image]
    BY <1>2 DEF After
  <2>2. JobTyped'
    BY <1>2, <2>1 DEF FlashInv, JobTyped, Steps
  <2> QED BY <2>1, <2>2, FlashRests DEF FlashInv, SomeWhole, Rewrites
<1>3. CASE job.step = "line"
  <2>1. job' = Written("reset")
    BY <1>3 DEF After
  <2>2. /\ job'.step = "reset" /\ job'.image = job.image /\ job'.seq = job.seq
        /\ job'.at = job.at
    BY <2>1 DEF Written
  <2>3. JobTyped'
    BY <1>3, <2>2 DEF FlashInv, JobTyped, Steps
  <2> QED BY <1>3, <2>2, <2>3, WrittenRests DEF Rewrites
<1>4. CASE job.step = "setline" \/ (job.step = "cfe" /\ ~ written)
  <2>1. job' = [step |-> "idle"]
    BY <1>4 DEF After, Idle
  <2>2. JobTyped'
    BY <2>1 DEF JobTyped, Steps
  <2> QED BY <2>1, <2>2, FlashRests DEF FlashInv, SomeWhole, Rewrites
<1> QED BY <1>1, <1>2, <1>3, <1>4 DEF Rewrites

LEMMA WriteBootKeeps == ASSUME Inv, WriteBoot PROVE Inv'
<1>1. FlashInv' /\ (job'.step = "nvram" \/ job'.step \notin Rewrites)
  BY AfterKeeps DEF WriteBoot, Inv
<1>2. /\ job.step \in Rewrites /\ kept' = "none" /\ job' = After(TRUE)
      /\ boot' = IF job.step = "cfe" THEN [cfe |-> TRUE, line |-> "blank"]
                 ELSE [cfe |-> kept = "loader", line |-> line]
      /\ line' = IF job.step = "setline" THEN boot'.line ELSE line
  BY DEF WriteBoot
<1>3. LinesAgree'
  <2>1. CASE job.step = "cfe"
    <3>1. job'.step = "nvram"
      BY <1>2, <2>1 DEF After
    <3> QED BY <1>2, <3>1 DEF LinesAgree
  <2>2. CASE job.step # "cfe"
    <3>1. boot'.line = line /\ line' = line
      BY <1>2, <2>2
    <3>2. job'.step \in {"line", "reset"} => job.step = "line"
      BY <1>2, <2>2 DEF After, Idle, Rewrites
    <3> QED BY <1>2, <3>1, <3>2 DEF Inv, LinesAgree
  <2> QED BY <2>1, <2>2
<1> QED BY <1>1, <1>3 DEF Inv

LEMMA WriteBootFailsKeeps == ASSUME Inv, WriteBootFails PROVE Inv'
<1>1. FlashInv' /\ (job'.step = "nvram" \/ job'.step \notin Rewrites)
  BY AfterKeeps DEF WriteBootFails, Inv
<1>2. /\ job.step \in Rewrites /\ kept' = "none" /\ job' = After(FALSE) /\ boot' = boot
      /\ line' = IF job.step = "setline" THEN boot.line ELSE line
      /\ ~ boot.cfe
  BY DEF WriteBootFails, Inv, LinesAgree
<1>3. job'.step \in {"line", "reset"} => job.step = "line"
  BY <1>2 DEF After, Idle, Rewrites
<1>4. LinesAgree'
  BY <1>2, <1>3 DEF Inv, LinesAgree
<1> QED BY <1>1, <1>4 DEF Inv

LEMMA TooBigKeeps == ASSUME Inv, TooBig PROVE Inv'
<1>1. /\ job.step = "plan" /\ job'.step = "idle"
      /\ UNCHANGED <<flash, boot, line, up, kept, sound>>
  BY DEF TooBig, Idle
<1>2. JobTyped'
  BY <1>1 DEF JobTyped, Steps
<1>3. FlashInv'
  BY <1>1, <1>2, FlashRests DEF Inv, FlashInv, SomeWhole
<1>4. LinesAgree'
  BY <1>1 DEF Inv, LinesAgree, Rewrites
<1> QED BY <1>3, <1>4 DEF Inv

LEMMA WriteFailsKeeps == ASSUME Inv, WriteFails PROVE Inv'
<1>1. /\ job.step = "image" /\ job'.step = "idle"
      /\ UNCHANGED <<flash, boot, line, up, kept, sound>>
  BY DEF WriteFails, Idle
<1>2. JobTyped'
  BY <1>1 DEF JobTyped, Steps
<1>3. FlashInv'
  BY <1>1, <1>2, FlashRests DEF Inv, FlashInv, SomeWhole
<1>4. LinesAgree'
  BY <1>1 DEF Inv, LinesAgree, Rewrites
<1> QED BY <1>3, <1>4 DEF Inv

LEMMA ResetKeeps == ASSUME Inv, Reset PROVE Inv'
<1>1. /\ job.step = "reset" /\ job'.step = "idle" /\ line' = boot.line
      /\ UNCHANGED <<flash, boot, kept>>
  BY DEF Reset, Idle
<1>2. JobTyped'
  BY <1>1 DEF JobTyped, Steps
<1>3. Whole(1) \/ Whole(2)
  BY <1>1 DEF Inv, FlashInv, Finished, JobTyped
<1>4. FlashInv'
  BY <1>1, <1>2, <1>3, FlashRests DEF Inv
<1>5. LinesAgree'
  BY <1>1 DEF Inv, LinesAgree, Rewrites
<1> QED BY <1>4, <1>5 DEF Inv

LEMMA PowerLossKeeps == ASSUME Inv, PowerLoss PROVE Inv'
<1>1. /\ job'.step = "idle" /\ line' = boot.line /\ kept' = "none"
      /\ UNCHANGED <<flash, boot, sound>>
  BY DEF PowerLoss, Idle
<1>2. JobTyped'
  BY <1>1 DEF JobTyped, Steps
<1>3. FlashInv'
  BY <1>1, <1>2, FlashRests DEF Inv, FlashInv, SomeWhole
<1>4. LinesAgree'
  BY <1>1 DEF LinesAgree
<1> QED BY <1>3, <1>4 DEF Inv

-----------------------------------------------------------------------------
(* The steps that write an image *)

\* The new image is to have the largest number.
LEMMA NextSeqIs ==
    ASSUME FlashTyped
    PROVE  NextSeq \in Nat \ {0} /\ SeqOf(1) < NextSeq /\ SeqOf(2) < NextSeq
BY TagIs DEF NextSeq

LEMMA PlanKeeps == ASSUME Inv, Plan PROVE Inv'
<1> DEFINE z == 0
           image == job.image
           seq == NextSeq
           at == Target(job.image)
<1>1. z \in Nat /\ z = 0 /\ image \in Images /\ seq \in Nat \ {0} /\ at \in {1, 2}
  BY NextSeqIs DEF Inv, FlashInv, JobTyped, Plan, Target
<1>2. /\ job.step = "plan"
      /\ job' = [step |-> "image", image |-> image, seq |-> seq, at |-> at,
                 k |-> z, erased |-> FALSE]
      /\ sound' = (sound /\ Apart(image))
      /\ UNCHANGED <<flash, boot, line, up, kept>>
  BY DEF Plan
<1>3. SeqOf(3 - at) < seq
  BY <1>1, NextSeqIs DEF Inv, FlashInv
<1>4. Apart(image) => Whole(3 - at) /\ Fits(image) /\ Fits(Tag(3 - at).image)
  <2> SUFFICES ASSUME Apart(image)
               PROVE  Whole(3 - at) /\ Fits(image) /\ Fits(Tag(3 - at).image)
    OBVIOUS
  <2>1. PICK p \in {1, 2} : /\ Target(image) = 3 - p /\ Whole(p)
                            /\ Fits(image) /\ Fits(Tag(p).image)
    BY <1>1, TargetIsOther DEF Inv, FlashInv
  <2>2. p = 3 - at
    BY <2>1
  <2> QED BY <2>1, <2>2
<1>5. Start(at) + z \in Sectors /\ TagLen + SizeOf[image] - z * Sect > 0 /\ z - 1 < 0
  <2>1. z * Sect = 0
    BY <1>1, Times
  <2> QED BY <1>1, <2>1, StartIs
<1> HIDE DEF z, image, seq, at
<1>6. /\ job'.step = "image" /\ job'.image = image /\ job'.seq = seq /\ job'.at = at
      /\ job'.k = z /\ job'.erased = FALSE
  BY <1>2
<1>7. JobTyped'
  <2>1. job' \in Writing
    BY <1>1, <1>2 DEF Writing
  <2> QED BY <1>1, <1>6, <2>1 DEF JobTyped, Steps
<1>8. FlashTyped' /\ Numbered' /\ SomeWhole' /\ Finished'
  BY <1>2, <1>6 DEF Inv, FlashInv, FlashTyped, Numbered, SomeWhole, Finished, Both, Tagged, Tag, Whole
<1>9. Newer'
  BY <1>2, <1>3, <1>6 DEF Newer, SeqOf, Tagged, Tag
<1>10. InProgress'
  <2>1. Sector' \in Sectors /\ Left' > 0
    BY <1>5, <1>6 DEF Sector, Left
  <2>2. \A k \in 0 .. job'.k - 1 : FALSE
    BY <1>1, <1>5, <1>6
  <2>3. sound' => Whole(3 - job.at)' /\ Fits(job.image)' /\ Fits(Tag(3 - job.at).image)'
    BY <1>2, <1>4, <1>6 DEF Whole, Tagged, Tag, Fits
  <2> QED BY <1>6, <2>1, <2>2, <2>3 DEF InProgress
<1>11. LinesAgree'
  BY <1>2, <1>6 DEF Inv, LinesAgree, Rewrites
<1> QED BY <1>7, <1>8, <1>9, <1>10, <1>11 DEF Inv, FlashInv

LEMMA SectorIs ==
    ASSUME FlashInv, job.step = "image", NEW at, at = job.at
    PROVE  /\ at \in {1, 2} /\ job.k \in Nat /\ job.image \in Images /\ job.seq \in Nat \ {0}
           /\ Sector = Start(at) + job.k /\ Sector \in Sectors /\ Sector \in Nat
           /\ Sector = Start(at) <=> job.k = 0
           /\ Sector = Start(3 - at) => job.k # 0
           /\ sound => IF 3 - at = 1 THEN Sector >= Half ELSE Sector < Half
<1>1. at \in {1, 2} /\ job.k \in Nat /\ job.image \in Images /\ job.seq \in Nat \ {0}
  BY DEF FlashInv, JobTyped, Writing
<1>2. Sector = Start(at) + job.k /\ Sector \in Sectors
  BY DEF FlashInv, InProgress, Sector
<1>3. Sector \in Nat /\ (Sector = Start(at) <=> job.k = 0) /\ (Sector = Start(3 - at) => job.k # 0)
  BY <1>1, <1>2, StartIs, Halves
<1>4. sound => job.k < Half - 1
  <2>1. job.k * Sect \in Int /\ SizeOf[job.image] \in Nat /\ TagLen \in Nat
    BY <1>1, Times
  <2>2. job.k * Sect < TagLen + SizeOf[job.image]
    BY <2>1 DEF FlashInv, InProgress, Left
  <2>3. sound => Fits(job.image)
    BY DEF FlashInv, InProgress
  <2> QED BY <1>1, <2>2, <2>3, FitsIsShort
<1>5. sound => IF 3 - at = 1 THEN Sector >= Half ELSE Sector < Half
  BY <1>1, <1>2, <1>4, StartIs, Halves
<1> QED BY <1>1, <1>2, <1>3, <1>5

\* A sector is erased or written, and the others stay as they are.
LEMMA OneSector ==
    ASSUME FlashInv, job.step = "image", NEW at, at = job.at,
           NEW x, x \in {Erased, Part(job.image, job.seq, job.k)},
           flash' = [flash EXCEPT ![Sector] = x]
    PROVE  /\ FlashTyped' /\ Numbered'
           /\ SeqOf(3 - at)' < job.seq
           /\ \A k \in 0 .. job.k - 1 :
                 Start(at) + k \in Sectors /\ flash'[Start(at) + k] = Part(job.image, job.seq, k)
           /\ sound => /\ Whole(3 - at)' /\ Fits(job.image)
                       /\ Fits(Tag(3 - at).image)'
<1> DEFINE s == Sector
<1>1. /\ at \in {1, 2} /\ job.k \in Nat /\ job.image \in Images /\ job.seq \in Nat \ {0}
      /\ s = Start(at) + job.k /\ s \in Sectors /\ s \in Nat
      /\ s = Start(at) <=> job.k = 0
      /\ s = Start(3 - at) => job.k # 0
      /\ sound => IF 3 - at = 1 THEN s >= Half ELSE s < Half
  BY SectorIs
<1>2. x = Erased \/ (/\ x \in Parts /\ x # Erased /\ x.seq = job.seq /\ x.k = job.k)
  BY <1>1, PartIs
<1>3. FlashTyped
  BY DEF FlashInv
<1>4. flash' = [flash EXCEPT ![s] = x]
  OBVIOUS
<1> HIDE DEF s
<1>5. flash'[s] = x /\ \A y \in Sectors : y # s => flash'[y] = flash[y]
  BY <1>1, <1>3, <1>4 DEF FlashTyped
<1>6. FlashTyped'
  BY <1>1, <1>2, <1>3, <1>4 DEF FlashTyped
<1>7. \A k \in 0 .. job.k - 1 :
         /\ Start(at) + k \in Sectors /\ flash[Start(at) + k] = Part(job.image, job.seq, k)
         /\ Start(at) + k # s
  <2>1. \A k \in 0 .. job.k - 1 :
          /\ Start(at) + k \in Sectors /\ flash[Start(at) + k] = Part(job.image, job.seq, k)
    BY DEF FlashInv, InProgress
  <2> QED BY <1>1, <2>1, StartIs
<1>8. SeqOf(3 - at) < job.seq
  BY DEF FlashInv, Newer
<1>9. SeqOf(3 - at)' < job.seq
  <2>1. CASE s = Start(3 - at)
    <3>1. ~ Tagged(3 - at)'
      BY <1>1, <1>2, <1>5, <2>1 DEF Tagged, Start
    <3> QED BY <1>1, <3>1 DEF SeqOf
  <2>2. CASE s # Start(3 - at)
    <3>1. flash'[Start(3 - at)] = flash[Start(3 - at)]
      BY <1>1, <1>5, <2>2, StartIs
    <3>2. SeqOf(3 - at)' = SeqOf(3 - at)
      BY <3>1 DEF SeqOf, Tagged, Tag, Start
    <3> QED BY <1>8, <3>2
  <2> QED BY <2>1, <2>2
<1>10. Tagged(at)' => Tag(at)'.seq = job.seq
  <2>1. CASE job.k = 0
    BY <1>1, <1>2, <1>5, <2>1 DEF Tagged, Tag, Start
  <2>2. CASE job.k # 0
    <3>1. 0 \in 0 .. job.k - 1 /\ Start(at) + 0 = Start(at) /\ Start(at) \in Sectors
      BY <1>1, <2>2, StartIs
    <3>2. flash[Start(at)] = Part(job.image, job.seq, 0) /\ Start(at) # s
      BY <1>7, <3>1
    <3>3. flash'[Start(at)] = Part(job.image, job.seq, 0)
      BY <1>5, <3>1, <3>2
    <3>4. Part(job.image, job.seq, 0).seq = job.seq
      BY DEF Part
    <3> QED BY <3>3, <3>4 DEF Tag, Start
  <2> QED BY <2>1, <2>2
<1>11. Numbered'
  <2>1. Tagged(3 - at)' => Tag(3 - at)'.seq = SeqOf(3 - at)'
    BY DEF SeqOf
  <2>2. Both' => Tagged(at)' /\ Tagged(3 - at)'
    BY <1>1 DEF Both
  <2>3. Both' => Tag(at)'.seq # Tag(3 - at)'.seq
    BY <1>1, <1>9, <1>10, <2>1, <2>2
  <2> QED BY <1>1, <2>3 DEF Numbered
<1>12. ASSUME sound PROVE Whole(3 - at)' /\ Fits(job.image) /\ Fits(Tag(3 - at).image)'
  <2>1. Whole(3 - at) /\ Fits(job.image) /\ Fits(Tag(3 - at).image)
    BY <1>12 DEF FlashInv, InProgress
  <2>2. 3 - at \in {1, 2}
    BY <1>1
  <2>3. Whole(3 - at)' /\ Tag(3 - at)' = Tag(3 - at)
    BY <1>1, <1>3, <1>5, <1>12, <2>1, <2>2, WholeElsewhere
  <2> QED BY <2>1, <2>3 DEF Fits
<1> QED BY <1>5, <1>6, <1>7, <1>9, <1>11, <1>12

LEMMA EraseSectorKeeps == ASSUME Inv, EraseSector PROVE Inv'
<1>1. /\ job.step = "image" /\ ~ job.erased /\ ~ NoRoom
      /\ flash' = [flash EXCEPT ![Sector] = Erased]
      /\ job' = [job EXCEPT !.erased = TRUE]
      /\ UNCHANGED <<boot, line, up, kept, sound>>
  BY DEF EraseSector
<1>2. job \in Writing
  BY <1>1 DEF Inv, FlashInv, JobTyped
<1>3. /\ job' \in Writing /\ job'.step = "image" /\ job'.image = job.image /\ job'.seq = job.seq
      /\ job'.at = job.at /\ job'.k = job.k /\ job'.erased = TRUE
  BY <1>1, <1>2 DEF Writing
<1>4. PICK x : x = Erased
  OBVIOUS
<1>5. PICK a : a = job.at
  OBVIOUS
<1>6. /\ FlashTyped' /\ Numbered'
      /\ SeqOf(3 - a)' < job.seq
      /\ \A k \in 0 .. job.k - 1 :
            Start(a) + k \in Sectors /\ flash'[Start(a) + k] = Part(job.image, job.seq, k)
      /\ sound => /\ Whole(3 - a)' /\ Fits(job.image)
                  /\ Fits(Tag(3 - a).image)'
  BY <1>1, <1>4, <1>5, OneSector DEF Inv
<1>7. JobTyped'
  BY <1>3 DEF JobTyped, Steps, Writing
<1>8. Newer' /\ Finished'
  BY <1>3, <1>5, <1>6 DEF Newer, Finished
<1>9. InProgress'
  <2>1. Sector' \in Sectors /\ Left' > 0 /\ ~ NoRoom'
    BY <1>1, <1>3 DEF Inv, FlashInv, InProgress, Sector, Left, NoRoom
  <2>2. sound' => Whole(3 - job.at)' /\ Fits(job.image)' /\ Fits(Tag(3 - job.at).image)'
    BY <1>1, <1>3, <1>5, <1>6
  <2> QED BY <1>3, <1>5, <1>6, <2>1, <2>2 DEF InProgress
<1>10. SomeWhole'
  BY <1>1, <1>2, <1>5, <1>6 DEF SomeWhole, Writing
<1>11. LinesAgree'
  BY <1>1, <1>3 DEF Inv, LinesAgree, Rewrites
<1> QED BY <1>6, <1>7, <1>8, <1>9, <1>10, <1>11 DEF Inv, FlashInv

\* The next part, or none: the last one reaches the end of the image.
LEMMA PartsEnd ==
    ASSUME FlashInv, job.step = "image", job.erased
    PROVE  /\ Left \in Int
           /\ Left > Sect => /\ Sector + 1 \in Sectors
                            /\ TagLen + SizeOf[job.image] - (job.k + 1) * Sect > 0
           /\ Left <= Sect => Span(job.image) = job.k + 1
<1> DEFINE t == TagLen + SizeOf[job.image]
<1>1. /\ job.k \in Nat /\ job.image \in Images /\ Sector \in Sectors /\ Left > 0 /\ ~ NoRoom
  BY DEF FlashInv, JobTyped, Writing, InProgress
<1>2. /\ t \in Nat /\ job.k * Sect \in Int /\ (job.k + 1) * Sect = job.k * Sect + Sect
      /\ Left = t - job.k * Sect
  <2>1. 1 * Sect = Sect
    BY Times
  <2> QED BY <1>1, <2>1, Times DEF Left
<1> HIDE DEF t
<1>3. ASSUME Left > Sect
      PROVE  Sector + 1 \in Sectors /\ TagLen + SizeOf[job.image] - (job.k + 1) * Sect > 0
  <2>1. Sector # Psi
    BY <1>1, <1>2, <1>3 DEF NoRoom
  <2>2. Sector + 1 \in Sectors
    BY <1>1, <2>1 DEF Sectors, Psi
  <2>3. t - (job.k + 1) * Sect > 0
    BY <1>2, <1>3
  <2>4. SizeOf[job.image] \in Nat /\ (job.k + 1) * Sect \in Int
    BY <1>1, <1>2
  <2> QED BY <2>2, <2>3, <2>4 DEF t
<1>4. ASSUME Left <= Sect PROVE Span(job.image) = job.k + 1
  <2>1. Span(job.image) \in Nat /\ job.k + 1 \in Nat
    BY <1>1, SpanIs
  <2>2. job.k < Span(job.image) /\ ~ (job.k + 1 < Span(job.image))
    BY <1>1, <1>2, <1>4, <2>1, SpanIs DEF t
  <2> QED BY <1>1, <2>1, <2>2
<1>5. Left \in Int
  BY <1>2
<1> QED BY <1>3, <1>4, <1>5

LEMMA WriteSectorKeeps == ASSUME Inv, WriteSector PROVE Inv'
<1>1. /\ job.step = "image" /\ job.erased
      /\ flash' = [flash EXCEPT ![Sector] = Part(job.image, job.seq, job.k)]
      /\ UNCHANGED <<boot, up, kept, sound>>
  BY DEF WriteSector
<1>2. job \in Writing /\ FlashInv
  BY <1>1 DEF Inv, FlashInv, JobTyped
<1>3. PICK x : x = Part(job.image, job.seq, job.k)
  OBVIOUS
<1>4. PICK a : a = job.at
  OBVIOUS
<1>5. /\ FlashTyped' /\ Numbered'
      /\ SeqOf(3 - a)' < job.seq
      /\ \A k \in 0 .. job.k - 1 :
            Start(a) + k \in Sectors /\ flash'[Start(a) + k] = Part(job.image, job.seq, k)
      /\ sound => /\ Whole(3 - a)' /\ Fits(job.image)
                  /\ Fits(Tag(3 - a).image)'
  BY <1>1, <1>3, <1>4, OneSector DEF Inv
<1>6. /\ a \in {1, 2} /\ job.k \in Nat /\ job.image \in Images /\ job.seq \in Nat \ {0}
      /\ Sector = Start(a) + job.k /\ Sector \in Sectors /\ Start(a) \in Nat
  BY <1>1, <1>2, <1>4, SectorIs, StartIs
<1>7. flash'[Start(a) + job.k] = Part(job.image, job.seq, job.k)
  BY <1>1, <1>2, <1>6 DEF FlashInv, FlashTyped
<1>8. \A k \in 0 .. job.k :
        Start(a) + k \in Sectors /\ flash'[Start(a) + k] = Part(job.image, job.seq, k)
  <2>1. \A k \in 0 .. job.k : k = job.k \/ k \in 0 .. job.k - 1
    BY <1>6
  <2> QED BY <1>5, <1>6, <1>7, <2>1
<1>9. SomeWhole'
  BY <1>1, <1>5, <1>6 DEF SomeWhole
<1>10. CASE /\ Left > Sect /\ UNCHANGED line
            /\ job' = [job EXCEPT !.k = @ + 1, !.erased = FALSE]
  <2>1. /\ job' \in Writing /\ job'.step = "image" /\ job'.image = job.image
        /\ job'.seq = job.seq /\ job'.at = a /\ job'.k = job.k + 1 /\ job'.erased = FALSE
    <3> DEFINE n == job.k + 1
               no == FALSE
    <3>1. n \in Nat /\ no \in BOOLEAN /\ job' = [job EXCEPT !.k = n, !.erased = no]
      BY <1>6, <1>10
    <3> HIDE DEF n, no
    <3>2. /\ job' \in Writing /\ job'.step = "image" /\ job'.image = job.image
          /\ job'.seq = job.seq /\ job'.at = job.at /\ job'.k = n /\ job'.erased = no
      BY <1>2, <3>1 DEF Writing
    <3> QED BY <1>4, <3>2 DEF n, no
  <2>2. Sector + 1 \in Sectors /\ TagLen + SizeOf[job.image] - (job.k + 1) * Sect > 0
    BY <1>1, <1>2, <1>10, PartsEnd
  <2>3. JobTyped'
    BY <2>1 DEF JobTyped, Steps, Writing
  <2>4. Newer' /\ Finished'
    BY <1>5, <2>1 DEF Newer, Finished
  <2>5. Sector' \in Sectors /\ Left' > 0
    <3>1. Sector' = Sector + 1
      BY <1>6, <2>1 DEF Sector
    <3> QED BY <2>1, <2>2, <3>1 DEF Left
  <2>6. \A k \in 0 .. job'.k - 1 :
           Start(a) + k \in Sectors /\ flash'[Start(a) + k] = Part(job.image, job.seq, k)
    <3>1. job'.k - 1 = job.k
      BY <1>6, <2>1
    <3> QED BY <1>8, <3>1
  <2>7. sound' => Whole(3 - job.at)' /\ Fits(job.image)' /\ Fits(Tag(3 - job.at).image)'
    BY <1>1, <1>5, <2>1
  <2>8. InProgress'
    BY <2>1, <2>5, <2>6, <2>7 DEF InProgress
  <2>9. LinesAgree'
    BY <1>1, <1>10, <2>1 DEF Inv, LinesAgree, Rewrites
  <2> QED BY <1>5, <1>9, <2>3, <2>4, <2>8, <2>9 DEF Inv, FlashInv
<1>11. CASE /\ Left <= Sect
            /\ \/ line = "previous" /\ job' = Written("line") /\ line' = "latest"
               \/ line # "previous" /\ job' = Written("reset") /\ UNCHANGED line
  <2>1. /\ job'.step \in {"line", "reset"} /\ job'.image = job.image
        /\ job'.seq = job.seq /\ job'.at = a
    BY <1>4, <1>11 DEF Written
  <2>2. JobTyped'
    BY <1>6, <2>1 DEF JobTyped, Steps
  <2>3. Newer' /\ InProgress'
    BY <1>5, <2>1 DEF Newer, InProgress
  <2>4. Span(job.image) = job.k + 1
    BY <1>1, <1>2, <1>11, PartsEnd
  <2>5. flash'[Start(a)] = Part(job.image, job.seq, 0)
    <3>1. 0 \in 0 .. job.k /\ Start(a) + 0 = Start(a)
      BY <1>6
    <3> QED BY <1>8, <3>1
  <2>6. Tagged(a)' /\ Tag(a)'.image = job.image /\ Tag(a)'.seq = job.seq
    <3>1. /\ Part(job.image, job.seq, 0) # Erased /\ Part(job.image, job.seq, 0).seq = job.seq
          /\ Part(job.image, job.seq, 0).image = job.image /\ Part(job.image, job.seq, 0).k = 0
      BY <1>6, PartIs
    <3> QED BY <2>5, <3>1 DEF Tagged, Tag, Start
  <2>7. Whole(a)'
    <3>1. \A k \in 0 .. Span(Tag(a)'.image) - 1 :
             /\ Start(a) + k \in Sectors
             /\ flash'[Start(a) + k] = Part(Tag(a)'.image, Tag(a)'.seq, k)
      <4>1. (job.k + 1) - 1 = job.k
        BY <1>6
      <4> QED BY <1>8, <2>4, <2>6, <4>1
    <3> QED BY <2>6, <3>1 DEF Whole, Start, Sectors, Part, Span
  <2>8. Finished'
    BY <2>1, <2>5, <2>7 DEF Finished
  <2>9. LinesAgree'
    <3>1. CASE line = "previous" /\ job' = Written("line") /\ line' = "latest"
      <4>1. job'.step = "line"
        BY <3>1 DEF Written
      <4> QED BY <1>1, <3>1, <4>1 DEF Inv, LinesAgree, Rewrites
    <3>2. CASE line # "previous" /\ job' = Written("reset") /\ UNCHANGED line
      <4>1. job'.step = "reset"
        BY <3>2 DEF Written
      <4> QED BY <1>1, <3>2, <4>1 DEF Inv, LinesAgree, Rewrites
    <3> QED BY <1>11, <3>1, <3>2
  <2> QED BY <1>5, <1>9, <2>2, <2>3, <2>8, <2>9 DEF Inv, FlashInv
<1> QED BY <1>10, <1>11 DEF WriteSector

-----------------------------------------------------------------------------
(* The theorems *)

LEMMA StepKeeps == Inv /\ [Next]_vars => Inv'
<1> SUFFICES ASSUME Inv, [Next]_vars PROVE Inv'
  OBVIOUS
<1>1. CASE UNCHANGED vars
  BY <1>1 DEF vars, Inv, FlashInv, FlashTyped, JobTyped, Numbered, Newer, InProgress, Finished,
              SomeWhole, LinesAgree, Both, Tagged, Tag, SeqOf, Whole, Sector, Left, NoRoom
<1>2. ASSUME NEW image \in Images, NEW cfe \in BOOLEAN, Begin(image, cfe) PROVE Inv'
  BY <1>2, BeginKeeps
<1>3. ASSUME NEW bootline \in {"latest", "previous"}, SetLine(bootline) PROVE Inv'
  BY <1>3, SetLineKeeps
<1> QED
  BY <1>1, <1>2, <1>3, EraseBootKeeps, WriteBootKeeps, WriteBootFailsKeeps, TooBigKeeps, PlanKeeps,
     EraseSectorKeeps, WriteSectorKeeps, WriteFailsKeeps, ResetKeeps, PowerLossKeeps DEF Next

LEMMA InvAlways == Spec => []Inv
BY InitInv, StepKeeps, PTL DEF Spec

\* A board whose updates all kept apart from the image that boots has a whole image
\* and chooses it, whenever the power fails and whatever cannot be written
\* (kerSysBcmImageSet, autoRun).
THEOREM SomeImageBoots == Spec => []AlwaysBoots
<1>1. Inv => AlwaysBoots
  BY BootsIsWhole DEF Inv, FlashInv, SomeWhole, AlwaysBoots
<1> QED BY <1>1, InvAlways, PTL

\* The image that flashImage says it has written is whole, and is the one that
\* boots: it has the largest sequence number and the boot line does not name the
\* other one (UpdateImageSequenceNumber).
THEOREM UpdateTakesEffect == Spec => []TakesEffect
<1>1. ASSUME Inv, job.step = "reset", boot.cfe
      PROVE  Boots = job.at /\ flash[Start(job.at)] = Part(job.image, job.seq, 0)
  <2>1. /\ Whole(job.at) /\ flash[Start(job.at)] = Part(job.image, job.seq, 0)
        /\ job.at \in {1, 2} /\ job.seq \in Nat \ {0} /\ job.image \in Images
        /\ SeqOf(3 - job.at) < job.seq /\ FlashTyped
    BY <1>1 DEF Inv, FlashInv, Finished, JobTyped, Newer
  <2>2. boot.line # "previous"
    BY <1>1 DEF Inv, LinesAgree
  <2>3. Tagged(job.at) /\ Tag(job.at).seq = job.seq
    BY <2>1, PartIs DEF Whole, Tag
  <2>4. Both => Latest = job.at
    <3>1. Both => Tag(3 - job.at).seq < job.seq /\ Tag(3 - job.at).seq \in Nat
      BY <2>1, TagIs DEF Both, SeqOf
    <3> QED BY <2>1, <2>3, <3>1 DEF Latest
  <2>5. BootImage(boot.line) = job.at
    BY <2>1, <2>2, <2>3, <2>4 DEF BootImage, Both
  <2> QED BY <2>1, <2>5 DEF Boots
<1>2. Inv => TakesEffect
  BY <1>1 DEF TakesEffect
<1> QED BY <1>2, InvAlways, PTL
=============================================================================
