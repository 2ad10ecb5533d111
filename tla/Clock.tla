-------------------------------- MODULE Clock --------------------------------
(***************************************************************************)
(* The time of the boot loader (cfe_timer.c): cfe_ticks is made of the     *)
(* processor's counter of clocks whenever the background is polled, by     *)
(* cfe_timer_task, its first function.  The counter is a word that wraps,  *)
(* and is read as a signed integer.                                        *)
(***************************************************************************)
EXTENDS Integers

CONSTANTS Word,           \* 2^32
          ClocksPerTick,  \* CFE_CLOCKSPERTICK
          Start,          \* the counter at cfe_timer_init
          MaxGap          \* the most clocks between two polls

\* Every wait of the image polls.  Half a turn of the counter is about 17 seconds; only the
\* writing of an image to flash can take longer without a poll, and it ends with a reset.
ASSUME ClockAssumption ==
    /\ Word \in Nat \ {0} /\ Word % 2 = 0 /\ ClocksPerTick \in Nat \ {0}
    /\ Start \in 0 .. Word - 1 /\ MaxGap \in Nat /\ MaxGap < Word \div 2

VARIABLES clocks,    \* the clocks since cfe_timer_init
          ticks,     \* cfe_ticks
          remticks,  \* cfe_remticks
          oldcount,  \* cfe_oldcount
          polled     \* history: the clocks at the last poll

clockVars == <<clocks, ticks, remticks, oldcount, polled>>

Half == Word \div 2

\* An int32_t holds the upper half of the words as negative numbers.
Signed(x) == ((x + Half) % Word) - Half

\* _getticks
Getticks == Signed(Start + clocks)

\* Division and remainder of C round towards zero.
Quot(a, b) == IF a >= 0 THEN a \div b ELSE - ((- a) \div b)
Rem(a, b)  == IF a >= 0 THEN a % b ELSE - ((- a) % b)

\* Time passes, and whatever runs polls again before MaxGap is over.
Elapse ==
    /\ clocks - polled < MaxGap
    /\ clocks' = clocks + 1
    /\ UNCHANGED <<ticks, remticks, oldcount, polled>>

\* Mutant: the clocks that do not make a tick are forgotten
CfeTimerTask_NoRemainder ==
    LET count == Getticks
        delta == Signed(IF count >= oldcount THEN count - oldcount ELSE oldcount - count)
    IN /\ ticks' = ticks + Quot(delta, ClocksPerTick)
       /\ remticks' = Rem(delta, ClocksPerTick)
       /\ oldcount' = count
       /\ polled' = clocks
       /\ UNCHANGED clocks

\* Where the counter passes from its largest to its smallest value the
\* difference overflows, and comes out as the clocks since the last poll, negated.
CfeTimerTask ==
    LET count == Getticks
        delta == Signed(IF count >= oldcount THEN count - oldcount ELSE oldcount - count)
        rem   == remticks + Rem(delta, ClocksPerTick)
    IN /\ ticks' = ticks + Quot(delta, ClocksPerTick) + Quot(rem, ClocksPerTick)
       /\ remticks' = Rem(rem, ClocksPerTick)
       /\ oldcount' = count
       /\ polled' = clocks
       /\ UNCHANGED clocks

ClockInit == /\ clocks = 0 /\ polled = 0
             /\ ticks = 0 /\ remticks = 0 /\ oldcount = Getticks

ClockNext == Elapse \/ CfeTimerTask
ClockSpec == ClockInit /\ [][ClockNext]_clockVars

\* TIMER_SET and TIMER_EXPIRED: a timer of 0 is one that is not set.
TimerSet(n)     == ticks + n
TimerExpired(x) == x # 0 /\ ticks > x

-----------------------------------------------------------------------------
(* Properties *)

\* how often the counter passed from its largest to its smallest value until the last poll
Turns == (Start + polled + Half) \div Word - (Start + Half) \div Word

\* No clock is lost between two polls or in the remainder, and none is counted
\* twice: the time is that of the counter, and behind it by at most twice the
\* time between two polls for every turn of the counter (cfe_timer_task).
TimeIsKept ==
    /\ clocks - polled \in 0 .. MaxGap
    /\ polled - (ClocksPerTick * ticks + remticks) \in 0 .. 2 * MaxGap * Turns
    /\ remticks < ClocksPerTick /\ remticks > - ClocksPerTick
=============================================================================
