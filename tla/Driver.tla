------------------------------- MODULE Driver -------------------------------
(***************************************************************************)
(* AbstractDriver's frames and epochs.  Each frame lets the grid run for   *)
(* a while and then does at most one epoch's work, when the time counted   *)
(* in AEPS (average events per site) has come to the next epoch.           *)
(***************************************************************************)
EXTENDS Integers, FiniteSetsExt

CONSTANTS
  Options,     \* [epoch, accelerate, surge, autosave, halt]: command lines
  FrameAEPS,   \* by how much a frame may bring AEPS on
  U32          \* how many numbers a u32 has, 2^32 in the code

\* The numbers after the switches are any; those but the first are kept as u32.  Time only
\* goes on.
ASSUME DriverAssumption ==
  /\ U32 \in Nat \ {0}
  /\ \A o \in Options : o.epoch \in Int /\ {o.accelerate, o.surge} \subseteq Nat
  /\ FrameAEPS \subseteq Nat

VARIABLES
  options, AEPS, nextEpochAEPS, epochCount, AEPSPerEpoch, acceleration

epochs == <<nextEpochAEPS, epochCount, AEPSPerEpoch, acceleration>>
driver == <<options, AEPS, epochs>>

\* The s32 with the bits of a u32.
S32(n) == ((n + U32 \div 2) % U32) - U32 \div 2

\* What is done every n epochs is done in epoch 0 too.
Every(n) == n > 0 /\ epochCount % n = 0
Autosaves == Every(options.autosave)

EpochDue ==
  /\ AEPSPerEpoch >= 0 \/ options.accelerate > 0 \/ options.surge > 0
  /\ AEPS' >= nextEpochAEPS

\* (Variant with a mistake: the surge takes effect an epoch early.)
DoEpochEvents_SurgeFirst ==
  /\ acceleration' = IF options.accelerate > 0 /\ Every(options.surge) THEN acceleration + 1 ELSE acceleration
  /\ AEPSPerEpoch' = IF Every(options.accelerate) THEN S32(AEPSPerEpoch + acceleration') ELSE AEPSPerEpoch
DoEpochEvents ==
  /\ AEPSPerEpoch' = IF Every(options.accelerate) THEN S32(AEPSPerEpoch + acceleration) ELSE AEPSPerEpoch
  /\ acceleration' = IF options.accelerate > 0 /\ Every(options.surge) THEN acceleration + 1 ELSE acceleration

\* The time of the next epoch is a u32: after a length below zero it is far ahead, or
\* behind if it has been ahead before.  The number of the epoch is one as well, and the
\* acceleration, but a program would have to pass 2^32 epochs for that to matter.
CheckEpochProcessing ==
  IF EpochDue
  THEN /\ DoEpochEvents
       /\ nextEpochAEPS' = (nextEpochAEPS + AEPSPerEpoch') % U32
       /\ epochCount' = epochCount + 1
  ELSE UNCHANGED epochs

UpdateGrid ==
  /\ \E more \in FrameAEPS : AEPS' = AEPS + more
  /\ CheckEpochProcessing
  /\ UNCHANGED options

Halts == options.halt > 0 /\ AEPS' > options.halt

DriverInit ==
  /\ options \in Options
  /\ AEPS = 0
  /\ nextEpochAEPS = 0
  /\ epochCount = 0
  /\ AEPSPerEpoch = S32(options.epoch)
  /\ acceleration = IF options.surge > 0 THEN 0 ELSE 1

DriverSpec == DriverInit /\ [][UpdateGrid]_driver

\* The schedule as the options describe it.  From epoch to epoch the length grows
\* by the acceleration, which itself has grown by one for each surge before.
Multiples(n, S) == {k \in S : n > 0 /\ k % n = 0}
AccelerationIn(k) ==
  IF options.surge = 0 THEN 1
  ELSE IF options.accelerate = 0 THEN 0 ELSE Cardinality(Multiples(options.surge, 0..k - 1))
Accelerations(k) == [i \in 0..k |-> AccelerationIn(i)]
EpochLength(k) ==
  options.epoch + SumFunctionOnSet(Accelerations(k), Multiples(options.accelerate, 0..k))
Boundary(k) == SumFunction([i \in 0..k - 1 |-> EpochLength(i)])

\* No epoch is left out, done twice or done early, however far a frame brings the
\* time: CheckEpochProcessing's running sums are those of the schedule, of which the
\* words keep the low bits.  So they are too where lengths are, or begin, below zero, which
\* SetAEPSPerEpochFromArgs means to refuse and does not.
EpochSchedule ==
  /\ nextEpochAEPS = Boundary(epochCount) % U32
  /\ epochCount > 0 => AEPS >= Boundary(epochCount - 1) % U32
  /\ AEPSPerEpoch = S32(EpochLength(epochCount - 1))
=============================================================================
