---------------------------- MODULE AlgorithmPlayer ---------------------------
(***************************************************************************)
(* The player of AlgorithmPage.tsx: the page collects all snapshots of the *)
(* selected algorithm at once and steps through them, by buttons or by an  *)
(* interval timer. Effects run some time after the render they belong to,  *)
(* and an interval keeps the number of steps its render saw.               *)
(***************************************************************************)
EXTENDS Integers, Sequences, SequencesExt

CONSTANT MaxSteps  \* bound: snapshots an algorithm emits

ASSUME PlayerAssumption == MaxSteps \in Nat /\ MaxSteps >= 2

VARIABLES
  length,         \* steps.length
  currentStepIdx,
  isPlaying,
  speed,          \* speedMs, one of two
  reselected,     \* the effect of a new selection is due
  saw,            \* what the timer's effect last ran for
  timers          \* running intervals, timerRef.current the last

player == <<length, currentStepIdx, isPlaying, speed, reselected, saw, timers>>

TimerDue == saw # <<isPlaying, length, speed>>

PlayerInit ==
  /\ length \in 2 .. MaxSteps
  /\ currentStepIdx = 0
  /\ isPlaying = FALSE
  /\ speed = 1
  /\ reselected = FALSE
  /\ saw = <<FALSE, length, 1>>
  /\ timers = <<>>

\* A render first runs the effects that the render before it left, so that user
\* input finds none due.
Settled == ~reselected /\ ~TimerDue

\* Mutant: the old interval is not cleared.
ClearedNever == timers

Cleared == IF timers = <<>> THEN <<>> ELSE Front(timers)

SelectAlgorithm ==
  /\ Settled
  /\ length' \in 2 .. MaxSteps
  /\ reselected' = TRUE
  /\ UNCHANGED <<currentStepIdx, isPlaying, speed, saw, timers>>

\* The buttons; each is disabled where it would do nothing.
PlayPause ==
  /\ Settled
  /\ currentStepIdx < length - 1
  /\ isPlaying' = ~isPlaying
  /\ UNCHANGED <<length, currentStepIdx, speed, reselected, saw, timers>>

Jump ==
  /\ Settled
  /\ \/ currentStepIdx > 0 /\ currentStepIdx' \in {0, currentStepIdx - 1}
     \/ currentStepIdx < length - 1 /\ currentStepIdx' = currentStepIdx + 1
  /\ UNCHANGED <<length, isPlaying, speed, reselected, saw, timers>>

SetSpeed ==
  /\ Settled
  /\ speed' \in {1, 2} \ {speed}
  /\ UNCHANGED <<length, currentStepIdx, isPlaying, reselected, saw, timers>>

\* At the end of the steps a tick stops playing.
Tick ==
  /\ \E limit \in ToSet(timers) :
       IF currentStepIdx < limit - 1
         THEN currentStepIdx' = currentStepIdx + 1 /\ UNCHANGED isPlaying
         ELSE isPlaying' = FALSE /\ UNCHANGED currentStepIdx
  /\ UNCHANGED <<length, speed, reselected, saw, timers>>

\* The effects that are due, in their order: a new selection stops the timer and
\* goes to the first step; the timer is cleared and, if playing, set again.
NewSelection ==
  IF reselected
    THEN isPlaying' = FALSE /\ currentStepIdx' = 0
    ELSE UNCHANGED <<isPlaying, currentStepIdx>>

FlushEffects ==
  /\ ~Settled
  /\ NewSelection
  /\ reselected' = FALSE
  /\ timers' = IF ~TimerDue THEN Cleared
               ELSE IF isPlaying THEN Append(Cleared, length) ELSE Cleared
  /\ saw' = <<isPlaying, length, speed>>
  /\ UNCHANGED <<length, speed>>

PlayerNext ==
  SelectAlgorithm \/ PlayPause \/ Jump \/ SetSpeed \/ Tick \/ FlushEffects

-------------------------------------------------------------------------------
(* Properties *)

\* Once the effects of the last render have run, the step shown exists, and
\* exactly one interval runs while playing, for the present list of steps, and
\* none otherwise: no selection, speed change or pause in any order leaves a
\* second one behind.
OneTimerWhilePlaying ==
  Settled =>
    /\ currentStepIdx < length
    /\ timers = IF isPlaying THEN <<length>> ELSE <<>>

===============================================================================
