---------------------------- MODULE SpeakerQueue ----------------------------
(***************************************************************************)
(* What the speaker ring promises to the clock thread that pushes a sample *)
(* every cycle and to the audio callback that pops them: a bounded queue   *)
(* that loses a sample only when it is full, and loses the newest one.     *)
(***************************************************************************)
EXTENDS Naturals, Sequences

CONSTANTS
  Size,       \* SpeakerRing::SIZE, 524288 in the code
  Samples     \* what is queued: 0 and 1 in the code

VARIABLES
  queue,      \* the samples pushed and not popped
  heard,      \* the samples popped last
  dropped     \* the parity of drops

Init == queue = <<>> /\ heard = <<>> /\ dropped = FALSE

Push ==
  /\ Len(queue) < Size
  /\ \E v \in Samples : queue' = Append(queue, v)
  /\ UNCHANGED <<heard, dropped>>

Drop ==
  /\ Len(queue) = Size
  /\ dropped' = ~dropped
  /\ UNCHANGED <<queue, heard>>

Pop ==
  /\ queue # <<>>
  /\ heard' = <<Head(queue)>>
  /\ queue' = Tail(queue)
  /\ UNCHANGED dropped

Next == Push \/ Drop \/ Pop

\* The audio device keeps calling back: every sample queued is popped.
Spec == Init /\ [][Next]_<<queue, heard, dropped>> /\ WF_<<queue, heard, dropped>>(Pop)

=============================================================================
