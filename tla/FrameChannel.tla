---------------------------- MODULE FrameChannel ----------------------------
(***************************************************************************)
(* What the receive side promises to the rest of the program: the frames   *)
(* of a session are handled once each and in the order they were sent, and *)
(* none of an earlier session is handled in a later one.                   *)
(***************************************************************************)
EXTENDS Naturals, Sequences, FiniteSets

VARIABLES
  session,         \* number of the session
  waiting,         \* the frames sent and not yet handled: session and number
  handled          \* the frames handled so far

(* How many frames of the session have been sent: those that wait are its.  *)
Sent == Cardinality({i \in DOMAIN handled : handled[i][1] = session}) + Len(waiting)

Init == session = 1 /\ waiting = <<>> /\ handled = <<>>

Send ==
  /\ waiting' = Append(waiting, <<session, Sent + 1>>)
  /\ UNCHANGED <<session, handled>>

Handle ==
  /\ waiting # <<>>
  /\ handled' = Append(handled, Head(waiting))
  /\ waiting' = Tail(waiting)
  /\ UNCHANGED session

(* What a session has not handled when it ends is never handled.           *)
NewSession ==
  /\ session' = session + 1
  /\ waiting' = <<>>
  /\ UNCHANGED handled

Next == Send \/ Handle \/ NewSession

Spec == Init /\ [][Next]_<<session, waiting, handled>>

=============================================================================
