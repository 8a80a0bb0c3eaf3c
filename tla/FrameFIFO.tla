------------------------------- MODULE FrameFIFO -------------------------------
(***************************************************************************)
(* What an encrypted connection promises to the writers of its control     *)
(* stream: frames arrive whole, once, in one order, and those that arrived *)
(* are the first of those sent.                                            *)
(***************************************************************************)
EXTENDS SequencesExt

CONSTANT Frames

VARIABLES sent,      \* in the order in which the writers took their turns
          received

FifoInit == sent = <<>> /\ received = <<>>

Send(f) == sent' = Append(sent, f) /\ UNCHANGED received

Receive == /\ Len(received) < Len(sent)
           /\ received' = Append(received, sent[Len(received) + 1])
           /\ UNCHANGED sent

FifoSpec == FifoInit /\ [][(\E f \in Frames : Send(f)) \/ Receive]_<<sent, received>>
=============================================================================
