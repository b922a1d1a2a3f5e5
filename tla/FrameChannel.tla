------------------------------ MODULE FrameChannel ------------------------------
(***************************************************************************)
(* What on_nus may rely on: of the frames the lock sends, some are handled, *)
(* each at most once, whole, and in the order they were sent.              *)
(***************************************************************************)
EXTENDS Naturals, Sequences, SequencesExt

CONSTANT Kinds

VARIABLES
    sent,       \* the kinds of the frames sent so far; a frame is its index
    handled     \* the frames passed on

channelVars == <<sent, handled>>

ChannelInit == sent = <<>> /\ handled = <<>>

Send == \E kind \in Kinds : sent' = Append(sent, kind) /\ UNCHANGED handled

Handle ==
    \E n \in DOMAIN sent :
        /\ \A i \in DOMAIN handled : handled[i] < n
        /\ handled' = Append(handled, n)
        /\ UNCHANGED sent

ChannelSpec == ChannelInit /\ [][Send \/ Handle]_channelVars
===============================================================================
