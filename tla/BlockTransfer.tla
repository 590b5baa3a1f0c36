--------------------------- MODULE BlockTransfer ---------------------------
(***************************************************************************)
(* One source block on its way: a SourceBlockEncoder that keeps drawing    *)
(* packets, a channel that loses, duplicates and reorders them, and a      *)
(* SourceBlockDecoder that is handed one packet per call, as Decoder does. *)
(* The receiver sends nothing back, so the sender goes on whatever was     *)
(* decoded.                                                                *)
(***************************************************************************)
EXTENDS SourceBlockDecoder

CONSTANT MaxLost      \* bound on the packets that the channel loses

VARIABLES
  sent,       \* ids of the packets drawn from the encoder
  inFlight,   \* ids of the packets the channel may still deliver
  lost        \* ids of the packets it never will

channel == <<sent, inFlight, lost>>
transferVars == <<vars, channel>>

TransferInit == Init /\ sent = {} /\ inFlight = {} /\ lost = {}

\* SourceBlockEncoder::source_packets
SendSource ==
  /\ ~(SourceIds \subseteq sent)
  /\ sent' = sent \cup SourceIds
  /\ inFlight' = inFlight \cup SourceIds
  /\ UNCHANGED <<vars, lost>>

\* SourceBlockEncoder::repair_packets(start, 1) for the next unused start.
SendRepair ==
  LET start == Cardinality(sent \ SourceIds)
      esi == K + start
  IN  /\ start < MaxRepair
      /\ sent' = sent \cup {esi}
      /\ inFlight' = inFlight \cup {esi}
      /\ UNCHANGED <<vars, lost>>

Lose(esi) ==
  /\ esi \in inFlight
  /\ esi \notin received_esi
  /\ Cardinality(lost) < MaxLost
  /\ inFlight' = inFlight \ {esi}
  /\ lost' = lost \cup {esi}
  /\ UNCHANGED <<vars, sent>>

\* The packet stays in flight: it may be delivered again.
Deliver(esi) ==
  /\ esi \in inFlight
  /\ \E p \in Packets : p.esi = esi /\ Decode(<<p>>)
  /\ UNCHANGED channel

TransferNext ==
  \/ SendSource
  \/ SendRepair
  \/ \E esi \in EncodingIds : Lose(esi) \/ Deliver(esi)

\* The sender goes on drawing packets, and the channel delivers every packet
\* that it does not lose.  Nothing obliges it to lose any.
Fairness ==
  /\ WF_transferVars(SendSource)
  /\ WF_transferVars(SendRepair)
  /\ \A esi \in EncodingIds : WF_transferVars(esi \notin received_esi /\ Deliver(esi))

TransferSpec == TransferInit /\ [][TransferNext]_transferVars /\ Fairness

-----------------------------------------------------------------------------
\* If the packets that are not lost suffice to recover the block, the decoder
\* returns it in the end, and goes on returning it.
EventuallyDecoded ==
  [](Recoverable(block, EncodingIds \ lost)) => <>[](result = block)
=============================================================================
