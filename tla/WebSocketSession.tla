--------------------------- MODULE WebSocketSession ---------------------------
(***************************************************************************)
(* One WebSocket session after connectToUpstreamWebSocket has returned an  *)
(* open upstream connection: the rest of handleWebSocket (client upgrade,  *)
(* the deferred closes) and proxyWebSocketMessages (two pump goroutines    *)
(* and the buffered errChan the handler waits on).  Payloads are left      *)
(* out: a pump's read either yields a message or fails, and a peer may     *)
(* close its side at any moment.                                           *)
(***************************************************************************)
EXTENDS Naturals

CONSTANTS
    MaxMsgs   \* messages each peer sends at most

\* Bug variant of ErrChanCapacity: an unbuffered channel.
ErrChanUnbuffered == 0

\* Capacity of errChan: make(chan error, 2).
ErrChanCapacity == 2

Conns == {"client", "upstream"}

\* The pumps, named by their direction; each reads Src and writes Dst.
Pumps == {"c2u", "u2c"}
Src(p) == IF p = "c2u" THEN "client" ELSE "upstream"
Dst(p) == IF p = "c2u" THEN "upstream" ELSE "client"

VARIABLES
    open,       \* open[c]: connection c has neither failed nor been closed
    upgraded,   \* the client connection exists (Upgrade succeeded)
    hpc,        \* where the handler goroutine is
    pc,         \* pc[p]: where pump p is
    errChan,    \* number of errors buffered in errChan
    sent,       \* sent[c]: messages peer c has sent towards the proxy
    read,       \* read[p]: messages pump p has read from its source
    delivered   \* delivered[p]: messages pump p has written to its destination

wsVars == <<open, upgraded, hpc, pc, errChan, sent, read, delivered>>
msgVars == <<sent, read, delivered>>

TypeOK ==
    /\ open \in [Conns -> BOOLEAN]
    /\ upgraded \in BOOLEAN
    /\ hpc \in {"upgrade", "wait", "closeClient", "closeUpstream", "returned"}
    /\ pc \in [Pumps -> {"idle", "read", "write", "send", "done"}]
    /\ errChan \in 0..ErrChanCapacity
    /\ sent \in [Conns -> 0..MaxMsgs]
    /\ read \in [Pumps -> 0..MaxMsgs]
    /\ delivered \in [Pumps -> 0..MaxMsgs]

\* The upstream dial has succeeded; the client is not upgraded yet.
Init ==
    /\ open = [c \in Conns |-> c = "upstream"]
    /\ upgraded = FALSE
    /\ hpc = "upgrade"
    /\ pc = [p \in Pumps |-> "idle"]
    /\ errChan = 0
    /\ sent = [c \in Conns |-> 0]
    /\ read = [p \in Pumps |-> 0]
    /\ delivered = [p \in Pumps |-> 0]

\* lb.upgrader.Upgrade: on success start both pumps; on failure return,
\* and the deferred upstreamConn.Close runs.
Upgrade ==
    /\ hpc = "upgrade"
    /\ \/ /\ open' = [open EXCEPT !["client"] = TRUE]
          /\ upgraded' = TRUE
          /\ pc' = [p \in Pumps |-> "read"]
          /\ hpc' = "wait"
       \/ /\ open' = [open EXCEPT !["upstream"] = FALSE]
          /\ hpc' = "returned"
          /\ UNCHANGED <<upgraded, pc>>
    /\ UNCHANGED <<errChan, msgVars>>

\* An open peer sends one more message.
PeerSend(c) ==
    /\ open[c]
    /\ sent[c] < MaxMsgs
    /\ sent' = [sent EXCEPT ![c] = @ + 1]
    /\ UNCHANGED <<open, upgraded, hpc, pc, errChan, read, delivered>>

\* A peer closes its side, or the network fails it.
PeerClose(c) ==
    /\ open[c]
    /\ open' = [open EXCEPT ![c] = FALSE]
    /\ UNCHANGED <<upgraded, hpc, pc, errChan, msgVars>>

\* Bug variant of ReadMessage: an empty read is taken for a message.
ReadMessageUnsent(p) ==
    /\ pc[p] = "read"
    /\ open[Src(p)]
    /\ read' = [read EXCEPT ![p] = @ + 1]
    /\ pc' = [pc EXCEPT ![p] = "write"]
    /\ UNCHANGED <<open, upgraded, hpc, errChan, sent, delivered>>

\* ReadMessage returns the next message the source has sent.
ReadMessage(p) ==
    /\ pc[p] = "read"
    /\ open[Src(p)]
    /\ read[p] < sent[Src(p)]
    /\ read' = [read EXCEPT ![p] = @ + 1]
    /\ pc' = [pc EXCEPT ![p] = "write"]
    /\ UNCHANGED <<open, upgraded, hpc, errChan, sent, delivered>>

\* ReadMessage fails once the source is closed.
ReadError(p) ==
    /\ pc[p] = "read"
    /\ ~open[Src(p)]
    /\ pc' = [pc EXCEPT ![p] = "send"]
    /\ UNCHANGED <<open, upgraded, hpc, errChan, msgVars>>

\* Bug variant of WriteMessage: the message read is not written.
WriteMessageSkip(p) ==
    /\ pc[p] = "write"
    /\ pc' = [pc EXCEPT ![p] = IF open[Dst(p)] THEN "read" ELSE "send"]
    /\ UNCHANGED <<open, upgraded, hpc, errChan, msgVars>>

\* WriteMessage to the destination: loop on success, report on failure
\* (the message read is then lost).
WriteMessage(p) ==
    /\ pc[p] = "write"
    /\ IF open[Dst(p)]
         THEN /\ delivered' = [delivered EXCEPT ![p] = @ + 1]
              /\ pc' = [pc EXCEPT ![p] = "read"]
         ELSE /\ pc' = [pc EXCEPT ![p] = "send"]
              /\ UNCHANGED delivered
    /\ UNCHANGED <<open, upgraded, hpc, errChan, sent, read>>

\* errChan <- err; return.  Blocks while the channel is full.
SendError(p) ==
    /\ pc[p] = "send"
    /\ errChan < ErrChanCapacity
    /\ errChan' = errChan + 1
    /\ pc' = [pc EXCEPT ![p] = "done"]
    /\ UNCHANGED <<open, upgraded, hpc, msgVars>>

\* err := <-errChan in the handler.
ReceiveError ==
    /\ hpc = "wait"
    /\ errChan > 0
    /\ errChan' = errChan - 1
    /\ hpc' = "closeClient"
    /\ UNCHANGED <<open, upgraded, pc, msgVars>>

\* The handler returns: the deferred clientConn.Close, then the deferred
\* upstreamConn.Close (defers run last-in first-out).
CloseClient ==
    /\ hpc = "closeClient"
    /\ open' = [open EXCEPT !["client"] = FALSE]
    /\ hpc' = "closeUpstream"
    /\ UNCHANGED <<upgraded, pc, errChan, msgVars>>

CloseUpstream ==
    /\ hpc = "closeUpstream"
    /\ open' = [open EXCEPT !["upstream"] = FALSE]
    /\ hpc' = "returned"
    /\ UNCHANGED <<upgraded, pc, errChan, msgVars>>

\* The goroutine steps the code itself takes once they are enabled.
HandlerStep == Upgrade \/ ReceiveError \/ CloseClient \/ CloseUpstream
PumpStep(p) ==
    ReadMessage(p) \/ ReadError(p) \/ WriteMessage(p) \/ SendError(p)

Next ==
    \/ HandlerStep
    \/ \E p \in Pumps : PumpStep(p)
    \/ \E c \in Conns : PeerSend(c) \/ PeerClose(c)

Spec == Init /\ [][Next]_wsVars

\* Runnable goroutines run: weak fairness of the handler and of each
\* pump's own steps.  A peer is never forced to send or to close.
FairSpec ==
    /\ Spec
    /\ WF_wsVars(HandlerStep)
    /\ \A p \in Pumps : WF_wsVars(PumpStep(p))

-----------------------------------------------------------------------------
\* Once either connection fails or is closed, the session winds down
\* completely: the handler returns and neither pump goroutine is left
\* blocked on errChan (a leaked goroutine per session otherwise).
SessionTearsDown ==
    (hpc # "upgrade" /\ \E c \in Conns : ~open[c]) ~>
        (hpc = "returned" /\ \A p \in Pumps : pc[p] \in {"idle", "done"})

\* While both connections stay open, every message a peer sends is
\* eventually written to the other side by the pump of that direction:
\* neither pump stalls or drops a message of a healthy session.
MessagesForwarded ==
    \A p \in Pumps, k \in 1..MaxMsgs :
        (upgraded /\ sent[Src(p)] >= k) ~>
            (delivered[p] >= k \/ ~open[Src(p)] \/ ~open[Dst(p)])

=============================================================================
