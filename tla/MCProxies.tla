----------------------------- MODULE MCProxies ------------------------------
(***************************************************************************)
(* One run for the proxies that share a modem between connection managers  *)
(* in another protocol than QMI. They are programs apart: which of them a  *)
(* behaviour is of is chosen at the beginning, and the variables are those *)
(* of that proxy, in its order.                                            *)
(***************************************************************************)
EXTENDS Integers, FiniteSets

CONSTANTS
  MbimClients, Slots, Tids, PipeKills, MaxNews,           \* of MbimProxy
  QrtrClients, Service, Ids, Byte, Ports, MaxRestarts,    \* of QrtrProxy
  MaxAsk, MaxFaults,                                      \* of both
  Fds, AtcAsk, AtcFaults                                  \* of AtcProxy

\* TransactionId has 24 bits, so that there is at least the number 1.
ASSUME MbimAssumption ==
  MbimClients \in Nat /\ Slots \in Nat /\ Tids \in Nat \ {0} /\ MaxNews \in Nat /\ MaxAsk \in Nat

\* Ids is 239, Byte 255 and Ports 4079 in quectel-qrtr-proxy.c.
ASSUME QrtrAssumption ==
  /\ QrtrClients \in Nat /\ IsFiniteSet(Service) /\ Service # {} /\ MaxRestarts \in Nat /\ MaxFaults \in Nat
  /\ Ids \in Nat /\ Byte \in Nat /\ Ports \in Nat /\ Ids <= Byte /\ Byte < Ports

ASSUME AtcAssumption == Fds \in Nat /\ AtcAsk \in Nat /\ AtcFaults \in Nat

VARIABLES
  proxy,   \* mbim, qrtr, atc
  v1, v2, v3, v4, v5, v6, v7, v8, v9, v10, v11, v12, v13, v14, v15, v16, v17,
  v18, v19

\* The variables that a part with n of them leaves, as unused.
After17 == <<v18, v19>>
After10 == <<v11, v12, v13, v14, v15, v16, v17, After17>>
Unused17 == v18 = 0 /\ v19 = 0
Unused10 == v11 = 0 /\ v12 = 0 /\ v13 = 0 /\ v14 = 0 /\ v15 = 0 /\ v16 = 0 /\ v17 = 0 /\ Unused17
mbim == <<v1, v2, v3, v4, v5, v6, v7, v8, v9, v10>>
qrtr == <<v1, v2, v3, v4, v5, v6, v7, v8, v9, v10, v11, v12, v13, v14, v15, v16, v17,
  v18, v19>>
atc == <<v1, v2, v3, v4, v5, v6, v7, v8, v9, v10, v11, v12, v13, v14, v15, v16, v17>>
vars == <<proxy, v1, v2, v3, v4, v5, v6, v7, v8, v9, v10, v11, v12, v13, v14, v15, v16, v17,
  v18, v19>>

Mbim == INSTANCE MbimProxy WITH
  Clients <- MbimClients,
  phase <- v1, slot <- v2, life <- v3, inbox <- v4, work <- v5,
  fromDev <- v6, ask <- v7, asked <- v8, taken <- v9, news <- v10
Qrtr == INSTANCE QrtrProxy WITH
  Clients <- QrtrClients,
  phase <- v1, life <- v2, open <- v3, holds <- v4, ids <- v5, ports <- v6,
  servers <- v7, toDev <- v8, fromDev <- v9, at <- v10, work <- v11,
  blocked <- v12, restarts <- v13, faults <- v14, inbox <- v15, ask <- v16,
  asked <- v17, mine <- v18, taken <- v19
Atc == INSTANCE AtcProxy WITH
  MaxAsk <- AtcAsk, MaxFaults <- AtcFaults,
  phase <- v1, backlog <- v2, conn <- v3, life <- v4, inbox <- v5,
  slots <- v6, width <- v7, round <- v8, current <- v9, call <- v10,
  toModem <- v11, fromDev <- v12, n <- v13, asking <- v14, owed <- v15,
  departed <- v16, faults <- v17

Init ==
  \/ proxy = "mbim" /\ Mbim!Init /\ Unused10
  \/ proxy = "qrtr" /\ Qrtr!Init
  \/ proxy = "atc" /\ Atc!Init /\ Unused17
Next ==
  \/ proxy = "mbim" /\ Mbim!Next /\ UNCHANGED <<proxy, After10>>
  \/ proxy = "qrtr" /\ Qrtr!Next /\ UNCHANGED proxy
  \/ proxy = "atc" /\ Atc!Next /\ UNCHANGED <<proxy, After17>>

\* The fairness that each module states, for the proxy that runs.
Fair ==
  /\ WF_mbim(proxy = "mbim" /\ Mbim!FromDev)
  /\ WF_mbim(proxy = "mbim" /\ Mbim!Work)
  /\ \A c \in Mbim!Client :
       WF_mbim(proxy = "mbim" /\ (Mbim!Read(c) \/ Mbim!Disconnect(c)))
  /\ WF_qrtr(proxy = "qrtr" /\ Qrtr!FromDev)
  /\ WF_qrtr(proxy = "qrtr" /\ Qrtr!Modem)
  /\ WF_qrtr(proxy = "qrtr" /\ Qrtr!Work)
  /\ \A c \in Qrtr!Client :
       WF_qrtr(proxy = "qrtr" /\ (Qrtr!Read(c) \/ Qrtr!Cleanup(c)))
  /\ WF_atc(proxy = "atc" /\ Atc!Loop)
  /\ WF_atc(proxy = "atc" /\ Atc!Line)
  /\ WF_atc(proxy = "atc" /\ Atc!Respond)
Spec == Init /\ [][Next]_vars
FairSpec == Spec /\ Fair

-----------------------------------------------------------------------------
(* The properties of the proxies, each for the one that runs.              *)

\* Type correctness of the state of quectel-mbim-proxy, quectel-qrtr-proxy and
\* quectel-atc-proxy.
TypeOK ==
  /\ proxy \in {"mbim", "qrtr", "atc"}
  /\ proxy = "mbim" => Mbim!TypeOK
  /\ proxy = "qrtr" => Qrtr!TypeOK
  /\ proxy = "atc" => Atc!TypeOK

\* handle_device_response() of the MBIM proxy never gives the answer of a
\* client that is there to another one.
MbimToHolder == proxy = "mbim" => Mbim!ToHolder

\* The QRTR proxy gives an answer to the holder of the port it was for; client
\* ids and ports have one holder, and the bitmaps say which are held.
QrtrToHolder == proxy = "qrtr" => Qrtr!ToHolder /\ Qrtr!OwnPort /\ Qrtr!Recorded

\* No command to the AT proxy is lost, nor its lines given to others alone, as
\* long as nobody leaves.
AtcInFlight == proxy = "atc" => Atc!InFlight

\* The modem does not wait for ever for the RESUME_TX of the QRTR proxy, as long
\* as that runs: SIGPIPE, of the write to a client that has closed its connection,
\* ends it before it sends one.
Flows ==
  \A p \in 1..Ports : (proxy = "qrtr" /\ Qrtr!Blocked(p)) ~> (proxy = "qrtr" => ~Qrtr!Blocked(p))

Waits(n) ==
  CASE proxy = "mbim" -> Mbim!Waits(1, n)
    [] proxy = "qrtr" -> Qrtr!Waits(1, n)
    [] proxy = "atc" -> Atc!Waits(1)
Served(n) ==
  CASE proxy = "mbim" -> Mbim!Served(1, n)
    [] proxy = "qrtr" -> Qrtr!Served(1, n)
    [] proxy = "atc" -> Atc!Served(1)

\* A request to a proxy is answered, whatever other clients do: for QRTR by the
\* server that the modem has, for AT as long as nobody leaves. It is that of
\* one client, for they are interchangeable (AT: of the first to connect).
Answered == \A n \in 1..MaxAsk : Waits(n) ~> Served(n)
=============================================================================
