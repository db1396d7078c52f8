------------------------------- MODULE EthIf -------------------------------
(***************************************************************************)
(* The network interface: reception (EthRx) and transmission (EthTx) meet  *)
(* in tcpip_thread, which answers the frames it processes and, while       *)
(* low_level_output waits for a descriptor, neither takes frames from its  *)
(* mailbox nor, having the higher priority, lets ethernetif_input run.     *)
(*                                                                         *)
(* Source: Lib/LWIP/src/arch/ethernetif.c.                                 *)
(***************************************************************************)
EXTENDS EthRx, EthTx

ifVars == <<vars, txVars>>

IfInit == Init /\ TxInit

\* ethernetif_input runs when tcpip_thread is blocked, or in any order.
IfTask == Task /\ (byPriority => txpc = "idle") /\ UNCHANGED txVars

\* tcpip_thread between two calls of low_level_output.
IfThread == TcpipThread /\ txpc = "idle" /\ UNCHANGED txVars

\* It calls low_level_output, for an answer or on a timer.
IfOutput == isr = "off" /\ Output /\ UNCHANGED vars

IfLowLevelOutput == isr = "off" /\ LowLevelOutput /\ UNCHANGED vars

IfNext ==
    \/ (Dma \/ Irq \/ AppRead) /\ UNCHANGED txVars
    \/ IfTask \/ IfThread \/ IfOutput \/ IfLowLevelOutput
    \/ TxDma /\ UNCHANGED vars

IfSpec == IfInit /\ [][IfNext]_ifVars

\* As for EthRx; and the transmit DMA sends (there is a link).
IfFairSpec ==
    /\ IfSpec
    /\ WF_ifVars(Irq /\ UNCHANGED txVars) /\ WF_ifVars(IfTask)
    /\ WF_ifVars(IfThread \/ IfLowLevelOutput)
    /\ WF_ifVars(AppRead /\ UNCHANGED txVars)
    /\ WF_ifVars(TxDma /\ UNCHANGED vars)

\* The state keeps its types.
IfTypeOK == TypeOK /\ TxTypeOK
=============================================================================
