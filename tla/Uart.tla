-------------------------------- MODULE Uart --------------------------------
(***************************************************************************)
(* The transmit side of the UART (UART.sv) as the two programs use it: the *)
(* register interface and the transmit FIFO, whose reading end is in the   *)
(* clock of the line.  The receiver, the error flags and the flush are     *)
(* left out; no program enables them.                                      *)
(***************************************************************************)
EXTENDS Naturals, Sequences

CONSTANTS
    TxDepth     \* bytes the transmit FIFO holds

ASSUME TxDepthAssumption == TxDepth \in Nat \ {0}

VARIABLES
    uart   \* [fifo, word: the word last written to (addrHreg)]

dFIFOtx_UART == 0
dCR_UART == 1
dDLL_UART == 9
dDLH_UART == 10
WordOf(offset) == offset \div 4

UartInit == uart = [fifo |-> <<>>, word |-> 0]

TxFull == Len(uart.fifo) = TxDepth

(* A write to a full FIFO is lost.                                         *)
UartWrite(offset, byte) ==
    uart' = [uart EXCEPT
        !.word = WordOf(offset),
        !.fifo = IF offset = dFIFOtx_UART /\ ~TxFull THEN Append(@, byte) ELSE @]

(* Reads are decoded with the address of the last write and no strobe: FCR *)
(* is seen in the lane of the first word only, any other word reads zero.  *)
ReadsTxFull == uart.word = 0 /\ TxFull

(* The line takes the oldest byte.                                         *)
Transmit == uart.fifo # <<>> /\ uart' = [uart EXCEPT !.fifo = Tail(@)]
=============================================================================
