------------------------------ MODULE TklUart -------------------------------
(***************************************************************************)
(* The UART adapter (tkl_uart.c): per port a descriptor, a receive thread  *)
(* and the application's callback.  The default build opens a tty for each *)
(* port; with TKL_UART_REDIRECT_LOG_TO_STDOUT port 0 is the console and    *)
(* port 1 a UDP socket.  No lock protects s_uart_dev: the steps are those  *)
(* of the receive threads and of the one application thread that opens and *)
(* closes the ports.                                                       *)
(*                                                                         *)
(* Bytes are numbered per session of a port.  The application's callback   *)
(* reads once from the port it is called for, and it registers a callback  *)
(* but never removes it.                                                   *)
(***************************************************************************)
EXTENDS Integers, Sequences

CONSTANTS
    Ports,       \* ports in use, a subset of 0..2
    Redirect,    \* TKL_UART_REDIRECT_LOG_TO_STDOUT
    MaxBytes     \* bound: bytes received in a session of a port

ASSUME UartAssumption ==
    Ports \subseteq 0..2 /\ Redirect \in BOOLEAN /\ (Redirect => Ports \subseteq {0, 1})

VARIABLES
    inited,      \* port -> between a successful init and its deinit
    open,        \* port -> its descriptor is open
    rx_cb,       \* port -> a callback is registered
    thread,      \* port -> receive thread: where it is, bytes still to hand over
    readchar,    \* port -> uart_dev->readchar, 0 before the first byte
    joining,     \* the port the application's deinit waits for, -1 for none
    line,        \* external: port -> chunks or datagrams not yet read
    sent,        \* history: port -> bytes that arrived in this session
    got          \* history: port -> bytes the application read from it

uart == <<inited, open, rx_cb, thread, readchar, joining, line, sent, got>>

Kind(p) ==
    IF ~Redirect THEN "tty" ELSE IF p = 0 THEN "stdin" ELSE "udp"

NoThread == [at |-> "none", buf |-> <<>>]

UartInit ==
    /\ inited = [p \in Ports |-> FALSE] /\ open = inited /\ rx_cb = inited
    /\ thread = [p \in Ports |-> NoThread]
    /\ readchar = [p \in Ports |-> 0]
    /\ joining = -1
    /\ line = [p \in Ports |-> <<>>]
    /\ sent = [p \in Ports |-> 0]
    /\ got = [p \in Ports |-> <<>>]

(* One or two more bytes reach an open port, as one chunk.                 *)
Arrive(p) ==
    /\ open[p]
    /\ \E n \in 1..2 :
          /\ sent[p] + n <= MaxBytes
          /\ sent' = [sent EXCEPT ![p] = @ + n]
          /\ line' = [line EXCEPT ![p] = Append(@, [i \in 1..n |-> sent[p] + i])]
    /\ UNCHANGED <<inited, open, rx_cb, thread, readchar, joining, got>>

-----------------------------------------------------------------------------
(* tkl_uart_init; when the open or the configuration fails, nothing is     *)
(* changed.                                                                *)
tkl_uart_init(p) ==
    /\ joining = -1 /\ ~inited[p]
    /\ inited' = [inited EXCEPT ![p] = TRUE]
    /\ open' = [open EXCEPT ![p] = TRUE]
    /\ thread' = [thread EXCEPT ![p] = [at |-> "select", buf |-> <<>>]]
    /\ line' = [line EXCEPT ![p] = <<>>]
    /\ sent' = [sent EXCEPT ![p] = 0]
    /\ got' = [got EXCEPT ![p] = <<>>]
    /\ UNCHANGED <<rx_cb, readchar, joining>>

tkl_uart_rx_irq_cb_reg(p) ==
    /\ joining = -1
    /\ rx_cb' = [rx_cb EXCEPT ![p] = TRUE]
    /\ UNCHANGED <<inited, open, thread, readchar, joining, line, sent, got>>

Closed(p) ==
    /\ joining = -1 /\ inited[p]
    /\ open' = [open EXCEPT ![p] = FALSE]
    /\ inited' = [inited EXCEPT ![p] = FALSE]
    /\ line' = [line EXCEPT ![p] = <<>>]
    /\ UNCHANGED <<rx_cb, thread, readchar, sent, got>>

DeinitNoJoin(p) == Closed(p) /\ joining' = -1

(* tkl_uart_deinit closes the descriptor and cancels the thread, except    *)
(* that of the console port.                                               *)
tkl_uart_deinit(p) ==
    /\ Closed(p)
    /\ joining' = IF Kind(p) = "stdin" THEN -1 ELSE p

(* pthread_join returns once the thread has reached a cancellation point.  *)
DeinitJoin(p) ==
    /\ joining = p /\ thread[p].at = "ended"
    /\ thread' = [thread EXCEPT ![p] = NoThread]
    /\ joining' = -1
    /\ UNCHANGED <<inited, open, rx_cb, readchar, line, sent, got>>

-----------------------------------------------------------------------------
(* Steps of the receive threads.                                           *)

Goes(p, at) == thread' = [thread EXCEPT ![p].at = at]

(* select is where a cancelled thread ends.                                *)
Cancelled(p) ==
    /\ thread[p].at = "select" /\ joining = p
    /\ Goes(p, "ended")
    /\ UNCHANGED <<inited, open, rx_cb, readchar, joining, line, sent, got>>

(* select returns when there is data.  On a closed descriptor it fails,    *)
(* which is not looked at: the set is left as it was and counts as ready.  *)
Ready(p) == thread[p].at = "select" /\ (line[p] # <<>> \/ ~open[p])

IrqHandlerOnce(p) ==
    /\ Kind(p) # "udp" /\ Ready(p)
    /\ Goes(p, IF rx_cb[p] THEN "callback" ELSE "ended")
    /\ UNCHANGED <<inited, open, rx_cb, readchar, joining, line, sent, got>>

(* __irq_handler, __uart_irq_handler: without a callback the data stays.   *)
uart_irq_handler(p) ==
    /\ Kind(p) # "udp" /\ Ready(p)
    /\ Goes(p, IF rx_cb[p] THEN "callback" ELSE "select")
    /\ UNCHANGED <<inited, open, rx_cb, readchar, joining, line, sent, got>>

(* __udp_irq_handler receives one datagram into readbuff.                  *)
udp_irq_handler(p) ==
    /\ Kind(p) = "udp" /\ Ready(p)
    /\ IF line[p] = <<>> THEN UNCHANGED <<thread, line>>     \* recvfrom fails
       ELSE /\ thread' = [thread EXCEPT ![p] = [at |-> "bytes", buf |-> Head(line[p])]]
            /\ line' = [line EXCEPT ![p] = Tail(@)]
    /\ UNCHANGED <<inited, open, rx_cb, readchar, joining, sent, got>>

(* Its loop over the bytes: each becomes readchar, then the callback runs. *)
UdpByte(p) ==
    /\ thread[p].at = "bytes" /\ thread[p].buf # <<>>
    /\ readchar' = [readchar EXCEPT ![p] = Head(thread[p].buf)]
    /\ IF rx_cb[p] THEN Goes(p, "callback")
       ELSE thread' = [thread EXCEPT ![p].buf = Tail(@)]
    /\ UNCHANGED <<inited, open, rx_cb, joining, line, sent, got>>

UdpDone(p) ==
    /\ thread[p].at = "bytes" /\ thread[p].buf = <<>>
    /\ Goes(p, "select")
    /\ UNCHANGED <<inited, open, rx_cb, readchar, joining, line, sent, got>>

(* The port number the thread of port p passes to the callback.            *)
CallbackPort(p) == IF Kind(p) = "udp" THEN 1 ELSE 0

(* tkl_uart_read(q): a chunk of the tty or console, or the last UDP byte,  *)
(* however often it was read.                                              *)
tkl_uart_read(q) ==
    CASE Kind(q) = "udp" -> got' = [got EXCEPT ![q] = Append(@, readchar[q])] /\ UNCHANGED line
      [] Kind(q) # "udp" /\ open[q] /\ line[q] # <<>> ->
            /\ got' = [got EXCEPT ![q] = @ \o Head(line[q])]
            /\ line' = [line EXCEPT ![q] = Tail(@)]
      [] OTHER -> UNCHANGED <<got, line>>

Callback(p) ==
    /\ thread[p].at = "callback"
    /\ IF CallbackPort(p) \in Ports THEN tkl_uart_read(CallbackPort(p))
       ELSE UNCHANGED <<got, line>>
    /\ thread' = [thread EXCEPT ![p] =
          IF Kind(p) = "udp" THEN [at |-> "bytes", buf |-> Tail(@.buf)]
          ELSE [at |-> "select", buf |-> <<>>]]
    /\ UNCHANGED <<inited, open, rx_cb, readchar, joining, sent>>

Thread(p) ==
    \/ Cancelled(p)
    \/ uart_irq_handler(p)
    \/ udp_irq_handler(p)
    \/ UdpByte(p)
    \/ UdpDone(p)
    \/ Callback(p)

(* The ports the application opens.  Not the console, whose thread goes on *)
(* after tkl_uart_deinit.                                                  *)
Opened == {p \in Ports : Kind(p) # "stdin"}

UartNext ==
    \E p \in Opened :
        \/ Arrive(p)
        \/ tkl_uart_init(p)
        \/ tkl_uart_rx_irq_cb_reg(p)
        \/ tkl_uart_deinit(p)
        \/ DeinitJoin(p)
        \/ Thread(p)

UartSpec == UartInit /\ [][UartNext]_uart

-----------------------------------------------------------------------------
(* Where the threads can be and what they can hold; a port in use has its  *)
(* thread, and the thread being joined is that of a closed port.           *)
UartTypeOK ==
    /\ joining \in Ports \cup {-1}
    /\ joining # -1 => ~inited[joining] /\ thread[joining].at # "none"
    /\ \A p \in Ports :
          /\ inited[p] => open[p] /\ thread[p].at # "none"
          /\ thread[p].at \in {"none", "select", "bytes", "callback", "ended"}

(* Once tkl_uart_deinit of a port has returned, its thread is gone and the *)
(* callback is not called again.                                           *)
NoThreadAfterDeinit ==
    \A p \in Ports : ~inited[p] /\ joining # p => thread[p].at = "none"

(* The application never reads a byte twice, or a later one before an      *)
(* earlier one, although UDP bytes pass one by one through readchar.       *)
NoByteTwice ==
    \A p \in Ports : \A i, j \in 1..Len(got[p]) : i < j => got[p][i] < got[p][j]

Due(n) == inited[0] /\ rx_cb[0] /\ sent[0] >= n
Delivered(n) == ~inited[0] \/ Len(got[0]) >= n

(* With a callback registered every byte that reaches port 0 is read,      *)
(* unless the port is closed, also one that came before the registration.  *)
EveryByteRead ==
    \A n \in 1..MaxBytes : Due(n) ~> Delivered(n)

(* What is closed is not used: tkl_uart_deinit ends the receive thread of  *)
(* a tty or UDP port, and no byte is read twice or out of order.           *)
ClosedPortUnused == UartTypeOK /\ NoThreadAfterDeinit /\ NoByteTwice
=============================================================================
