------------------------------- MODULE TklI2c -------------------------------
(***************************************************************************)
(* The I2C adapter (tkl_i2c.c): one port shared by several callers.  Every *)
(* call holds sg_i2c_lock from its first read of the context to its last   *)
(* write, so a call is one step.  A master_send with xfer_pending does not *)
(* touch the bus: it is kept in the context and goes out as the first half *)
(* of a later master_receive.                                              *)
(*                                                                         *)
(* A message is the number of the master_send call that carries it.        *)
(***************************************************************************)
EXTENDS Integers, Sequences

CONSTANTS
    Callers,       \* threads that use the port
    Addrs,         \* device addresses, nonzero numbers
    PENDING_MAX,   \* sizeof(ctx->pending_buf)
    MaxTransfer,   \* bound: bytes of a transfer
    MaxCalls       \* bound: send and receive calls

ASSUME I2cAssumption ==
    PENDING_MAX \in Nat /\ MaxTransfer \in Nat /\ MaxCalls \in Nat

VARIABLES
    initialized,   \* ctx->initialized, with an open ctx->fd
    slave,         \* the address I2C_SLAVE gave the file, 0 for none
    pending,       \* ctx->pending_*, with the message they hold
    last_count,    \* ctx->last_count
    wire,          \* history: the transactions the bus carried out
    calls,         \* history: number of send and receive calls made
    counted,       \* history: message -> data count after its send
    owed           \* history: caller -> its pending send, if that was the
                   \* last call on the port

i2c == <<initialized, slave, pending, last_count, wire, calls, counted, owed>>

Nothing == [msg |-> 0, addr |-> 0]

NoPending == [valid |-> FALSE, addr |-> 0, len |-> 0, msg |-> 0]

I2cInit ==
    /\ initialized = FALSE /\ slave = 0 /\ pending = NoPending
    /\ last_count = 0 /\ wire = <<>> /\ calls = 0
    /\ counted = [m \in 1..MaxCalls |-> 0]
    /\ owed = [c \in Callers |-> Nothing]

tkl_i2c_init ==
    /\ ~initialized                 \* otherwise OPRT_OK, nothing done
    /\ initialized' = TRUE /\ slave' = 0
    /\ pending' = NoPending /\ last_count' = 0
    /\ UNCHANGED <<wire, calls, counted, owed>>

(* Closing the port, like any other call, cancels what a caller may expect *)
(* of its pending send.                                                    *)
tkl_i2c_deinit ==
    /\ initialized
    /\ initialized' = FALSE /\ slave' = 0
    /\ pending' = NoPending /\ last_count' = 0
    /\ owed' = [c \in Callers |-> Nothing]
    /\ UNCHANGED <<wire, calls, counted>>

(* prv_set_slave: an address another driver holds is refused.              *)
prv_set_slave(a, ok) == slave' = IF ok THEN a ELSE slave

(* A transaction with device `to`, made for a call of c that named `for`.  *)
OnWire(c, op, to, for, msg, len) ==
    wire' = Append(wire,
        [by |-> c, op |-> op, to |-> to, for |-> for, msg |-> msg, len |-> len,
         owed |-> IF owed[c].addr = for THEN owed[c].msg ELSE 0])

Called(c, remembered) ==
    /\ calls < MaxCalls /\ initialized
    /\ calls' = calls + 1
    /\ owed' = [d \in Callers |-> IF d = c THEN remembered ELSE Nothing]
    /\ UNCHANGED initialized

(* master_send of no bytes: the address is probed with an SMBus quick.     *)
Probe(c, a) ==
    /\ Called(c, Nothing)
    /\ last_count' = 0
    /\ \E ok \in BOOLEAN :
          /\ prv_set_slave(a, ok)
          /\ \/ ok /\ OnWire(c, "probe", a, a, 0, 0)
             \/ UNCHANGED wire
    /\ UNCHANGED <<pending, counted>>

KeptLen(size) == IF size > PENDING_MAX THEN PENDING_MAX ELSE size

(* master_send with xfer_pending: at most PENDING_MAX bytes are kept, in   *)
(* place of whatever was pending.                                          *)
SendPending(c, a, size) ==
    /\ Called(c, [msg |-> calls + 1, addr |-> a])
    /\ pending' = [valid |-> TRUE, addr |-> a, len |-> KeptLen(size), msg |-> calls + 1]
    /\ last_count' = KeptLen(size)
    /\ counted' = [counted EXCEPT ![calls + 1] = last_count']
    /\ UNCHANGED <<slave, wire>>

(* master_send without xfer_pending; the kernel may take fewer bytes.      *)
SendNow(c, a, size) ==
    /\ Called(c, Nothing)
    /\ \E ok \in BOOLEAN :
          /\ prv_set_slave(a, ok)
          /\ \/ /\ ok
                /\ \E wr \in 0..size :
                      /\ OnWire(c, "write", slave', a, calls + 1, wr)
                      /\ last_count' = wr
             \/ last_count' = 0 /\ UNCHANGED wire
    /\ counted' = [counted EXCEPT ![calls + 1] = last_count']
    /\ UNCHANGED pending

(* master_receive when the pending write is for this device: I2C_RDWR      *)
(* writes it and reads.  It is no longer pending, also when that fails.    *)
ReceiveKeepsPending(c, a, size) ==
    /\ Called(c, Nothing)
    /\ pending.valid /\ pending.addr = a
    /\ \/ /\ OnWire(c, "rdwr", a, a, pending.msg, pending.len)
          /\ last_count' = size
       \/ last_count' = 0 /\ UNCHANGED wire
    /\ UNCHANGED <<pending, slave, counted>>

ReceiveCombined(c, a, size) ==
    /\ Called(c, Nothing)
    /\ pending.valid /\ pending.addr = a
    /\ pending' = [pending EXCEPT !.valid = FALSE, !.len = 0]
    /\ \/ /\ OnWire(c, "rdwr", a, a, pending.msg, pending.len)
          /\ last_count' = size
       \/ last_count' = 0 /\ UNCHANGED wire
    /\ UNCHANGED <<slave, counted>>

(* master_receive otherwise; a write pending for another device stays.     *)
ReceivePlain(c, a, size) ==
    /\ Called(c, Nothing)
    /\ ~(pending.valid /\ pending.addr = a)
    /\ \E ok \in BOOLEAN :
          /\ prv_set_slave(a, ok)
          /\ \/ /\ ok
                /\ \E rd \in 0..size :
                      OnWire(c, "read", slave', a, 0, rd) /\ last_count' = rd
             \/ last_count' = 0 /\ UNCHANGED wire
    /\ UNCHANGED <<pending, counted>>

I2cNext ==
    \/ tkl_i2c_init
    \/ tkl_i2c_deinit
    \/ \E c \in Callers, a \in Addrs :
          \/ Probe(c, a)
          \/ \E size \in 1..MaxTransfer :
                \/ SendPending(c, a, size)
                \/ SendNow(c, a, size)
                \/ ReceiveCombined(c, a, size)
                \/ ReceivePlain(c, a, size)

I2cSpec == I2cInit /\ [][I2cNext]_i2c

-----------------------------------------------------------------------------
(* The pending write fits its buffer and the count fits a transfer.        *)
I2cTypeOK ==
    /\ initialized \in BOOLEAN
    /\ slave \in Addrs \cup {0}
    /\ pending \in [valid : BOOLEAN, addr : Addrs \cup {0},
                    len : 0..PENDING_MAX, msg : 0..MaxCalls]
    /\ last_count \in 0..MaxTransfer
    /\ calls \in 0..MaxCalls

(* No master_send reaches the bus twice: the receive that carries a        *)
(* pending write out also forgets it, whoever calls next.                  *)
SentAtMostOnce ==
    \A i, j \in 1..Len(wire) :
        wire[i].msg # 0 /\ wire[i].msg = wire[j].msg => i = j

(* The data count reported right after a master_send is the number of its  *)
(* bytes that go on the bus, also when they go later, as part of a receive,*)
(* and when the pending buffer cut the message short.                      *)
CountedBytesAreSent ==
    \A i \in 1..Len(wire) :
        wire[i].msg # 0 => wire[i].len = counted[wire[i].msg]

(* Callers that address different devices through the one file of the port *)
(* each reach their own: the address is set again before every transfer.   *)
ReachesOwnDevice ==
    \A i \in 1..Len(wire) : wire[i].to = wire[i].for

(* "Defer to the subsequent receive() to perform a combined I2C_RDWR       *)
(* transaction": a caller whose pending send to a device was the last call *)
(* on the port and that now reads this device gets a combined transaction  *)
(* with its own write, and so the register it asked for.                   *)
RegisterReadCombined ==
    \A i \in 1..Len(wire) :
        wire[i].op \in {"read", "rdwr"} /\ wire[i].owed # 0
            => wire[i].msg = wire[i].owed

(* An I2C message reaches the bus at most once and at the device its       *)
(* caller named, the data count of a send is what goes on the bus, and a   *)
(* pending write goes out with the receive that follows it.                *)
PendingWritePaired ==
    /\ I2cTypeOK /\ SentAtMostOnce /\ CountedBytesAreSent
    /\ ReachesOwnDevice /\ RegisterReadCombined
=============================================================================
