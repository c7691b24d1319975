------------------------------- MODULE TklSpi -------------------------------
(***************************************************************************)
(* The SPI adapter (tkl_spi.c): one port, several callers.  A call holds   *)
(* sg_spi_lock throughout and is one step, with one exception: a one-sided *)
(* tkl_spi_transfer_with_length releases the lock before it calls          *)
(* tkl_spi_send or tkl_spi_recv.  Bytes are counted, not valued.           *)
(***************************************************************************)
EXTENDS Integers, FiniteSets

CONSTANTS
    SpiCallers,    \* threads
    Fds,        \* descriptors, numbers above 0
    SpiCfgs,       \* configurations: records [mode, databits, freq_hz]
    MaxSize     \* bound: bytes of one direction

ASSUME SpiAssumption == Fds \subseteq Nat /\ MaxSize \in Nat

VARIABLES
    spi_ctx,        \* sg_spi_ctx[port]: initialized, fd, last_count, cfg
    files,      \* descriptors open on the device -> the settings of the file
    pc,         \* caller -> what it does next, with the size it will pass
    used        \* history: file and settings of the last transfer, or its failure

spi == <<spi_ctx, files, pc, used>>

Idle == [at |-> "idle", size |-> 0, fd |-> 0]

NoFile == [mode |-> 0, bits |-> 0, speed |-> 0]

Zeroed == [initialized |-> FALSE, fd |-> 0, last_count |-> 0,
           cfg |-> [mode |-> 0, databits |-> "BIT8", freq_hz |-> 0]]

SpiInit ==
    /\ spi_ctx = Zeroed
    /\ files = [f \in {} |-> NoFile]
    /\ pc = [c \in SpiCallers |-> Idle]
    /\ used = [open |-> TRUE, settings |-> NoFile, wanted |-> NoFile]

prv_bits_to_linux(databits) == IF databits = "BIT16" THEN 16 ELSE 8

(* The settings prv_apply_cfg writes to the file, one ioctl each.          *)
prv_apply_cfg(cfg) ==
    [mode |-> cfg.mode, bits |-> prv_bits_to_linux(cfg.databits), speed |-> cfg.freq_hz]

(* open returns the lowest free descriptor.                                *)
Opens(f) == f \notin DOMAIN files /\ \A g \in Fds \ DOMAIN files : f <= g

With(f, settings) == [g \in DOMAIN files \cup {f} |-> IF g = f THEN settings ELSE files[g]]

Without(f) == [g \in DOMAIN files \ {f} |-> files[g]]

(* tkl_spi_init when the open or one of the three required ioctls fails:   *)
(* the descriptor is closed again.                                         *)
InitRefused == ~spi_ctx.initialized /\ UNCHANGED spi

tkl_spi_init(cfg) ==
    /\ ~spi_ctx.initialized            \* otherwise OPRT_OK, nothing done
    /\ \E f \in Fds :
          /\ Opens(f)
          /\ files' = With(f, prv_apply_cfg(cfg))
          /\ spi_ctx' = [initialized |-> TRUE, fd |-> f, last_count |-> 0, cfg |-> cfg]
    /\ UNCHANGED <<pc, used>>

tkl_spi_deinit ==
    /\ spi_ctx.initialized
    /\ files' = Without(spi_ctx.fd)
    /\ spi_ctx' = Zeroed
    /\ UNCHANGED <<pc, used>>

(* A transfer on descriptor f that relies on the given settings.           *)
Transfer(f, wanted) ==
    used' = [open |-> f \in DOMAIN files, wanted |-> wanted,
             settings |-> IF f \in DOMAIN files THEN files[f] ELSE NoFile]

(* tkl_spi_send and tkl_spi_recv: write and read use the file's settings.  *)
(* A closed port returns OPRT_COM_ERROR and changes nothing.               *)
SendOrRecv(size) ==
    IF ~spi_ctx.initialized THEN UNCHANGED <<spi_ctx, used>>
    ELSE /\ \E n \in 0..size : spi_ctx' = [spi_ctx EXCEPT !.last_count = n]   \* 0 on error
         /\ Transfer(spi_ctx.fd, prv_apply_cfg(spi_ctx.cfg))

tkl_spi_send_recv(c, size) ==
    /\ pc[c] = Idle
    /\ SendOrRecv(size)
    /\ UNCHANGED <<files, pc>>

(* A full duplex message, and a two part message, with the settings of     *)
(* ctx->cfg; last_count is 0 when the ioctl fails.                         *)
Message(c, bytes) ==
    /\ pc[c] = Idle /\ spi_ctx.initialized
    /\ Transfer(spi_ctx.fd, prv_apply_cfg(spi_ctx.cfg))
    /\ \E n \in {0, bytes} : spi_ctx' = [spi_ctx EXCEPT !.last_count = n]
    /\ UNCHANGED <<files, pc>>

tkl_spi_transfer(c, length) == Message(c, length)

(* tkl_spi_transfer_with_length under its own lock: both sides, neither,   *)
(* or one, in which case the work is still to do after the unlock.         *)
tkl_spi_transfer_with_length(c, send_len, receive_len) ==
    \/ send_len > 0 /\ receive_len > 0 /\ Message(c, send_len + receive_len)
    \/ /\ send_len = 0 \/ receive_len = 0
       /\ pc[c] = Idle /\ spi_ctx.initialized
       /\ spi_ctx' = [spi_ctx EXCEPT !.last_count = 0]
       /\ pc' = [pc EXCEPT ![c] =
             IF send_len + receive_len = 0 THEN Idle
             ELSE [at |-> "one_sided", size |-> send_len + receive_len, fd |-> spi_ctx.fd]]
       /\ UNCHANGED <<files, used>>

OneSidedSavedFd(c) ==
    /\ pc[c].at = "one_sided"
    /\ used' = [used EXCEPT !.open = pc[c].fd \in DOMAIN files]
    /\ pc' = [pc EXCEPT ![c] = Idle]
    /\ UNCHANGED <<spi_ctx, files>>

(* The tkl_spi_send or tkl_spi_recv it then calls takes the lock again and *)
(* checks the port again.                                                  *)
OneSided(c) ==
    /\ pc[c].at = "one_sided"
    /\ SendOrRecv(pc[c].size)
    /\ pc' = [pc EXCEPT ![c] = Idle]
    /\ UNCHANGED files

SpiNext ==
    \/ InitRefused
    \/ \E cfg \in SpiCfgs : tkl_spi_init(cfg)
    \/ tkl_spi_deinit
    \/ \E c \in SpiCallers :
          \/ OneSided(c)
          \/ \E m, n \in 0..MaxSize :
                \/ m > 0 /\ tkl_spi_send_recv(c, m)
                \/ m > 0 /\ tkl_spi_transfer(c, m)
                \/ tkl_spi_transfer_with_length(c, m, n)

SpiSpec == SpiInit /\ [][SpiNext]_spi

-----------------------------------------------------------------------------
(* The port is initialized exactly when the adapter holds one open file,   *)
(* its own: an init that fails half-way leaves no descriptor behind.       *)
SpiTypeOK ==
    /\ spi_ctx.last_count \in 0..(2 * MaxSize)
    /\ DOMAIN files = IF spi_ctx.initialized THEN {spi_ctx.fd} ELSE {}

(* No transfer is issued on a descriptor that was closed, also not by a    *)
(* one-sided transfer_with_length that released the lock half-way.         *)
UsesOpenFile == used.open

(* Every transfer asks for the word size and speed its file was set to:    *)
(* ctx->cfg and the file never disagree, whoever called init last.         *)
SettingsAgree == used.settings = used.wanted

(* What is closed is not used: a transfer uses the port's own open file,   *)
(* with the settings of that file.                                         *)
ClosedFileUnused == SpiTypeOK /\ UsesOpenFile /\ SettingsAgree
=============================================================================
