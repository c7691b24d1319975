-------------------------------- MODULE TklKws --------------------------------
(***************************************************************************)
(* Keyword spotting, tuyaos_adapter/src/tkl_audio/tkl_kws.c: the audio     *)
(* driver's thread writes microphone data into a ring and a task reads     *)
(* chunks from it, without a lock.  The calls of tuya_ringbuf.c are        *)
(* therefore split at every store to in and out, a memcpy going with the   *)
(* store after it, and stores are seen in program order.  The task is      *)
(* started and released through tkl_thread.c.                              *)
(*                                                                         *)
(* Cells of the ring are numbered consecutively as they are written; ring, *)
(* chunk and the length of one driver call are counted in cells.           *)
(***************************************************************************)
EXTENDS TuyaRingbuf

CONSTANTS KWS_RING_BUFF_LEN,
          MODEL_CHUNK_SIZE,
          Frames,              \* lengths of a driver call
          SleepOutlastsWrite   \* processing a chunk and the sleep after it
                               \* last longer than a ring write

ASSUME KwsAssumption ==
    /\ KWS_RING_BUFF_LEN \in Nat \ {0} /\ MODEL_CHUNK_SIZE \in Nat \ {0}
    /\ Frames \subseteq Nat \ {0}
    /\ Bytes = 0..(KWS_RING_BUFF_LEN + 1)

VARIABLES module,     \* g_kws_ctx.module: "null" or "up"
          kws_thread, \* g_kws_ctx.kws_thread: "null", "held" or "freed"
          feed,       \* __tkl_kws_process is registered with the driver
          writer,     \* step of the driver's call
          wlen,       \* its cells not yet written
          task,       \* step of the task
          rlen,       \* cells of the read not yet copied
          cell,       \* number of the next cell
          queue       \* history: cells written and not yet read

ctx == <<module, kws_thread, feed>>
kwsvars == <<in, out, len, buff, xfer, ctx, writer, wlen, task, rlen, cell, queue>>

(* Cells are numbered from 0 and start again after two more than the ring  *)
(* holds, so that those in the ring and the next two all differ.           *)
Numbered(c) == IF c < KWS_RING_BUFF_LEN + 2 THEN c ELSE c - (KWS_RING_BUFF_LEN + 2)
NextCell(c) == Numbered(c + 1)
CellsFrom(c, n) == [k \in 1..n |-> Numbered(c + k - 1)]

KwsInit ==
    /\ Init
    /\ module = "null" /\ kws_thread = "null" /\ feed = FALSE
    /\ writer = "idle" /\ wlen = 0 /\ task = "none" /\ rlen = 0
    /\ cell = 0 /\ queue = <<>>

(* The process ends: no thread takes another step. *)
Crash == task' = "crashed" /\ writer' = "idle" /\ feed' = FALSE

-------------------------------------------------------------------------------
(* tkl_kws_init, while no task exists.  A model that cannot be created     *)
(* leaves the module pointer set; a callback that cannot be set runs       *)
(* tkl_kws_deinit; a thread that cannot be created goes unnoticed.         *)
tkl_kws_init ==
    /\ task = "none" /\ ~feed
    /\ len' = KWS_RING_BUFF_LEN /\ in' = 0 /\ out' = 0
    /\ buff' = [i \in 0..(KWS_RING_BUFF_LEN - 1) |-> 0]
    /\ \/ module' \in {"up", "null"} /\ UNCHANGED <<kws_thread, task, feed>>
       \/ /\ module' = "up" /\ feed' = TRUE
          /\ \/ kws_thread' = "held" /\ task' = "wrap"
             \/ UNCHANGED <<kws_thread, task>>
    /\ UNCHANGED <<xfer, writer, wlen, rlen, cell, queue>>

(* Frees the thread handle as if it were the ring and then releases it:    *)
(* the second free may end the process.  Ring, callback and task stay.     *)
tkl_kws_deinit ==
    /\ module # "null" /\ task # "crashed"
    /\ module' = "null"
    /\ IF kws_thread = "null" THEN UNCHANGED <<kws_thread, feed, writer, task>>
       ELSE /\ kws_thread' = "freed"
            /\ Crash \/ UNCHANGED <<feed, writer, task>>
    /\ UNCHANGED <<in, out, len, buff, xfer, wlen, rlen, cell, queue>>

-------------------------------------------------------------------------------
(* __tkl_kws_process, in the driver's thread.  Data that does not fit is   *)
(* dropped.                                                                *)
tkl_kws_process(n) ==
    /\ feed /\ writer = "idle" /\ module # "null"
    /\ tuya_ring_buff_free_size_get >= n
    /\ writer' = "write" /\ wlen' = n
    /\ UNCHANGED <<in, out, len, buff, xfer, ctx, task, rlen, cell, queue>>

(* tuya_ring_buff_write up to in += tmp_len. *)
WriteLinear ==
    LET n == GET_MIN(tuya_ring_buff_free_size_get, wlen)
        tmp_len == GET_MIN(len - in, n)
    IN
    /\ writer = "write"
    /\ buff' = [i \in DOMAIN buff |->
                  IF in <= i /\ i < in + tmp_len
                  THEN CellsFrom(cell, n)[i - in + 1] ELSE buff[i]]
    /\ in' = in + tmp_len /\ wlen' = n - tmp_len
    /\ cell' = Numbered(cell + tmp_len)
    /\ queue' = queue \o CellsFrom(cell, tmp_len)
    /\ writer' = IF n > tmp_len THEN "rest" ELSE "wrap"
    /\ UNCHANGED <<out, len, xfer, ctx, task, rlen>>

(* tuya_ring_buff_write: the rest at the beginning of the buffer. *)
WriteRest ==
    /\ writer = "rest"
    /\ buff' = [i \in DOMAIN buff |->
                  IF i < wlen THEN CellsFrom(cell, wlen)[i + 1] ELSE buff[i]]
    /\ in' = wlen /\ wlen' = 0
    /\ cell' = Numbered(cell + wlen)
    /\ queue' = queue \o CellsFrom(cell, wlen)
    /\ writer' = "wrap"
    /\ UNCHANGED <<out, len, xfer, ctx, task, rlen>>

(* tuya_ring_buff_write: the loopback check. *)
WriteWrap ==
    /\ writer = "wrap"
    /\ in' = IF in >= len THEN 0 ELSE in
    /\ writer' = "idle"
    /\ UNCHANGED <<out, len, buff, xfer, ctx, wlen, task, rlen, cell, queue>>

-------------------------------------------------------------------------------
(* _tkl_thread_wrap_func reads the thread data, which tkl_thread_release   *)
(* may have freed already.                                                 *)
tkl_thread_wrap_func ==
    /\ task = "wrap"
    /\ \/ task' = "check" /\ UNCHANGED <<feed, writer>>
       \/ kws_thread = "freed" /\ Crash
    /\ UNCHANGED <<in, out, len, buff, xfer, module, kws_thread, wlen, rlen, cell, queue>>

TaskCheckStrict ==
    /\ task = "check"
    /\ tuya_ring_buff_used_size_get > MODEL_CHUNK_SIZE
    /\ task' = "read"
    /\ UNCHANGED <<in, out, len, buff, xfer, ctx, writer, wlen, rlen, cell, queue>>

TaskCheckAny ==
    /\ task = "check"
    /\ tuya_ring_buff_used_size_get > 0
    /\ task' = "read"
    /\ UNCHANGED <<in, out, len, buff, xfer, ctx, writer, wlen, rlen, cell, queue>>

(* __tkl_kws_task: there is a chunk and memory for it. *)
TaskCheck ==
    /\ task = "check"
    /\ tuya_ring_buff_used_size_get >= MODEL_CHUNK_SIZE
    /\ task' = "read"
    /\ UNCHANGED <<in, out, len, buff, xfer, ctx, writer, wlen, rlen, cell, queue>>

(* tuya_ring_buff_read up to out += tmp_len. *)
ReadLinear ==
    LET n == GET_MIN(tuya_ring_buff_used_size_get, MODEL_CHUNK_SIZE)
        tmp_len == GET_MIN(len - out, n)
    IN
    /\ task = "read"
    /\ xfer' = [k \in 1..tmp_len |-> buff[out + k - 1]]
    /\ out' = out + tmp_len /\ rlen' = n - tmp_len
    /\ queue' = SubSeq(queue, tmp_len + 1, Len(queue))
    /\ task' = IF n > tmp_len THEN "rest" ELSE "readWrap"
    /\ UNCHANGED <<in, len, buff, ctx, writer, wlen, cell>>

(* tuya_ring_buff_read: the overflow part. *)
ReadRest ==
    /\ task = "rest"
    /\ xfer' = xfer \o [k \in 1..rlen |-> buff[k - 1]]
    /\ out' = rlen /\ rlen' = 0
    /\ queue' = SubSeq(queue, rlen + 1, Len(queue))
    /\ task' = "readWrap"
    /\ UNCHANGED <<in, len, buff, ctx, writer, wlen, cell>>

(* tuya_ring_buff_read: the end-of-buffer check. *)
ReadWrap ==
    /\ task = "readWrap"
    /\ out' = IF out >= len THEN 0 ELSE out
    /\ task' = "process"
    /\ UNCHANGED <<in, len, buff, xfer, ctx, writer, wlen, rlen, cell, queue>>

(* module->process through a pointer that deinit clears, then the sleep.   *)
TaskProcess ==
    /\ task = "process"
    /\ IF module = "null" THEN Crash
       ELSE /\ SleepOutlastsWrite => writer \notin {"rest", "wrap"}
            /\ task' = "check" /\ UNCHANGED <<feed, writer>>
    /\ UNCHANGED <<in, out, len, buff, xfer, module, kws_thread, wlen, rlen, cell, queue>>

-------------------------------------------------------------------------------
Writing == WriteLinear \/ WriteRest \/ WriteWrap
Task ==
    \/ tkl_thread_wrap_func
    \/ TaskCheck \/ ReadLinear \/ ReadRest \/ ReadWrap \/ TaskProcess

KwsNext ==
    \/ tkl_kws_init \/ tkl_kws_deinit
    \/ \E n \in Frames : tkl_kws_process(n)
    \/ Writing \/ Task

KwsSpec == KwsInit /\ [][KwsNext]_kwsvars

-------------------------------------------------------------------------------
(* Properties *)

(* Type invariant; a position is past the end only inside a call. *)
KwsTypeOK ==
    /\ len \in {0, KWS_RING_BUFF_LEN} /\ in \in 0..len /\ out \in 0..len
    /\ module \in {"null", "up"} /\ kws_thread \in {"null", "held", "freed"}
    /\ feed \in BOOLEAN /\ writer \in {"idle", "write", "rest", "wrap"}
    /\ task \in {"none", "wrap", "check", "read", "rest", "readWrap",
                 "process", "crashed"}
    /\ in = len /\ len # 0 => writer \in {"rest", "wrap"} \/ task = "crashed"
    /\ out = len /\ len # 0 => task \in {"rest", "readWrap", "crashed"}
    /\ wlen \in Nat /\ rlen \in 0..MODEL_CHUNK_SIZE
    /\ cell \in Bytes /\ queue \in Seq(Bytes) /\ xfer \in Seq(Bytes)

(* The place of a position that may be past the end of the ring. *)
Place(p) == IF p < len THEN p ELSE p - len

(* While both sides are anywhere inside their calls, the unread cells lie  *)
(* in the ring from out to in, unharmed: the writer never reaches a cell   *)
(* the task has still to copy, although it sees out late.                  *)
UnreadKept ==
    len # 0 =>
        /\ Len(queue) < len
        /\ Place(in) = Place(out + Len(queue))
        /\ \A k \in 1..Len(queue) : buff[Place(out + k - 1)] = queue[k]

(* The module is given whole chunks of consecutive cells, whatever the     *)
(* writer was doing while the task looked and copied.                      *)
ChunkWhole ==
    task = "process" =>
        /\ Len(xfer) = MODEL_CHUNK_SIZE
        /\ \A k \in 1..(Len(xfer) - 1) : xfer[k + 1] = NextCell(xfer[k])
        /\ queue # <<>> => queue[1] = NextCell(xfer[Len(xfer)])

(* The task outlives tkl_kws_deinit, and its thread data and the module it *)
(* calls are released by then: the process ends in one of those uses only  *)
(* after a deinit.                                                         *)
CrashOnlyAfterDeinit ==
    task = "crashed" => module = "null" /\ kws_thread = "freed"

(* The keyword module is given whole chunks of consecutive cells, because  *)
(* the unread cells lie in its ring unharmed, and the task ends the        *)
(* process only after tkl_kws_deinit has released what the task uses.      *)
ChunksConsecutive == KwsTypeOK /\ UnreadKept /\ ChunkWhole /\ CrashOnlyAfterDeinit

(* Once a whole chunk waits in the ring, the task hands one to the module, *)
(* unless the module is destroyed.                                         *)
ChunkGetsProcessed ==
    (task = "check" /\ Len(queue) >= MODEL_CHUNK_SIZE)
        ~> (task = "process" \/ module = "null")
===============================================================================
