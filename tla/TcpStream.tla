----------------------------- MODULE TcpStream -----------------------------
(***************************************************************************)
(* One TCP connection of runtime/libuv: accepted by a server (TCPListen)   *)
(* or made by a TCPClient (ConnectAsync), then read, written and closed    *)
(* (tcp.calc, tcpclient.calc), with its receive buffer (buf.calc) and the  *)
(* connect request a client allocates outside the collector (uvutil.c). A  *)
(* coroutine issues the operations and awaits each; the loop thread runs   *)
(* their jobs and libuv's callbacks.  Everything that touches the buffer   *)
(* runs on the loop thread, one job or callback at a time; the coroutine   *)
(* runs on a worker and reads the bytes it was given at any later moment.  *)
(*                                                                         *)
(* The peer sends the bytes 1, 2, .., Bytes and then closes.  Memory is a  *)
(* sequence of blocks; a pointer is a block and an offset into it.         *)
(***************************************************************************)
EXTENDS Integers, Sequences

CONSTANTS
    Bytes,      \* how many bytes the peer sends
    Lens,       \* the lengths reads ask for
    Suggested,  \* suggested_size of libuv's alloc callback
    MaxOps,     \* bound: operations the coroutine issues
    MaxEmpty,   \* bound: read callbacks with nread = 0
    NoData      \* the data field of a handle without a Buffer

Pointer == [blk : Nat, off : Nat]
Buffer == [max : Nat, buf : Pointer, len : Nat, explen : Nat, task : Nat]

ASSUME TcpAssumption ==
    /\ {Bytes, Suggested, MaxOps, MaxEmpty} \subseteq Nat
    /\ Suggested > 0
    /\ Lens \subseteq Nat \ {0}
    /\ NoData \notin Buffer

VARIABLES
    sock,       \* "new", "connecting", "listen", "open", "failed", "closing" or
                \* "closed"
    conn,       \* the client's uv_connect_t: "none", "live" or "freed"
    taken,      \* bytes libuv has read from the socket
    reading,    \* uv_read_start is in effect
    data,       \* the Buffer attached to the handle, or NoData
    heap,       \* blocks allocated by PreWrite
    ops,        \* ops[r]: the r-th operation, [kind, len, st, next]
    co,         \* the coroutine: "idle" before its handler is called, "run", "await"
                \* or "wait"
    wakes,      \* resumptions of the coroutine that are queued
    bufs,       \* every Buf given to a read: [op, ptr, len, bytes, full]
    empty,      \* callbacks with nread = 0 so far
    idle,       \* history: the bytes that came while no read was waiting
    got         \* history: [op, buf], the Buf that GetResult behind op's await took

vars == <<sock, conn, taken, reading, data, heap, ops, co, wakes, bufs, empty, idle, got>>
net == <<taken, empty, idle>>
buffer == <<reading, data, heap, bufs>>

Nil == [blk |-> 0, off |-> 0]
NewBuffer(r) == [max |-> 0, buf |-> Nil, len |-> 0, explen |-> ops[r].len, task |-> r]

\* the n bytes at p
Content(h, p, n) == [i \in 1..n |-> h[p.blk][p.off + i]]
Advance(p, n) == [p EXCEPT !.off = @ + n]

\* the first n buffered bytes leave the buffer
Consume(d, n) == [d EXCEPT !.len = @ - n, !.max = @ - n, !.buf = Advance(@, n)]

\* a client that is not connected yet, or a server waiting for its peer
Init ==
    /\ \/ sock = "new" /\ co = "run"
       \/ sock = "listen" /\ co = "idle"
    /\ conn = "none"
    /\ taken = 0 /\ empty = 0 /\ idle = {}
    /\ reading = FALSE /\ data = NoData /\ heap = <<>>
    /\ ops = <<>> /\ wakes = 0 /\ bufs = <<>> /\ got = {}

-----------------------------------------------------------------------------
(* The coroutine.                                                          *)

Issued(kind) == \E r \in 1..Len(ops) : ops[r].kind = kind

\* How the repository's programs use a connection: a client connects first and
\* looks at the status, nothing follows a close.  A server's handler does not
\* learn that uv_accept failed.
CanIssue(kind) ==
    /\ ~Issued("close")
    /\ CASE kind = "connect" -> sock = "new" /\ ~Issued("connect")
         [] kind \in {"read", "write"} -> sock = "open" \/ (sock = "failed" /\ conn = "none")
         [] kind = "close" -> sock # "new"

\* CloseAsync of a client frees its request on the worker, before the job
FreeConn(kind) ==
    conn' = IF kind = "close" /\ conn = "live" THEN "freed" ELSE conn

\* the call queues the AsyncGen, whose StepNext queues the event-loop job
Issue(kind, len) ==
    /\ co = "run" /\ Len(ops) < MaxOps /\ CanIssue(kind)
    /\ ops' = Append(ops, [kind |-> kind, len |-> len, st |-> "job", next |-> FALSE])
    /\ co' = "await"
    /\ FreeConn(kind)
    /\ UNCHANGED <<sock, net, buffer, wakes, got>>

\* the Buf last stored by SetResult of r, 0 if none was
Result(r) == CHOOSE i \in 0..Len(bufs) :
                /\ i = 0 \/ bufs[i].op = r
                /\ \A j \in 1..Len(bufs) : bufs[j].op = r => j <= i

\* the coroutine goes on behind the await of its last operation
GetResult == got' = got \union {[op |-> Len(ops), buf |-> Result(Len(ops))]}

\* await: continue if it is done, else register as its nextTask and leave
Await ==
    /\ co = "await"
    /\ LET r == Len(ops) IN
       \/ ops[r].st = "done" /\ co' = "run" /\ GetResult /\ UNCHANGED ops
       \/ /\ ops[r].st # "done" /\ co' = "wait"
          /\ ops' = [ops EXCEPT ![r].next = TRUE] /\ UNCHANGED got
    /\ UNCHANGED <<sock, conn, net, buffer, wakes>>

Resume ==
    /\ co = "wait" /\ wakes > 0
    /\ wakes' = wakes - 1 /\ co' = "run"
    /\ GetResult
    /\ UNCHANGED <<sock, conn, net, buffer, ops>>

\* SetResult and TryQueueContinuous: the awaiter is queued, also when r was
\* completed before
Complete(r) ==
    /\ ops' = [ops EXCEPT ![r].st = "done"]
    /\ wakes' = IF ops[r].next THEN wakes + 1 ELSE wakes

Deliver(r, p, n, h, full) ==
    bufs' = Append(bufs, [op |-> r, ptr |-> p, len |-> n, bytes |-> Content(h, p, n), full |-> full])

-----------------------------------------------------------------------------
(* Jobs on the loop thread.                                                *)

Job(r, kind) == r \in 1..Len(ops) /\ ops[r].kind = kind /\ ops[r].st = "job"
Start(r) == ops' = [ops EXCEPT ![r].st = "pending"] /\ UNCHANGED wakes

\* mutant: buffered bytes are handed out and kept
ReadBuffered_Keep(r) ==
    /\ Job(r, "read") /\ data # NoData
    /\ data.len >= ops[r].len
    /\ Deliver(r, data.buf, ops[r].len, heap, TRUE)
    /\ Complete(r)
    /\ UNCHANGED <<sock, conn, net, reading, data, heap, co, got>>

\* enough is buffered: the bytes are handed out and the buffer moves on
ReadBuffered(r) ==
    /\ Job(r, "read") /\ data # NoData
    /\ data.len >= ops[r].len
    /\ data' = Consume(data, ops[r].len)
    /\ Deliver(r, data.buf, ops[r].len, heap, TRUE)
    /\ Complete(r)
    /\ UNCHANGED <<sock, conn, net, reading, heap, co, got>>

\* mutant: a waiting read does not note how much it wants
ReadWait_KeepExplen(r) ==
    /\ Job(r, "read") /\ data # NoData
    /\ data.len < ops[r].len
    /\ data' = [data EXCEPT !.task = r]
    /\ Start(r)
    /\ UNCHANGED <<sock, conn, net, reading, heap, bufs, co, got>>

ReadWait(r) ==
    /\ Job(r, "read") /\ data # NoData
    /\ data.len < ops[r].len
    /\ data' = [data EXCEPT !.task = r, !.explen = ops[r].len]
    /\ Start(r)
    /\ UNCHANGED <<sock, conn, net, reading, heap, bufs, co, got>>

\* the first read of the connection; uv_read_start fails on a closing handle
ReadStart(r) ==
    /\ Job(r, "read") /\ data = NoData
    /\ data' = NewBuffer(r)
    /\ reading' = (sock = "open")
    /\ Start(r)
    /\ UNCHANGED <<sock, conn, net, heap, bufs, co, got>>

\* uv_write fails at once, or its callback comes later
WriteJob(r) ==
    /\ Job(r, "write")
    /\ \/ sock = "open" /\ Start(r)
       \/ Complete(r)
    /\ UNCHANGED <<sock, conn, net, buffer, co, got>>

\* a request that the collector does not free
new_conn == conn' = "live"

\* mutant: the result is set when the connection is started
ConnectJob_Completes(r) ==
    /\ Job(r, "connect")
    /\ new_conn
    /\ Complete(r)
    /\ sock' = "connecting"
    /\ UNCHANGED <<net, buffer, co, got>>

\* a failure to start the connection is only printed
ConnectJob(r) ==
    /\ Job(r, "connect")
    /\ new_conn
    /\ Start(r)
    /\ sock' \in {"connecting", "failed"}
    /\ UNCHANGED <<net, buffer, co, got>>

CloseJob(r) ==
    /\ Job(r, "close")
    /\ sock' = "closing" /\ reading' = FALSE
    /\ Start(r)
    /\ UNCHANGED <<conn, net, data, heap, bufs, co, got>>

-----------------------------------------------------------------------------
(* Callbacks on the loop thread.                                           *)

Pending(r, kind) == r \in 1..Len(ops) /\ ops[r].kind = kind /\ ops[r].st = "pending"

\* realcb of TCPListen: the handler is called whether or not uv_accept failed
Accept ==
    /\ co = "idle"
    /\ sock' \in {"open", "failed"}
    /\ co' = "run"
    /\ UNCHANGED <<conn, net, buffer, ops, wakes, got>>

\* the write was sent, failed, or was cancelled by uv_close
WriteCB(r) ==
    /\ Pending(r, "write")
    /\ Complete(r)
    /\ UNCHANGED <<sock, conn, net, buffer, co, got>>

ConnectCB(r) ==
    /\ Pending(r, "connect") /\ sock = "connecting"
    /\ sock' \in {"open", "failed"}
    /\ Complete(r)
    /\ UNCHANGED <<conn, net, buffer, co, got>>

CloseCB(r) ==
    /\ Pending(r, "close")
    /\ sock' = "closed"
    /\ Complete(r)
    /\ UNCHANGED <<conn, net, buffer, co, got>>

\* mutant: max is increased instead of set
PreWrite_MaxPlus ==
    IF Suggested + data.len > data.max
    THEN [heap |-> Append(heap, [i \in 1..(Suggested + data.len) |->
                         IF i <= data.len THEN Content(heap, data.buf, data.len)[i] ELSE 0]),
          data |-> [data EXCEPT !.max = @ + Suggested + data.len,
                                !.buf = [blk |-> Len(heap) + 1, off |-> 0]]]
    ELSE [heap |-> heap, data |-> data]

\* mutant: the buffered bytes are not copied into the larger block
PreWrite_NoCopy ==
    IF Suggested + data.len > data.max
    THEN [heap |-> Append(heap, [i \in 1..(Suggested + data.len) |-> 0]),
          data |-> [data EXCEPT !.max = Suggested + data.len,
                                !.buf = [blk |-> Len(heap) + 1, off |-> 0]]]
    ELSE [heap |-> heap, data |-> data]

\* tcpAllocCB: a larger block is allocated when Suggested bytes would not fit
\* behind the buffered ones, which are copied
PreWrite ==
    IF Suggested + data.len > data.max
    THEN [heap |-> Append(heap, [i \in 1..(Suggested + data.len) |->
                         IF i <= data.len THEN Content(heap, data.buf, data.len)[i] ELSE 0]),
          data |-> [data EXCEPT !.max = Suggested + data.len,
                                !.buf = [blk |-> Len(heap) + 1, off |-> 0]]]
    ELSE [heap |-> heap, data |-> data]

\* libuv writes n bytes of the socket behind the buffered ones
Filled(pw, n) ==
    [pw.heap EXCEPT ![pw.data.buf.blk] = [i \in DOMAIN @ |->
        LET k == i - pw.data.buf.off - pw.data.len
        IN  IF k \in 1..n THEN taken + k ELSE @[i]]]

\* mutant: buf and max stay as they are when a read is served
ReadCB_KeepBuf(n) ==
    /\ reading /\ n \in 1..Suggested /\ n <= Bytes - taken
    /\ taken' = taken + n
    /\ idle' = IF data.task = 0 THEN idle \union (taken + 1)..(taken + n) ELSE idle
    /\ LET pw == PreWrite
           len == pw.data.len + n
       IN  /\ heap' = Filled(pw, n)
           /\ \/ /\ data.task = 0
                 /\ data' = pw.data
                 /\ UNCHANGED <<ops, wakes, bufs>>
              \/ /\ data.task # 0 /\ len < data.explen
                 /\ data' = [pw.data EXCEPT !.len = len]
                 /\ UNCHANGED <<ops, wakes, bufs>>
              \/ /\ data.task # 0 /\ len >= data.explen
                 /\ Deliver(data.task, pw.data.buf, data.explen, Filled(pw, n), TRUE)
                 /\ Complete(data.task)
                 /\ data' = [pw.data EXCEPT !.len = len - data.explen,
                                            !.task = 0]
    /\ UNCHANGED <<sock, conn, empty, reading, co, got>>

\* mutant: a read that is served stays the task of the buffer
ReadCB_KeepTask(n) ==
    /\ reading /\ n \in 1..Suggested /\ n <= Bytes - taken
    /\ taken' = taken + n
    /\ idle' = IF data.task = 0 THEN idle \union (taken + 1)..(taken + n) ELSE idle
    /\ LET pw == PreWrite
           len == pw.data.len + n
       IN  /\ heap' = Filled(pw, n)
           /\ \/ /\ data.task = 0
                 /\ data' = pw.data
                 /\ UNCHANGED <<ops, wakes, bufs>>
              \/ /\ data.task # 0 /\ len < data.explen
                 /\ data' = [pw.data EXCEPT !.len = len]
                 /\ UNCHANGED <<ops, wakes, bufs>>
              \/ /\ data.task # 0 /\ len >= data.explen
                 /\ Deliver(data.task, pw.data.buf, data.explen, Filled(pw, n), TRUE)
                 /\ Complete(data.task)
                 /\ data' = Consume([pw.data EXCEPT !.len = len], data.explen)
    /\ UNCHANGED <<sock, conn, empty, reading, co, got>>

\* n > 0 bytes: without a waiting read they are not counted; a read whose
\* length is reached is completed and its bytes leave the buffer
ReadCB(n) ==
    /\ reading /\ n \in 1..Suggested /\ n <= Bytes - taken
    /\ taken' = taken + n
    /\ idle' = IF data.task = 0 THEN idle \union (taken + 1)..(taken + n) ELSE idle
    /\ LET pw == PreWrite
           len == pw.data.len + n
       IN  /\ heap' = Filled(pw, n)
           /\ \/ /\ data.task = 0
                 /\ data' = pw.data
                 /\ UNCHANGED <<ops, wakes, bufs>>
              \/ /\ data.task # 0 /\ len < data.explen
                 /\ data' = [pw.data EXCEPT !.len = len]
                 /\ UNCHANGED <<ops, wakes, bufs>>
              \/ /\ data.task # 0 /\ len >= data.explen
                 /\ Deliver(data.task, pw.data.buf, data.explen, Filled(pw, n), TRUE)
                 /\ Complete(data.task)
                 /\ data' = Consume([pw.data EXCEPT !.len = len, !.task = 0], data.explen)
    /\ UNCHANGED <<sock, conn, empty, reading, co, got>>

\* nread <= 0: a waiting read is completed with what there is.  The bytes stay
\* in the buffer and the read stays its task.
ShortRead ==
    LET pw == PreWrite
    IN  /\ heap' = pw.heap /\ data' = pw.data
        /\ \/ data.task = 0 /\ UNCHANGED <<ops, wakes, bufs>>
           \/ /\ data.task # 0
              /\ Deliver(data.task, pw.data.buf, data.len, pw.heap, FALSE)
              /\ Complete(data.task)

\* nothing to read after all (EAGAIN)
ReadCBEmpty ==
    /\ reading /\ empty < MaxEmpty
    /\ empty' = empty + 1
    /\ ShortRead
    /\ UNCHANGED <<sock, conn, taken, idle, reading, co, got>>

\* mutant: an error or end of stream is not reported to the read
ReadCBEnd_Silent ==
    /\ reading /\ taken = Bytes
    /\ reading' = FALSE
    /\ UNCHANGED <<sock, conn, net, data, heap, bufs, ops, co, wakes, got>>

\* the peer closed, or an error: libuv stops reading
ReadCBEnd ==
    /\ reading /\ taken = Bytes
    /\ reading' = FALSE
    /\ ShortRead
    /\ UNCHANGED <<sock, conn, net, co, got>>

-----------------------------------------------------------------------------
CoStep == Await \/ Resume

LoopStep ==
    \/ \E r \in 1..Len(ops) :
          \/ ReadBuffered(r) \/ ReadWait(r) \/ ReadStart(r)
          \/ WriteJob(r) \/ ConnectJob(r) \/ CloseJob(r)
          \/ WriteCB(r) \/ ConnectCB(r) \/ CloseCB(r)

Receive == (\E n \in 1..Suggested : ReadCB(n)) \/ ReadCBEnd

Next ==
    \/ \E len \in Lens : Issue("read", len)
    \/ \E kind \in {"connect", "write", "close"} : Issue(kind, 0)
    \/ Accept \/ CoStep \/ LoopStep \/ Receive \/ ReadCBEmpty

Spec == Init /\ [][Next]_vars

\* The worker and the loop thread keep running; the peer sends its bytes and
\* closes the connection.
Fairness ==
    /\ WF_vars(CoStep) /\ WF_vars(LoopStep) /\ WF_vars(Receive)

FairSpec == Spec /\ Fairness

-----------------------------------------------------------------------------
(* Properties *)

Ptr == [blk : 0..Len(heap), off : Nat]

\* Every variable has its type.
TypeOK ==
    /\ sock \in {"new", "connecting", "listen", "open", "failed", "closing", "closed"}
    /\ conn \in {"none", "live", "freed"}
    /\ taken <= Bytes
    /\ data # NoData => /\ data.buf \in Ptr
                        /\ {data.len, data.max, data.explen} \subseteq Nat
                        /\ data.task \in 0..Len(ops)
    /\ \A i \in 1..Len(heap) : heap[i] \in Seq(0..Bytes)
    /\ \A r \in 1..Len(ops) : ops[r].st \in {"job", "pending", "done"}
    /\ co \in {"idle", "run", "await", "wait"}

\* The buffer never runs out of its block, however reads, growth and partial
\* consumption follow each other: max is the room left from buf to the end of
\* the block, and the buffered bytes fit into it.
BufferBounds ==
    data # NoData /\ data.buf # Nil =>
        /\ data.len <= data.max
        /\ data.buf.off + data.max = Len(heap[data.buf.blk])

\* Bytes handed to a read stay as they were: what arrives later is written
\* behind them or into another block, while the coroutine still uses them.
DeliveredStable ==
    \A i \in 1..Len(bufs) :
        Content(heap, bufs[i].ptr, bufs[i].len) = bufs[i].bytes

\* Reads that got their length got bytes of the stream, in order, none twice.
InOrder ==
    \A i, j \in 1..Len(bufs) : bufs[i].full /\ bufs[j].full =>
        \A k \in 1..bufs[i].len, l \in 1..bufs[j].len :
            /\ bufs[i].bytes[k] > 0
            /\ i < j \/ (i = j /\ k < l) => bufs[i].bytes[k] < bufs[j].bytes[l]

BytesOf(u) == {u.bytes[k] : k \in 1..u.len}
FullBufs == {i \in 1..Len(bufs) : bufs[i].full}

\* The Buf came when the coroutine had already gone on with another result of
\* that read: a short one, or none.
Late(i) == \E g \in got : g.op = bufs[i].op /\ g.buf # i

Handed == UNION {BytesOf(bufs[i]) : i \in {j \in FullBufs : ~Late(j)}}
Misled == UNION {BytesOf(bufs[i]) : i \in {j \in FullBufs : Late(j)}}
Buffered == IF data = NoData THEN {}
            ELSE {Content(heap, data.buf, data.len)[k] : k \in 1..data.len}

\* A byte that libuv took from the socket is with a read that got its length
\* and was not finished before, or still in the buffer, however the buffer grows
\* and what is left over is used; there are just two ways to lose one.  It came
\* while no read was waiting (idle), or it completed a read a second time, whose
\* awaiter had gone on with a short result (Misled).
NothingLost == 1..taken = Handed \union Misled \union idle \union Buffered

\* The echo server of test/tcpserver writes back every byte it is sent, so no byte
\* should be lost either way.  This fails: during the server's write no read waits,
\* and a callback without bytes leaves a finished read the task of the buffer.
AllEchoed == 1..taken = Handed \union Buffered

\* The coroutine goes on behind an await only when the operation it awaits is
\* done.  The one exception is a read that a callback found short: it stays the
\* task of the buffer, and the next callback completes it again and resumes the
\* coroutine from whatever it awaits then.
ContinuedWhenDone ==
    co = "run" /\ ops # <<>> /\ ops[Len(ops)].st # "done" =>
        \E i, j \in 1..Len(bufs) : i < j /\ bufs[i].op = bufs[j].op /\ ~bufs[i].full

\* No read is left waiting for bytes that are there, and the buffer waits for
\* what the read asked for.
ReadServed ==
    data # NoData /\ data.task # 0 =>
        /\ data.explen = ops[data.task].len
        /\ data.len < data.explen

\* The connect request is not collected and belongs to libuv until its callback:
\* the worker that closes the client does not free it before that, and a closed
\* client has given it back.
ConnLifetime ==
    /\ sock = "connecting" => conn = "live"
    /\ sock \in {"closing", "closed"} => conn # "live"

Replaced(r) == data # NoData /\ data.task # r
Waits(r) == reading /\ data # NoData /\ data.task = r
Done(r) == r \in 1..Len(ops) /\ ops[r].st = "done"

\* A read that waits while the stream is open is completed in the end, unless
\* another read takes its place or the connection is closed; so is every write
\* and every close.
OpsComplete ==
    \A r \in 1..MaxOps :
        /\ Waits(r) ~> (Done(r) \/ Replaced(r) \/ Issued("close"))
        /\ (r <= Len(ops) /\ ops[r].kind \in {"write", "close"}) ~> Done(r)
=============================================================================
