-------------------------- MODULE TcpStreamProofs --------------------------
(***************************************************************************)
(* Proofs about TcpStream, for any number of bytes, operations and empty   *)
(* callbacks, any lengths of reads and any suggested size.                 *)
(*                                                                         *)
(* The buffer, the bytes handed out and the bytes of the stream are        *)
(* related by the parts of the invariant IInv.  Every action is one of     *)
(* three steps as the buffer sees it (BufStep): it keeps the buffer, opens *)
(* it, or lets q bytes come and takes m away; the parts about bytes are    *)
(* shown for these steps, the parts about types, the coroutine and the     *)
(* socket per action.                                                      *)
(***************************************************************************)
EXTENDS TcpStream, SequenceTheorems, TLAPS

\* an operation, and a Buf given to a read
Op == [kind : {"connect", "read", "write", "close"}, len : Nat,
       st : {"job", "pending", "done"}, next : BOOLEAN]
Buf == [op : Nat, ptr : Pointer, len : Nat, bytes : Seq(0..Bytes), full : BOOLEAN]

\* Every variable has its type.
Typed ==
    /\ sock \in {"new", "connecting", "listen", "open", "failed", "closing", "closed"}
    /\ conn \in {"none", "live", "freed"}
    /\ taken \in 0..Bytes /\ empty \in Nat /\ wakes \in Nat /\ idle \subseteq Nat
    /\ reading \in BOOLEAN /\ heap \in Seq(Seq(0..Bytes)) /\ data \in Buffer \union {NoData}
    /\ ops \in Seq(Op) /\ bufs \in Seq(Buf)
    /\ co \in {"idle", "run", "await", "wait"}

\* The buffer is attached before anything is read, or delivered.
Attached ==
    /\ reading => data # NoData
    /\ data = NoData => bufs = <<>>
    /\ \A r \in 1..Len(ops) : ops[r].kind = "read" => ops[r].len > 0
    /\ data # NoData => data.task \in 0..Len(ops)
    /\ co \in {"await", "wait"} => ops # <<>>

\* The pointer of the buffer: none yet, or max bytes of its block are left.
Bounds ==
    data # NoData =>
        /\ data.buf.blk = 0 => data.max = 0 /\ data.len = 0 /\ data.buf.off = 0
        /\ data.buf.blk # 0 => /\ data.buf.blk \in 1..Len(heap)
                               /\ data.buf.off + data.max = Len(heap[data.buf.blk])
                               /\ data.len <= data.max

\* What was delivered lies in front of where libuv writes.
Delivered ==
    \A i \in 1..Len(bufs) :
        /\ bufs[i].ptr.blk \in 1..Len(heap)
        /\ bufs[i].ptr.off + bufs[i].len <= Len(heap[bufs[i].ptr.blk])
        /\ bufs[i].ptr.blk = data.buf.blk =>
              bufs[i].ptr.off + bufs[i].len <= data.buf.off + data.len

\* the k-th buffered byte
Byte(k) == heap[data.buf.blk][data.buf.off + k]

\* Buffered bytes are bytes of the stream, in order, behind all that reads got.
Sorted ==
    /\ data # NoData =>
          /\ \A k \in 1..data.len : Byte(k) \in 1..taken
          /\ \A k, l \in 1..data.len : k < l => Byte(k) < Byte(l)
          /\ \A i \in 1..Len(bufs) : bufs[i].full =>
                \A m \in 1..bufs[i].len, k \in 1..data.len : bufs[i].bytes[m] < Byte(k)
    /\ \A i \in 1..Len(bufs) : bufs[i].full =>
          \A m \in 1..bufs[i].len : bufs[i].bytes[m] \in 1..taken

\* x was given to a read that got its length, or is buffered.
Given(x) == \E i \in 1..Len(bufs) : bufs[i].full /\ \E m \in 1..bufs[i].len : bufs[i].bytes[m] = x
Kept(x) == data # NoData /\ \E k \in 1..data.len : Byte(k) = x
Accounted == idle \subseteq 1..taken /\ \A x \in 1..taken : Given(x) \/ Kept(x) \/ x \in idle

\* A read was completed a second time.
Doubled == \E i, j \in 1..Len(bufs) : i < j /\ bufs[i].op = bufs[j].op /\ ~bufs[i].full

\* the operation the coroutine issued last
Last == ops[Len(ops)]

\* Until then the coroutine and its operations keep step.
InStep ==
    /\ \A r \in 1..Len(ops) : r < Len(ops) => ops[r].st = "done"
    /\ co \in {"idle", "run"} => wakes = 0 /\ (ops # <<>> => Last.st = "done")
    /\ co = "await" => wakes = 0 /\ ~Last.next
    /\ co = "wait" => Last.next /\ wakes \in {0, 1} /\ (wakes = 1 => Last.st = "done")

\* The task of the buffer is a read that was started; if it is done it was short.
TaskOK ==
    data # NoData /\ data.task # 0 =>
        /\ ops[data.task].kind = "read" /\ ops[data.task].st # "job"
        /\ ops[data.task].st = "done" =>
              \E i \in 1..Len(bufs) : bufs[i].op = data.task /\ ~bufs[i].full

CoOK == TaskOK /\ (~Doubled => InStep)

\* A client's socket before it is connected.
Connecting ==
    /\ sock = "new" => ops = <<>> \/ (Len(ops) = 1 /\ ops[1].kind = "connect" /\ ops[1].st = "job")
    /\ sock = "connecting" => Len(ops) = 1 /\ ops[1].kind = "connect" /\ ops[1].st = "pending"
    /\ sock \in {"new", "connecting", "listen"} => data = NoData
    /\ sock \in {"listen"} => ops = <<>> /\ co = "idle"
    /\ co = "idle" => sock = "listen"
    /\ \A r \in 1..Len(ops) : ops[r].kind = "connect" /\ ops[r].st = "job" => sock = "new"
    /\ Issued("close") => conn # "live"
    /\ sock \in {"closing", "closed"} => Issued("close")
    /\ sock = "connecting" => conn = "live"

-----------------------------------------------------------------------------
(* Lemmas about the operators. *)

\* A function on 1..n is a sequence of length n.
LEMMA FunSeq ==
    ASSUME NEW S, NEW n \in Nat, NEW f \in [1..n -> S]
    PROVE  f \in Seq(S) /\ Len(f) = n
  OBVIOUS

\* What TcpAssumption says of each constant.
LEMMA Consts ==
    /\ Bytes \in Nat /\ Suggested \in Nat /\ MaxOps \in Nat /\ MaxEmpty \in Nat
    /\ Suggested > 0 /\ Lens \subseteq Nat /\ (\A l \in Lens : l > 0) /\ NoData \notin Buffer
  BY TcpAssumption

\* Complete and Start change the state of one operation.
LEMMA OpsPut ==
    ASSUME ops \in Seq(Op), NEW r \in 1..Len(ops), NEW s \in {"job", "pending", "done"},
           ops' = [ops EXCEPT ![r].st = s]
    PROVE  /\ ops' \in Seq(Op) /\ Len(ops') = Len(ops)
           /\ \A q \in 1..Len(ops) :
                 /\ ops'[q].kind = ops[q].kind /\ ops'[q].len = ops[q].len /\ ops'[q].next = ops[q].next
                 /\ ops'[q].st = IF q = r THEN s ELSE ops[q].st
<1>1. ops[r] \in Op /\ Len(ops) \in Nat
  BY ElementOfSeq, LenProperties
<1>2. [ops[r] EXCEPT !.st = s] \in Op
  BY <1>1 DEF Op
<1>3. /\ ops' \in Seq(Op) /\ Len(ops') = Len(ops)
      /\ \A q \in 1..Len(ops) : ops'[q] = IF q = r THEN [ops[r] EXCEPT !.st = s] ELSE ops[q]
  BY <1>2, ExceptSeq
<1>4. /\ [ops[r] EXCEPT !.st = s].kind = ops[r].kind /\ [ops[r] EXCEPT !.st = s].len = ops[r].len
      /\ [ops[r] EXCEPT !.st = s].next = ops[r].next /\ [ops[r] EXCEPT !.st = s].st = s
  BY <1>1 DEF Op
<1> QED BY <1>3, <1>4

\* Await registers the coroutine at one operation.
LEMMA OpsNext ==
    ASSUME ops \in Seq(Op), NEW r \in 1..Len(ops), ops' = [ops EXCEPT ![r].next = TRUE]
    PROVE  /\ ops' \in Seq(Op) /\ Len(ops') = Len(ops)
           /\ \A q \in 1..Len(ops) :
                 /\ ops'[q].kind = ops[q].kind /\ ops'[q].len = ops[q].len /\ ops'[q].st = ops[q].st
                 /\ ops'[q].next = IF q = r THEN TRUE ELSE ops[q].next
<1>1. ops[r] \in Op /\ Len(ops) \in Nat
  BY ElementOfSeq, LenProperties
<1>2. [ops[r] EXCEPT !.next = TRUE] \in Op
  BY <1>1 DEF Op
<1>3. /\ ops' \in Seq(Op) /\ Len(ops') = Len(ops)
      /\ \A q \in 1..Len(ops) : ops'[q] = IF q = r THEN [ops[r] EXCEPT !.next = TRUE] ELSE ops[q]
  BY <1>2, ExceptSeq
<1>4. /\ [ops[r] EXCEPT !.next = TRUE].kind = ops[r].kind /\ [ops[r] EXCEPT !.next = TRUE].len = ops[r].len
      /\ [ops[r] EXCEPT !.next = TRUE].st = ops[r].st /\ [ops[r] EXCEPT !.next = TRUE].next = TRUE
  BY <1>1 DEF Op
<1> QED BY <1>3, <1>4

\* The n bytes at p are bytes when they are in the block.
LEMMA ContentIs ==
    ASSUME NEW h \in Seq(Seq(0..Bytes)), NEW p \in Pointer, NEW n \in Nat,
           p.blk \in 1..Len(h), p.off + n <= Len(h[p.blk])
    PROVE  /\ Content(h, p, n) \in Seq(0..Bytes)
           /\ \A k \in 1..n : Content(h, p, n)[k] = h[p.blk][p.off + k]
<1>1. h[p.blk] \in Seq(0..Bytes) /\ Len(h[p.blk]) \in Nat /\ p.off \in Nat
  BY ElementOfSeq, LenProperties DEF Pointer
<1>2. \A k \in 1..n : p.off + k \in 1..Len(h[p.blk])
  BY <1>1
<1>3. \A k \in 1..n : h[p.blk][p.off + k] \in 0..Bytes
  BY <1>1, <1>2, ElementOfSeq
<1>4. Content(h, p, n) \in [1..n -> 0..Bytes]
  BY <1>3 DEF Content
<1> QED BY <1>4, FunSeq DEF Content

\* Consume moves pointer, length and room of the buffer together.
LEMMA ConsumeIs ==
    ASSUME NEW d \in Buffer, NEW n \in Nat, n <= d.len, n <= d.max, NEW c, c = Consume(d, n)
    PROVE  /\ c \in Buffer /\ c.len = d.len - n /\ c.max = d.max - n
           /\ c.buf.blk = d.buf.blk /\ c.buf.off = d.buf.off + n
           /\ c.task = d.task /\ c.explen = d.explen
<1>1. d.len \in Nat /\ d.max \in Nat /\ d.buf \in Pointer /\ d.buf.off \in Nat
  BY DEF Buffer, Pointer
<1>2. PICK p : p = Advance(d.buf, n)
  OBVIOUS
<1>3. p \in Pointer /\ p.blk = d.buf.blk /\ p.off = d.buf.off + n
  BY <1>1, <1>2 DEF Advance, Pointer
<1>4. c = [d EXCEPT !.len = d.len - n, !.max = d.max - n, !.buf = p]
  BY <1>2 DEF Consume
<1>5. d.len - n \in Nat /\ d.max - n \in Nat
  BY <1>1
<1> QED BY <1>3, <1>4, <1>5 DEF Buffer

\* PreWrite leaves room for Suggested bytes and keeps the buffered ones.
LEMMA PreWriteIs ==
    ASSUME Typed, Bounds, data # NoData, NEW pw, pw = PreWrite
    PROVE  /\ pw.heap \in Seq(Seq(0..Bytes)) /\ pw.data \in Buffer
           /\ pw.data.len = data.len /\ pw.data.task = data.task /\ pw.data.explen = data.explen
           /\ Len(pw.heap) >= Len(heap) /\ \A i \in 1..Len(heap) : pw.heap[i] = heap[i]
           /\ pw.data.buf.blk \in 1..Len(pw.heap)
           /\ pw.data.buf.off + pw.data.max = Len(pw.heap[pw.data.buf.blk])
           /\ data.len + Suggested <= pw.data.max
           /\ \A k \in 1..data.len : pw.heap[pw.data.buf.blk][pw.data.buf.off + k] = Byte(k)
           /\ \/ pw.data.buf = data.buf /\ pw.heap = heap
              \/ pw.data.buf.blk = Len(heap) + 1 /\ pw.data.buf.off = 0
<1> USE Consts
<1>1. /\ data \in Buffer /\ data.buf \in Pointer /\ data.buf.blk \in Nat /\ data.buf.off \in Nat
      /\ data.len \in Nat /\ data.max \in Nat /\ data.task \in Nat /\ data.explen \in Nat
      /\ heap \in Seq(Seq(0..Bytes)) /\ Len(heap) \in Nat
  BY LenProperties DEF Typed, Buffer, Pointer
<1>2. CASE Suggested + data.len > data.max
  <2>0. PICK c : c = Content(heap, data.buf, data.len)
    OBVIOUS
  <2>1. PICK new : new = [i \in 1..(Suggested + data.len) |-> IF i <= data.len THEN c[i] ELSE 0]
    OBVIOUS
  <2>2. PICK d : d = [data EXCEPT !.max = Suggested + data.len, !.buf = [blk |-> Len(heap) + 1, off |-> 0]]
    OBVIOUS
  <2>3. pw = [heap |-> Append(heap, new), data |-> d]
    BY <1>2, <2>0, <2>1, <2>2 DEF PreWrite
  <2>4. \A k \in 1..data.len : c[k] = Byte(k) /\ c[k] \in 0..Bytes
    <3>1. CASE data.len = 0
      BY <3>1
    <3>2. CASE data.len # 0
      <4>1. data.buf.blk \in 1..Len(heap) /\ data.buf.off + data.len <= Len(heap[data.buf.blk])
        <5>1. /\ data.buf.blk \in 1..Len(heap) /\ data.buf.off + data.max = Len(heap[data.buf.blk])
              /\ data.len <= data.max
          BY <3>2 DEF Bounds
        <5> QED BY <1>1, <5>1
      <4>2. c \in Seq(0..Bytes) /\ \A k \in 1..data.len : c[k] = Byte(k)
        <5>1. /\ Content(heap, data.buf, data.len) \in Seq(0..Bytes)
              /\ \A k \in 1..data.len :
                    Content(heap, data.buf, data.len)[k] = heap[data.buf.blk][data.buf.off + k]
          BY ONLY <1>1, <4>1, ContentIs, Zenon
        <5> QED BY ONLY <2>0, <5>1 DEF Byte
      <4>3. Len(c) = data.len
        BY <1>1, <2>0, <4>2, LenProperties DEF Content
      <4> QED BY <4>2, <4>3, ElementOfSeq
    <3> QED BY <3>1, <3>2
  <2>5. new \in [1..(Suggested + data.len) -> 0..Bytes] /\ \A k \in 1..data.len : new[0 + k] = Byte(k)
    BY <1>1, <2>1, <2>4
  <2>6. new \in Seq(0..Bytes) /\ Len(new) = Suggested + data.len
    <3>1. PICK m \in Nat : m = Suggested + data.len
      BY <1>1
    <3> QED BY <2>5, <3>1, FunSeq
  <2>7. /\ Append(heap, new) \in Seq(Seq(0..Bytes)) /\ Len(Append(heap, new)) = Len(heap) + 1
        /\ \A i \in 1..Len(heap) : Append(heap, new)[i] = heap[i]
        /\ Append(heap, new)[Len(heap) + 1] = new
    BY <1>1, <2>6, AppendProperties
  <2>8. [blk |-> Len(heap) + 1, off |-> 0] \in Pointer /\ Suggested + data.len \in Nat
    BY <1>1 DEF Pointer
  <2>9. /\ d \in Buffer /\ d.len = data.len /\ d.task = data.task /\ d.explen = data.explen
        /\ d.max = Suggested + data.len /\ d.buf = [blk |-> Len(heap) + 1, off |-> 0]
    BY <1>1, <2>2, <2>8 DEF Buffer
  <2>10. pw.heap = Append(heap, new) /\ pw.data = d /\ d.buf.blk = Len(heap) + 1 /\ d.buf.off = 0
    BY <2>3, <2>9
  <2>11. /\ pw.data.buf.blk = Len(heap) + 1 /\ pw.data.buf.off = 0 /\ pw.data.max = Suggested + data.len
         /\ pw.heap[pw.data.buf.blk] = new /\ Len(pw.heap) = Len(heap) + 1
    BY <2>7, <2>9, <2>10
  <2>12. Len(heap) + 1 \in 1..(Len(heap) + 1)
    BY <1>1
  <2>13. /\ pw.data.buf.off + pw.data.max = Len(pw.heap[pw.data.buf.blk])
         /\ data.len + Suggested <= pw.data.max /\ Len(pw.heap) >= Len(heap)
    BY <1>1, <2>6, <2>11, SMTT(30)
  <2>14. \A k \in 1..data.len : pw.heap[pw.data.buf.blk][pw.data.buf.off + k] = Byte(k)
    BY <2>5, <2>11
  <2> QED BY <2>7, <2>9, <2>10, <2>11, <2>12, <2>13, <2>14
<1>3. CASE ~(Suggested + data.len > data.max)
  <2>1. pw = [heap |-> heap, data |-> data]
    BY <1>3 DEF PreWrite
  <2>2. data.buf.blk # 0
    BY <1>1, <1>3 DEF Bounds
  <2> QED BY <1>1, <1>3, <2>1, <2>2 DEF Bounds, Byte
<1> QED BY <1>2, <1>3

\* h is the heap of pw with n bytes written behind the buffered ones.
Wrote(pw, n, h) ==
    /\ h \in Seq(Seq(0..Bytes)) /\ Len(h) = Len(pw.heap)
    /\ \A i \in 1..Len(h) : Len(h[i]) = Len(pw.heap[i])
    /\ \A i \in 1..Len(h) : i # pw.data.buf.blk => h[i] = pw.heap[i]
    /\ \A i \in 1..(pw.data.buf.off + pw.data.len) :
          h[pw.data.buf.blk][i] = pw.heap[pw.data.buf.blk][i]
    /\ \A k \in 1..n : h[pw.data.buf.blk][pw.data.buf.off + (pw.data.len + k)] = taken + k

\* Filled writes where the buffered bytes end, and nowhere else.
LEMMA FilledIs ==
    ASSUME NEW pw, pw.heap \in Seq(Seq(0..Bytes)), pw.data \in Buffer,
           pw.data.buf.blk \in 1..Len(pw.heap), NEW n \in Nat, taken + n <= Bytes, taken \in Nat,
           pw.data.buf.off + pw.data.len + n <= Len(pw.heap[pw.data.buf.blk]),
           NEW h, h = Filled(pw, n)
    PROVE  Wrote(pw, n, h)
<1>1. PICK g \in Seq(Seq(0..Bytes)) : g = pw.heap
  OBVIOUS
<1>2. pw.data.buf.blk \in Nat /\ pw.data.buf.off \in Nat /\ pw.data.len \in Nat
  BY DEF Buffer, Pointer
<1>3. PICK blk \in 1..Len(g), o \in Nat, l \in Nat :
          blk = pw.data.buf.blk /\ o = pw.data.buf.off /\ l = pw.data.len
  BY <1>1, <1>2
<1>5. PICK old \in Seq(0..Bytes) : old = g[blk] /\ o + l + n <= Len(old)
  BY <1>1, <1>3, ElementOfSeq
<1>0. PICK t \in Nat : t = taken /\ t + n <= Bytes
  OBVIOUS
<1>4. PICK new : new = [i \in DOMAIN old |-> LET k == i - o - l IN IF k \in 1..n THEN t + k ELSE old[i]]
  OBVIOUS
<1>6. /\ new \in Seq(0..Bytes) /\ Len(new) = Len(g[blk])
      /\ \A i \in 1..(o + l) : new[i] = g[blk][i]
      /\ \A k \in 1..n : new[o + (l + k)] = taken + k
  <2>1. /\ new \in Seq(0..Bytes) /\ Len(new) = Len(old)
        /\ \A i \in 1..(o + l) : new[i] = old[i]
        /\ \A k \in 1..n : new[o + (l + k)] = t + k
    <3>1. Len(old) \in Nat /\ DOMAIN old = 1..Len(old) /\ \A i \in 1..Len(old) : old[i] \in 0..Bytes
      BY LenProperties, ElementOfSeq
    <3>2. \A i \in 1..Len(old) : new[i] = IF i - o - l \in 1..n THEN t + (i - o - l) ELSE old[i]
      BY <1>4, <3>1
    <3>3. \A k \in 1..n : t + k \in 0..Bytes
      BY <1>0, Consts, SMTT(30)
    <3>4. new \in [1..Len(old) -> 0..Bytes]
      BY <1>4, <3>1, <3>3
    <3>5. new \in Seq(0..Bytes) /\ Len(new) = Len(old)
      BY <3>1, <3>4, FunSeq
    <3>6. \A i \in 1..(o + l) : i \in 1..Len(old) /\ i - o - l \notin 1..n
      BY <1>5, <3>1
    <3>7. ASSUME NEW k \in 1..n PROVE o + (l + k) \in 1..Len(old) /\ (o + (l + k)) - o - l = k
      <4>1. k \in Nat /\ k >= 1 /\ k <= n
        OBVIOUS
      <4>2. Len(old) \in Nat /\ o + l + n <= Len(old)
        BY <1>5, <3>1
      <4> QED BY <4>1, <4>2, SMTT(30)
    <3> QED BY <3>2, <3>5, <3>6, <3>7
  <2> QED BY <1>0, <1>5, <2>1
<1>7. h = [g EXCEPT ![blk] = new]
  BY <1>0, <1>1, <1>3, <1>4, <1>5 DEF Filled
<1>8. /\ h \in Seq(Seq(0..Bytes)) /\ Len(h) = Len(g)
      /\ \A i \in 1..Len(g) : h[i] = IF i = blk THEN new ELSE g[i]
  BY <1>6, <1>7, ExceptSeq
<1>9. /\ \A i \in 1..Len(h) : Len(h[i]) = Len(g[i])
      /\ \A i \in 1..Len(h) : i # blk => h[i] = g[i]
      /\ \A i \in 1..(o + l) : h[blk][i] = g[blk][i]
      /\ \A k \in 1..n : h[blk][o + (l + k)] = taken + k
  BY <1>6, <1>8
<1> QED BY <1>1, <1>3, <1>8, <1>9 DEF Wrote

-----------------------------------------------------------------------------
(* What the callbacks and jobs do to the buffer. *)

\* The k-th byte from the start of the buffer, counting what arrives now.
Comes(k) == IF k <= data.len THEN Byte(k) ELSE taken + (k - data.len)

\* Blocks keep their size and what is in front of the place libuv writes to.
Front ==
    /\ heap' \in Seq(Seq(0..Bytes)) /\ Len(heap') >= Len(heap)
    /\ \A i \in 1..Len(heap) :
          /\ Len(heap'[i]) = Len(heap[i])
          /\ \A j \in 1..Len(heap[i]) :
                i # data.buf.blk \/ j <= data.buf.off + data.len => heap'[i][j] = heap[i][j]

\* n bytes were written behind the buffered ones, at the pointer of pw.
Written(pw, n) ==
    /\ Front
    /\ pw.data.buf.blk \in 1..Len(heap')
    /\ pw.data.buf.off + pw.data.max = Len(heap'[pw.data.buf.blk])
    /\ data.len + n <= pw.data.max
    /\ \A k \in 1..(data.len + n) : heap'[pw.data.buf.blk][pw.data.buf.off + k] = Comes(k)
    /\ \/ pw.data.buf.blk = data.buf.blk /\ pw.data.buf.off = data.buf.off
       \/ pw.data.buf.blk = Len(heap) + 1 /\ pw.data.buf.off = 0

\* n bytes are added behind the buffered ones and m taken from the front.
Moves(n, m) ==
    /\ Front
    /\ data' \in Buffer /\ data'.buf.blk \in 1..Len(heap')
    /\ data'.buf.off + data'.max = Len(heap'[data'.buf.blk]) /\ data'.len <= data'.max
    /\ data'.len + m = data.len + n
    /\ \/ data'.buf.blk = data.buf.blk /\ data'.buf.off = data.buf.off + m
       \/ data'.buf.blk = Len(heap) + 1 /\ data'.buf.off = m
    /\ \A k \in 1..data'.len : Byte(k)' = Comes(m + k)

\* Read r is given the first l bytes.
Gives(r, l, full) ==
    /\ bufs' \in Seq(Buf) /\ Len(bufs') = Len(bufs) + 1
    /\ \A i \in 1..Len(bufs) : bufs'[i] = bufs[i]
    /\ LET u == bufs'[Len(bufs) + 1]
       IN  /\ u.op = r /\ u.len = l /\ u.full = full
           /\ u.ptr.blk = data'.buf.blk /\ u.ptr.off + l <= data'.buf.off + data'.len
           /\ u.bytes = Content(heap', u.ptr, l)
           /\ \A k \in 1..l : u.bytes[k] = Comes(k)

\* Deliver hands out the bytes at p, which are the first that come.
LEMMA DeliverIs ==
    ASSUME Typed, heap' \in Seq(Seq(0..Bytes)), NEW r \in Nat, NEW l \in Nat, NEW p \in Pointer,
           NEW full \in BOOLEAN, Deliver(r, p, l, heap', full), data' \in Buffer,
           p.blk = data'.buf.blk, p.blk \in 1..Len(heap'), p.off + l <= Len(heap'[p.blk]),
           p.off + l <= data'.buf.off + data'.len,
           \A k \in 1..l : heap'[p.blk][p.off + k] = Comes(k)
    PROVE  Gives(r, l, full)
<1>1. PICK u : u = [op |-> r, ptr |-> p, len |-> l, bytes |-> Content(heap', p, l), full |-> full]
  OBVIOUS
<1>2. Content(heap', p, l) \in Seq(0..Bytes) /\ \A k \in 1..l : Content(heap', p, l)[k] = Comes(k)
  BY ContentIs
<1>3. /\ u \in Buf /\ u.op = r /\ u.len = l /\ u.full = full /\ u.ptr = p
      /\ u.bytes = Content(heap', p, l)
  BY <1>1, <1>2 DEF Buf
<1>4. bufs' = Append(bufs, u) /\ bufs \in Seq(Buf)
  BY <1>1 DEF Deliver, Typed
<1>5. /\ bufs' \in Seq(Buf) /\ Len(bufs') = Len(bufs) + 1 /\ bufs'[Len(bufs) + 1] = u
      /\ \A i \in 1..Len(bufs) : bufs'[i] = bufs[i]
  BY <1>3, <1>4, AppendProperties
<1> QED BY <1>2, <1>3, <1>5 DEF Gives

\* PreWrite and libuv's write together.
LEMMA WriteIs ==
    ASSUME Typed, Bounds, data # NoData, NEW pw, pw = PreWrite, NEW n \in 1..Suggested,
           n <= Bytes - taken, heap' = Filled(pw, n)
    PROVE  Written(pw, n)
<1>1. /\ pw.heap \in Seq(Seq(0..Bytes)) /\ pw.data \in Buffer
      /\ pw.data.len = data.len
      /\ Len(pw.heap) >= Len(heap) /\ \A i \in 1..Len(heap) : pw.heap[i] = heap[i]
      /\ pw.data.buf.blk \in 1..Len(pw.heap)
      /\ pw.data.buf.off + pw.data.max = Len(pw.heap[pw.data.buf.blk])
      /\ data.len + Suggested <= pw.data.max
      /\ \A k \in 1..data.len : pw.heap[pw.data.buf.blk][pw.data.buf.off + k] = Byte(k)
      /\ \/ pw.data.buf = data.buf /\ pw.heap = heap
         \/ pw.data.buf.blk = Len(heap) + 1 /\ pw.data.buf.off = 0
  BY PreWriteIs
<1>2. /\ pw.data.buf.off \in Nat /\ pw.data.buf.blk \in Nat /\ pw.data.max \in Nat
  BY <1>1 DEF Buffer, Pointer
<1>a. data.len \in Nat /\ data.buf.off \in Nat
  BY DEF Buffer, Pointer, Typed
<1>b. taken \in Nat /\ n \in Nat /\ taken + n <= Bytes /\ n <= Suggested
  BY Consts DEF Typed
<1>c. heap \in Seq(Seq(0..Bytes)) /\ Len(heap) \in Nat /\ Len(pw.heap) \in Nat
  BY <1>1, LenProperties DEF Typed
<1>p. PICK h, g, o, m, l, b, B, O, t, S :
         /\ h = heap /\ g = pw.heap /\ o = pw.data.buf.off /\ m = pw.data.max /\ l = data.len
         /\ b = pw.data.buf.blk /\ B = data.buf.blk /\ O = data.buf.off /\ t = taken /\ S = Suggested
  OBVIOUS
<1>q. o \in Nat /\ m \in Nat /\ l \in Nat /\ O \in Nat /\ t \in Nat /\ S \in Nat /\ n \in Nat /\ n <= S
  BY <1>2, <1>a, <1>b, <1>p, Consts
<1>r. /\ h \in Seq(Seq(0..Bytes)) /\ Len(h) \in Nat /\ Len(g) \in Nat
      /\ Len(g) >= Len(h) /\ \A i \in 1..Len(h) : g[i] = h[i]
  BY <1>1, <1>c, <1>p
<1>s. /\ b \in 1..Len(g) /\ o + m = Len(g[b]) /\ l + S <= m
      /\ (b = B /\ o = O) \/ (b = Len(h) + 1 /\ o = 0)
  BY <1>1, <1>p
<1>t. \A k \in 1..l : g[b][o + k] = Byte(k)
  BY <1>1, <1>p
<1>3. o + l + n <= Len(g[b]) /\ l + n <= m
  <2>1. PICK L : L = Len(g[b]) /\ o + m = L
    BY <1>s
  <2>2. l + S <= m
    BY <1>s
  <2>3. o + l + n <= L /\ l + n <= m
    BY <1>q, <2>1, <2>2
  <2> QED BY <2>1, <2>3
<1>4. PICK new : /\ new = heap' /\ new \in Seq(Seq(0..Bytes)) /\ Len(new) = Len(g)
                 /\ \A i \in 1..Len(new) : Len(new[i]) = Len(g[i])
                 /\ \A i \in 1..Len(new) : i # b => new[i] = g[i]
                 /\ \A i \in 1..(o + l) : new[b][i] = g[b][i]
                 /\ \A k \in 1..n : new[b][o + (l + k)] = t + k
  <2>1. pw.data.buf.off + pw.data.len + n <= Len(pw.heap[pw.data.buf.blk])
    BY <1>1, <1>3, <1>p
  <2>2. PICK new : new = heap' /\ new = Filled(pw, n)
    OBVIOUS
  <2>3. /\ new \in Seq(Seq(0..Bytes)) /\ Len(new) = Len(pw.heap)
        /\ \A i \in 1..Len(new) : Len(new[i]) = Len(pw.heap[i])
        /\ \A i \in 1..Len(new) : i # pw.data.buf.blk => new[i] = pw.heap[i]
        /\ \A i \in 1..(pw.data.buf.off + pw.data.len) :
              new[pw.data.buf.blk][i] = pw.heap[pw.data.buf.blk][i]
        /\ \A k \in 1..n : new[pw.data.buf.blk][pw.data.buf.off + (pw.data.len + k)] = taken + k
    <3>1. /\ pw.heap \in Seq(Seq(0..Bytes)) /\ pw.data \in Buffer
          /\ pw.data.buf.blk \in 1..Len(pw.heap) /\ taken \in Nat /\ n \in Nat /\ taken + n <= Bytes
      BY <1>1, <1>b
    <3>2. Wrote(pw, n, new)
      BY <2>1, <2>2, <3>1, FilledIs
    <3> QED BY <3>2 DEF Wrote
  <2> QED BY <1>1, <1>p, <2>2, <2>3
<1>5. \A i \in 1..Len(h) :
         /\ Len(new[i]) = Len(h[i])
         /\ \A j \in 1..Len(h[i]) : i # B \/ j <= O + l => new[i][j] = h[i][j]
  <2> TAKE i \in 1..Len(h)
  <2>1. h[i] \in Seq(0..Bytes) /\ Len(h[i]) \in Nat
    BY <1>r, ElementOfSeq, LenProperties
  <2>2. i \in 1..Len(new) /\ i # Len(h) + 1 /\ g[i] = h[i]
    BY <1>r, <1>4
  <2>3. CASE i # b
    BY <1>4, <2>2, <2>3
  <2>4. CASE i = b
    <3>1. o = O /\ i = B
      BY <1>s, <2>2, <2>4
    <3>2. \A j \in 1..Len(h[i]) : j <= O + l => j \in 1..(o + l)
      BY <1>q, <2>1, <3>1
    <3> QED BY <1>4, <2>2, <2>4, <3>1, <3>2
  <2> QED BY <2>3, <2>4
<1>6. \A k \in 1..(l + n) : new[b][o + k] = IF k <= l THEN Byte(k) ELSE t + (k - l)
  <2> TAKE k \in 1..(l + n)
  <2>1. CASE k <= l
    <3>1. k \in 1..l /\ o + k \in 1..(o + l)
      BY <1>q, <2>1
    <3> QED BY <1>4, <1>t, <2>1, <3>1
  <2>2. CASE ~(k <= l)
    <3>1. PICK i \in 1..n : i = k - l /\ l + i = k
      BY <1>q, <2>2
    <3> QED BY <1>4, <2>2, <3>1
  <2> QED BY <2>1, <2>2
<1>7. \A k : Comes(k) = IF k <= l THEN Byte(k) ELSE t + (k - l)
  BY <1>p DEF Comes
<1>8. /\ heap' \in Seq(Seq(0..Bytes)) /\ Len(heap') >= Len(heap)
      /\ pw.data.buf.blk \in 1..Len(heap')
      /\ pw.data.buf.off + pw.data.max = Len(heap'[pw.data.buf.blk])
      /\ data.len + n <= pw.data.max
  <2>1. Len(new) >= Len(h) /\ b \in 1..Len(new) /\ o + m = Len(new[b])
    BY <1>4, <1>r, <1>s
  <2> QED BY <1>3, <1>4, <1>p, <2>1
<1>9. \A i \in 1..Len(heap) :
         /\ Len(heap'[i]) = Len(heap[i])
         /\ \A j \in 1..Len(heap[i]) :
               i # data.buf.blk \/ j <= data.buf.off + data.len => heap'[i][j] = heap[i][j]
  BY <1>4, <1>5, <1>p
<1>10. \A k \in 1..(data.len + n) : heap'[pw.data.buf.blk][pw.data.buf.off + k] = Comes(k)
  BY <1>4, <1>6, <1>7, <1>p
<1>11. \/ pw.data.buf.blk = data.buf.blk /\ pw.data.buf.off = data.buf.off
       \/ pw.data.buf.blk = Len(heap) + 1 /\ pw.data.buf.off = 0
  BY <1>1
<1> QED BY <1>8, <1>9, <1>10, <1>11 DEF Written, Front

\* PreWrite alone, when nothing was read.
LEMMA GrownIs ==
    ASSUME Typed, Bounds, data # NoData, NEW pw, pw = PreWrite, heap' = pw.heap
    PROVE  Written(pw, 0)
<1>1. /\ pw.heap \in Seq(Seq(0..Bytes)) /\ pw.data \in Buffer
      /\ Len(pw.heap) >= Len(heap) /\ \A i \in 1..Len(heap) : pw.heap[i] = heap[i]
      /\ pw.data.buf.blk \in 1..Len(pw.heap)
      /\ pw.data.buf.off + pw.data.max = Len(pw.heap[pw.data.buf.blk])
      /\ data.len + Suggested <= pw.data.max
      /\ \A k \in 1..data.len : pw.heap[pw.data.buf.blk][pw.data.buf.off + k] = Byte(k)
      /\ \/ pw.data.buf = data.buf /\ pw.heap = heap
         \/ pw.data.buf.blk = Len(heap) + 1 /\ pw.data.buf.off = 0
  BY PreWriteIs
<1>2. data.len \in Nat
  BY DEF Typed, Buffer
<1>3. pw.data.max \in Nat
  BY <1>1 DEF Buffer
<1>4. data.len + 0 <= pw.data.max
  BY <1>1, <1>2, <1>3, Consts
<1>5. \A k \in 1..(data.len + 0) : k \in 1..data.len /\ Comes(k) = Byte(k)
  BY <1>2 DEF Comes
<1>6. Front
  BY <1>1 DEF Front
<1> QED BY <1>1, <1>4, <1>5, <1>6 DEF Written

\* Nothing at all is written.
LEMMA SameIs ==
    ASSUME Typed, Bounds, data # NoData, data.buf.blk # 0, heap' = heap,
           NEW pw, pw = [heap |-> heap, data |-> data]
    PROVE  Written(pw, 0)
<1>1. /\ data.len \in Nat /\ data.max \in Nat /\ heap \in Seq(Seq(0..Bytes))
      /\ data.buf.off \in Nat
  BY DEF Typed, Buffer, Pointer
<1>2. pw.data = data
  OBVIOUS
<1>3. /\ data.buf.blk \in 1..Len(heap) /\ data.buf.off + data.max = Len(heap[data.buf.blk])
      /\ data.len <= data.max
  BY DEF Bounds
<1>4. \A k \in 1..(data.len + 0) : Comes(k) = heap[data.buf.blk][data.buf.off + k]
  BY <1>1 DEF Comes, Byte
<1>5. Front
  BY <1>1, LenProperties DEF Front
<1>6. data.len + 0 <= data.max
  BY <1>1, <1>3
<1> QED BY <1>2, <1>3, <1>4, <1>5, <1>6 DEF Written

\* q of the n bytes are counted, m are taken away.
LEMMA MovesIs ==
    ASSUME Typed, data # NoData, NEW pw, pw.data \in Buffer, NEW n \in Nat, Written(pw, n),
           NEW q \in 0..n, NEW m \in Nat, data' \in Buffer, data'.len + m = data.len + q,
           data'.buf.blk = pw.data.buf.blk, data'.buf.off = pw.data.buf.off + m,
           data'.max + m = pw.data.max
    PROVE  Moves(q, m)
<1>1. data.len \in Nat /\ data.buf.off \in Nat
  BY DEF Typed, Buffer, Pointer
<1>2. pw.data.buf.off \in Nat /\ pw.data.max \in Nat
  BY DEF Buffer, Pointer
<1>3. data'.buf.off \in Nat /\ data'.max \in Nat /\ data'.len \in Nat
  BY DEF Buffer, Pointer
<1>p. PICK o, M, l, o1, m1, l1, b, L :
         /\ o = pw.data.buf.off /\ M = pw.data.max /\ l = data.len
         /\ o1 = data'.buf.off /\ m1 = data'.max /\ l1 = data'.len
         /\ b = pw.data.buf.blk /\ L = Len(heap'[b])
  OBVIOUS
<1>q. {o, M, l, o1, m1, l1} \subseteq Nat
  BY <1>1, <1>2, <1>3, <1>p
<1>r. l1 + m = l + q /\ o1 = o + m /\ m1 + m = M
  BY <1>p
<1>s. o + M = L /\ l + n <= M /\ \A k \in 1..(l + n) : heap'[b][o + k] = Comes(k)
  BY <1>p DEF Written
<1>4. o1 + m1 = L /\ l1 <= m1
  BY <1>q, <1>r, <1>s
<1>5. ASSUME NEW k \in 1..l1
      PROVE  heap'[b][o1 + k] = Comes(m + k)
  <2>1. PICK j \in 1..(l + n) : j = m + k /\ o + j = o1 + k
    BY <1>q, <1>r
  <2> QED BY <1>s, <2>1
<1>6. \A k \in 1..data'.len : Byte(k)' = Comes(m + k)
  BY <1>5, <1>p DEF Byte
<1>7. Front /\ data'.buf.blk \in 1..Len(heap')
  BY DEF Written
<1>8. \/ data'.buf.blk = data.buf.blk /\ data'.buf.off = data.buf.off + m
      \/ data'.buf.blk = Len(heap) + 1 /\ data'.buf.off = m
  <2>1. \/ pw.data.buf.blk = data.buf.blk /\ pw.data.buf.off = data.buf.off
        \/ pw.data.buf.blk = Len(heap) + 1 /\ pw.data.buf.off = 0
    BY DEF Written
  <2> QED BY <2>1
<1>9. data'.buf.off + data'.max = Len(heap'[data'.buf.blk]) /\ data'.len <= data'.max
  BY <1>4, <1>p
<1> QED BY <1>6, <1>7, <1>8, <1>9 DEF Moves

\* A read is given the first l bytes.
LEMMA GivesIs ==
    ASSUME Typed, data # NoData, NEW pw, pw.data \in Buffer, NEW n \in Nat, Written(pw, n),
           NEW r \in Nat, NEW l \in Nat, l <= data.len + n, NEW full \in BOOLEAN,
           Deliver(r, pw.data.buf, l, heap', full), data' \in Buffer,
           data'.buf.blk = pw.data.buf.blk, pw.data.buf.off + l <= data'.buf.off + data'.len
    PROVE  Gives(r, l, full)
<1>1. data.len \in Nat /\ pw.data.buf.off \in Nat /\ pw.data.max \in Nat /\ pw.data.buf \in Pointer
  BY DEF Typed, Buffer, Pointer
<1>p. PICK o, M, d, L, p : /\ o = pw.data.buf.off /\ M = pw.data.max /\ d = data.len
                           /\ p = pw.data.buf /\ L = Len(heap'[pw.data.buf.blk])
  OBVIOUS
<1>q. o \in Nat /\ M \in Nat /\ d \in Nat /\ l <= d + n
  BY <1>1, <1>p
<1>r. o + M = L /\ d + n <= M
  BY <1>p DEF Written
<1>2. o + l <= L /\ 1..l \subseteq 1..(d + n)
  BY <1>q, <1>r
<1>3. \A k \in 1..(d + n) : heap'[p.blk][p.off + k] = Comes(k)
  BY <1>p DEF Written
<1>4. \A k \in 1..l : heap'[p.blk][p.off + k] = Comes(k)
  BY <1>2, <1>3
<1>5. heap' \in Seq(Seq(0..Bytes)) /\ p.blk \in 1..Len(heap') /\ p.blk = data'.buf.blk /\ p \in Pointer
  BY <1>1, <1>p DEF Written, Front
<1>6. p.off + l <= Len(heap'[p.blk]) /\ p.off + l <= data'.buf.off + data'.len
  BY <1>2, <1>p
<1>7. Deliver(r, p, l, heap', full)
  BY <1>p
<1> QED BY <1>4, <1>5, <1>6, <1>7, DeliverIs

-----------------------------------------------------------------------------
(* The steps as the buffer sees them. *)

\* Nothing is read, written or given.
Keeps ==
    /\ UNCHANGED <<heap, bufs, taken, idle>>
    /\ \/ data' = data
       \/ /\ data # NoData /\ data' \in Buffer
          /\ data'.buf = data.buf /\ data'.len = data.len /\ data'.max = data.max

\* The handle gets its buffer.
Opens ==
    /\ UNCHANGED <<heap, bufs, taken, idle>>
    /\ data = NoData /\ data' \in Buffer
    /\ data'.buf = Nil /\ data'.len = 0 /\ data'.max = 0

\* q bytes come for the buffer, or some come that are not counted.
Arrives(q) ==
    \/ taken' = taken + q /\ idle' = idle
    \/ q = 0 /\ \E n \in Nat : taken' = taken + n /\ idle' = idle \union (taken + 1)..(taken + n)

\* The m bytes taken away are given to a read, or a read gets a copy.
Hands(m) ==
    \/ m = 0 /\ bufs' = bufs
    \/ \E r \in Nat : Gives(r, m, TRUE)
    \/ m = 0 /\ \E r \in Nat : Gives(r, data.len, FALSE)

Receives(q, m) ==
    data # NoData /\ taken' \in 0..Bytes /\ Moves(q, m) /\ Arrives(q) /\ Hands(m)

BufStep == Keeps \/ Opens \/ \E q, m \in Nat : Receives(q, m)

\* The three outcomes of a callback with n > 0 bytes.
Uncounted ==
    /\ data.task = 0 /\ data'.task = 0 /\ UNCHANGED <<ops, wakes, bufs>>
Partial ==
    /\ data.task # 0 /\ data'.task = data.task /\ data'.explen = data.explen
    /\ data'.len < data'.explen /\ UNCHANGED <<ops, wakes, bufs>>
Served ==
    /\ data.task # 0 /\ data'.task = 0
    /\ Gives(data.task, data.explen, TRUE) /\ Complete(data.task)

\* A callback with n > 0 bytes has one of the three outcomes, and moves the buffer
\* as its outcome says.
LEMMA ReadCBIs ==
    ASSUME Typed, Bounds, ReadServed, data # NoData, NEW n \in 1..Suggested, ReadCB(n)
    PROVE  /\ \E q, m \in Nat : Receives(q, m)
           /\ data' \in Buffer /\ UNCHANGED <<sock, conn, empty, reading, co>>
           /\ Uncounted \/ Partial \/ Served
           /\ idle' \subseteq idle \union (taken + 1)..(taken + n)
<1>1. /\ data \in Buffer /\ data.len \in Nat /\ data.explen \in Nat /\ data.task \in Nat /\ data.max \in Nat
      /\ taken \in Nat /\ n \in Nat /\ taken + n <= Bytes
  BY Consts DEF Typed, ReadCB, Buffer
<1> DEFINE pw == PreWrite
<1>2. pw = PreWrite
  OBVIOUS
<1>d. \/ data.task = 0 /\ data' = pw.data /\ UNCHANGED <<ops, wakes, bufs>>
      \/ /\ data.task # 0 /\ pw.data.len + n < data.explen
         /\ data' = [pw.data EXCEPT !.len = pw.data.len + n]
         /\ UNCHANGED <<ops, wakes, bufs>>
      \/ /\ data.task # 0 /\ pw.data.len + n >= data.explen
         /\ Deliver(data.task, pw.data.buf, data.explen, Filled(pw, n), TRUE)
         /\ Complete(data.task)
         /\ data' = Consume([pw.data EXCEPT !.len = pw.data.len + n, !.task = 0], data.explen)
  BY Zenon DEF ReadCB
<1>e. /\ heap' = Filled(pw, n) /\ taken' = taken + n /\ n <= Bytes - taken
      /\ idle' = IF data.task = 0 THEN idle \union (taken + 1)..(taken + n) ELSE idle
      /\ UNCHANGED <<sock, conn, empty, reading, co>>
  BY Zenon DEF ReadCB
<1>3. /\ heap' = Filled(pw, n) /\ taken' = taken + n /\ n <= Bytes - taken
      /\ idle' = IF data.task = 0 THEN idle \union (taken + 1)..(taken + n) ELSE idle
      /\ UNCHANGED <<sock, conn, empty, reading, co>>
      /\ \/ data.task = 0 /\ data' = pw.data /\ UNCHANGED <<ops, wakes, bufs>>
         \/ /\ data.task # 0 /\ pw.data.len + n < data.explen
            /\ data' = [pw.data EXCEPT !.len = pw.data.len + n]
            /\ UNCHANGED <<ops, wakes, bufs>>
         \/ /\ data.task # 0 /\ pw.data.len + n >= data.explen
            /\ Deliver(data.task, pw.data.buf, data.explen, Filled(pw, n), TRUE)
            /\ Complete(data.task)
            /\ data' = Consume([pw.data EXCEPT !.len = pw.data.len + n, !.task = 0], data.explen)
  BY <1>d, <1>e
<1> HIDE DEF pw
<1>4. Written(pw, n)
  BY <1>2, <1>3, WriteIs
<1>5. /\ pw.data \in Buffer /\ pw.data.len = data.len /\ pw.data.task = data.task
      /\ pw.data.explen = data.explen
  BY <1>2, PreWriteIs
<1>6. pw.data.buf \in Pointer /\ pw.data.buf.blk \in Nat /\ pw.data.buf.off \in Nat /\ pw.data.max \in Nat
  BY <1>5 DEF Buffer, Pointer
<1>7. taken' \in 0..Bytes
  BY <1>1, <1>3, Consts
<1>8. CASE data.task = 0
  <2>1. data' = pw.data /\ UNCHANGED <<ops, wakes, bufs>> /\ idle' = idle \union (taken + 1)..(taken + n)
    BY <1>3, <1>8
  <2>2. data'.len + 0 = data.len + 0 /\ data'.buf.off = pw.data.buf.off + 0 /\ data'.max + 0 = pw.data.max
    BY <1>1, <1>5, <1>6, <2>1
  <2>3. Moves(0, 0)
    BY <1>1, <1>4, <1>5, <2>1, <2>2, MovesIs
  <2>4. Receives(0, 0)
    BY <1>1, <1>3, <1>7, <2>1, <2>3 DEF Receives, Arrives, Hands
  <2> QED BY <1>3, <1>5, <1>8, <2>1, <2>4 DEF Uncounted
<1>9. CASE data.task # 0 /\ pw.data.len + n < data.explen
  <2>1. /\ data' = [pw.data EXCEPT !.len = pw.data.len + n] /\ UNCHANGED <<ops, wakes, bufs>>
        /\ idle' = idle
    <3>1. ~(pw.data.len + n >= data.explen)
      BY <1>1, <1>5, <1>9
    <3> QED BY <1>3, <1>9, <3>1
  <2>2. /\ data' \in Buffer /\ data'.len = data.len + n /\ data'.buf = pw.data.buf
        /\ data'.max = pw.data.max /\ data'.task = data.task /\ data'.explen = data.explen
    BY <1>1, <1>5, <2>1 DEF Buffer
  <2>3. data'.len + 0 = data.len + n /\ data'.buf.off = pw.data.buf.off + 0 /\ data'.max + 0 = pw.data.max
    BY <1>1, <1>6, <2>2
  <2>4. Moves(n, 0)
    BY <1>1, <1>4, <1>5, <2>2, <2>3, MovesIs
  <2>5. Receives(n, 0)
    BY <1>1, <1>3, <1>7, <2>1, <2>4 DEF Receives, Arrives, Hands
  <2>6. Partial
    BY <1>5, <1>9, <2>1, <2>2 DEF Partial
  <2> QED BY <1>1, <1>3, <2>1, <2>2, <2>5, <2>6
<1>10. CASE data.task # 0 /\ pw.data.len + n >= data.explen
  <2>1. /\ Deliver(data.task, pw.data.buf, data.explen, heap', TRUE) /\ Complete(data.task)
        /\ data' = Consume([pw.data EXCEPT !.len = pw.data.len + n, !.task = 0], data.explen)
        /\ idle' = idle
    <3>1. ~(pw.data.len + n < data.explen)
      BY <1>1, <1>5, <1>10
    <3> QED BY <1>3, <1>10, <3>1
  <2>a. data.len + n <= pw.data.max
    BY <1>4 DEF Written
  <2>p. PICK d, e, M, o : d = data.len /\ e = data.explen /\ M = pw.data.max /\ o = pw.data.buf.off
    OBVIOUS
  <2>q. d \in Nat /\ e \in Nat /\ M \in Nat /\ o \in Nat /\ d + n >= e /\ d + n <= M /\ n \in Nat
    BY <1>1, <1>5, <1>6, <1>10, <2>a, <2>p
  <2>2. d + n \in Nat /\ e <= d + n /\ e <= M /\ o + e <= (o + e) + (d + n - e)
    BY <2>q
  <2>3. PICK x : x = [pw.data EXCEPT !.len = pw.data.len + n, !.task = 0]
    OBVIOUS
  <2>4. /\ x \in Buffer /\ x.len = d + n /\ x.task = 0 /\ x.max = M /\ x.buf = pw.data.buf
        /\ x.explen = data.explen
    BY <1>5, <2>2, <2>3, <2>p DEF Buffer
  <2>5. /\ data' \in Buffer /\ data'.len = d + n - e /\ data'.max = M - e /\ data'.task = 0
        /\ data'.buf.blk = pw.data.buf.blk /\ data'.buf.off = o + e
    <3>1. data' = Consume(x, e) /\ e <= x.len /\ e <= x.max
      BY <2>1, <2>2, <2>3, <2>4, <2>p
    <3> QED BY <2>4, <2>p, <2>q, <3>1, ConsumeIs
  <2>6. /\ data'.len + e = data.len + n /\ data'.buf.blk = pw.data.buf.blk
        /\ data'.buf.off = pw.data.buf.off + e /\ data'.max + e = pw.data.max
        /\ pw.data.buf.off + e <= data'.buf.off + data'.len
    <3>1. (d + n - e) + e = d + n /\ (M - e) + e = M
      BY <2>q
    <3> QED BY <2>2, <2>5, <2>p, <3>1
  <2>7. Moves(n, e)
    BY <1>1, <1>4, <1>5, <2>5, <2>6, <2>q, MovesIs
  <2>8. Gives(data.task, e, TRUE)
    <3>1. e <= data.len + n /\ Deliver(data.task, pw.data.buf, e, heap', TRUE)
      BY <2>1, <2>p, <2>q
    <3> QED BY <1>1, <1>4, <1>5, <2>5, <2>6, <2>q, <3>1, GivesIs
  <2>9. Receives(n, e) /\ e \in Nat
    BY <1>1, <1>3, <1>7, <2>1, <2>7, <2>8, <2>q DEF Receives, Arrives, Hands
  <2>10. Served
    BY <1>10, <2>1, <2>5, <2>8, <2>p DEF Served
  <2> QED BY <1>1, <1>3, <2>1, <2>5, <2>9, <2>10
<1> QED BY <1>3, <1>8, <1>9, <1>10

\* A read served from the buffer is given its first bytes.
LEMMA ReadBufferedIs ==
    ASSUME Typed, Bounds, Attached, NEW r \in 1..Len(ops), ReadBuffered(r)
    PROVE  /\ data # NoData /\ \E q, m \in Nat : Receives(q, m)
           /\ data' \in Buffer /\ data'.task = data.task /\ data'.explen = data.explen
           /\ data'.len <= data.len
           /\ ops[r].kind = "read" /\ ops[r].st = "job" /\ Gives(r, ops[r].len, TRUE) /\ Complete(r)
           /\ UNCHANGED <<sock, conn, net, reading, heap, co>>
<1>1. /\ data # NoData /\ ops[r].kind = "read" /\ ops[r].st = "job" /\ data.len >= ops[r].len
      /\ data' = Consume(data, ops[r].len) /\ Deliver(r, data.buf, ops[r].len, heap, TRUE)
      /\ Complete(r) /\ UNCHANGED <<sock, conn, net, reading, heap, co>>
  BY DEF ReadBuffered, Job
<1>2. /\ data \in Buffer /\ data.len \in Nat /\ data.max \in Nat /\ data.buf.off \in Nat /\ data.buf.blk \in Nat
      /\ taken \in 0..Bytes /\ taken \in Nat
  BY <1>1 DEF Typed, Buffer, Pointer
<1>3. r \in Nat /\ ops[r].len \in Nat /\ ops[r].len > 0
  <2>1. ops[r] \in Op /\ r \in Nat
    BY ElementOfSeq, LenProperties DEF Typed
  <2> QED BY <1>1, <2>1 DEF Op, Attached
<1>p. PICK l, d, m, o : l = ops[r].len /\ d = data.len /\ m = data.max /\ o = data.buf.off
  OBVIOUS
<1>q. l \in Nat /\ d \in Nat /\ m \in Nat /\ o \in Nat /\ l > 0 /\ l <= d
  BY <1>1, <1>2, <1>3, <1>p
<1>4. data.buf.blk # 0
  <2>1. d > 0
    BY <1>q
  <2> QED BY <1>1, <1>p, <2>1 DEF Bounds
<1>5. d <= m
  BY <1>1, <1>4, <1>p DEF Bounds
<1>6. l <= m /\ (d - l) + l = d /\ (m - l) + l = m /\ d - l <= d /\ o + l <= (o + l) + (d - l) /\ l <= d + 0
      /\ (d - l) + l = d + 0
  BY <1>5, <1>q
<1>7. /\ data' \in Buffer /\ data'.len = d - l /\ data'.max = m - l /\ data'.buf.blk = data.buf.blk
      /\ data'.buf.off = o + l /\ data'.task = data.task /\ data'.explen = data.explen
  <2>1. data' = Consume(data, l) /\ l <= data.len /\ l <= data.max
    BY <1>1, <1>6, <1>p, <1>q
  <2> QED BY <1>2, <1>p, <1>q, <2>1, ConsumeIs
<1>8. PICK pw : pw = [heap |-> heap, data |-> data]
  OBVIOUS
<1>9. pw.data = data /\ Written(pw, 0) /\ heap' = heap
  BY <1>1, <1>4, <1>8, SameIs
<1>10. Moves(0, l)
  <2>1. data'.len + l = data.len + 0 /\ data'.buf.off = pw.data.buf.off + l /\ data'.max + l = pw.data.max
    BY <1>6, <1>7, <1>9, <1>p
  <2> QED BY <1>1, <1>2, <1>7, <1>9, <1>q, <2>1, MovesIs, SMTT(30)
<1>11. Gives(r, l, TRUE)
  <2>1. /\ l <= data.len + 0 /\ Deliver(r, pw.data.buf, l, heap', TRUE)
        /\ pw.data.buf.off + l <= data'.buf.off + data'.len
    BY <1>1, <1>6, <1>7, <1>9, <1>p
  <2> QED BY <1>1, <1>2, <1>3, <1>7, <1>9, <1>q, <2>1, GivesIs
<1>12. taken' = taken + 0 /\ idle' = idle
  BY <1>1, <1>2 DEF net
<1>13. Receives(0, l)
  <2>1. taken' \in 0..Bytes
    BY <1>1, <1>2 DEF net
  <2>2. Arrives(0)
    BY <1>12 DEF Arrives
  <2>3. Hands(l)
    BY <1>3, <1>11 DEF Hands
  <2> QED BY <1>1, <1>10, <2>1, <2>2, <2>3 DEF Receives
<1> QED BY <1>1, <1>6, <1>7, <1>11, <1>13, <1>p, <1>q

\* The two outcomes of a callback with nread <= 0.
Short ==
    \/ data.task = 0 /\ UNCHANGED <<ops, wakes, bufs>>
    \/ data.task # 0 /\ Gives(data.task, data.len, FALSE) /\ Complete(data.task)

\* A callback with nread <= 0 leaves the buffer as it is, perhaps in a larger block.
LEMMA ShortReadIs ==
    ASSUME Typed, Bounds, data # NoData, ShortRead, UNCHANGED <<taken, idle>>
    PROVE  /\ \E q, m \in Nat : Receives(q, m)
           /\ data' \in Buffer /\ data'.task = data.task /\ data'.explen = data.explen
           /\ data'.len = data.len /\ Short
<1>1. /\ data \in Buffer /\ data.len \in Nat /\ data.task \in Nat
      /\ taken \in 0..Bytes /\ taken \in Nat
  BY DEF Typed, Buffer
<1> DEFINE pw == PreWrite
<1>2. pw = PreWrite
  OBVIOUS
<1>3. /\ heap' = pw.heap /\ data' = pw.data
      /\ \/ data.task = 0 /\ UNCHANGED <<ops, wakes, bufs>>
         \/ /\ data.task # 0
            /\ Deliver(data.task, pw.data.buf, data.len, pw.heap, FALSE)
            /\ Complete(data.task)
  BY DEF ShortRead
<1> HIDE DEF pw
<1>4. Written(pw, 0)
  BY <1>2, <1>3, GrownIs
<1>5. /\ pw.data \in Buffer /\ pw.data.len = data.len /\ pw.data.task = data.task
      /\ pw.data.explen = data.explen
  BY <1>2, PreWriteIs
<1>6. pw.data.buf.off \in Nat /\ pw.data.max \in Nat
  BY <1>5 DEF Buffer, Pointer
<1>7. Moves(0, 0)
  <2>1. data'.len + 0 = data.len + 0 /\ data'.buf.off = pw.data.buf.off + 0 /\ data'.max + 0 = pw.data.max
    BY <1>1, <1>3, <1>5, <1>6
  <2> QED BY <1>1, <1>3, <1>4, <1>5, <2>1, MovesIs
<1>8. Short
  <2>1. CASE data.task = 0
    BY <1>3, <2>1 DEF Short
  <2>2. CASE data.task # 0
    <3>1. /\ Deliver(data.task, pw.data.buf, data.len, heap', FALSE) /\ Complete(data.task)
          /\ data.len <= data.len + 0 /\ pw.data.buf.off + data.len <= data'.buf.off + data'.len
      <4>1. Deliver(data.task, pw.data.buf, data.len, heap', FALSE) /\ Complete(data.task)
        BY <1>3, <2>2
      <4>2. data.len <= data.len + 0
        BY <1>1
      <4>3. pw.data.buf.off + data.len <= data'.buf.off + data'.len
        BY <1>1, <1>3, <1>5, <1>6
      <4> QED BY <4>1, <4>2, <4>3
    <3>2. Gives(data.task, data.len, FALSE)
      BY <1>1, <1>3, <1>4, <1>5, <3>1, GivesIs
    <3> QED BY <2>2, <3>1, <3>2 DEF Short
  <2> QED BY <2>1, <2>2
<1>9. taken' = taken + 0 /\ idle' = idle
  BY <1>1
<1>10. Hands(0)
  BY <1>1, <1>8 DEF Hands, Short
<1>11. Receives(0, 0)
  BY <1>1, <1>7, <1>9, <1>10 DEF Receives, Arrives
<1> QED BY <1>3, <1>5, <1>8, <1>11

-----------------------------------------------------------------------------
(* What the steps preserve. *)

\* Facts about the buffer and one of the Bufs, for arithmetic.
LEMMA BufTypes ==
    ASSUME Typed
    PROVE  /\ Len(bufs) \in Nat
           /\ \A i \in 1..Len(bufs) :
                 /\ bufs[i].op \in Nat /\ bufs[i].len \in Nat /\ bufs[i].ptr.off \in Nat
                 /\ bufs[i].full \in BOOLEAN
                 /\ bufs[i].bytes \in Seq(0..Bytes)
<1>1. bufs \in Seq(Buf) /\ Len(bufs) \in Nat
  BY LenProperties DEF Typed
<1>2. ASSUME NEW u \in Buf
      PROVE  /\ u.op \in Nat /\ u.len \in Nat /\ u.ptr.off \in Nat
             /\ u.full \in BOOLEAN /\ u.bytes \in Seq(0..Bytes)
  <2>1. u.ptr \in Pointer
    BY DEF Buf
  <2> QED BY <2>1 DEF Buf, Pointer
<1>3. \A i \in 1..Len(bufs) : bufs[i] \in Buf
  BY <1>1, ElementOfSeq
<1> QED BY <1>1, <1>2, <1>3

\* The types of the buffer's fields.
LEMMA DataTypes ==
    ASSUME Typed, data # NoData
    PROVE  /\ data \in Buffer /\ data.len \in Nat /\ data.max \in Nat /\ data.explen \in Nat /\ data.task \in Nat
           /\ data.buf \in Pointer /\ data.buf.blk \in Nat /\ data.buf.off \in Nat
  BY DEF Typed, Buffer, Pointer

\* Growth, arrival and consumption keep the buffer inside its block.
LEMMA BoundsStep ==
    ASSUME Typed, Bounds, BufStep
    PROVE  Bounds'
<1>1. CASE Keeps
  BY <1>1 DEF Keeps, Bounds
<1>2. CASE Opens
  BY <1>2 DEF Opens, Bounds, Nil
<1>3. ASSUME NEW q \in Nat, NEW m \in Nat, Receives(q, m)
      PROVE  Bounds'
  <2>1. /\ data'.buf.blk \in 1..Len(heap') /\ data' \in Buffer
        /\ data'.buf.off + data'.max = Len(heap'[data'.buf.blk]) /\ data'.len <= data'.max
    BY <1>3 DEF Receives, Moves
  <2>2. heap' \in Seq(Seq(0..Bytes)) /\ data'.buf.blk # 0
    BY <1>3, <2>1, LenProperties DEF Receives, Moves, Front
  <2> QED BY <2>1, <2>2 DEF Bounds
<1> QED BY <1>1, <1>2, <1>3 DEF BufStep

\* What was delivered stays in front of where libuv writes: it is in another block, or
\* the end of the buffered bytes only moves up.
LEMMA DeliveredStep ==
    ASSUME Typed, Attached, Delivered, BufStep
    PROVE  Delivered'
<1>1. CASE Keeps
  <2>1. CASE data' = data
    BY <1>1, <2>1 DEF Keeps, Delivered
  <2>2. CASE data' # data
    BY <1>1, <2>2 DEF Keeps, Delivered
  <2> QED BY <2>1, <2>2
<1>2. CASE Opens
  <2>1. bufs' = <<>>
    BY <1>2 DEF Opens, Attached
  <2> QED BY <2>1 DEF Delivered
<1>3. ASSUME NEW q \in Nat, NEW m \in Nat, Receives(q, m)
      PROVE  Delivered'
  <2>0. /\ data # NoData /\ Front /\ data' \in Buffer /\ data'.len + m = data.len + q
        /\ data'.buf.blk \in 1..Len(heap')
        /\ data'.buf.off + data'.max = Len(heap'[data'.buf.blk]) /\ data'.len <= data'.max
        /\ \/ data'.buf.blk = data.buf.blk /\ data'.buf.off = data.buf.off + m
           \/ data'.buf.blk = Len(heap) + 1 /\ data'.buf.off = m
    BY <1>3 DEF Receives, Moves
  <2>1. /\ data'.len \in Nat /\ data'.max \in Nat /\ data'.buf.off \in Nat
        /\ data.len \in Nat /\ data.buf.off \in Nat
        /\ Len(heap) \in Nat
    BY <2>0, DataTypes, LenProperties DEF Buffer, Pointer, Typed
  <2>2. heap' \in Seq(Seq(0..Bytes)) /\ Len(heap') \in Nat /\ Len(heap') >= Len(heap)
    BY <2>0, LenProperties DEF Front
  <2>3. ASSUME NEW i \in 1..Len(bufs), bufs'[i] = bufs[i]
        PROVE  /\ bufs'[i].ptr.blk \in 1..Len(heap')
               /\ bufs'[i].ptr.off + bufs'[i].len <= Len(heap'[bufs'[i].ptr.blk])
               /\ bufs'[i].ptr.blk = data'.buf.blk =>
                     bufs'[i].ptr.off + bufs'[i].len <= data'.buf.off + data'.len
    <3>1. /\ bufs[i].ptr.blk \in 1..Len(heap)
          /\ bufs[i].ptr.off + bufs[i].len <= Len(heap[bufs[i].ptr.blk])
          /\ bufs[i].ptr.blk = data.buf.blk =>
                bufs[i].ptr.off + bufs[i].len <= data.buf.off + data.len
      BY DEF Delivered
    <3>2. bufs[i].ptr.blk \in 1..Len(heap') /\ bufs[i].ptr.blk # Len(heap) + 1
      BY <2>1, <2>2, <3>1, SMTT(30)
    <3>3. Len(heap'[bufs[i].ptr.blk]) = Len(heap[bufs[i].ptr.blk])
      BY <2>0, <3>1 DEF Front
    <3>4. ASSUME bufs[i].ptr.blk = data'.buf.blk
          PROVE  bufs[i].ptr.off + bufs[i].len <= data'.buf.off + data'.len
      <4>p. PICK a, b, o, d, o1, d1 :
               /\ a = bufs[i].ptr.off /\ b = bufs[i].len /\ o = data.buf.off /\ d = data.len
               /\ o1 = data'.buf.off /\ d1 = data'.len
        OBVIOUS
      <4>1. {a, b, o, d, o1, d1} \subseteq Nat
        BY <2>1, <4>p, BufTypes
      <4>2. a + b <= o + d /\ o1 = o + m /\ d1 + m = d + q
        BY <2>0, <3>1, <3>2, <3>4, <4>p
      <4>3. a + b <= o1 + d1
        BY <4>1, <4>2, SMTT(30)
      <4> QED BY <4>3, <4>p
    <3> QED BY <2>3, <3>1, <3>2, <3>3, <3>4
  <2>4. CASE bufs' = bufs
    BY <2>3, <2>4 DEF Delivered
  <2>5. ASSUME NEW r \in Nat, NEW l, NEW full, Gives(r, l, full)
        PROVE  Delivered'
    <3>1. /\ Len(bufs') = Len(bufs) + 1 /\ \A i \in 1..Len(bufs) : bufs'[i] = bufs[i]
          /\ bufs' \in Seq(Buf)
      BY <2>5 DEF Gives
    <3>2. PICK u : /\ u = bufs'[Len(bufs) + 1] /\ u.len = l /\ u.ptr.blk = data'.buf.blk
                   /\ u.ptr.off + l <= data'.buf.off + data'.len
      BY <2>5 DEF Gives
    <3>3. u.ptr.off \in Nat /\ u.len \in Nat
      <4>1. u \in Buf
        BY <3>1, <3>2, BufTypes, ElementOfSeq
      <4> QED BY <4>1 DEF Buf, Pointer
    <3>4. u.ptr.off + u.len <= Len(heap'[u.ptr.blk])
      <4>p. PICK a, o1, d1, m1, L : /\ a = u.ptr.off /\ o1 = data'.buf.off /\ d1 = data'.len
                                    /\ m1 = data'.max /\ L = Len(heap'[data'.buf.blk])
        OBVIOUS
      <4>1. {a, u.len, o1, d1, m1} \subseteq Nat
        BY <2>1, <3>3, <4>p
      <4>2. a + u.len <= o1 + d1 /\ d1 <= m1 /\ o1 + m1 = L
        BY <2>0, <3>2, <4>p
      <4>3. a + u.len <= L
        BY <4>1, <4>2
      <4> QED BY <3>2, <4>3, <4>p
    <3>5. ASSUME NEW i \in 1..Len(bufs')
          PROVE  /\ bufs'[i].ptr.blk \in 1..Len(heap')
                 /\ bufs'[i].ptr.off + bufs'[i].len <= Len(heap'[bufs'[i].ptr.blk])
                 /\ bufs'[i].ptr.blk = data'.buf.blk =>
                       bufs'[i].ptr.off + bufs'[i].len <= data'.buf.off + data'.len
      <4>1. i \in 1..Len(bufs) \/ i = Len(bufs) + 1
        BY <3>1, BufTypes
      <4>2. CASE i \in 1..Len(bufs)
        BY <2>3, <3>1, <4>2
      <4>3. CASE i = Len(bufs) + 1
        BY <2>0, <3>2, <3>4, <4>3
      <4> QED BY <4>1, <4>2, <4>3
    <3> QED BY <3>5 DEF Delivered
  <2> QED BY <1>3, <2>4, <2>5 DEF Receives, Hands
<1> QED BY <1>1, <1>2, <1>3 DEF BufStep

\* Nothing is written into delivered bytes.
LEMMA StableStep ==
    ASSUME Typed, Attached, Delivered, DeliveredStable, BufStep
    PROVE  DeliveredStable'
<1>1. CASE Keeps \/ Opens
  BY <1>1 DEF Keeps, Opens, DeliveredStable
<1>2. ASSUME NEW q \in Nat, NEW m \in Nat, Receives(q, m)
      PROVE  DeliveredStable'
  <2>0. data # NoData /\ Front
    BY <1>2 DEF Receives, Moves
  <2>1. data.len \in Nat /\ data.buf.off \in Nat /\ heap \in Seq(Seq(0..Bytes))
    BY <2>0, DataTypes DEF Typed
  <2>2. ASSUME NEW i \in 1..Len(bufs)
        PROVE  Content(heap', bufs[i].ptr, bufs[i].len) = bufs[i].bytes
    <3>1. /\ bufs[i].ptr.blk \in 1..Len(heap)
          /\ bufs[i].ptr.off + bufs[i].len <= Len(heap[bufs[i].ptr.blk])
          /\ bufs[i].ptr.blk = data.buf.blk =>
                bufs[i].ptr.off + bufs[i].len <= data.buf.off + data.len
      BY DEF Delivered
    <3>2. ASSUME NEW k \in 1..bufs[i].len
          PROVE  heap'[bufs[i].ptr.blk][bufs[i].ptr.off + k] = heap[bufs[i].ptr.blk][bufs[i].ptr.off + k]
      <4>p. PICK a, c, b, o, d, L, j :
               /\ a = bufs[i].ptr.off /\ c = bufs[i].len /\ b = bufs[i].ptr.blk
               /\ o = data.buf.off /\ d = data.len /\ L = Len(heap[b]) /\ j = a + k
        OBVIOUS
      <4>1. {a, c, o, d, L} \subseteq Nat
        BY <2>1, <3>1, <4>p, BufTypes, ElementOfSeq, LenProperties
      <4>2. k \in 1..c /\ a + c <= L /\ (b = data.buf.blk => a + c <= o + d) /\ j = a + k
        BY <3>1, <4>p
      <4>3. j \in 1..L /\ (b # data.buf.blk \/ j <= o + d)
        BY <4>1, <4>2
      <4>4. heap'[b][j] = heap[b][j]
        BY <2>0, <3>1, <4>3, <4>p DEF Front
      <4> QED BY <4>4, <4>p
    <3>3. Content(heap', bufs[i].ptr, bufs[i].len) = Content(heap, bufs[i].ptr, bufs[i].len)
      BY <3>2 DEF Content
    <3> QED BY <3>3 DEF DeliveredStable
  <2>3. CASE bufs' = bufs
    BY <2>2, <2>3 DEF DeliveredStable
  <2>4. ASSUME NEW r \in Nat, NEW l, NEW full, Gives(r, l, full)
        PROVE  DeliveredStable'
    <3>1. /\ Len(bufs') = Len(bufs) + 1 /\ \A i \in 1..Len(bufs) : bufs'[i] = bufs[i]
      BY <2>4 DEF Gives
    <3>2. PICK u : u = bufs'[Len(bufs) + 1] /\ u.bytes = Content(heap', u.ptr, u.len)
      BY <2>4 DEF Gives
    <3>3. ASSUME NEW i \in 1..Len(bufs')
          PROVE  Content(heap', bufs'[i].ptr, bufs'[i].len) = bufs'[i].bytes
      <4>1. i \in 1..Len(bufs) \/ i = Len(bufs) + 1
        BY <3>1, BufTypes
      <4>2. CASE i \in 1..Len(bufs)
        BY <2>2, <3>1, <4>2
      <4>3. CASE i = Len(bufs) + 1
        BY <3>2, <4>3
      <4> QED BY <4>1, <4>2, <4>3
    <3> QED BY <3>3 DEF DeliveredStable
  <2> QED BY <1>2, <2>3, <2>4 DEF Receives, Hands
<1> QED BY <1>1, <1>2 DEF BufStep

\* What comes, in the order of the stream, behind all that full reads got.
LEMMA ComesIs ==
    ASSUME Typed, Sorted, data # NoData, NEW q \in Nat
    PROVE  /\ \A k \in 1..(data.len + q) : Comes(k) \in 1..(taken + q)
           /\ \A k, l \in 1..(data.len + q) : k < l => Comes(k) < Comes(l)
           /\ \A i \in 1..Len(bufs) : bufs[i].full =>
                 \A x \in 1..bufs[i].len, k \in 1..(data.len + q) : bufs[i].bytes[x] < Comes(k)
<1>p. PICK d \in Nat, t \in Nat : d = data.len /\ t = taken
  BY DataTypes DEF Typed
<1>1. /\ \A k \in 1..d : Byte(k) \in 1..t
      /\ \A k, l \in 1..d : k < l => Byte(k) < Byte(l)
      /\ \A i \in 1..Len(bufs) : bufs[i].full =>
            \A x \in 1..bufs[i].len, k \in 1..d : bufs[i].bytes[x] < Byte(k)
      /\ \A i \in 1..Len(bufs) : bufs[i].full => \A x \in 1..bufs[i].len : bufs[i].bytes[x] \in 1..t
  BY <1>p DEF Sorted
<1>2. \A k : Comes(k) = IF k <= d THEN Byte(k) ELSE t + (k - d)
  BY <1>p DEF Comes
<1>3. ASSUME NEW k \in 1..(d + q)
      PROVE  \/ k \in 1..d /\ Comes(k) = Byte(k) /\ Comes(k) \in 1..t
             \/ k > d /\ Comes(k) = t + (k - d) /\ Comes(k) \in (t + 1)..(t + q)
  <2>1. CASE k <= d
    <3>1. k \in 1..d
      BY <2>1
    <3>2. Comes(k) = Byte(k)
      BY <1>2, <2>1
    <3>3. Byte(k) \in 1..t
      BY <1>1, <3>1
    <3> QED BY <3>1, <3>2, <3>3
  <2>2. CASE ~(k <= d)
    <3>1. k > d /\ t + (k - d) \in (t + 1)..(t + q)
      BY <2>2
    <3> QED BY <1>2, <2>2, <3>1
  <2> QED BY <2>1, <2>2
<1>4. \A k \in 1..(d + q) : Comes(k) \in 1..(t + q)
  <2> TAKE k \in 1..(d + q)
  <2>1. 1..t \subseteq 1..(t + q) /\ (t + 1)..(t + q) \subseteq 1..(t + q)
    OBVIOUS
  <2> QED BY <1>3, <2>1
<1>5. \A k, l \in 1..(d + q) : k < l => Comes(k) < Comes(l)
  <2> TAKE k, l \in 1..(d + q)
  <2> HAVE k < l
  <2>1. CASE l \in 1..d /\ k \in 1..d
    BY <1>1, <1>2, <2>1
  <2>2. CASE l > d /\ k \in 1..d
    <3>1. PICK x \in 1..t : x = Comes(k)
      BY <1>3, <2>2
    <3>2. PICK y \in (t + 1)..(t + q) : y = Comes(l)
      BY <1>3, <2>2
    <3>3. x < y
      OBVIOUS
    <3> QED BY <3>1, <3>2, <3>3
  <2>3. CASE l > d /\ k > d
    <3>1. Comes(k) = t + (k - d) /\ Comes(l) = t + (l - d)
      BY <1>2, <2>3
    <3> QED BY <3>1
  <2> QED BY <2>1, <2>2, <2>3
<1>6. ASSUME NEW i \in 1..Len(bufs), bufs[i].full, NEW x \in 1..bufs[i].len, NEW k \in 1..(d + q)
      PROVE  bufs[i].bytes[x] < Comes(k)
  <2>1. PICK y \in 1..t : y = bufs[i].bytes[x]
    BY <1>1, <1>6
  <2>2. CASE k \in 1..d /\ Comes(k) = Byte(k)
    BY <1>1, <1>6, <2>2
  <2>3. CASE Comes(k) \in (t + 1)..(t + q)
    <3>1. PICK z \in (t + 1)..(t + q) : z = Comes(k)
      BY <2>3
    <3>2. y < z
      OBVIOUS
    <3> QED BY <2>1, <3>1, <3>2
  <2> QED BY <1>3, <2>2, <2>3
<1> QED BY <1>4, <1>5, <1>6, <1>p

\* A full read got the first of what comes; the buffer keeps the rest.
LEMMA SortedStep ==
    ASSUME Typed, Attached, Sorted, BufStep
    PROVE  Sorted'
<1>1. CASE Keeps
  <2>1. taken' = taken /\ bufs' = bufs /\ heap' = heap
    BY <1>1 DEF Keeps
  <2>2. CASE data' = data
    BY <2>1, <2>2 DEF Sorted, Byte
  <2>3. CASE data # NoData /\ data'.buf = data.buf /\ data'.len = data.len
    BY <2>1, <2>3 DEF Sorted, Byte
  <2> QED BY <1>1, <2>2, <2>3 DEF Keeps
<1>2. CASE Opens
  <2>1. bufs' = <<>> /\ data'.len = 0
    BY <1>2 DEF Opens, Attached
  <2> QED BY <2>1 DEF Sorted
<1>3. ASSUME NEW q \in Nat, NEW m \in Nat, Receives(q, m)
      PROVE  Sorted'
  <2>0. /\ data # NoData /\ data'.len + m = data.len + q /\ data' \in Buffer
        /\ \A k \in 1..data'.len : Byte(k)' = Comes(m + k)
    BY <1>3 DEF Receives, Moves
  <2>1. PICK d \in Nat, t \in Nat, t1 \in Nat, d1 \in Nat :
            d = data.len /\ t = taken /\ t1 = taken' /\ d1 = data'.len
    <3>1. data.len \in Nat /\ taken \in Nat
      BY <2>0, DataTypes DEF Typed
    <3>2. taken' \in Nat
      BY <1>3, Consts DEF Receives
    <3>3. data'.len \in Nat
      BY <2>0 DEF Buffer
    <3> QED BY <3>1, <3>2, <3>3
  <2>2. d1 + m = d + q /\ t + q <= t1
    <3>1. taken' = taken + q \/ (q = 0 /\ \E n \in Nat : taken' = taken + n)
      BY <1>3 DEF Receives, Arrives
    <3> QED BY <2>0, <2>1, <3>1
  <2>3. /\ \A k \in 1..(d + q) : Comes(k) \in 1..(t + q)
        /\ \A k, l \in 1..(d + q) : k < l => Comes(k) < Comes(l)
        /\ \A i \in 1..Len(bufs) : bufs[i].full =>
              \A x \in 1..bufs[i].len, k \in 1..(d + q) : bufs[i].bytes[x] < Comes(k)
    BY <2>0, <2>1, ComesIs
  <2>4. 1..t \subseteq 1..t1 /\ 1..(t + q) \subseteq 1..t1 /\ 1..m \subseteq 1..(d + q)
    BY <2>2
  <2>5. \A k \in 1..d1 : m + k \in 1..(d + q) /\ Byte(k)' = Comes(m + k)
    BY <2>0, <2>1, <2>2
  <2>6. \A k \in 1..d1 : Byte(k)' \in 1..t1
    BY <2>3, <2>4, <2>5
  <2>7. \A k, l \in 1..d1 : k < l => Byte(k)' < Byte(l)'
    <3> TAKE k, l \in 1..d1
    <3> HAVE k < l
    <3>1. PICK a \in 1..(d + q), b \in 1..(d + q) : a = m + k /\ b = m + l /\ a < b
      BY <2>5
    <3> QED BY <2>3, <2>5, <3>1
  <2>8. \A i \in 1..Len(bufs) : bufs[i].full =>
           /\ \A x \in 1..bufs[i].len, k \in 1..d1 : bufs[i].bytes[x] < Byte(k)'
           /\ \A x \in 1..bufs[i].len : bufs[i].bytes[x] \in 1..t1
    <3>1. \A i \in 1..Len(bufs) : bufs[i].full => \A x \in 1..bufs[i].len : bufs[i].bytes[x] \in 1..t
      BY <2>1 DEF Sorted
    <3> QED BY <2>3, <2>4, <2>5, <3>1
  <2>9. CASE bufs' = bufs
    BY <2>1, <2>6, <2>7, <2>8, <2>9 DEF Sorted
  <2>10. ASSUME NEW r \in Nat, NEW l, NEW full \in BOOLEAN, Gives(r, l, full), full => l = m
         PROVE  Sorted'
    <3>1. /\ Len(bufs') = Len(bufs) + 1 /\ \A i \in 1..Len(bufs) : bufs'[i] = bufs[i]
      BY <2>10 DEF Gives
    <3>2. PICK u : u = bufs'[Len(bufs) + 1] /\ u.len = l /\ u.full = full /\ \A k \in 1..l : u.bytes[k] = Comes(k)
      BY <2>10 DEF Gives
    <3>3. ASSUME u.full
          PROVE  /\ \A x \in 1..u.len, k \in 1..d1 : u.bytes[x] < Byte(k)'
                 /\ \A x \in 1..u.len : u.bytes[x] \in 1..t1
      <4>1. u.len = m /\ \A k \in 1..m : u.bytes[k] = Comes(k)
        BY <2>10, <3>2, <3>3
      <4>2. \A x \in 1..m, k \in 1..d1 : x < m + k
        OBVIOUS
      <4> QED BY <2>3, <2>4, <2>5, <4>1, <4>2
    <3>4. ASSUME NEW i \in 1..Len(bufs'), bufs'[i].full
          PROVE  /\ \A x \in 1..bufs'[i].len, k \in 1..d1 : bufs'[i].bytes[x] < Byte(k)'
                 /\ \A x \in 1..bufs'[i].len : bufs'[i].bytes[x] \in 1..t1
      <4>1. i \in 1..Len(bufs) \/ i = Len(bufs) + 1
        BY <3>1, BufTypes
      <4>2. CASE i \in 1..Len(bufs)
        BY <2>8, <3>1, <3>4, <4>2
      <4>3. CASE i = Len(bufs) + 1
        BY <3>2, <3>3, <3>4, <4>3
      <4> QED BY <4>1, <4>2, <4>3
    <3> QED BY <2>1, <2>6, <2>7, <3>4 DEF Sorted
  <2> QED BY <1>3, <2>9, <2>10 DEF Receives, Hands
<1> QED BY <1>1, <1>2, <1>3 DEF BufStep

\* A full read gets bytes behind those of all full reads before it.
LEMMA OrderStep ==
    ASSUME Typed, Sorted, InOrder, BufStep
    PROVE  InOrder'
<1>1. CASE bufs' = bufs
  BY <1>1 DEF InOrder
<1>2. ASSUME NEW q \in Nat, NEW m \in Nat, Receives(q, m), NEW r \in Nat, NEW l, NEW full \in BOOLEAN,
             Gives(r, l, full), full => l = m
      PROVE  InOrder'
  <2>0. data # NoData /\ data'.len + m = data.len + q /\ data' \in Buffer
    BY <1>2 DEF Receives, Moves
  <2>1. PICK d \in Nat, t \in Nat, d1 \in Nat : d = data.len /\ t = taken /\ d1 = data'.len
    <3>1. data.len \in Nat /\ taken \in Nat
      BY <2>0, DataTypes DEF Typed
    <3>2. data'.len \in Nat
      BY <2>0 DEF Buffer
    <3> QED BY <3>1, <3>2
  <2>2. /\ \A k \in 1..(d + q) : Comes(k) \in 1..(t + q)
        /\ \A k, x \in 1..(d + q) : k < x => Comes(k) < Comes(x)
        /\ \A i \in 1..Len(bufs) : bufs[i].full =>
              \A x \in 1..bufs[i].len, k \in 1..(d + q) : bufs[i].bytes[x] < Comes(k)
    BY <2>0, <2>1, ComesIs
  <2>3. 1..m \subseteq 1..(d + q)
    BY <2>0, <2>1
  <2>4. /\ Len(bufs') = Len(bufs) + 1 /\ \A i \in 1..Len(bufs) : bufs'[i] = bufs[i]
    BY <1>2 DEF Gives
  <2>5. PICK u : u = bufs'[Len(bufs) + 1] /\ u.len = l /\ u.full = full /\ \A k \in 1..l : u.bytes[k] = Comes(k)
    BY <1>2 DEF Gives
  <2>6. ASSUME u.full
        PROVE  /\ \A k \in 1..u.len : u.bytes[k] > 0
               /\ \A k, x \in 1..u.len : k < x => u.bytes[k] < u.bytes[x]
               /\ \A i \in 1..Len(bufs) : bufs[i].full =>
                     \A x \in 1..bufs[i].len, k \in 1..u.len : bufs[i].bytes[x] < u.bytes[k]
    <3>1. u.len = m /\ \A k \in 1..m : u.bytes[k] = Comes(k) /\ k \in 1..(d + q)
      BY <1>2, <2>3, <2>5, <2>6
    <3>2. \A k \in 1..m : u.bytes[k] > 0
      <4>1. \A y \in 1..(t + q) : y > 0
        OBVIOUS
      <4> QED BY <2>2, <3>1, <4>1
    <3> QED BY <2>2, <3>1, <3>2
  <2>7. ASSUME NEW i \in 1..Len(bufs'), NEW j \in 1..Len(bufs'), bufs'[i].full, bufs'[j].full,
               NEW k \in 1..bufs'[i].len, NEW x \in 1..bufs'[j].len
        PROVE  /\ bufs'[i].bytes[k] > 0
               /\ i < j \/ (i = j /\ k < x) => bufs'[i].bytes[k] < bufs'[j].bytes[x]
    <3>1. (i \in 1..Len(bufs) \/ i = Len(bufs) + 1) /\ (j \in 1..Len(bufs) \/ j = Len(bufs) + 1)
      BY <2>4, BufTypes
    <3>2. CASE i \in 1..Len(bufs) /\ j \in 1..Len(bufs)
      BY <2>4, <2>7, <3>2 DEF InOrder
    <3>3. CASE i \in 1..Len(bufs) /\ j = Len(bufs) + 1
      <4>1. i # j /\ bufs'[i] = bufs[i] /\ bufs[i].full /\ k \in 1..bufs[i].len
        BY <2>4, <2>7, <3>3, BufTypes
      <4>2. bufs[i].bytes[k] > 0
        <5>1. bufs[i].bytes[k] \in 1..taken
          BY <3>3, <4>1 DEF Sorted
        <5> QED BY <2>1, <5>1
      <4> QED BY <2>5, <2>6, <2>7, <3>3, <4>1, <4>2
    <3>4. CASE i = Len(bufs) + 1 /\ j \in 1..Len(bufs)
      <4>1. ~(i < j) /\ i # j
        BY <3>4, BufTypes
      <4> QED BY <2>5, <2>6, <2>7, <3>4, <4>1
    <3>5. CASE i = Len(bufs) + 1 /\ j = Len(bufs) + 1
      <4>1. ~(i < j)
        BY <3>5, BufTypes
      <4> QED BY <2>5, <2>6, <2>7, <3>5, <4>1
    <3> QED BY <3>1, <3>2, <3>3, <3>4, <3>5
  <2> QED BY <2>7 DEF InOrder
<1>3. CASE Keeps \/ Opens
  BY <1>1, <1>3 DEF Keeps, Opens
<1>4. ASSUME NEW q \in Nat, NEW m \in Nat, Receives(q, m)
      PROVE  InOrder'
  BY <1>1, <1>2, <1>4 DEF Receives, Hands
<1> QED BY <1>3, <1>4 DEF BufStep

\* Each byte that came is found again behind the step.
LEMMA AccountedStep ==
    ASSUME Typed, Attached, Accounted, BufStep
    PROVE  Accounted'
<1>1. CASE Keeps
  <2>1. taken' = taken /\ bufs' = bufs /\ heap' = heap /\ idle' = idle
    BY <1>1 DEF Keeps
  <2>2. CASE data' = data
    BY <2>1, <2>2 DEF Accounted, Given, Kept, Byte
  <2>3. CASE data # NoData /\ data' \in Buffer /\ data'.buf = data.buf /\ data'.len = data.len
    <3>1. data' # NoData
      BY <2>3, Consts
    <3> QED BY <2>1, <2>3, <3>1 DEF Accounted, Given, Kept, Byte
  <2> QED BY <1>1, <2>2, <2>3 DEF Keeps
<1>2. CASE Opens
  <2>1. taken' = taken /\ bufs' = bufs /\ idle' = idle /\ data = NoData
    BY <1>2 DEF Opens
  <2> QED BY <2>1 DEF Accounted, Given, Kept
<1>3. ASSUME NEW q \in Nat, NEW m \in Nat, Receives(q, m)
      PROVE  Accounted'
  <2>0. /\ data # NoData /\ data'.len + m = data.len + q /\ data' \in Buffer /\ data' # NoData
        /\ \A k \in 1..data'.len : Byte(k)' = Comes(m + k)
    BY <1>3, Consts DEF Receives, Moves
  <2>1. PICK d \in Nat, t \in Nat, d1 \in Nat : d = data.len /\ t = taken /\ d1 = data'.len
    <3>1. data.len \in Nat /\ taken \in Nat
      BY <2>0, DataTypes DEF Typed
    <3>2. data'.len \in Nat
      BY <2>0 DEF Buffer
    <3> QED BY <3>1, <3>2
  <2>2. d1 + m = d + q
    BY <2>0, <2>1
  <2>3. \A k : Comes(k) = IF k <= d THEN Byte(k) ELSE t + (k - d)
    BY <2>1 DEF Comes
  <2>4. \A k \in 1..d1 : Byte(k)' = Comes(m + k)
    BY <2>0, <2>1
  \* what comes is kept, or was given to the read
  <2>5. ASSUME NEW k \in 1..(d + q), NEW c, c = Comes(k)
        PROVE  Given(c)' \/ Kept(c)'
    <3>1. CASE k > m
      <4>1. PICK j \in 1..d1 : m + j = k
        BY <2>2, <3>1
      <4> QED BY <2>0, <2>1, <2>4, <2>5, <4>1 DEF Kept
    <3>2. CASE k <= m
      <4>1. PICK r \in Nat : Gives(r, m, TRUE)
        <5>1. m # 0
          BY <3>2
        <5> QED BY <1>3, <5>1 DEF Receives, Hands
      <4>2. /\ Len(bufs') = Len(bufs) + 1 /\ bufs'[Len(bufs) + 1].len = m
            /\ bufs'[Len(bufs) + 1].full = TRUE
            /\ \A x \in 1..m : bufs'[Len(bufs) + 1].bytes[x] = Comes(x)
        BY <4>1 DEF Gives
      <4>3. Len(bufs) + 1 \in 1..Len(bufs') /\ k \in 1..m
        BY <3>2, <4>2, BufTypes
      <4> QED BY <2>5, <4>2, <4>3 DEF Given
    <3> QED BY <3>1, <3>2
  <2>6. ASSUME NEW x, Given(x)
        PROVE  Given(x)'
    <3>1. Len(bufs') >= Len(bufs) /\ \A i \in 1..Len(bufs) : bufs'[i] = bufs[i]
      <4>1. CASE bufs' = bufs
        BY <4>1, BufTypes
      <4>2. ASSUME NEW r \in Nat, NEW l, NEW full, Gives(r, l, full)
            PROVE  Len(bufs') >= Len(bufs) /\ \A i \in 1..Len(bufs) : bufs'[i] = bufs[i]
        BY <4>2, BufTypes DEF Gives
      <4> QED BY <1>3, <4>1, <4>2 DEF Receives, Hands
    <3>2. PICK i \in 1..Len(bufs) : bufs[i].full /\ \E y \in 1..bufs[i].len : bufs[i].bytes[y] = x
      BY <2>6 DEF Given
    <3>3. Len(bufs') \in Nat
      BY <1>3, BufTypes DEF Receives, Hands, Gives
    <3>4. i \in 1..Len(bufs') /\ bufs'[i] = bufs[i]
      BY <3>1, <3>3, BufTypes
    <3> QED BY <3>2, <3>4 DEF Given
  <2>7. ASSUME NEW x \in 1..t
        PROVE  Given(x)' \/ Kept(x)' \/ x \in idle
    <3>1. CASE Kept(x)
      <4>1. PICK k \in 1..d : Byte(k) = x
        BY <2>1, <3>1 DEF Kept
      <4>2. k \in 1..(d + q) /\ k <= d
        OBVIOUS
      <4>3. x = Comes(k)
        BY <2>3, <4>1, <4>2
      <4> QED BY <2>5, <4>2, <4>3
    <3>2. Given(x) \/ Kept(x) \/ x \in idle
      BY <2>1 DEF Accounted
    <3> QED BY <2>6, <3>1, <3>2
  <2>8. idle \subseteq 1..t
    BY <2>1 DEF Accounted
  <2>9. CASE taken' = taken + q /\ idle' = idle
    <3>1. taken' = t + q
      BY <2>1, <2>9
    <3>2. idle' \subseteq 1..taken'
      BY <2>8, <2>9, <3>1
    <3>3. ASSUME NEW x \in 1..(t + q)
          PROVE  Given(x)' \/ Kept(x)' \/ x \in idle'
      <4>1. CASE x \in 1..t
        BY <2>7, <2>9, <4>1
      <4>2. CASE x \notin 1..t
        <5>1. PICK k \in 1..(d + q) : k = x - t + d /\ ~(k <= d) /\ t + (k - d) = x
          BY <4>2
        <5>2. x = Comes(k)
          BY <2>3, <5>1
        <5> QED BY <2>5, <5>2
      <4> QED BY <4>1, <4>2
    <3> QED BY <3>1, <3>2, <3>3 DEF Accounted
  <2>10. ASSUME NEW n \in Nat, taken' = taken + n, idle' = idle \union (taken + 1)..(taken + n)
         PROVE  Accounted'
    <3>1. taken' = t + n /\ idle' = idle \union (t + 1)..(t + n)
      BY <2>1, <2>10
    <3>2. idle' \subseteq 1..taken'
      BY <2>8, <3>1
    <3>3. ASSUME NEW x \in 1..(t + n)
          PROVE  Given(x)' \/ Kept(x)' \/ x \in idle'
      <4>1. CASE x \in 1..t
        BY <2>7, <3>1, <4>1
      <4>2. CASE x \notin 1..t
        <5>1. x \in (t + 1)..(t + n)
          BY <4>2
        <5> QED BY <3>1, <5>1
      <4> QED BY <4>1, <4>2
    <3> QED BY <3>1, <3>2, <3>3 DEF Accounted
  <2> QED BY <1>3, <2>9, <2>10 DEF Receives, Arrives
<1> QED BY <1>1, <1>2, <1>3 DEF BufStep

-----------------------------------------------------------------------------
(* Types, the waiting read, and what the operations are. *)

\* Operations keep what they are; a read asks for something.
OpsKeep ==
    /\ ops' \in Seq(Op) /\ Len(ops') \in Nat /\ Len(ops') >= Len(ops)
    /\ \A r \in 1..Len(ops) : ops'[r].kind = ops[r].kind /\ ops'[r].len = ops[r].len
    /\ \A r \in 1..Len(ops') : ops'[r].kind = "read" => ops'[r].len > 0

\* The types of an operation's fields.
LEMMA OpsTypes ==
    ASSUME Typed
    PROVE  /\ Len(ops) \in Nat
           /\ \A r \in 1..Len(ops) : /\ r \in Nat /\ ops[r] \in Op /\ ops[r].len \in Nat /\ ops[r].next \in BOOLEAN
                                     /\ ops[r].st \in {"job", "pending", "done"}
<1>1. Len(ops) \in Nat /\ \A r \in 1..Len(ops) : ops[r] \in Op
  BY LenProperties, ElementOfSeq DEF Typed
<1> QED BY <1>1 DEF Op

\* The operations do not change.
LEMMA SameOps ==
    ASSUME Typed, Attached, UNCHANGED ops
    PROVE  OpsKeep
  BY OpsTypes DEF Typed, OpsKeep, Attached

\* Complete makes one operation done and wakes its awaiter.
LEMMA CompleteIs ==
    ASSUME Typed, Attached, NEW r \in 1..Len(ops), Complete(r)
    PROVE  /\ OpsKeep /\ wakes' \in Nat /\ Len(ops') = Len(ops)
           /\ wakes' = (IF ops[r].next THEN wakes + 1 ELSE wakes)
           /\ \A x \in 1..Len(ops) : /\ ops'[x].kind = ops[x].kind /\ ops'[x].next = ops[x].next
                                     /\ ops'[x].st = IF x = r THEN "done" ELSE ops[x].st
<1>1. ops' = [ops EXCEPT ![r].st = "done"] /\ wakes' = IF ops[r].next THEN wakes + 1 ELSE wakes
  BY DEF Complete
<1>2. ops \in Seq(Op) /\ wakes \in Nat /\ Len(ops) \in Nat
  BY OpsTypes DEF Typed
<1>3. /\ ops' \in Seq(Op) /\ Len(ops') = Len(ops)
      /\ \A q \in 1..Len(ops) :
            /\ ops'[q].kind = ops[q].kind /\ ops'[q].len = ops[q].len /\ ops'[q].next = ops[q].next
            /\ ops'[q].st = IF q = r THEN "done" ELSE ops[q].st
  BY <1>1, <1>2, OpsPut
<1>4. OpsKeep
  BY <1>2, <1>3 DEF OpsKeep, Attached
<1> QED BY <1>1, <1>2, <1>3, <1>4

\* Start makes one operation pending.
LEMMA StartIs ==
    ASSUME Typed, Attached, NEW r \in 1..Len(ops), Start(r)
    PROVE  /\ OpsKeep /\ wakes' = wakes /\ Len(ops') = Len(ops)
           /\ \A x \in 1..Len(ops) : /\ ops'[x].kind = ops[x].kind /\ ops'[x].next = ops[x].next
                                     /\ ops'[x].st = IF x = r THEN "pending" ELSE ops[x].st
<1>1. ops' = [ops EXCEPT ![r].st = "pending"] /\ wakes' = wakes
  BY DEF Start
<1>2. ops \in Seq(Op) /\ Len(ops) \in Nat
  BY OpsTypes DEF Typed
<1>3. /\ ops' \in Seq(Op) /\ Len(ops') = Len(ops)
      /\ \A q \in 1..Len(ops) :
            /\ ops'[q].kind = ops[q].kind /\ ops'[q].len = ops[q].len /\ ops'[q].next = ops[q].next
            /\ ops'[q].st = IF q = r THEN "pending" ELSE ops[q].st
  BY <1>1, <1>2, OpsPut
<1>4. OpsKeep
  BY <1>2, <1>3 DEF OpsKeep, Attached
<1> QED BY <1>1, <1>3, <1>4

\* Issue appends an operation.
LEMMA IssueIs ==
    ASSUME Typed, Attached, NEW kind \in {"connect", "read", "write", "close"}, NEW len \in Nat,
           kind = "read" => len > 0, Issue(kind, len)
    PROVE  /\ OpsKeep /\ Len(ops') = Len(ops) + 1 /\ \A x \in 1..Len(ops) : ops'[x] = ops[x]
           /\ ops'[Len(ops) + 1] = [kind |-> kind, len |-> len, st |-> "job", next |-> FALSE]
<1>1. PICK o : o = [kind |-> kind, len |-> len, st |-> "job", next |-> FALSE]
  OBVIOUS
<1>2. ops' = Append(ops, o)
  BY <1>1 DEF Issue
<1>3. o \in Op /\ o.kind = kind /\ o.len = len
  BY <1>1 DEF Op
<1>4. ops \in Seq(Op) /\ Len(ops) \in Nat
  BY OpsTypes DEF Typed
<1>5. /\ ops' \in Seq(Op) /\ Len(ops') = Len(ops) + 1 /\ ops'[Len(ops) + 1] = o
      /\ \A x \in 1..Len(ops) : ops'[x] = ops[x]
  BY <1>2, <1>3, <1>4, AppendProperties
<1>6. \A r \in 1..Len(ops') : ops'[r].kind = "read" => ops'[r].len > 0
  <2> TAKE r \in 1..Len(ops')
  <2>1. r \in 1..Len(ops) \/ r = Len(ops) + 1
    BY <1>4, <1>5
  <2>2. CASE r \in 1..Len(ops)
    BY <1>5, <2>2 DEF Attached
  <2>3. CASE r = Len(ops) + 1
    BY <1>3, <1>5, <2>3
  <2> QED BY <2>1, <2>2, <2>3
<1>7. OpsKeep
  BY <1>4, <1>5, <1>6 DEF OpsKeep
<1> QED BY <1>1, <1>5, <1>7

\* Await goes on behind an operation that is done, and else registers at it.
LEMMA AwaitIs ==
    ASSUME Typed, Attached, Await, ops # <<>>
    PROVE  /\ OpsKeep /\ Len(ops') = Len(ops) /\ Len(ops) \in 1..Len(ops)
           /\ \A x \in 1..Len(ops) : ops'[x].kind = ops[x].kind /\ ops'[x].st = ops[x].st
           /\ \/ Last.st = "done" /\ co' = "run" /\ UNCHANGED ops
              \/ Last.st # "done" /\ co' = "wait" /\ ops'[Len(ops)].next = TRUE
<1>1. ops \in Seq(Op) /\ Len(ops) \in Nat /\ Len(ops) \in 1..Len(ops)
  BY OpsTypes, EmptySeq DEF Typed
<1>2. CASE Last.st = "done" /\ co' = "run" /\ UNCHANGED ops
  BY <1>1, <1>2, SameOps
<1>3. CASE Last.st # "done" /\ co' = "wait" /\ ops' = [ops EXCEPT ![Len(ops)].next = TRUE]
  <2>1. /\ ops' \in Seq(Op) /\ Len(ops') = Len(ops)
        /\ \A q \in 1..Len(ops) :
              /\ ops'[q].kind = ops[q].kind /\ ops'[q].len = ops[q].len /\ ops'[q].st = ops[q].st
              /\ ops'[q].next = IF q = Len(ops) THEN TRUE ELSE ops[q].next
    BY <1>1, <1>3, OpsNext
  <2>a. \A q \in 1..Len(ops') : ops'[q].kind = "read" => ops'[q].len > 0
    BY <2>1 DEF Attached
  <2>b. Len(ops') \in Nat /\ Len(ops') >= Len(ops)
    BY <1>1, <2>1
  <2>2. OpsKeep
    BY <2>1, <2>a, <2>b DEF OpsKeep
  <2> QED BY <1>1, <1>3, <2>1, <2>2
<1> QED BY <1>2, <1>3 DEF Await, Last

\* A step that leaves the buffer and the bytes alone.
LEMMA QuietStep ==
    ASSUME Typed, Attached, ReadServed, OpsKeep, UNCHANGED <<net, data, heap, bufs>>,
           reading' = reading \/ reading' = FALSE,
           wakes' \in Nat, co' \in {"idle", "run", "await", "wait"}, conn' \in {"none", "live", "freed"},
           sock' \in {"new", "connecting", "listen", "open", "failed", "closing", "closed"},
           co' \in {"await", "wait"} => ops' # <<>>
    PROVE  Typed' /\ Attached' /\ ReadServed' /\ BufStep
<1>1. UNCHANGED <<taken, empty, idle, data, heap, bufs>>
  BY DEF net
<1>2. Typed'
  <2>1. ops' \in Seq(Op) /\ reading' \in BOOLEAN
    BY DEF OpsKeep, Typed
  <2> QED BY <1>1, <2>1 DEF Typed
<1>3. data # NoData => data.task \in 0..Len(ops')
  BY DataTypes, OpsTypes DEF OpsKeep, Attached
<1>4. Attached'
  <2>1. \A r \in 1..Len(ops') : ops'[r].kind = "read" => ops'[r].len > 0
    BY DEF OpsKeep
  <2> QED BY <1>1, <1>3, <2>1 DEF Attached
<1>5. ReadServed'
  <2>1. ASSUME data # NoData, data.task # 0
        PROVE  ops'[data.task].len = ops[data.task].len
    <3>1. data.task \in 1..Len(ops)
      BY <2>1, DataTypes, OpsTypes DEF Attached
    <3> QED BY <3>1 DEF OpsKeep
  <2> QED BY <1>1, <2>1 DEF ReadServed
<1>6. BufStep
  BY <1>1 DEF BufStep, Keeps
<1> QED BY <1>2, <1>4, <1>5, <1>6

\* A step of the buffer; the read that waits is the same one, or none.
LEMMA BusyStep ==
    ASSUME Typed, Attached, ReadServed, OpsKeep, BufStep, data' \in Buffer, reading' = reading \/ data' # NoData,
           reading' \in BOOLEAN, data # NoData, heap' \in Seq(Seq(0..Bytes)), bufs' \in Seq(Buf),
           empty' \in Nat, taken' \in 0..Bytes, idle' \subseteq Nat, wakes' \in Nat, UNCHANGED <<sock, conn, co>>,
           data'.task = 0 \/ /\ data'.task = data.task /\ data'.explen = data.explen
                             /\ data'.len < data'.explen
    PROVE  Typed' /\ Attached' /\ ReadServed'
<1>1. Typed'
  BY DEF Typed, OpsKeep
<1>2. data' # NoData /\ Len(ops) \in Nat /\ Len(ops') \in Nat /\ Len(ops') >= Len(ops)
  BY Consts, OpsTypes DEF OpsKeep
<1>3. data'.task \in 0..Len(ops')
  BY <1>2, DataTypes DEF Attached
<1>4. ops' # <<>> \/ ops = <<>>
  <2>1. ASSUME ops' = <<>>
        PROVE  ops = <<>>
    <3>1. Len(ops) = 0
      BY <1>2, <2>1
    <3> QED BY <3>1, EmptySeq DEF Typed
  <2> QED BY <2>1
<1>5. Attached'
  BY <1>2, <1>3, <1>4 DEF Attached, OpsKeep
<1>6. ReadServed'
  <2>1. ASSUME data'.task # 0
        PROVE  data'.explen = ops'[data'.task].len
    <3>1. data.task \in 1..Len(ops) /\ data'.task = data.task /\ data'.explen = data.explen
      BY <2>1, DataTypes, OpsTypes DEF Attached
    <3>2. ops'[data.task].len = ops[data.task].len
      BY <3>1 DEF OpsKeep
    <3>3. data.task # 0
      BY <2>1, <3>1
    <3> QED BY <3>1, <3>2, <3>3 DEF ReadServed
  <2> QED BY <2>1 DEF ReadServed
<1> QED BY <1>1, <1>5, <1>6

\* Types after a step that moves the buffer.
LEMMA ReceivesTypes ==
    ASSUME Typed, NEW q \in Nat, NEW m \in Nat, Receives(q, m)
    PROVE  /\ heap' \in Seq(Seq(0..Bytes)) /\ bufs' \in Seq(Buf) /\ taken' \in 0..Bytes
           /\ idle' \subseteq Nat /\ BufStep
<1>1. heap' \in Seq(Seq(0..Bytes)) /\ taken' \in 0..Bytes /\ BufStep
  BY DEF Receives, Moves, Front, BufStep
<1>2. bufs' \in Seq(Buf)
  BY DEF Receives, Hands, Gives, Typed
<1>3. idle' \subseteq Nat
  <2>1. taken \in Nat /\ idle \subseteq Nat
    BY DEF Typed
  <2>2. \A n \in Nat : (taken + 1)..(taken + n) \subseteq Nat
    BY <2>1
  <2> QED BY <2>1, <2>2 DEF Receives, Arrives
<1> QED BY <1>1, <1>2, <1>3

\* the kinds of operations
Kinds == {"connect", "read", "write", "close"}

\* Every action keeps the types, the buffer's place at the handle and its waiting read,
\* and is one of the steps above as the buffer sees it.
LEMMA StepTyped ==
    ASSUME Typed, Attached, Bounds, ReadServed, [Next]_vars
    PROVE  Typed' /\ Attached' /\ ReadServed' /\ BufStep
<1> DEFINE Goal == Typed' /\ Attached' /\ ReadServed' /\ BufStep
<1>0. /\ wakes \in Nat /\ co \in {"idle", "run", "await", "wait"} /\ conn \in {"none", "live", "freed"}
      /\ sock \in {"new", "connecting", "listen", "open", "failed", "closing", "closed"}
      /\ empty \in Nat /\ reading \in BOOLEAN
  BY DEF Typed
<1>1. ASSUME NEW kind \in Kinds, NEW len \in Nat, kind = "read" => len > 0, Issue(kind, len)
      PROVE  Goal
  <2>1. /\ UNCHANGED <<sock, net, data, heap, bufs, reading, wakes>> /\ co' = "await"
        /\ conn' \in {"none", "live", "freed"}
    BY <1>0, <1>1 DEF Issue, FreeConn, buffer
  <2>2. OpsKeep /\ Len(ops') = Len(ops) + 1
    BY <1>1, IssueIs DEF Kinds
  <2>3. ops' # <<>>
    BY <2>2, OpsTypes
  <2> QED BY <1>0, <2>1, <2>2, <2>3, QuietStep
<1>2. CASE Await
  <2>1. ops # <<>> /\ UNCHANGED <<sock, conn, net, data, heap, bufs, reading, wakes>>
    BY <1>2 DEF Await, buffer, Attached
  <2>2. OpsKeep /\ Len(ops') = Len(ops) /\ Len(ops) \in 1..Len(ops) /\ co' \in {"run", "wait"}
    BY <1>2, <2>1, AwaitIs
  <2>3. ops' # <<>>
    BY <2>2, OpsTypes
  <2> QED BY <1>0, <2>1, <2>2, <2>3, QuietStep
<1>3. CASE Resume
  <2>1. UNCHANGED <<sock, conn, net, data, heap, bufs, reading, ops>> /\ co' = "run" /\ wakes' = wakes - 1 /\ wakes > 0
    BY <1>3 DEF Resume, buffer
  <2>2. wakes' \in Nat /\ OpsKeep
    BY <1>0, <2>1, SameOps
  <2> QED BY <1>0, <2>1, <2>2, QuietStep
<1>4. CASE Accept
  <2>1. UNCHANGED <<conn, net, data, heap, bufs, reading, ops, wakes>> /\ co' = "run" /\ sock' \in {"open", "failed"}
    BY <1>4 DEF Accept, buffer
  <2>2. OpsKeep
    BY <2>1, SameOps
  <2> QED BY <1>0, <2>1, <2>2, QuietStep
<1>a. ASSUME NEW r \in 1..Len(ops), Start(r) \/ Complete(r)
      PROVE  OpsKeep /\ wakes' \in Nat /\ Len(ops') = Len(ops) /\ (ops # <<>> => ops' # <<>>)
  <2>1. OpsKeep /\ wakes' \in Nat /\ Len(ops') = Len(ops)
    BY <1>0, <1>a, StartIs, CompleteIs
  <2>2. ops' # <<>>
    BY <2>1, OpsTypes
  <2> QED BY <2>1, <2>2
<1>5. ASSUME NEW r \in 1..Len(ops), WriteJob(r) \/ WriteCB(r)
      PROVE  Goal
  <2>1. UNCHANGED <<sock, conn, net, data, heap, bufs, reading, co>> /\ (Start(r) \/ Complete(r))
    BY <1>5 DEF WriteJob, WriteCB, buffer
  <2> QED BY <1>0, <1>a, <2>1, QuietStep DEF Attached
<1>6. ASSUME NEW r \in 1..Len(ops), ConnectJob(r) \/ ConnectCB(r) \/ CloseJob(r) \/ CloseCB(r)
      PROVE  Goal
  <2>1. /\ UNCHANGED <<net, data, heap, bufs, co>> /\ (Start(r) \/ Complete(r))
        /\ reading' = reading \/ reading' = FALSE
        /\ conn' \in {"none", "live", "freed"}
        /\ sock' \in {"new", "connecting", "listen", "open", "failed", "closing", "closed"}
    BY <1>0, <1>6 DEF ConnectJob, ConnectCB, CloseJob, CloseCB, buffer, new_conn
  <2> QED BY <1>0, <1>a, <2>1, QuietStep DEF Attached
<1>7. ASSUME NEW r \in 1..Len(ops), ReadBuffered(r)
      PROVE  Goal
  <2>1. /\ data # NoData /\ data' \in Buffer /\ data'.task = data.task /\ data'.explen = data.explen
        /\ data'.len <= data.len /\ Complete(r) /\ UNCHANGED <<sock, conn, net, reading, co>>
    BY <1>7, ReadBufferedIs
  <2>2. PICK q \in Nat, m \in Nat : Receives(q, m)
    BY <1>7, ReadBufferedIs
  <2>3. data'.task = 0 \/ data'.len < data'.explen
    <3>1. ASSUME data'.task # 0
          PROVE  data'.len < data'.explen
      <4>1. data.len < data.explen
        BY <2>1, <3>1 DEF ReadServed
      <4>2. data.len \in Nat /\ data.explen \in Nat /\ data'.len \in Nat
        BY <2>1, DataTypes DEF Buffer
      <4> QED BY <2>1, <4>1, <4>2
    <3> QED BY <3>1
  <2>4. empty' = empty
    BY <2>1 DEF net
  <2> QED BY <1>0, <1>a, <2>1, <2>2, <2>3, <2>4, ReceivesTypes, BusyStep
<1>8. ASSUME NEW r \in 1..Len(ops), ReadWait(r)
      PROVE  Goal
  <2>1. /\ data # NoData /\ data.len < ops[r].len /\ Start(r)
        /\ data' = [data EXCEPT !.task = r, !.explen = ops[r].len]
        /\ UNCHANGED <<sock, conn, net, reading, heap, bufs, co>>
    BY <1>8 DEF ReadWait
  <2>2. /\ data' \in Buffer /\ data'.task = r /\ data'.explen = ops[r].len /\ data'.len = data.len
        /\ data'.buf = data.buf /\ data'.max = data.max
    BY <2>1, DataTypes, OpsTypes DEF Buffer
  <2>3. BufStep
    BY <2>1, <2>2 DEF BufStep, Keeps, net
  <2>4. /\ OpsKeep /\ wakes' = wakes /\ Len(ops') = Len(ops) /\ Len(ops) \in Nat /\ data' # NoData
    BY <2>1, <2>2, StartIs, OpsTypes, Consts
  <2>5. Typed'
    BY <2>1, <2>2, <2>4 DEF Typed, OpsKeep, net
  <2>6. data'.task \in 0..Len(ops') /\ (ops # <<>> => ops' # <<>>)
    BY <1>a, <2>1, <2>2, <2>4
  <2>7. Attached'
    BY <2>1, <2>4, <2>6 DEF Attached, OpsKeep
  <2>8. ReadServed'
    BY <2>1, <2>2, <2>4 DEF ReadServed, OpsKeep
  <2> QED BY <2>3, <2>5, <2>7, <2>8
<1>9. ASSUME NEW r \in 1..Len(ops), ReadStart(r)
      PROVE  Goal
  <2>1. /\ data = NoData /\ Start(r) /\ data' = NewBuffer(r) /\ ops[r].kind = "read"
        /\ reading' = (sock = "open")
        /\ UNCHANGED <<sock, conn, net, heap, bufs, co>>
    BY <1>9 DEF ReadStart, Job
  <2>2. /\ data' \in Buffer /\ data'.task = r /\ data'.explen = ops[r].len /\ data'.len = 0
        /\ data'.buf = Nil /\ data'.max = 0 /\ ops[r].len > 0
    BY <2>1, OpsTypes DEF Buffer, NewBuffer, Nil, Pointer, Attached
  <2>3. BufStep
    BY <2>1, <2>2 DEF BufStep, Opens, net
  <2>4. /\ OpsKeep /\ wakes' = wakes /\ Len(ops') = Len(ops) /\ Len(ops) \in Nat /\ data' # NoData
    BY <2>1, <2>2, StartIs, OpsTypes, Consts
  <2>5. reading' \in BOOLEAN
    BY <2>1
  <2>6. Typed'
    BY <2>1, <2>2, <2>4, <2>5 DEF Typed, OpsKeep, net
  <2>7. data'.task \in 0..Len(ops') /\ (ops # <<>> => ops' # <<>>)
    BY <1>a, <2>1, <2>2, <2>4
  <2>8. Attached'
    BY <2>1, <2>4, <2>7 DEF Attached, OpsKeep
  <2>9. ReadServed'
    BY <2>1, <2>2, <2>4 DEF ReadServed, OpsKeep
  <2> QED BY <2>3, <2>6, <2>8, <2>9
<1>b. ASSUME data # NoData, data.task # 0
      PROVE  data.task \in 1..Len(ops)
  BY <1>b, DataTypes, OpsTypes DEF Attached
<1>10. ASSUME NEW n \in 1..Suggested, ReadCB(n)
       PROVE  Goal
  <2>0. data # NoData
    BY <1>10 DEF ReadCB, Attached
  <2>1. /\ data' \in Buffer /\ UNCHANGED <<sock, conn, empty, reading, co>>
        /\ Uncounted \/ Partial \/ Served
    BY <1>10, <2>0, ReadCBIs
  <2>2. PICK q \in Nat, m \in Nat : Receives(q, m)
    BY <1>10, <2>0, ReadCBIs
  <2>3. OpsKeep /\ wakes' \in Nat
    BY <1>0, <1>a, <1>b, <2>0, <2>1, SameOps DEF Uncounted, Partial, Served
  <2>4. data'.task = 0 \/ /\ data'.task = data.task /\ data'.explen = data.explen
                          /\ data'.len < data'.explen
    BY <2>1 DEF Uncounted, Partial, Served
  <2> QED BY <1>0, <2>0, <2>1, <2>2, <2>3, <2>4, ReceivesTypes, BusyStep
<1>c. ASSUME data # NoData, ShortRead, UNCHANGED <<sock, conn, taken, idle, co>>, empty' \in Nat,
             reading' \in BOOLEAN
      PROVE  Goal
  <2>1. /\ data' \in Buffer /\ data'.task = data.task /\ data'.explen = data.explen
        /\ data'.len = data.len /\ Short
    BY <1>c, ShortReadIs
  <2>2. PICK q \in Nat, m \in Nat : Receives(q, m)
    BY <1>c, ShortReadIs
  <2>3. OpsKeep /\ wakes' \in Nat
    BY <1>0, <1>a, <1>b, <1>c, <2>1, SameOps DEF Short
  <2>4. data'.task = 0 \/ data'.len < data'.explen
    BY <1>c, <2>1 DEF ReadServed
  <2>5. data' # NoData
    BY <2>1, Consts
  <2> QED BY <1>0, <1>c, <2>1, <2>2, <2>3, <2>4, <2>5, ReceivesTypes, BusyStep
<1>11. CASE ReadCBEmpty
  <2>1. data # NoData /\ ShortRead /\ UNCHANGED <<sock, conn, taken, idle, reading, co>> /\ empty' = empty + 1
    BY <1>11 DEF ReadCBEmpty, Attached
  <2> QED BY <1>0, <1>c, <2>1
<1>12. CASE ReadCBEnd
  <2>1. data # NoData /\ ShortRead /\ UNCHANGED <<sock, conn, taken, idle, empty, co>> /\ reading' = FALSE
    BY <1>12 DEF ReadCBEnd, Attached, net
  <2> QED BY <1>0, <1>c, <2>1
<1>13. CASE UNCHANGED vars
  <2>1. UNCHANGED <<sock, conn, net, data, heap, bufs, reading, ops, wakes, co>>
    BY <1>13 DEF vars, net
  <2>2. OpsKeep
    BY <2>1, SameOps
  <2> QED BY <1>0, <2>1, <2>2, QuietStep DEF Attached
<1>14. \A len \in Lens : len \in Nat /\ len > 0
  BY Consts
<1> HIDE DEF Goal
<1>15. ASSUME Next
       PROVE  Goal
  <2>1. CASE (\E len \in Lens : Issue("read", len)) \/ (\E kind \in {"connect", "write", "close"} : Issue(kind, 0))
    BY <1>1, <1>14, <2>1 DEF Kinds
  <2>2. CASE LoopStep
    BY <1>5, <1>6, <1>7, <1>8, <1>9, <2>2 DEF LoopStep
  <2>3. CASE Receive
    BY <1>10, <1>12, <2>3 DEF Receive, Goal
  <2> QED BY <1>2, <1>3, <1>4, <1>11, <1>15, <2>1, <2>2, <2>3 DEF Next, CoStep, Goal
<1> QED BY <1>13, <1>15 DEF Goal

-----------------------------------------------------------------------------
(* The coroutine and its operations. *)

\* An operation that is not done is the last one, and the coroutine awaits it.
LEMMA OpenIsLast ==
    ASSUME Typed, Attached, InStep, NEW r \in 1..Len(ops), ops[r].st # "done"
    PROVE  /\ r = Len(ops) /\ co \in {"await", "wait"} /\ wakes = 0 /\ ops # <<>>
           /\ co = "await" => ~ops[r].next
           /\ co = "wait" => ops[r].next
<1>1. r = Len(ops) /\ ops # <<>>
  BY OpsTypes DEF InStep
<1>2. Last.st # "done"
  BY <1>1 DEF Last
<1>3. co \in {"await", "wait"}
  BY <1>1, <1>2 DEF InStep, Typed
<1>4. wakes = 0
  BY <1>2, <1>3 DEF InStep
<1> QED BY <1>1, <1>3, <1>4 DEF InStep, Last

\* Completing an operation that is not done keeps the coroutine in step.
LEMMA CompleteInStep ==
    ASSUME Typed, Attached, InStep, NEW r \in 1..Len(ops), ops[r].st # "done", Complete(r), UNCHANGED co
    PROVE  InStep'
<1>1. /\ r = Len(ops) /\ co \in {"await", "wait"} /\ wakes = 0
      /\ co = "await" => ~ops[r].next
      /\ co = "wait" => ops[r].next
  BY OpenIsLast
<1>2. /\ Len(ops') = Len(ops)
      /\ wakes' = (IF ops[r].next THEN wakes + 1 ELSE wakes)
      /\ \A x \in 1..Len(ops) : /\ ops'[x].next = ops[x].next
                                /\ ops'[x].st = IF x = r THEN "done" ELSE ops[x].st
  BY CompleteIs
<1>3. ops'[Len(ops')].st = "done" /\ ops'[Len(ops')].next = ops[r].next
  BY <1>1, <1>2
<1>4. \A x \in 1..Len(ops') : x < Len(ops') => ops'[x].st = "done"
  BY <1>2 DEF InStep
<1>5. wakes' = IF co = "wait" THEN 1 ELSE 0
  BY <1>1, <1>2
<1> QED BY <1>1, <1>3, <1>4, <1>5 DEF InStep, Last

\* So does starting it.
LEMMA StartInStep ==
    ASSUME Typed, Attached, InStep, NEW r \in 1..Len(ops), ops[r].st # "done", Start(r), UNCHANGED co
    PROVE  InStep'
<1>1. /\ r = Len(ops) /\ co \in {"await", "wait"} /\ wakes = 0
      /\ co = "await" => ~ops[r].next
      /\ co = "wait" => ops[r].next
  BY OpenIsLast
<1>2. /\ Len(ops') = Len(ops) /\ wakes' = wakes
      /\ \A x \in 1..Len(ops) : /\ ops'[x].next = ops[x].next
                                /\ ops'[x].st = IF x = r THEN "pending" ELSE ops[x].st
  BY StartIs
<1>3. ops'[Len(ops')].next = ops[r].next
  BY <1>1, <1>2
<1>4. \A x \in 1..Len(ops') : x < Len(ops') => ops'[x].st = "done"
  <2> TAKE x \in 1..Len(ops')
  <2> HAVE x < Len(ops')
  <2>1. x # r /\ x \in 1..Len(ops) /\ x < Len(ops)
    BY <1>1, <1>2, OpsTypes
  <2> QED BY <1>2, <2>1 DEF InStep
<1> QED BY <1>1, <1>2, <1>3, <1>4 DEF InStep, Last

\* Bufs are never taken back.
BufsKeep == /\ Len(bufs') \in Nat /\ Len(bufs') >= Len(bufs)
            /\ \A i \in 1..Len(bufs) : bufs'[i] = bufs[i]

\* A step of the buffer takes no Buf back.
LEMMA BufsStay ==
    ASSUME Typed, BufStep
    PROVE  BufsKeep
<1>1. CASE bufs' = bufs
  BY <1>1, BufTypes DEF BufsKeep
<1>2. ASSUME NEW r \in Nat, NEW l, NEW full, Gives(r, l, full)
      PROVE  BufsKeep
  BY <1>2, BufTypes DEF Gives, BufsKeep
<1>3. CASE Keeps \/ Opens
  BY <1>1, <1>3 DEF Keeps, Opens
<1>4. ASSUME NEW m \in Nat, Hands(m)
      PROVE  BufsKeep
  BY <1>1, <1>2, <1>4 DEF Hands
<1> QED BY <1>3, <1>4 DEF BufStep, Receives

\* A read completed twice stays so.
LEMMA DoubledStays ==
    ASSUME Typed, BufStep, Doubled
    PROVE  Doubled'
<1>1. BufsKeep
  BY BufsStay
<1>2. PICK i \in 1..Len(bufs), j \in 1..Len(bufs) : i < j /\ bufs[i].op = bufs[j].op /\ ~bufs[i].full
  BY DEF Doubled
<1>3. i \in 1..Len(bufs') /\ j \in 1..Len(bufs')
  BY <1>1, BufTypes DEF BufsKeep
<1> QED BY <1>1, <1>2, <1>3 DEF Doubled, BufsKeep

\* The task of the buffer is completed: again after a short read, or for the first time.
LEMMA TaskCompletes ==
    ASSUME Typed, Attached, CoOK, BufStep, data # NoData, data.task # 0, NEW l, NEW full,
           Gives(data.task, l, full), Complete(data.task), UNCHANGED co, ~Doubled'
    PROVE  InStep'
<1>1. data.task \in 1..Len(ops)
  BY DataTypes, OpsTypes DEF Attached
<1>2. ops[data.task].st # "done"
  <2> SUFFICES ASSUME ops[data.task].st = "done"
               PROVE  FALSE
    OBVIOUS
  <2>1. PICK i \in 1..Len(bufs) : bufs[i].op = data.task /\ ~bufs[i].full
    BY DEF CoOK, TaskOK
  <2>2. /\ Len(bufs') = Len(bufs) + 1 /\ bufs'[i] = bufs[i] /\ bufs'[Len(bufs) + 1].op = data.task
    BY DEF Gives
  <2>3. i \in 1..Len(bufs') /\ Len(bufs) + 1 \in 1..Len(bufs') /\ i < Len(bufs) + 1
    BY <2>2, BufTypes
  <2>4. Doubled'
    BY <2>1, <2>2, <2>3 DEF Doubled
  <2> QED BY <2>4
<1>3. InStep
  BY DoubledStays DEF CoOK
<1> QED BY <1>1, <1>2, <1>3, CompleteInStep

\* The task of the buffer is an operation.
LEMMA TaskIs ==
    ASSUME Typed, Attached, data # NoData, data.task # 0
    PROVE  data.task \in 1..Len(ops)
  BY DataTypes, OpsTypes DEF Attached

\* The task of the buffer keeps its state when the step is about another operation.
LEMMA TaskKept ==
    ASSUME Typed, Attached, TaskOK, BufStep, OpsKeep,
           data' = data \/ (data # NoData /\ data'.task = data.task),
           \A x \in 1..Len(ops) : data # NoData /\ data.task = x => ops'[x].st = ops[x].st
    PROVE  TaskOK'
<1> SUFFICES ASSUME data' # NoData, data'.task # 0
             PROVE  /\ ops'[data'.task].kind = "read" /\ ops'[data'.task].st # "job"
                    /\ ops'[data'.task].st = "done" =>
                          \E i \in 1..Len(bufs') : bufs'[i].op = data'.task /\ ~bufs'[i].full
  BY DEF TaskOK
<1>1. data # NoData /\ data'.task = data.task
  OBVIOUS
<1>2. data.task \in 1..Len(ops)
  BY <1>1, TaskIs
<1>3. ops'[data.task].kind = ops[data.task].kind /\ ops'[data.task].st = ops[data.task].st
  BY <1>1, <1>2 DEF OpsKeep
<1>4. /\ ops[data.task].kind = "read" /\ ops[data.task].st # "job"
      /\ ops[data.task].st = "done" =>
            \E i \in 1..Len(bufs) : bufs[i].op = data.task /\ ~bufs[i].full
  BY <1>1 DEF TaskOK
<1>5. \A i \in 1..Len(bufs) : i \in 1..Len(bufs') /\ bufs'[i] = bufs[i]
  BY BufsStay, BufTypes DEF BufsKeep
<1> QED BY <1>1, <1>3, <1>4, <1>5

\* Nothing the coroutine's progress depends on changes.
LEMMA SameInStep ==
    ASSUME InStep, UNCHANGED <<ops, wakes, co>>
    PROVE  InStep'
  BY DEF InStep, Last

\* Every action keeps the coroutine in step, unless it completes a read again.
LEMMA StepCo ==
    ASSUME Typed, Attached, Bounds, ReadServed, CoOK, [Next]_vars
    PROVE  CoOK'
<1> DEFINE Goal == TaskOK' /\ (~Doubled' => InStep')
<1>0. BufStep /\ TaskOK /\ (~Doubled' => InStep)
  BY StepTyped, DoubledStays DEF CoOK
<1>1. ASSUME NEW kind \in Kinds, NEW len \in Nat, kind = "read" => len > 0, Issue(kind, len)
      PROVE  Goal
  <2>1. co = "run" /\ co' = "await" /\ UNCHANGED <<data, wakes>>
    BY <1>1 DEF Issue, buffer
  <2>2. /\ OpsKeep /\ Len(ops') = Len(ops) + 1 /\ \A x \in 1..Len(ops) : ops'[x] = ops[x]
        /\ ops'[Len(ops) + 1] = [kind |-> kind, len |-> len, st |-> "job", next |-> FALSE]
    BY <1>1, IssueIs DEF Kinds
  <2>3. TaskOK'
    BY <1>0, <2>1, <2>2, TaskKept
  <2>4. ASSUME InStep
        PROVE  InStep'
    <3>1. wakes' = 0 /\ ops'[Len(ops')].next = FALSE
      BY <2>1, <2>2, <2>4 DEF InStep
    <3>2. ASSUME NEW x \in 1..Len(ops'), x < Len(ops')
          PROVE  ops'[x].st = "done"
      <4>1. x \in 1..Len(ops) /\ ops # <<>>
        BY <2>2, <3>2, OpsTypes
      <4>2. CASE x = Len(ops)
        BY <2>1, <2>2, <2>4, <4>1, <4>2 DEF InStep, Last
      <4>3. CASE x # Len(ops)
        <5>1. x < Len(ops)
          BY <4>1, <4>3, OpsTypes
        <5> QED BY <2>2, <2>4, <4>1, <5>1 DEF InStep
      <4> QED BY <4>2, <4>3
    <3> QED BY <2>1, <3>1, <3>2 DEF InStep, Last
  <2> QED BY <1>0, <2>3, <2>4
<1>2. CASE Await
  <2>1. co = "await" /\ ops # <<>> /\ UNCHANGED <<data, wakes>>
    BY <1>2 DEF Await, buffer, Attached
  <2>2. /\ OpsKeep /\ Len(ops') = Len(ops) /\ Len(ops) \in 1..Len(ops)
        /\ \A x \in 1..Len(ops) : ops'[x].st = ops[x].st
        /\ \/ Last.st = "done" /\ co' = "run" /\ UNCHANGED ops
           \/ Last.st # "done" /\ co' = "wait" /\ ops'[Len(ops)].next = TRUE
    BY <1>2, <2>1, AwaitIs
  <2>3. TaskOK'
    BY <1>0, <2>1, <2>2, TaskKept
  <2>4. ASSUME InStep
        PROVE  InStep'
    <3>1. wakes' = 0
      BY <2>1, <2>4 DEF InStep
    <3>2. \A x \in 1..Len(ops') : x < Len(ops') => ops'[x].st = "done"
      BY <2>2, <2>4 DEF InStep
    <3>3. ops'[Len(ops')].st = Last.st
      BY <2>2 DEF Last
    <3> QED BY <2>2, <3>1, <3>2, <3>3 DEF InStep, Last
  <2> QED BY <1>0, <2>3, <2>4 DEF CoOK
<1>3. CASE Resume
  <2>1. co = "wait" /\ wakes > 0 /\ wakes' = wakes - 1 /\ co' = "run" /\ UNCHANGED <<data, ops>>
    BY <1>3 DEF Resume, buffer
  <2>2. TaskOK'
    BY <1>0, <2>1, SameOps, TaskKept
  <2>3. ASSUME InStep
        PROVE  InStep'
    <3>1. wakes = 1 /\ Last.st = "done"
      BY <2>1, <2>3 DEF InStep
    <3>2. wakes' = 0
      BY <2>1, <3>1
    <3> QED BY <2>1, <2>3, <3>1, <3>2 DEF InStep, Last
  <2> QED BY <1>0, <2>2, <2>3 DEF CoOK
<1>4. CASE Accept
  <2>1. co = "idle" /\ co' = "run" /\ UNCHANGED <<data, ops, wakes>>
    BY <1>4 DEF Accept, buffer
  <2>2. TaskOK'
    BY <1>0, <2>1, SameOps, TaskKept
  <2>3. ASSUME InStep
        PROVE  InStep'
    BY <2>1, <2>3 DEF InStep, Last
  <2> QED BY <1>0, <2>2, <2>3 DEF CoOK
\* r is not the task of the buffer, and was not done
<1>a. ASSUME NEW r \in 1..Len(ops), Start(r) \/ Complete(r), UNCHANGED co,
             data' = data \/ (data # NoData /\ data'.task = data.task),
             ops[r].st # "done", data # NoData => data.task # r
      PROVE  Goal
  <2>1. OpsKeep /\ \A x \in 1..Len(ops) : x # r => ops'[x].st = ops[x].st
    BY <1>a, StartIs, CompleteIs
  <2>2. TaskOK'
    BY <1>0, <1>a, <2>1, TaskKept
  <2>3. InStep => InStep'
    BY <1>a, StartInStep, CompleteInStep
  <2> QED BY <1>0, <2>2, <2>3
<1>5. ASSUME NEW r \in 1..Len(ops), WriteJob(r) \/ WriteCB(r) \/ ConnectJob(r) \/ ConnectCB(r) \/ CloseJob(r) \/ CloseCB(r)
      PROVE  Goal
  <2>1. /\ UNCHANGED <<data, co>> /\ (Start(r) \/ Complete(r)) /\ ops[r].kind # "read"
        /\ ops[r].st \in {"job", "pending"}
    BY <1>5 DEF WriteJob, WriteCB, ConnectJob, ConnectCB, CloseJob, CloseCB, buffer, Job, Pending
  <2>2. data # NoData => data.task # r
    BY <1>0, <2>1, OpsTypes DEF TaskOK
  <2> QED BY <1>a, <2>1, <2>2
<1>6. ASSUME NEW r \in 1..Len(ops), ReadBuffered(r)
      PROVE  Goal
  <2>1. /\ data # NoData /\ data'.task = data.task /\ ops[r].st = "job" /\ Complete(r) /\ UNCHANGED co
    BY <1>6, ReadBufferedIs
  <2>2. data.task # r
    BY <1>0, <2>1, OpsTypes DEF TaskOK
  <2> QED BY <1>a, <2>1, <2>2
<1>b. ASSUME NEW r \in 1..Len(ops), Start(r), UNCHANGED co, data' \in Buffer, data'.task = r,
             ops[r].kind = "read", ops[r].st = "job"
      PROVE  Goal
  <2>1. ops'[r].kind = "read" /\ ops'[r].st = "pending"
    BY <1>b, StartIs
  <2>2. TaskOK'
    BY <1>b, <2>1 DEF TaskOK
  <2>3. InStep => InStep'
    BY <1>b, StartInStep
  <2> QED BY <1>0, <2>2, <2>3
<1>7. ASSUME NEW r \in 1..Len(ops), ReadWait(r)
      PROVE  Goal
  <2>1. /\ data # NoData /\ Start(r) /\ ops[r].kind = "read" /\ ops[r].st = "job"
        /\ data' = [data EXCEPT !.task = r, !.explen = ops[r].len] /\ UNCHANGED co
    BY <1>7 DEF ReadWait, Job
  <2>2. data' \in Buffer /\ data'.task = r
    BY <2>1, DataTypes, OpsTypes DEF Buffer
  <2> QED BY <1>b, <2>1, <2>2
<1>8. ASSUME NEW r \in 1..Len(ops), ReadStart(r)
      PROVE  Goal
  <2>1. /\ Start(r) /\ data' = NewBuffer(r) /\ ops[r].kind = "read" /\ ops[r].st = "job" /\ UNCHANGED co
    BY <1>8 DEF ReadStart, Job
  <2>2. data' \in Buffer /\ data'.task = r
    BY <2>1, OpsTypes DEF Buffer, NewBuffer, Nil, Pointer
  <2> QED BY <1>b, <2>1, <2>2
<1>9. ASSUME NEW n \in 1..Suggested, ReadCB(n)
      PROVE  Goal
  <2>0. data # NoData
    BY <1>9 DEF ReadCB, Attached
  <2>1. data' \in Buffer /\ UNCHANGED co /\ (Uncounted \/ Partial \/ Served)
    BY <1>9, <2>0, ReadCBIs
  <2>2. CASE Uncounted
    BY <1>0, <2>1, <2>2, SameInStep DEF Uncounted, TaskOK
  <2>3. CASE Partial
    <3>1. UNCHANGED <<ops, wakes>> /\ data'.task = data.task
      BY <2>3 DEF Partial
    <3>2. TaskOK'
      BY <1>0, <2>0, <3>1, SameOps, TaskKept
    <3> QED BY <1>0, <2>1, <3>1, <3>2, SameInStep
  <2>4. CASE Served
    <3>1. data.task # 0 /\ data'.task = 0 /\ Gives(data.task, data.explen, TRUE) /\ Complete(data.task)
      BY <2>4 DEF Served
    <3>2. TaskOK'
      BY <3>1 DEF TaskOK
    <3>3. ~Doubled' => InStep'
      BY <1>0, <2>0, <2>1, <3>1, TaskCompletes
    <3> QED BY <3>2, <3>3
  <2> QED BY <2>1, <2>2, <2>3, <2>4
<1>c. ASSUME data # NoData, ShortRead, UNCHANGED <<taken, idle, co>>
      PROVE  Goal
  <2>1. data' \in Buffer /\ data'.task = data.task /\ Short
    BY <1>c, ShortReadIs
  <2>2. CASE data.task = 0
    BY <1>0, <1>c, <2>1, <2>2, SameInStep DEF Short, TaskOK
  <2>3. CASE data.task # 0
    <3>1. Gives(data.task, data.len, FALSE) /\ Complete(data.task) /\ data.task \in 1..Len(ops)
      BY <1>c, <2>1, <2>3, TaskIs DEF Short
    <3>2. ops'[data.task].kind = "read" /\ ops'[data.task].st = "done"
      BY <1>0, <1>c, <2>3, <3>1, CompleteIs DEF TaskOK
    <3>3. Len(bufs) + 1 \in 1..Len(bufs') /\ bufs'[Len(bufs) + 1].op = data.task /\ bufs'[Len(bufs) + 1].full = FALSE
      BY <3>1, BufTypes DEF Gives
    <3>4. TaskOK'
      BY <2>1, <3>2, <3>3 DEF TaskOK
    <3>5. ~Doubled' => InStep'
      BY <1>0, <1>c, <2>3, <3>1, TaskCompletes
    <3> QED BY <3>4, <3>5
  <2> QED BY <2>2, <2>3
<1>10. CASE ReadCBEmpty
  <2>1. data # NoData /\ ShortRead /\ UNCHANGED <<taken, idle, co>>
    BY <1>10 DEF ReadCBEmpty, Attached
  <2> QED BY <1>c, <2>1 DEF CoOK
<1>11. CASE ReadCBEnd
  <2>1. data # NoData /\ ShortRead /\ UNCHANGED <<taken, idle, co>>
    BY <1>11 DEF ReadCBEnd, Attached, net
  <2> QED BY <1>c, <2>1 DEF CoOK
<1>12. CASE UNCHANGED vars
  <2>1. UNCHANGED <<data, ops, wakes, co>>
    BY <1>12 DEF vars
  <2> QED BY <1>0, <2>1, SameOps, TaskKept, SameInStep DEF CoOK
<1>13. \A len \in Lens : len \in Nat /\ len > 0
  BY Consts
<1>14. Goal
  <2> HIDE DEF Goal
  <2>1. CASE (\E len \in Lens : Issue("read", len)) \/ (\E kind \in {"connect", "write", "close"} : Issue(kind, 0))
    BY <1>1, <1>13, <2>1 DEF Kinds
  <2>2. CASE LoopStep
    BY <1>5, <1>6, <1>7, <1>8, <2>2 DEF LoopStep
  <2>3. CASE \E n \in 1..Suggested : ReadCB(n)
    BY <1>9, <2>3
  <2>4. CASE Await \/ Resume \/ Accept \/ ReadCBEmpty \/ ReadCBEnd \/ UNCHANGED vars
    BY <1>2, <1>3, <1>4, <1>10, <1>11, <1>12, <2>4 DEF Goal, CoOK
  <2> QED BY <2>1, <2>2, <2>3, <2>4 DEF Next, CoStep, Receive
<1> QED BY <1>14 DEF CoOK

-----------------------------------------------------------------------------
(* The socket and the connect request. *)

\* Only Issue issues.
LEMMA IssuedSame ==
    ASSUME Typed, OpsKeep, Len(ops') = Len(ops)
    PROVE  Issued("close")' <=> Issued("close")
  BY DEF Issued, OpsKeep

\* Once the socket is connected, or will not be.
LEMMA LateStep ==
    ASSUME Typed, Connecting, sock \notin {"new", "connecting", "listen"}, UNCHANGED <<conn, co>>,
           sock' = sock \/ (sock' \in {"closing", "closed"} /\ Issued("close")),
           OpsKeep, Len(ops') = Len(ops),
           \A x \in 1..Len(ops) : ops'[x].st = "job" => ops[x].st = "job"
    PROVE  Connecting'
<1>1. Issued("close")' <=> Issued("close")
  BY IssuedSame
<1>2. \A r \in 1..Len(ops) : ~(ops[r].kind = "connect" /\ ops[r].st = "job")
  BY DEF Connecting
<1>3. \A r \in 1..Len(ops') : ~(ops'[r].kind = "connect" /\ ops'[r].st = "job")
  BY <1>2 DEF OpsKeep
<1>4. co # "idle" /\ sock' \notin {"new", "connecting", "listen"}
  BY DEF Connecting
<1>5. (Issued("close") => conn # "live") /\ (sock' \in {"closing", "closed"} => Issued("close"))
  BY DEF Connecting
<1> QED BY <1>1, <1>3, <1>4, <1>5 DEF Connecting

\* An operation on the connected socket exists only then.
LEMMA LateOp ==
    ASSUME Typed, Connecting, NEW r \in 1..Len(ops), ops[r].kind # "connect"
    PROVE  sock \notin {"new", "connecting", "listen"}
<1>1. CASE ops = <<>>
  BY <1>1
<1>2. CASE Len(ops) = 1 /\ ops[1].kind = "connect"
  BY <1>2
<1> QED BY <1>1, <1>2 DEF Connecting

\* Every action keeps the order connect, use, close of the socket.
LEMMA StepConnecting ==
    ASSUME Typed, Attached, Bounds, ReadServed, CoOK, Connecting, [Next]_vars
    PROVE  Connecting'
\* before that no byte is delivered, so the coroutine is in step
<1>0. ASSUME sock \in {"new", "connecting"}, ops # <<>>
      PROVE  co \notin {"run", "idle"} /\ Len(ops) = 1 /\ ops[1].kind = "connect" /\ ops[1].st \in {"job", "pending"}
  <2>1. Len(ops) = 1 /\ ops[1].kind = "connect" /\ ops[1].st \in {"job", "pending"} /\ data = NoData
    BY <1>0 DEF Connecting
  <2>2. bufs = <<>>
    BY <2>1 DEF Attached
  <2>3. ~Doubled
    BY <2>2 DEF Doubled
  <2>4. InStep
    BY <2>3 DEF CoOK
  <2> QED BY <1>0, <2>1, <2>4 DEF InStep, Last
<1>1. ASSUME NEW kind \in Kinds, NEW len \in Nat, kind = "read" => len > 0, Issue(kind, len)
      PROVE  Connecting'
  <2>1. /\ co = "run" /\ co' = "await" /\ UNCHANGED <<sock, data>> /\ CanIssue(kind) /\ FreeConn(kind)
    BY <1>1 DEF Issue, buffer
  <2>2. /\ Len(ops') = Len(ops) + 1 /\ \A x \in 1..Len(ops) : ops'[x] = ops[x]
        /\ ops'[Len(ops) + 1] = [kind |-> kind, len |-> len, st |-> "job", next |-> FALSE]
    BY <1>1, IssueIs DEF Kinds
  <2>3. ops'[Len(ops) + 1].kind = kind /\ ops'[Len(ops) + 1].st = "job"
    BY <2>2
  <2>4. Len(ops) \in Nat /\ \A x \in 1..Len(ops') : x \in 1..Len(ops) \/ x = Len(ops) + 1
    BY <2>2, OpsTypes
  <2>5. /\ ~Issued("close") /\ (kind = "connect" => sock = "new")
        /\ (sock = "new" => kind = "connect")
    BY <2>1 DEF CanIssue, Kinds
  <2>6. sock \notin {"connecting", "listen"} /\ (sock = "new" => ops = <<>>)
    <3>1. sock # "listen"
      BY <2>1 DEF Connecting
    <3>2. sock = "connecting" => ops # <<>>
      BY DEF Connecting
    <3> QED BY <1>0, <2>1, <3>1, <3>2
  <2>7. sock = "new" => Len(ops') = 1 /\ ops'[1].kind = "connect" /\ ops'[1].st = "job"
    <3>1. ASSUME sock = "new"
          PROVE  Len(ops) = 0
      BY <2>6, <3>1
    <3> QED BY <2>2, <2>3, <2>5, <3>1
  <2>8. \A x \in 1..Len(ops') : ops'[x].kind = "connect" /\ ops'[x].st = "job" => sock = "new"
    BY <2>2, <2>3, <2>4, <2>5 DEF Connecting
  <2>9. Issued("close")' => conn' # "live"
    <3>1. ASSUME Issued("close")'
          PROVE  kind = "close"
      <4>1. PICK x \in 1..Len(ops') : ops'[x].kind = "close"
        BY <3>1 DEF Issued
      <4>2. x \notin 1..Len(ops)
        BY <2>2, <2>5, <4>1 DEF Issued
      <4> QED BY <2>3, <2>4, <4>1, <4>2
    <3> QED BY <2>1, <3>1 DEF FreeConn
  <2>10. sock \notin {"closing", "closed"}
    BY <2>5 DEF Connecting
  <2>11. sock = "new" => data = NoData
    BY DEF Connecting
  <2> QED BY <2>1, <2>6, <2>7, <2>8, <2>9, <2>10, <2>11 DEF Connecting
<1>2. CASE Await
  <2>1. co = "await" /\ ops # <<>> /\ UNCHANGED <<sock, conn, data>>
    BY <1>2 DEF Await, buffer, Attached
  <2>2. /\ OpsKeep /\ Len(ops') = Len(ops) /\ co' \in {"run", "wait"} /\ Len(ops) \in 1..Len(ops)
        /\ \A x \in 1..Len(ops) : ops'[x].kind = ops[x].kind /\ ops'[x].st = ops[x].st
    BY <1>2, <2>1, AwaitIs
  <2>3. Issued("close")' <=> Issued("close")
    BY <2>2, IssuedSame
  <2>4. sock # "listen"
    BY <2>1 DEF Connecting
  <2>5. /\ sock = "new" => Len(ops') = 1 /\ ops'[1].kind = "connect" /\ ops'[1].st = "job"
        /\ sock = "connecting" => Len(ops') = 1 /\ ops'[1].kind = "connect" /\ ops'[1].st = "pending"
    BY <2>1, <2>2 DEF Connecting
  <2>6. \A x \in 1..Len(ops') : ops'[x].kind = "connect" /\ ops'[x].st = "job" => sock = "new"
    BY <2>2 DEF Connecting
  <2> QED BY <2>1, <2>2, <2>3, <2>4, <2>5, <2>6 DEF Connecting
<1>3. CASE Resume
  <2>1. co = "wait" /\ co' = "run" /\ UNCHANGED <<sock, conn, data, ops>>
    BY <1>3 DEF Resume, buffer
  <2>2. sock # "listen"
    BY <2>1 DEF Connecting
  <2>3. Issued("close")' <=> Issued("close")
    BY <2>1 DEF Issued
  <2> QED BY <2>1, <2>2, <2>3 DEF Connecting
<1>4. CASE Accept
  <2>1. co = "idle" /\ co' = "run" /\ sock' \in {"open", "failed"} /\ UNCHANGED <<conn, data, ops>>
    BY <1>4 DEF Accept, buffer
  <2>2. ops = <<>>
    BY <2>1 DEF Connecting
  <2>3. ~Issued("close")'
    BY <2>1, <2>2 DEF Issued
  <2> QED BY <2>1, <2>2, <2>3 DEF Connecting
<1>5. CASE UNCHANGED vars
  <2>1. UNCHANGED <<sock, conn, data, ops, co>>
    BY <1>5 DEF vars
  <2>2. Issued("close")' <=> Issued("close")
    BY <2>1 DEF Issued
  <2> QED BY <2>1, <2>2 DEF Connecting
<1>a. ASSUME NEW r \in 1..Len(ops), Start(r) \/ Complete(r)
      PROVE  /\ OpsKeep /\ Len(ops') = Len(ops)
             /\ \A x \in 1..Len(ops) : ops'[x].st = "job" => ops[x].st = "job"
  <2>1. CASE Start(r)
    BY <2>1, StartIs
  <2>2. CASE Complete(r)
    BY <2>2, CompleteIs
  <2> QED BY <1>a, <2>1, <2>2
<1>6. ASSUME NEW r \in 1..Len(ops), ConnectJob(r)
      PROVE  Connecting'
  <2>1. /\ ops[r].kind = "connect" /\ ops[r].st = "job" /\ conn' = "live" /\ Start(r)
        /\ sock' \in {"connecting", "failed"} /\ UNCHANGED <<data, co>>
    BY <1>6 DEF ConnectJob, Job, new_conn, buffer
  <2>2. sock = "new" /\ data = NoData
    BY <2>1 DEF Connecting
  <2>3. ops # <<>>
    OBVIOUS
  <2>a. Len(ops) = 1 /\ co # "idle"
    BY <1>0, <2>2, <2>3
  <2>4. Len(ops) = 1 /\ co # "idle" /\ r = 1
    BY <2>a
  <2>5. Len(ops') = 1 /\ ops'[1].kind = "connect" /\ ops'[1].st = "pending"
    BY <2>1, <2>4, StartIs
  <2>6. ~Issued("close")'
    BY <2>5 DEF Issued
  <2> QED BY <2>1, <2>2, <2>4, <2>5, <2>6 DEF Connecting
<1>7. ASSUME NEW r \in 1..Len(ops), ConnectCB(r)
      PROVE  Connecting'
  <2>1. /\ ops[r].st = "pending" /\ sock = "connecting" /\ Complete(r)
        /\ sock' \in {"open", "failed"} /\ UNCHANGED <<data, co, conn>>
    BY <1>7 DEF ConnectCB, Pending, buffer
  <2>2. ops # <<>>
    OBVIOUS
  <2>3. Len(ops) = 1 /\ co # "idle" /\ r = 1 /\ ops[1].kind = "connect"
    BY <1>0, <2>1, <2>2
  <2>4. Len(ops') = 1 /\ ops'[1].kind = "connect" /\ ops'[1].st = "done"
    BY <2>1, <2>3, CompleteIs
  <2>5. ~Issued("close")'
    BY <2>4 DEF Issued
  <2> QED BY <2>1, <2>3, <2>4, <2>5 DEF Connecting
<1>8. ASSUME NEW r \in 1..Len(ops),
             \/ WriteJob(r) \/ WriteCB(r) \/ CloseJob(r) \/ CloseCB(r)
             \/ ReadWait(r) \/ ReadStart(r)
      PROVE  Connecting'
  <2>1. /\ ops[r].kind # "connect" /\ UNCHANGED <<conn, co>> /\ (Start(r) \/ Complete(r))
        /\ sock' = sock \/ (sock' \in {"closing", "closed"} /\ ops[r].kind = "close")
    BY <1>8 DEF WriteJob, WriteCB, CloseJob, CloseCB, ReadWait, ReadStart, Job, Pending
  <2>2. sock' = sock \/ (sock' \in {"closing", "closed"} /\ Issued("close"))
    BY <2>1 DEF Issued
  <2> QED BY <1>a, <2>1, <2>2, LateOp, LateStep
<1>9. ASSUME NEW r \in 1..Len(ops), ReadBuffered(r)
      PROVE  Connecting'
  <2>1. ops[r].kind # "connect" /\ UNCHANGED <<sock, conn, co>> /\ Complete(r)
    BY <1>9, ReadBufferedIs
  <2> QED BY <1>a, <2>1, LateOp, LateStep
<1>b. ASSUME data # NoData, UNCHANGED <<sock, conn, co>>,
             UNCHANGED ops \/ (data.task # 0 /\ Complete(data.task))
      PROVE  Connecting'
  <2>1. sock \notin {"new", "connecting", "listen"}
    BY <1>b DEF Connecting
  <2>2. /\ OpsKeep /\ Len(ops') = Len(ops)
        /\ \A x \in 1..Len(ops) : ops'[x].st = "job" => ops[x].st = "job"
    BY <1>a, <1>b, SameOps, TaskIs
  <2> QED BY <1>b, <2>1, <2>2, LateStep
<1>10. ASSUME NEW n \in 1..Suggested, ReadCB(n)
       PROVE  Connecting'
  <2>0. data # NoData
    BY <1>10 DEF ReadCB, Attached
  <2>1. UNCHANGED <<sock, conn, co>> /\ (Uncounted \/ Partial \/ Served)
    BY <1>10, <2>0, ReadCBIs
  <2> QED BY <1>b, <2>0, <2>1 DEF Uncounted, Partial, Served
<1>11. CASE ReadCBEmpty \/ ReadCBEnd
  <2>1. data # NoData /\ ShortRead /\ UNCHANGED <<sock, conn, co, taken, idle>>
    BY <1>11 DEF ReadCBEmpty, ReadCBEnd, Attached, net
  <2>2. Short
    BY <2>1, ShortReadIs
  <2> QED BY <1>b, <2>1, <2>2 DEF Short
<1>12. \A len \in Lens : len \in Nat /\ len > 0
  BY Consts
<1>13. CASE (\E len \in Lens : Issue("read", len)) \/ (\E kind \in {"connect", "write", "close"} : Issue(kind, 0))
  BY <1>1, <1>12, <1>13 DEF Kinds
<1>14. CASE LoopStep
  BY <1>6, <1>7, <1>8, <1>9, <1>14 DEF LoopStep
<1>15. CASE Receive
  BY <1>10, <1>11, <1>15 DEF Receive
<1> QED BY <1>2, <1>3, <1>4, <1>5, <1>11, <1>13, <1>14, <1>15 DEF Next, CoStep

-----------------------------------------------------------------------------
(* The invariant and what it implies. *)

\* The inductive invariant.
IInv ==
    /\ Typed /\ Attached /\ Bounds /\ ReadServed
    /\ Delivered /\ DeliveredStable
    /\ Sorted /\ InOrder /\ Accounted
    /\ CoOK /\ Connecting

\* The invariant holds initially.
LEMMA InitIInv == Init => IInv
<1> SUFFICES ASSUME Init PROVE IInv
  OBVIOUS
<1>1. /\ conn = "none" /\ taken = 0 /\ empty = 0 /\ idle = {} /\ reading = FALSE /\ data = NoData
      /\ heap = <<>> /\ ops = <<>> /\ wakes = 0 /\ bufs = <<>>
      /\ (sock = "new" /\ co = "run") \/ (sock = "listen" /\ co = "idle")
  BY DEF Init
<1>2. Len(ops) = 0 /\ Len(bufs) = 0 /\ 1..0 = {}
  BY <1>1
<1>3. Typed
  <2>1. heap \in Seq(Seq(0..Bytes)) /\ ops \in Seq(Op) /\ bufs \in Seq(Buf)
    BY <1>1, EmptySeq
  <2>2. taken \in 0..Bytes /\ empty \in Nat /\ wakes \in Nat
    BY <1>1, Consts
  <2> QED BY <1>1, <2>1, <2>2 DEF Typed
<1>4. Attached /\ Bounds /\ ReadServed
  BY <1>1, <1>2 DEF Attached, Bounds, ReadServed
<1>5. Delivered /\ DeliveredStable /\ Sorted /\ InOrder
  BY <1>1, <1>2 DEF Delivered, DeliveredStable, Sorted, InOrder
<1>6. Accounted
  BY <1>1, <1>2 DEF Accounted
<1>7. CoOK
  BY <1>1, <1>2 DEF CoOK, TaskOK, InStep
<1>8. Connecting
  BY <1>1, <1>2 DEF Connecting, Issued
<1> QED BY <1>3, <1>4, <1>5, <1>6, <1>7, <1>8 DEF IInv

\* Every step preserves it.
LEMMA NextIInv == IInv /\ [Next]_vars => IInv'
<1> SUFFICES ASSUME IInv, [Next]_vars PROVE IInv'
  OBVIOUS
<1>1. Typed' /\ Attached' /\ ReadServed' /\ BufStep
  BY StepTyped DEF IInv
<1>2. Bounds' /\ Delivered' /\ DeliveredStable'
  BY <1>1, BoundsStep, DeliveredStep, StableStep DEF IInv
<1>3. Sorted' /\ InOrder' /\ Accounted'
  BY <1>1, SortedStep, OrderStep, AccountedStep DEF IInv
<1>4. CoOK' /\ Connecting'
  BY StepCo, StepConnecting DEF IInv
<1> QED BY <1>1, <1>2, <1>3, <1>4 DEF IInv

\* IInv is an invariant of the connection.
THEOREM Invariance == Spec => []IInv
  BY InitIInv, NextIInv, PTL DEF Spec

\* The variables of a connection keep their types.
THEOREM TypeCorrect == Spec => []TypeOK
<1>1. IInv => TypeOK
  <2> SUFFICES ASSUME IInv PROVE TypeOK
    OBVIOUS
  <2>1. Typed /\ Attached /\ Bounds
    BY DEF IInv
  <2>2. taken <= Bytes
    BY <2>1, Consts DEF Typed
  <2>3. \A i \in 1..Len(heap) : heap[i] \in Seq(0..Bytes)
    BY <2>1, ElementOfSeq DEF Typed
  <2>4. \A r \in 1..Len(ops) : ops[r].st \in {"job", "pending", "done"}
    BY <2>1, OpsTypes
  <2>5. ASSUME data # NoData
        PROVE  /\ data.buf \in Ptr /\ {data.len, data.max, data.explen} \subseteq Nat
               /\ data.task \in 0..Len(ops)
    <3>1. /\ data.len \in Nat /\ data.max \in Nat /\ data.explen \in Nat
          /\ data.buf \in Pointer /\ data.buf.blk \in Nat /\ data.buf.off \in Nat /\ data.task \in 0..Len(ops)
      BY <2>1, <2>5, DataTypes DEF Attached
    <3>2. data.buf.blk \in 0..Len(heap)
      <4>1. Len(heap) \in Nat
        BY <2>1, LenProperties DEF Typed
      <4> QED BY <2>1, <2>5, <3>1, <4>1 DEF Bounds
    <3> QED BY <3>1, <3>2 DEF Ptr, Pointer
  <2> QED BY <2>1, <2>2, <2>3, <2>4, <2>5 DEF TypeOK, Typed
<1> QED BY <1>1, Invariance, PTL

\* Buffer of buf.calc: however reads, growth (PreWrite) and consumption follow each
\* other, max is the room from buf to the end of its block and len fits into it.
THEOREM BufferInBounds == Spec => []BufferBounds
<1>1. IInv => BufferBounds
  <2> SUFFICES ASSUME IInv, data # NoData, data.buf # Nil
               PROVE  data.len <= data.max /\ data.buf.off + data.max = Len(heap[data.buf.blk])
    BY DEF BufferBounds
  <2>1. data.buf.blk # 0
    <3>1. ASSUME data.buf.blk = 0
          PROVE  data.buf = Nil
      BY <3>1, DataTypes DEF IInv, Bounds, Nil, Pointer
    <3> QED BY <3>1
  <2> QED BY <2>1 DEF IInv, Bounds
<1> QED BY <1>1, Invariance, PTL

\* The bytes of a Buf that ReadBufAsync returned are never overwritten by what
\* tcpAllocCB and libuv do later.
THEOREM DeliveredBytesStay == Spec => []DeliveredStable
<1>1. IInv => DeliveredStable
  BY DEF IInv
<1> QED BY <1>1, Invariance, PTL

\* Reads that got their length got increasing bytes of the stream, across all reads.
THEOREM StreamOrder == Spec => []InOrder
<1>1. IInv => InOrder
  BY DEF IInv
<1> QED BY <1>1, Invariance, PTL

\* The read attached to the handle wants what explen says, and the buffer holds less
\* than that: no read waits for bytes that are there.
THEOREM WaitingReadServed == Spec => []ReadServed
<1>1. IInv => ReadServed
  BY DEF IInv
<1> QED BY <1>1, Invariance, PTL

\* NothingLost: a byte taken from the socket was given to a read that asked for it,
\* is buffered, or was lost in one of two ways: it came while data.task was nil (the
\* early return of the read callback), or it completed again a read whose awaiter
\* had gone on with a short result.
THEOREM BytesAccounted == Spec => []NothingLost
<1>1. IInv => NothingLost
  <2> SUFFICES ASSUME IInv PROVE NothingLost
    OBVIOUS
  <2>0. Typed /\ Bounds /\ Sorted /\ Accounted
    BY DEF IInv
  <2>1. \A x : x \in Handed \union Misled <=> Given(x)
    BY DEF BytesOf, FullBufs, Handed, Misled, Given
  <2>2. \A x : x \in Buffered <=> Kept(x)
    <3>1. CASE data = NoData
      BY <3>1 DEF Kept, Buffered
    <3>2. CASE data # NoData
      <4>1. \A k \in 1..data.len : Content(heap, data.buf, data.len)[k] = Byte(k)
        BY DEF Content, Byte
      <4> QED BY <3>2, <4>1 DEF Kept, Buffered
    <3> QED BY <3>1, <3>2
  <2>3. \A x : Given(x) => x \in 1..taken
    BY <2>0 DEF Given, Sorted
  <2>4. \A x : Kept(x) => x \in 1..taken
    BY <2>0 DEF Kept, Sorted
  <2>5. idle \subseteq 1..taken /\ \A x \in 1..taken : Given(x) \/ Kept(x) \/ x \in idle
    BY <2>0 DEF Accounted
  <2>6. 1..taken = Handed \union Misled \union idle \union Buffered
    BY <2>1, <2>2, <2>3, <2>4, <2>5
  <2> QED BY <2>6 DEF NothingLost
<1> QED BY <1>1, Invariance, PTL

\* The coroutine runs on behind an await only when the operation is done, or after a
\* read that nread <= 0 completed was completed again.
THEOREM ContinuesAfterCompletion == Spec => []ContinuedWhenDone
<1>1. IInv => ContinuedWhenDone
  <2> SUFFICES ASSUME IInv, co = "run", ops # <<>>, ops[Len(ops)].st # "done"
               PROVE  Doubled
    BY DEF ContinuedWhenDone, Doubled
  <2> QED BY DEF IInv, CoOK, InStep, Last
<1> QED BY <1>1, Invariance, PTL

\* The uv_connect_t of new_conn is live from uv_tcp_connect to its callback, and a
\* client that is closing has freed it.
THEOREM RequestLifetime == Spec => []ConnLifetime
<1>1. IInv => ConnLifetime
  BY DEF IInv, Connecting, ConnLifetime
<1> QED BY <1>1, Invariance, PTL
=============================================================================
