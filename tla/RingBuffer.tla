----------------------------- MODULE RingBuffer -----------------------------
(***************************************************************************)
(* drivers/char/neufbox-ring-buffer.c: one in-memory log of the box (the   *)
(* /dev ring buffers behind daemon.log, kern.log, ...).  Writers overwrite *)
(* the oldest bytes, reading does not consume, and the read position pos   *)
(* belongs to the device: every open file shares it.                       *)
(***************************************************************************)
EXTENDS Integers, Sequences

CONSTANTS
  Size,     \* dev->size, the bytes of the ring
  SizeT,    \* 2^w for the w-bit size_t of the build
  Byte,     \* the bytes a writer may log
  Outside,  \* what a copy finds past the end of dev->buffer
  Files,    \* the open files of the device
  Counts,   \* the read and write sizes the processes use
  Offsets,  \* the llseek offsets the processes use
  MaxIn,    \* bound on the bytes written since the last clear
  MaxPos    \* bound on the distance of pos and of every f_pos from 0

\* The sizes of ring_buffer_sizes are powers of two, so x & (size - 1) is x % Size.
ASSUME RingAssumption ==
  /\ Size \in Nat \ {0}
  /\ SizeT \in Nat /\ SizeT > 2 * Size /\ SizeT % Size = 0
  /\ Outside \notin Byte /\ Byte # {}
  /\ Counts \subseteq Nat /\ \A c \in Counts : c < SizeT
  /\ Offsets \subseteq Int
  /\ MaxIn \in Nat /\ MaxPos \in Nat

VARIABLES
  buffer,  \* dev->buffer, kmalloc'ed and never cleared
  in,      \* dev->in
  out,     \* dev->out
  pos,     \* dev->pos; exact, every use is reduced modulo Size or SizeT
  pc,      \* where each file's process is: outside the driver or inside llseek
  f_pos    \* file->f_pos of each file

vars == <<buffer, in, out, pos, pc, f_pos>>

Index == 0 .. Size - 1

Min2(a, b) == IF a <= b THEN a ELSE b

Init ==
  /\ buffer \in [Index -> Byte]
  /\ in = 0 /\ out = 0 /\ pos = 0
  /\ pc = [f \in Files |-> "closed"]
  /\ f_pos = [f \in Files |-> 0]

-----------------------------------------------------------------------------
RingLen(i, o) == (i - o) % SizeT

ring_buffer_len == RingLen(in, out)

\* Faulty variant of GetLen: the bytes already read are not subtracted.
GetLenWhole(count) == Min2(count, ring_buffer_len)

\* The length __ring_buffer_get settles on; the subtraction is done in size_t.
GetLen(count) == Min2(count, (ring_buffer_len - ((pos - out) % SizeT)) % SizeT)

\* Faulty variant of Get: the part before the end of the ring is measured from in.
GetSplitAtIn(count) ==
  LET len == GetLen(count)
      p == pos % Size
      l == Min2(len, Size - (in % Size))
      At(i) == IF i \in Index THEN buffer[i] ELSE Outside
  IN [i \in 1 .. len |-> IF i <= l THEN At(p + i - 1) ELSE At(i - l - 1)]

\* The bytes copied to the reader: from pos to the end of the ring, then from
\* its start, with no second wrap.
Get(count) ==
  LET len == GetLen(count)
      p == pos % Size
      l == Min2(len, Size - p)
      At(i) == IF i \in Index THEN buffer[i] ELSE Outside
  IN [i \in 1 .. len |-> IF i <= l THEN At(p + i - 1) ELSE At(i - l - 1)]

\* The ring after __ring_buffer_put copied the first len bytes of data.
Put(data, len) ==
  [j \in Index |->
     LET i == (j - in) % Size IN IF i < len THEN data[i + 1] ELSE buffer[j]]

-----------------------------------------------------------------------------
ring_buffer_open(f) ==
  /\ pc[f] = "closed"
  /\ pc' = [pc EXCEPT ![f] = "idle"]
  /\ f_pos' = [f_pos EXCEPT ![f] = 0]
  /\ pos' = out
  /\ UNCHANGED <<buffer, in, out>>

ring_buffer_release(f) ==
  /\ pc[f] = "idle"
  /\ pc' = [pc EXCEPT ![f] = "closed"]
  /\ UNCHANGED <<buffer, in, out, pos, f_pos>>

ring_buffer_read(f, count) ==
  /\ pc[f] = "idle"
  /\ pos + GetLen(count) <= MaxPos /\ f_pos[f] + GetLen(count) <= MaxPos
  /\ pos' = pos + GetLen(count)
  /\ f_pos' = [f_pos EXCEPT ![f] = @ + GetLen(count)]
  /\ UNCHANGED <<buffer, in, out, pc>>

\* Faulty variant of ring_buffer_write: out is not moved when a write overtakes it.
PutKeepsOut(f, data, count) ==
  /\ pc[f] = "idle"
  /\ LET len == Min2(count, Size) IN
       /\ in + len <= MaxIn /\ f_pos[f] + len <= MaxPos
       /\ buffer' = Put(data, len)
       /\ in' = in + len
       /\ f_pos' = [f_pos EXCEPT ![f] = @ + len]
  /\ UNCHANGED <<out, pos, pc>>

\* The size of the inode, which the code sets to the length of the log, is left out:
\* no operation of the driver reads it.
ring_buffer_write(f, data, count) ==
  /\ pc[f] = "idle"
  /\ LET len == Min2(count, Size) IN
       /\ in + len <= MaxIn /\ f_pos[f] + len <= MaxPos
       /\ buffer' = Put(data, len)
       /\ in' = in + len
       /\ out' = IF RingLen(in + len, out) > Size THEN in + len - Size ELSE out
       /\ f_pos' = [f_pos EXCEPT ![f] = @ + len]
  /\ UNCHANGED <<pos, pc>>

\* First critical section of ring_buffer_llseek: SEEK_SET, SEEK_CUR, SEEK_END.
llseek_move(f, off, whence) ==
  /\ pc[f] = "idle"
  /\ LET to == CASE whence = "SET" -> out + off
                 [] whence = "CUR" -> pos + off
                 [] whence = "END" -> in + off
     IN /\ to \in -MaxPos .. MaxPos
        /\ pos' = to
  /\ pc' = [pc EXCEPT ![f] = "seeking"]
  /\ UNCHANGED <<buffer, in, out, f_pos>>

\* Second critical section: the offset llseek stores and returns.
llseek_tell(f) ==
  /\ pc[f] = "seeking"
  /\ f_pos' = [f_pos EXCEPT ![f] = pos - out]
  /\ pc' = [pc EXCEPT ![f] = "idle"]
  /\ UNCHANGED <<buffer, in, out, pos>>

\* A write to /proc/ring_buffer clears the ring; pos keeps its value.
ring_buffer_proc_write ==
  /\ in' = 0 /\ out' = 0
  /\ UNCHANGED <<buffer, pos, pc, f_pos>>

Read(f) == \E count \in Counts : ring_buffer_read(f, count)

Write(f) ==
  \E count \in Counts : \E data \in [1 .. count -> Byte] :
    ring_buffer_write(f, data, count)

Seek(f) ==
  \/ \E off \in Offsets, whence \in {"SET", "CUR", "END"} : llseek_move(f, off, whence)
  \/ llseek_tell(f)

Next ==
  \/ \E f \in Files : \/ ring_buffer_open(f) \/ ring_buffer_release(f)
                      \/ Read(f) \/ Write(f) \/ Seek(f)
  \/ ring_buffer_proc_write

Spec == Init /\ [][Next]_vars

\* A log reader that stays open beside writers: nobody seeks or clears.
FollowNext ==
  \E f \in Files : ring_buffer_open(f) \/ Read(f) \/ Write(f)

\* The reader is a process that calls read again and again.
FollowSpec ==
  /\ Init /\ [][FollowNext]_vars
  /\ \A f \in Files :
       /\ WF_vars(ring_buffer_open(f))
       /\ \A count \in Counts \ {0} : WF_vars(ring_buffer_read(f, count))

-----------------------------------------------------------------------------
\* Type invariant.
TypeOK ==
  /\ buffer \in [Index -> Byte]
  /\ in \in Nat /\ out \in Nat /\ pos \in Int
  /\ pc \in [Files -> {"closed", "idle", "seeking"}]
  /\ f_pos \in [Files -> Int]

\* The bytes between out and in always fit the ring: __ring_buffer_put moves out
\* along as soon as a write overtakes it, so __ring_buffer_len never exceeds size.
StoredFits == out <= in /\ in - out <= Size

\* The stored bytes, oldest first.
StoredTail == [i \in 1 .. in - out |-> buffer[(out + i - 1) % Size]]

\* While pos is between out and in, __ring_buffer_get returns exactly the next
\* stored bytes, wherever the window wraps, and no byte that was overwritten.
ReadsTheTail ==
  pos \in out .. in =>
    \A count \in Counts :
      Get(count) = SubSeq(StoredTail, pos - out + 1, pos - out + Min2(count, in - pos))

\* The ring implements a log that keeps its last Size bytes and forgets them all
\* on a clear: no interleaving of writes, reads, seeks and clears loses a recent
\* byte, reorders two bytes or resurrects an old one.
Log == INSTANCE LogTail WITH tail <- StoredTail
KeepsTheTail == Log!Spec

\* A reader that keeps reading reaches the end of the log once the writers
\* pause, even when they overtook it meanwhile (pos < out).
FollowerCatchesUp ==
  \A f \in Files : pc[f] = "idle" ~> pos = in

\* The comment of __ring_buffer_get, "max len: current unread size": a read never
\* returns more bytes than the ring holds.
ReadAtMostUnread ==
  \A count \in Counts : GetLen(count) <= in - out
=============================================================================
